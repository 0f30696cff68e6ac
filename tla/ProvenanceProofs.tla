-------------------------- MODULE ProvenanceProofs --------------------------
(***************************************************************************)
(* What each object of a rendering is made from, and that everything which *)
(* an input asks for is made: the objects of a result are those of its     *)
(* parts, no fewer and no more, down to the single rule, route and raw     *)
(* object, and the last pass keeps what the properties look at.            *)
(***************************************************************************)
EXTENDS Rendering, GeneratorProofs, FiniteSetTheorems

-----------------------------------------------------------------------------
(* The elements of lists. *)

LEMMA ToSetFacts ==
  /\ ToSet(<<>>) = {}
  /\ \A x : ToSet(<<x>>) = {x}
  /\ \A list, x : x \in ToSet(list) <=> \E i \in DOMAIN list : x = list[i]
BY DEF ToSet

LEMMA ConcatenationElements ==
  ASSUME NEW s, IsList(s), NEW t, IsList(t)
  PROVE  IsList(s \o t) /\ ToSet(s \o t) = ToSet(s) \cup ToSet(t)
<1> DEFINE U == ToSet(s) \cup ToSet(t)
<1>1. s \in Seq(U) /\ t \in Seq(U)
  BY DEF IsList
<1>2. s \o t \in Seq(U) /\ Len(s \o t) = Len(s) + Len(t)
  <2> HIDE DEF U
  <2> QED BY <1>1
<1>3. \A i \in 1 .. Len(s) + Len(t) : (s \o t)[i] = IF i <= Len(s) THEN s[i] ELSE t[i - Len(s)]
  <2> HIDE DEF U
  <2> QED BY <1>1
<1>4. DOMAIN s = 1 .. Len(s) /\ DOMAIN t = 1 .. Len(t) /\ Len(s) \in Nat /\ Len(t) \in Nat
  BY ListFacts
<1>5. DOMAIN (s \o t) = 1 .. Len(s) + Len(t)
  <2> HIDE DEF U
  <2> QED BY <1>2
<1>6. ASSUME NEW x \in ToSet(s) PROVE x \in ToSet(s \o t)
  <2>1. PICK i \in DOMAIN s : x = s[i]
    BY DEF ToSet
  <2>2. i \in 1 .. Len(s) + Len(t) /\ i <= Len(s)
    BY <2>1, <1>4
  <2> QED BY <2>1, <2>2, <1>3, <1>5 DEF ToSet
<1>7. ASSUME NEW x \in ToSet(t) PROVE x \in ToSet(s \o t)
  <2>1. PICK i \in DOMAIN t : x = t[i]
    BY DEF ToSet
  <2>2. i + Len(s) \in 1 .. Len(s) + Len(t) /\ ~(i + Len(s) <= Len(s)) /\ i + Len(s) - Len(s) = i
    BY <2>1, <1>4
  <2> QED BY <2>1, <2>2, <1>3, <1>5 DEF ToSet
<1>8. ASSUME NEW x \in ToSet(s \o t) PROVE x \in ToSet(s) \cup ToSet(t)
  BY <1>2, <1>8 DEF ToSet
<1> QED BY <1>2, <1>6, <1>7, <1>8, SeqIsList

\* A flattened list has the elements of all its parts.
LEMMA FlattenSeqToSet ==
  ASSUME NEW s, IsList(s), \A i \in DOMAIN s : IsList(s[i])
  PROVE  ToSet(FlattenSeq(s)) = UNION {ToSet(s[i]) : i \in DOMAIN s}
<1> DEFINE n == Len(s)
           UpTo(k) == UNION {ToSet(s[i]) : i \in 1..k}
<1>0. n \in Nat /\ DOMAIN s = 1..n
  BY ListFacts
<1>1. CASE n = 0
  <2>1. s = <<>> /\ FlattenSeq(s) = s
    BY <1>1 DEF FlattenSeq, IsList
  <2> QED BY <2>1 DEF ToSet
<1>2. CASE n # 0
  <2>1. PICK flat : /\ FlattenSeq(s) = flat[n]
                    /\ \A i \in 1..n : flat[i] = IF i = 1 THEN s[i] ELSE flat[i - 1] \o s[i]
    BY <1>0, <1>2, FlattenSeqSteps
  <2> DEFINE Covers == {k \in Nat : k \in 1..n => IsList(flat[k]) /\ ToSet(flat[k]) = UpTo(k)}
  <2>2. 0 \in Covers
    OBVIOUS
  <2>3. ASSUME NEW k \in Nat, k \in Covers PROVE k + 1 \in Covers
    <3>1. SUFFICES ASSUME k + 1 \in 1..n PROVE IsList(flat[k + 1]) /\ ToSet(flat[k + 1]) = UpTo(k + 1)
      OBVIOUS
    <3>2. flat[k + 1] = IF k = 0 THEN s[k + 1] ELSE flat[k] \o s[k + 1]
      BY <2>1, <3>1
    <3>3. IsList(s[k + 1])
      BY <1>0, <3>1
    <3>4. UpTo(k + 1) = UpTo(k) \cup ToSet(s[k + 1])
      <4>1. 1 .. k + 1 = (1..k) \cup {k + 1}
        OBVIOUS
      <4> QED BY <4>1
    <3>5. CASE k = 0
      <4>1. UpTo(0) = {}
        OBVIOUS
      <4> HIDE DEF UpTo
      <4> QED BY <3>2, <3>3, <3>4, <3>5, <4>1
    <3>6. CASE k # 0
      <4>1. IsList(flat[k]) /\ ToSet(flat[k]) = UpTo(k)
        <5>1. k \in 1..n
          BY <3>1, <3>6
        <5> HIDE DEF UpTo
        <5> QED BY <2>3, <5>1
      <4> HIDE DEF UpTo
      <4> QED BY <3>2, <3>3, <3>4, <3>6, <4>1, ConcatenationElements
    <3> QED BY <3>5, <3>6
  <2>4. Nat \subseteq Covers
    <3> HIDE DEF Covers
    <3> QED BY <2>2, <2>3, InductiveSet
  <2>5. ToSet(flat[n]) = UpTo(n)
    <3> HIDE DEF UpTo
    <3> QED BY <1>0, <1>2, <2>4
  <2> QED BY <1>0, <2>1, <2>5
<1> QED BY <1>1, <1>2

\* The objects of results in order are those of each of them.
LEMMA InOrderMakes ==
  ASSUME NEW results, NEW n \in Nat, DOMAIN results = 1..n, InOrder(results).ok,
         \A i \in 1..n : results[i].ok => IsList(results[i].objs)
  PROVE  ToSet(InOrder(results).objs) = UNION {ToSet(results[i].objs) : i \in 1..n}
<1> DEFINE lists == [i \in 1..n |-> results[i].objs]
<1>1. \A i \in 1..n : results[i].ok
  BY InOrderOk
<1>2. InOrder(results).objs = FlattenSeq(lists)
  BY <1>1 DEF InOrder, Ok
<1>3. IsList(lists) /\ DOMAIN lists = 1..n /\ \A i \in 1..n : lists[i] = results[i].objs
  BY MapIsList
<1> HIDE DEF lists
<1>4. ToSet(FlattenSeq(lists)) = UNION {ToSet(lists[i]) : i \in DOMAIN lists}
  BY <1>1, <1>3, FlattenSeqToSet
<1> QED BY <1>2, <1>3, <1>4

\* A result that is in order has a list of objects, and x is one of them.
Listed(result) == result.ok => IsList(result.objs)
Makes(result, x) == result.ok /\ x \in ToSet(result.objs)

LEMMA MakesInOrder ==
  ASSUME NEW results, NEW n \in Nat, DOMAIN results = 1..n, \A i \in 1..n : Listed(results[i])
  PROVE  /\ Listed(InOrder(results))
         /\ InOrder(results).ok => \A x : Makes(InOrder(results), x) <=> \E i \in 1..n : Makes(results[i], x)
<1> SUFFICES ASSUME InOrder(results).ok
             PROVE  /\ Listed(InOrder(results))
                    /\ \A x : Makes(InOrder(results), x) <=> \E i \in 1..n : Makes(results[i], x)
  BY DEF Listed
<1>1. \A i \in 1..n : results[i].ok /\ IsList(results[i].objs)
  BY InOrderOk DEF Listed
<1>2. ToSet(InOrder(results).objs) = UNION {ToSet(results[i].objs) : i \in 1..n}
  BY <1>1, InOrderMakes
<1>3. IsList(InOrder(results).objs)
  BY <1>1, InOrderElements
<1> QED BY <1>1, <1>2, <1>3 DEF Makes, Listed

LEMMA MakesOk ==
  /\ \A x : ~Makes(Err, x)
  /\ \A made, x : Makes(Ok(made), x) <=> x \in ToSet(made)
BY DEF Makes, Ok, Err

LEMMA MakesTwo ==
  ASSUME NEW a, Listed(a), NEW b, Listed(b)
  PROVE  /\ Listed(InOrder(<<a, b>>))
         /\ InOrder(<<a, b>>).ok =>
              /\ a.ok /\ b.ok
              /\ \A x : Makes(InOrder(<<a, b>>), x) <=> Makes(a, x) \/ Makes(b, x)
<1> DEFINE s == <<a, b>>
<1>1. DOMAIN s = 1..2 /\ s[1] = a /\ s[2] = b
  OBVIOUS
<1> HIDE DEF s
<1>2. \A i \in 1..2 : Listed(s[i])
  BY <1>1
<1>3. /\ Listed(InOrder(s))
      /\ InOrder(s).ok => \A x : Makes(InOrder(s), x) <=> \E i \in 1..2 : Makes(s[i], x)
  BY <1>1, <1>2, MakesInOrder
<1>4. InOrder(s).ok => \A i \in 1..2 : s[i].ok
  BY <1>1, InOrderOk
<1> QED BY <1>1, <1>3, <1>4 DEF s

LEMMA MakesThree ==
  ASSUME NEW a, Listed(a), NEW b, Listed(b), NEW c, Listed(c)
  PROVE  /\ Listed(InOrder(<<a, b, c>>))
         /\ InOrder(<<a, b, c>>).ok =>
              /\ a.ok /\ b.ok /\ c.ok
              /\ \A x : Makes(InOrder(<<a, b, c>>), x) <=> Makes(a, x) \/ Makes(b, x) \/ Makes(c, x)
<1> DEFINE s == <<a, b, c>>
<1>1. DOMAIN s = 1..3 /\ s[1] = a /\ s[2] = b /\ s[3] = c
  OBVIOUS
<1> HIDE DEF s
<1>2. \A i \in 1..3 : Listed(s[i])
  BY <1>1
<1>3. /\ Listed(InOrder(s))
      /\ InOrder(s).ok => \A x : Makes(InOrder(s), x) <=> \E i \in 1..3 : Makes(s[i], x)
  BY <1>1, <1>2, MakesInOrder
<1>4. InOrder(s).ok => \A i \in 1..3 : s[i].ok
  BY <1>1, InOrderOk
<1> QED BY <1>1, <1>3, <1>4 DEF s

LEMMA MakesFour ==
  ASSUME NEW a, Listed(a), NEW b, Listed(b), NEW c, Listed(c), NEW d, Listed(d)
  PROVE  /\ Listed(InOrder(<<a, b, c, d>>))
         /\ InOrder(<<a, b, c, d>>).ok =>
              /\ a.ok /\ b.ok /\ c.ok /\ d.ok
              /\ \A x : Makes(InOrder(<<a, b, c, d>>), x) <=> Makes(a, x) \/ Makes(b, x) \/ Makes(c, x) \/ Makes(d, x)
<1> DEFINE s == <<a, b, c, d>>
<1>1. DOMAIN s = 1..4 /\ s[1] = a /\ s[2] = b /\ s[3] = c /\ s[4] = d
  OBVIOUS
<1> HIDE DEF s
<1>2. \A i \in 1..4 : Listed(s[i])
  BY <1>1
<1>3. /\ Listed(InOrder(s))
      /\ InOrder(s).ok => \A x : Makes(InOrder(s), x) <=> \E i \in 1..4 : Makes(s[i], x)
  BY <1>1, <1>2, MakesInOrder
<1>4. InOrder(s).ok => \A i \in 1..4 : s[i].ok
  BY <1>1, InOrderOk
<1> QED BY <1>1, <1>3, <1>4 DEF s

LEMMA MakesFive ==
  ASSUME NEW a, Listed(a), NEW b, Listed(b), NEW c, Listed(c), NEW d, Listed(d), NEW e, Listed(e)
  PROVE  /\ Listed(InOrder(<<a, b, c, d, e>>))
         /\ InOrder(<<a, b, c, d, e>>).ok =>
              /\ a.ok /\ b.ok /\ c.ok /\ d.ok /\ e.ok
              /\ \A x : Makes(InOrder(<<a, b, c, d, e>>), x) <=> Makes(a, x) \/ Makes(b, x) \/ Makes(c, x) \/ Makes(d, x) \/ Makes(e, x)
<1> DEFINE s == <<a, b, c, d, e>>
<1>1. DOMAIN s = 1..5 /\ s[1] = a /\ s[2] = b /\ s[3] = c /\ s[4] = d /\ s[5] = e
  OBVIOUS
<1> HIDE DEF s
<1>2. \A i \in 1..5 : Listed(s[i])
  BY <1>1
<1>3. /\ Listed(InOrder(s))
      /\ InOrder(s).ok => \A x : Makes(InOrder(s), x) <=> \E i \in 1..5 : Makes(s[i], x)
  BY <1>1, <1>2, MakesInOrder
<1>4. InOrder(s).ok => \A i \in 1..5 : s[i].ok
  BY <1>1, InOrderOk
<1> QED BY <1>1, <1>3, <1>4 DEF s

LEMMA ListedOk ==
  /\ Listed(Err) /\ Listed(Ok(<<>>)) /\ \A x : Listed(Ok(<<x>>))
  /\ \A made : IsList(made) => Listed(Ok(made))
  /\ \A result : SoundResult(result) => Listed(result)
BY ShortLists DEF Listed, Ok, Err, SoundResult, SoundObjects

-----------------------------------------------------------------------------
(* Shorthand rules. *)

\* The enabled entries, decoded, are those that say so.
LEMMA EnabledToSet ==
  ASSUME NEW entries, IsList(entries)
  PROVE  /\ IsList(Enabled(entries))
         /\ \A x : x \in ToSet(Enabled(entries)) <=>
              \E e \in ToSet(entries) : Target(e.val).enabled /\ x = [key |-> e.key, val |-> Target(e.val)]
<1> DEFINE lists == [i \in DOMAIN entries |->
             LET target == Target(entries[i].val)
             IN IF target.enabled THEN <<[key |-> entries[i].key, val |-> target]>> ELSE <<>>]
<1>1. Enabled(entries) = FlattenSeq(lists)
  BY DEF Enabled
<1>2. Len(entries) \in Nat /\ DOMAIN entries = 1 .. Len(entries)
  BY ListFacts
<1>3. \A i \in DOMAIN entries : lists[i] =
        IF Target(entries[i].val).enabled
          THEN <<[key |-> entries[i].key, val |-> Target(entries[i].val)]>> ELSE <<>>
  OBVIOUS
<1>4. IsList(lists) /\ DOMAIN lists = DOMAIN entries
  BY <1>2, MapIsList
<1> HIDE DEF lists
<1>5. \A i \in DOMAIN lists : IsList(lists[i])
  BY <1>3, <1>4, ShortLists
<1>6. ToSet(Enabled(entries)) = UNION {ToSet(lists[i]) : i \in DOMAIN entries}
  BY <1>1, <1>4, <1>5, FlattenSeqToSet
<1>7. ASSUME NEW i \in DOMAIN entries, NEW x
      PROVE  x \in ToSet(lists[i]) <=>
               Target(entries[i].val).enabled /\ x = [key |-> entries[i].key, val |-> Target(entries[i].val)]
  <2> DEFINE obj == [key |-> entries[i].key, val |-> Target(entries[i].val)]
  <2>1. CASE Target(entries[i].val).enabled
    <3>1. lists[i] = <<obj>>
      BY <1>3, <2>1
    <3> HIDE DEF obj
    <3>2. x \in ToSet(lists[i]) <=> x = obj
      BY <3>1, ToSetFacts
    <3> QED BY <2>1, <3>2 DEF obj
  <2>2. CASE ~Target(entries[i].val).enabled
    <3>1. lists[i] = <<>>
      BY <1>3, <2>2
    <3> QED BY <2>2, <3>1, ToSetFacts
  <2> QED BY <2>1, <2>2
<1>8. ASSUME NEW x
      PROVE  x \in ToSet(Enabled(entries)) <=>
               \E e \in ToSet(entries) : Target(e.val).enabled /\ x = [key |-> e.key, val |-> Target(e.val)]
  <2>1. x \in ToSet(Enabled(entries)) <=> \E i \in DOMAIN entries : x \in ToSet(lists[i])
    BY <1>6
  <2>2. (\E e \in ToSet(entries) : Target(e.val).enabled /\ x = [key |-> e.key, val |-> Target(e.val)])
          <=> \E i \in DOMAIN entries : /\ Target(entries[i].val).enabled
                                       /\ x = [key |-> entries[i].key, val |-> Target(entries[i].val)]
    BY DEF ToSet
  <2> QED BY <1>7, <2>1, <2>2
<1> QED BY <1>8, EnabledEntries

LEMMA FromRuleMakes ==
  ASSUME NEW readable \in BOOLEAN, NEW obj, NEW local, NEW val
  PROVE  /\ Listed(FromRule(readable, obj, local, val))
         /\ \A x : Makes(FromRule(readable, obj, local, val), x) <=>
              readable /\ x = applyShorthandMetadata(obj, mergeShorthandMetadata(local.metadata, val.metadata))
BY ListedOk, MakesOk, ToSetFacts DEF FromRule

\* What the loop over the enabled entries makes.
LEMMA MakesForEach ==
  ASSUME NEW list, IsList(list), NEW f, DOMAIN f = DOMAIN list, \A i \in DOMAIN list : Listed(f[i])
  PROVE  /\ Listed(InOrder(f))
         /\ InOrder(f).ok => \A x : Makes(InOrder(f), x) <=> \E i \in DOMAIN list : Makes(f[i], x)
BY ListFacts, MakesInOrder

\* The policies of egress rules: of pods, of definitions, of CIDRs and literal ones.
WithMetadata(entry, e, obj) ==
  applyShorthandMetadata(obj, mergeShorthandMetadata(Source(entry.val).metadata, e.val.metadata))

EgressK8s(pkg, spec, entry, e) ==
  WithMetadata(entry, e, buildShorthandEgressNetpol(pkg, spec, entry.key, Source(entry.val), e.key,
                                                    parseEgressRemoteKey(e.key), e.val))
EgressDefinition(pkg, spec, env, entry, e) ==
  WithMetadata(entry, e, buildEgressDefinitionNetpol(pkg, spec, entry.key, Source(entry.val), e.key,
                                                     resolveEgressDefinition(spec, e.key, env)))
EgressCidr(pkg, spec, entry, e) ==
  WithMetadata(entry, e, buildEgressCIDRNetpol(pkg, spec, entry.key, Source(entry.val), e.key,
                                               parseEgressCIDRKey(e.key)))
EgressLiteral(pkg, spec, entry, e) ==
  WithMetadata(entry, e, buildEgressLiteralNetpol(pkg, spec, entry.key, Source(entry.val), e))

LEMMA EgressSourceMakes ==
  ASSUME NEW pkg, NEW spec, NEW env, NEW entry, SoundFrom(entry)
  PROVE  /\ Listed(expandEgressSource(pkg, spec, env, entry))
         /\ expandEgressSource(pkg, spec, env, entry).ok =>
              /\ entry.val.decodes
              /\ entry.val.peer # Nil =>
                   /\ \A e \in ToSet(Enabled(entry.val.peer.k8s)) : parseEgressRemoteKey(e.key) # Nil
                   /\ \A e \in ToSet(Enabled(entry.val.peer.cidr)) : parseEgressCIDRKey(e.key) # Nil
              /\ \A x : Makes(expandEgressSource(pkg, spec, env, entry), x) <=>
                   /\ entry.val.peer # Nil
                   /\ \/ \E e \in ToSet(Enabled(entry.val.peer.k8s)) : x = EgressK8s(pkg, spec, entry, e)
                      \/ \E e \in ToSet(Enabled(entry.val.peer.definition)) :
                           x = EgressDefinition(pkg, spec, env, entry, e)
                      \/ \E e \in ToSet(Enabled(entry.val.peer.cidr)) : x = EgressCidr(pkg, spec, entry, e)
                      \/ \E e \in ToSet(Enabled(entry.val.peer.literal)) : x = EgressLiteral(pkg, spec, entry, e)
<1> DEFINE local == Source(entry.val)
           peer == entry.val.peer
           made == expandEgressSource(pkg, spec, env, entry)
           K8s(e) == LET r == parseEgressRemoteKey(e.key) IN
             FromRule(r # Nil, buildShorthandEgressNetpol(pkg, spec, entry.key, local, e.key, r, e.val),
                      local, e.val)
           Definition(e) == LET def == resolveEgressDefinition(spec, e.key, env) IN
             FromRule(def # Nil, buildEgressDefinitionNetpol(pkg, spec, entry.key, local, e.key, def),
                      local, e.val)
           Cidr(e) == LET r == parseEgressCIDRKey(e.key) IN
             FromRule(r # Nil, buildEgressCIDRNetpol(pkg, spec, entry.key, local, e.key, r), local, e.val)
           Literal(e) ==
             FromRule(~LiteralFails(e), buildEgressLiteralNetpol(pkg, spec, entry.key, local, e),
                      local, e.val)
           k8s == InOrder([i \in DOMAIN Enabled(peer.k8s) |-> K8s(Enabled(peer.k8s)[i])])
           definition == InOrder([i \in DOMAIN Enabled(peer.definition) |->
                                    Definition(Enabled(peer.definition)[i])])
           cidr == InOrder([i \in DOMAIN Enabled(peer.cidr) |-> Cidr(Enabled(peer.cidr)[i])])
           literal == InOrder([i \in DOMAIN Enabled(peer.literal) |->
                                 Literal(Enabled(peer.literal)[i])])
<1>1. local.peer = peer
  BY DEF Source, SoundFrom, SoundEntry, HasFields
<1>2. made = IF ~entry.val.decodes THEN Err
             ELSE IF peer = Nil THEN Ok(<<>>) ELSE InOrder(<<k8s, definition, cidr, literal>>)
  BY <1>1 DEF expandEgressSource, ForEach
<1>3. CASE ~entry.val.decodes
  <2>1. made = Err
    BY <1>2, <1>3
  <2> HIDE DEF made
  <2> QED BY <2>1, ListedOk DEF Err, made
<1>4. CASE entry.val.decodes /\ peer = Nil
  <2>1. made = Ok(<<>>)
    BY <1>2, <1>4
  <2> HIDE DEF made
  <2> QED BY <1>4, <2>1, ListedOk, MakesOk, ToSetFacts DEF made
<1>5. CASE entry.val.decodes /\ peer # Nil
  <2>1. /\ IsList(Enabled(peer.k8s)) /\ IsList(Enabled(peer.definition))
        /\ IsList(Enabled(peer.cidr)) /\ IsList(Enabled(peer.literal))
    BY <1>5, EnabledToSet DEF SoundFrom, SoundEntry, AllOf
  <2>2. /\ Listed(k8s)
        /\ k8s.ok => /\ \A e \in ToSet(Enabled(peer.k8s)) : parseEgressRemoteKey(e.key) # Nil
                     /\ \A x : Makes(k8s, x) <=>
                          \E e \in ToSet(Enabled(peer.k8s)) : x = EgressK8s(pkg, spec, entry, e)
    <3> DEFINE list == Enabled(peer.k8s)
               f == [i \in DOMAIN list |-> K8s(list[i])]
    <3>1. ASSUME NEW e
          PROVE  /\ Listed(K8s(e)) /\ (K8s(e).ok => parseEgressRemoteKey(e.key) # Nil)
                 /\ \A x : Makes(K8s(e), x) <=> parseEgressRemoteKey(e.key) # Nil /\ x = EgressK8s(pkg, spec, entry, e)
      BY FromRuleMakes, FromRuleOk DEF EgressK8s, WithMetadata
    <3>2. DOMAIN f = DOMAIN list /\ \A i \in DOMAIN list : f[i] = K8s(list[i])
      OBVIOUS
    <3>3. IsList(list) /\ k8s = InOrder(f)
      BY <2>1
    <3> HIDE DEF K8s, list, f, k8s
    <3>4. /\ Listed(InOrder(f))
          /\ InOrder(f).ok => \A x : Makes(InOrder(f), x) <=> \E i \in DOMAIN list : Makes(f[i], x)
      BY <3>1, <3>2, <3>3, MakesForEach
    <3>5. InOrder(f).ok => \A i \in DOMAIN list : f[i].ok
      BY <3>2, InOrderOk
    <3> QED BY <3>1, <3>2, <3>3, <3>4, <3>5 DEF list, ToSet
  <2>3. /\ Listed(definition)
        /\ definition.ok => \A x : Makes(definition, x) <=>
             \E e \in ToSet(Enabled(peer.definition)) : x = EgressDefinition(pkg, spec, env, entry, e)
    <3> DEFINE list == Enabled(peer.definition)
               f == [i \in DOMAIN list |-> Definition(list[i])]
    <3>1. ASSUME NEW e
          PROVE  /\ Listed(Definition(e)) /\ (Definition(e).ok => resolveEgressDefinition(spec, e.key, env) # Nil)
                 /\ \A x : Makes(Definition(e), x) <=> resolveEgressDefinition(spec, e.key, env) # Nil /\ x = EgressDefinition(pkg, spec, env, entry, e)
      BY FromRuleMakes, FromRuleOk DEF EgressDefinition, WithMetadata
    <3>2. DOMAIN f = DOMAIN list /\ \A i \in DOMAIN list : f[i] = Definition(list[i])
      OBVIOUS
    <3>3. IsList(list) /\ definition = InOrder(f)
      BY <2>1
    <3> HIDE DEF Definition, list, f, definition
    <3>4. /\ Listed(InOrder(f))
          /\ InOrder(f).ok => \A x : Makes(InOrder(f), x) <=> \E i \in DOMAIN list : Makes(f[i], x)
      BY <3>1, <3>2, <3>3, MakesForEach
    <3>5. InOrder(f).ok => \A i \in DOMAIN list : f[i].ok
      BY <3>2, InOrderOk
    <3> QED BY <3>1, <3>2, <3>3, <3>4, <3>5 DEF list, ToSet
  <2>4. /\ Listed(cidr)
        /\ cidr.ok => /\ \A e \in ToSet(Enabled(peer.cidr)) : parseEgressCIDRKey(e.key) # Nil
                      /\ \A x : Makes(cidr, x) <=>
                           \E e \in ToSet(Enabled(peer.cidr)) : x = EgressCidr(pkg, spec, entry, e)
    <3> DEFINE list == Enabled(peer.cidr)
               f == [i \in DOMAIN list |-> Cidr(list[i])]
    <3>1. ASSUME NEW e
          PROVE  /\ Listed(Cidr(e)) /\ (Cidr(e).ok => parseEgressCIDRKey(e.key) # Nil)
                 /\ \A x : Makes(Cidr(e), x) <=> parseEgressCIDRKey(e.key) # Nil /\ x = EgressCidr(pkg, spec, entry, e)
      BY FromRuleMakes, FromRuleOk DEF EgressCidr, WithMetadata
    <3>2. DOMAIN f = DOMAIN list /\ \A i \in DOMAIN list : f[i] = Cidr(list[i])
      OBVIOUS
    <3>3. IsList(list) /\ cidr = InOrder(f)
      BY <2>1
    <3> HIDE DEF Cidr, list, f, cidr
    <3>4. /\ Listed(InOrder(f))
          /\ InOrder(f).ok => \A x : Makes(InOrder(f), x) <=> \E i \in DOMAIN list : Makes(f[i], x)
      BY <3>1, <3>2, <3>3, MakesForEach
    <3>5. InOrder(f).ok => \A i \in DOMAIN list : f[i].ok
      BY <3>2, InOrderOk
    <3> QED BY <3>1, <3>2, <3>3, <3>4, <3>5 DEF list, ToSet
  <2>5. /\ Listed(literal)
        /\ literal.ok => \A x : Makes(literal, x) <=>
             \E e \in ToSet(Enabled(peer.literal)) : x = EgressLiteral(pkg, spec, entry, e)
    <3> DEFINE list == Enabled(peer.literal)
               f == [i \in DOMAIN list |-> Literal(list[i])]
    <3>1. ASSUME NEW e
          PROVE  /\ Listed(Literal(e)) /\ (Literal(e).ok => ~LiteralFails(e))
                 /\ \A x : Makes(Literal(e), x) <=> ~LiteralFails(e) /\ x = EgressLiteral(pkg, spec, entry, e)
      BY FromRuleMakes, FromRuleOk DEF EgressLiteral, WithMetadata, LiteralFails
    <3>2. DOMAIN f = DOMAIN list /\ \A i \in DOMAIN list : f[i] = Literal(list[i])
      OBVIOUS
    <3>3. IsList(list) /\ literal = InOrder(f)
      BY <2>1
    <3> HIDE DEF Literal, list, f, literal
    <3>4. /\ Listed(InOrder(f))
          /\ InOrder(f).ok => \A x : Makes(InOrder(f), x) <=> \E i \in DOMAIN list : Makes(f[i], x)
      BY <3>1, <3>2, <3>3, MakesForEach
    <3>5. InOrder(f).ok => \A i \in DOMAIN list : f[i].ok
      BY <3>2, InOrderOk
    <3> QED BY <3>1, <3>2, <3>3, <3>4, <3>5 DEF list, ToSet
  <2> HIDE DEF k8s, definition, cidr, literal, made, peer
  <2>6. made = InOrder(<<k8s, definition, cidr, literal>>)
    BY <1>2, <1>5
  <2>7. /\ Listed(made)
        /\ made.ok =>
             /\ k8s.ok /\ definition.ok /\ cidr.ok /\ literal.ok
             /\ \A x : Makes(made, x) <=>
                  Makes(k8s, x) \/ Makes(definition, x) \/ Makes(cidr, x) \/ Makes(literal, x)
    BY <2>2, <2>3, <2>4, <2>5, <2>6, MakesFour
  <2>8. /\ made.ok =>
             /\ \A e \in ToSet(Enabled(peer.k8s)) : parseEgressRemoteKey(e.key) # Nil
             /\ \A e \in ToSet(Enabled(peer.cidr)) : parseEgressCIDRKey(e.key) # Nil
             /\ \A x : Makes(made, x) <=>
                   \/ \E e \in ToSet(Enabled(peer.k8s)) : x = EgressK8s(pkg, spec, entry, e)
                   \/ \E e \in ToSet(Enabled(peer.definition)) : x = EgressDefinition(pkg, spec, env, entry, e)
                   \/ \E e \in ToSet(Enabled(peer.cidr)) : x = EgressCidr(pkg, spec, entry, e)
                   \/ \E e \in ToSet(Enabled(peer.literal)) : x = EgressLiteral(pkg, spec, entry, e)
    BY <2>2, <2>3, <2>4, <2>5, <2>7
  <2> QED BY <1>5, <2>7, <2>8 DEF made, peer
<1> QED BY <1>3, <1>4, <1>5

\* The policies of ingress rules, and the AuthorizationPolicies that go with them.
IngressK8s(pkg, spec, entry, e) ==
  WithMetadata(entry, e, buildShorthandIngressNetpol(pkg, spec, parseIngressLocalKey(entry.key),
    Source(entry.val), e.key, parseIngressRemoteKey(e.key), e.val))
IngressDefinition(pkg, spec, env, entry, e) ==
  WithMetadata(entry, e, buildIngressDefinitionNetpol(pkg, spec, parseIngressLocalKey(entry.key),
    Source(entry.val), e.key, resolveIngressDefinition(spec, e.key, env)))
IngressCidr(pkg, spec, entry, e) ==
  WithMetadata(entry, e, buildIngressCIDRNetpol(pkg, spec, parseIngressLocalKey(entry.key),
    Source(entry.val), e.key, parseIngressCIDRKey(e.key)))
IngressLiteral(pkg, spec, entry, e) ==
  WithMetadata(entry, e, buildIngressLiteralNetpol(pkg, spec, parseIngressLocalKey(entry.key),
    Source(entry.val), e))
AuthzK8s(pkg, prepend, entry, e) ==
  WithMetadata(entry, e, buildAuthzFromShorthand(pkg, prepend, parseIngressLocalKey(entry.key),
    Source(entry.val), e.key, parseIngressRemoteKey(e.key)))
AuthzCidr(pkg, prepend, entry, e) ==
  WithMetadata(entry, e, buildAuthzFromCIDR(pkg, prepend, parseIngressLocalKey(entry.key),
    Source(entry.val), e.key, parseIngressCIDRKey(e.key)))

LEMMA IngressTargetMakes ==
  ASSUME NEW pkg, NEW spec, NEW env, NEW entry, SoundTo(entry)
  PROVE  /\ Listed(expandIngressTarget(pkg, spec, env, entry))
         /\ expandIngressTarget(pkg, spec, env, entry).ok =>
              /\ entry.val.decodes
              /\ entry.val.peer # Nil =>
                   /\ parseIngressLocalKey(entry.key) # Nil
                   /\ \A e \in ToSet(Enabled(entry.val.peer.k8s)) : parseIngressRemoteKey(e.key) # Nil
                   /\ \A e \in ToSet(Enabled(entry.val.peer.cidr)) : parseIngressCIDRKey(e.key) # Nil
              /\ \A x : Makes(expandIngressTarget(pkg, spec, env, entry), x) <=>
                   /\ entry.val.peer # Nil
                   /\ \/ \E e \in ToSet(Enabled(entry.val.peer.k8s)) : x = IngressK8s(pkg, spec, entry, e)
                      \/ \E e \in ToSet(Enabled(entry.val.peer.definition)) :
                           x = IngressDefinition(pkg, spec, env, entry, e)
                      \/ \E e \in ToSet(Enabled(entry.val.peer.cidr)) : x = IngressCidr(pkg, spec, entry, e)
                      \/ \E e \in ToSet(Enabled(entry.val.peer.literal)) : x = IngressLiteral(pkg, spec, entry, e)
<1> DEFINE local == Source(entry.val)
           peer == entry.val.peer
           to == parseIngressLocalKey(entry.key)
           made == expandIngressTarget(pkg, spec, env, entry)
           K8s(e) == LET r == parseIngressRemoteKey(e.key) IN
             FromRule(r # Nil, buildShorthandIngressNetpol(pkg, spec, to, local, e.key, r, e.val), local, e.val)
           Definition(e) == LET def == resolveIngressDefinition(spec, e.key, env) IN
             FromRule(def # Nil, buildIngressDefinitionNetpol(pkg, spec, to, local, e.key, def), local, e.val)
           Cidr(e) == LET r == parseIngressCIDRKey(e.key) IN
             FromRule(r # Nil, buildIngressCIDRNetpol(pkg, spec, to, local, e.key, r), local, e.val)
           Literal(e) ==
             FromRule(~LiteralFails(e), buildIngressLiteralNetpol(pkg, spec, to, local, e), local, e.val)
           k8s == InOrder([i \in DOMAIN Enabled(peer.k8s) |-> K8s(Enabled(peer.k8s)[i])])
           definition == InOrder([i \in DOMAIN Enabled(peer.definition) |->
                                    Definition(Enabled(peer.definition)[i])])
           cidr == InOrder([i \in DOMAIN Enabled(peer.cidr) |-> Cidr(Enabled(peer.cidr)[i])])
           literal == InOrder([i \in DOMAIN Enabled(peer.literal) |->
                                 Literal(Enabled(peer.literal)[i])])
<1>1. local.peer = peer
  BY DEF Source, SoundTo, SoundEntry, HasFields
<1>2. made = IF ~entry.val.decodes THEN Err
             ELSE IF peer = Nil THEN Ok(<<>>)
             ELSE IF to = Nil THEN Err ELSE InOrder(<<k8s, definition, cidr, literal>>)
  BY <1>1 DEF expandIngressTarget, ForEach
<1>3. CASE ~entry.val.decodes \/ (peer # Nil /\ to = Nil)
  <2>1. made = Err
    BY <1>2, <1>3
  <2> HIDE DEF made
  <2> QED BY <2>1, ListedOk DEF Err, made
<1>4. CASE entry.val.decodes /\ peer = Nil
  <2>1. made = Ok(<<>>)
    BY <1>2, <1>4
  <2> HIDE DEF made
  <2> QED BY <1>4, <2>1, ListedOk, MakesOk, ToSetFacts DEF made
<1>5. CASE entry.val.decodes /\ peer # Nil /\ to # Nil
  <2>1. /\ IsList(Enabled(peer.k8s)) /\ IsList(Enabled(peer.definition))
        /\ IsList(Enabled(peer.cidr)) /\ IsList(Enabled(peer.literal))
    BY <1>5, EnabledToSet DEF SoundTo, SoundEntry, AllOf
  <2>2. /\ Listed(k8s)
        /\ k8s.ok => /\ \A e \in ToSet(Enabled(peer.k8s)) : parseIngressRemoteKey(e.key) # Nil
                     /\ \A x : Makes(k8s, x) <=>
                          \E e \in ToSet(Enabled(peer.k8s)) : x = IngressK8s(pkg, spec, entry, e)
    <3> DEFINE list == Enabled(peer.k8s)
               f == [i \in DOMAIN list |-> K8s(list[i])]
    <3>1. ASSUME NEW e
          PROVE  /\ Listed(K8s(e)) /\ (K8s(e).ok => parseIngressRemoteKey(e.key) # Nil)
                 /\ \A x : Makes(K8s(e), x) <=> parseIngressRemoteKey(e.key) # Nil /\ x = IngressK8s(pkg, spec, entry, e)
      BY FromRuleMakes, FromRuleOk DEF IngressK8s, WithMetadata
    <3>2. DOMAIN f = DOMAIN list /\ \A i \in DOMAIN list : f[i] = K8s(list[i])
      OBVIOUS
    <3>3. IsList(list) /\ k8s = InOrder(f)
      BY <2>1
    <3> HIDE DEF K8s, list, f, k8s
    <3>4. /\ Listed(InOrder(f))
          /\ InOrder(f).ok => \A x : Makes(InOrder(f), x) <=> \E i \in DOMAIN list : Makes(f[i], x)
      BY <3>1, <3>2, <3>3, MakesForEach
    <3>5. InOrder(f).ok => \A i \in DOMAIN list : f[i].ok
      BY <3>2, InOrderOk
    <3> QED BY <3>1, <3>2, <3>3, <3>4, <3>5 DEF list, ToSet
  <2>3. /\ Listed(definition)
        /\ definition.ok => \A x : Makes(definition, x) <=>
             \E e \in ToSet(Enabled(peer.definition)) : x = IngressDefinition(pkg, spec, env, entry, e)
    <3> DEFINE list == Enabled(peer.definition)
               f == [i \in DOMAIN list |-> Definition(list[i])]
    <3>1. ASSUME NEW e
          PROVE  /\ Listed(Definition(e)) /\ (Definition(e).ok => resolveIngressDefinition(spec, e.key, env) # Nil)
                 /\ \A x : Makes(Definition(e), x) <=> resolveIngressDefinition(spec, e.key, env) # Nil /\ x = IngressDefinition(pkg, spec, env, entry, e)
      BY FromRuleMakes, FromRuleOk DEF IngressDefinition, WithMetadata
    <3>2. DOMAIN f = DOMAIN list /\ \A i \in DOMAIN list : f[i] = Definition(list[i])
      OBVIOUS
    <3>3. IsList(list) /\ definition = InOrder(f)
      BY <2>1
    <3> HIDE DEF Definition, list, f, definition
    <3>4. /\ Listed(InOrder(f))
          /\ InOrder(f).ok => \A x : Makes(InOrder(f), x) <=> \E i \in DOMAIN list : Makes(f[i], x)
      BY <3>1, <3>2, <3>3, MakesForEach
    <3>5. InOrder(f).ok => \A i \in DOMAIN list : f[i].ok
      BY <3>2, InOrderOk
    <3> QED BY <3>1, <3>2, <3>3, <3>4, <3>5 DEF list, ToSet
  <2>4. /\ Listed(cidr)
        /\ cidr.ok => /\ \A e \in ToSet(Enabled(peer.cidr)) : parseIngressCIDRKey(e.key) # Nil
                      /\ \A x : Makes(cidr, x) <=>
                           \E e \in ToSet(Enabled(peer.cidr)) : x = IngressCidr(pkg, spec, entry, e)
    <3> DEFINE list == Enabled(peer.cidr)
               f == [i \in DOMAIN list |-> Cidr(list[i])]
    <3>1. ASSUME NEW e
          PROVE  /\ Listed(Cidr(e)) /\ (Cidr(e).ok => parseIngressCIDRKey(e.key) # Nil)
                 /\ \A x : Makes(Cidr(e), x) <=> parseIngressCIDRKey(e.key) # Nil /\ x = IngressCidr(pkg, spec, entry, e)
      BY FromRuleMakes, FromRuleOk DEF IngressCidr, WithMetadata
    <3>2. DOMAIN f = DOMAIN list /\ \A i \in DOMAIN list : f[i] = Cidr(list[i])
      OBVIOUS
    <3>3. IsList(list) /\ cidr = InOrder(f)
      BY <2>1
    <3> HIDE DEF Cidr, list, f, cidr
    <3>4. /\ Listed(InOrder(f))
          /\ InOrder(f).ok => \A x : Makes(InOrder(f), x) <=> \E i \in DOMAIN list : Makes(f[i], x)
      BY <3>1, <3>2, <3>3, MakesForEach
    <3>5. InOrder(f).ok => \A i \in DOMAIN list : f[i].ok
      BY <3>2, InOrderOk
    <3> QED BY <3>1, <3>2, <3>3, <3>4, <3>5 DEF list, ToSet
  <2>5. /\ Listed(literal)
        /\ literal.ok => \A x : Makes(literal, x) <=>
             \E e \in ToSet(Enabled(peer.literal)) : x = IngressLiteral(pkg, spec, entry, e)
    <3> DEFINE list == Enabled(peer.literal)
               f == [i \in DOMAIN list |-> Literal(list[i])]
    <3>1. ASSUME NEW e
          PROVE  /\ Listed(Literal(e)) /\ (Literal(e).ok => ~LiteralFails(e))
                 /\ \A x : Makes(Literal(e), x) <=> ~LiteralFails(e) /\ x = IngressLiteral(pkg, spec, entry, e)
      BY FromRuleMakes, FromRuleOk DEF IngressLiteral, WithMetadata, LiteralFails
    <3>2. DOMAIN f = DOMAIN list /\ \A i \in DOMAIN list : f[i] = Literal(list[i])
      OBVIOUS
    <3>3. IsList(list) /\ literal = InOrder(f)
      BY <2>1
    <3> HIDE DEF Literal, list, f, literal
    <3>4. /\ Listed(InOrder(f))
          /\ InOrder(f).ok => \A x : Makes(InOrder(f), x) <=> \E i \in DOMAIN list : Makes(f[i], x)
      BY <3>1, <3>2, <3>3, MakesForEach
    <3>5. InOrder(f).ok => \A i \in DOMAIN list : f[i].ok
      BY <3>2, InOrderOk
    <3> QED BY <3>1, <3>2, <3>3, <3>4, <3>5 DEF list, ToSet
  <2> HIDE DEF k8s, definition, cidr, literal, made, peer, to
  <2>6. made = InOrder(<<k8s, definition, cidr, literal>>)
    BY <1>2, <1>5
  <2>7. /\ Listed(made)
        /\ made.ok =>
             /\ k8s.ok /\ definition.ok /\ cidr.ok /\ literal.ok
             /\ \A x : Makes(made, x) <=>
                  Makes(k8s, x) \/ Makes(definition, x) \/ Makes(cidr, x) \/ Makes(literal, x)
    BY <2>2, <2>3, <2>4, <2>5, <2>6, MakesFour
  <2>8. made.ok =>
          /\ \A e \in ToSet(Enabled(peer.k8s)) : parseIngressRemoteKey(e.key) # Nil
          /\ \A e \in ToSet(Enabled(peer.cidr)) : parseIngressCIDRKey(e.key) # Nil
          /\ \A x : Makes(made, x) <=>
                \/ \E e \in ToSet(Enabled(peer.k8s)) : x = IngressK8s(pkg, spec, entry, e)
                \/ \E e \in ToSet(Enabled(peer.definition)) : x = IngressDefinition(pkg, spec, env, entry, e)
                \/ \E e \in ToSet(Enabled(peer.cidr)) : x = IngressCidr(pkg, spec, entry, e)
                \/ \E e \in ToSet(Enabled(peer.literal)) : x = IngressLiteral(pkg, spec, entry, e)
    BY <2>2, <2>3, <2>4, <2>5, <2>7
  <2> QED BY <1>5, <2>7, <2>8 DEF made, peer, to
<1> QED BY <1>3, <1>4, <1>5

LEMMA AuthzTargetMakes ==
  ASSUME NEW pkg, NEW prepend, NEW entry, SoundTo(entry)
  PROVE  /\ Listed(authzFromIngressTarget(pkg, prepend, entry))
         /\ authzFromIngressTarget(pkg, prepend, entry).ok =>
              \A x : Makes(authzFromIngressTarget(pkg, prepend, entry), x) <=>
                /\ entry.val.peer # Nil
                /\ \/ \E e \in ToSet(Enabled(entry.val.peer.k8s)) : x = AuthzK8s(pkg, prepend, entry, e)
                   \/ \E e \in ToSet(Enabled(entry.val.peer.cidr)) : x = AuthzCidr(pkg, prepend, entry, e)
<1> DEFINE local == Source(entry.val)
           peer == entry.val.peer
           to == parseIngressLocalKey(entry.key)
           made == authzFromIngressTarget(pkg, prepend, entry)
           K8s(e) == LET r == parseIngressRemoteKey(e.key) IN
             FromRule(r # Nil, buildAuthzFromShorthand(pkg, prepend, to, local, e.key, r), local, e.val)
           Cidr(e) == LET r == parseIngressCIDRKey(e.key) IN
             FromRule(r # Nil, buildAuthzFromCIDR(pkg, prepend, to, local, e.key, r), local, e.val)
           k8s == InOrder([i \in DOMAIN Enabled(peer.k8s) |-> K8s(Enabled(peer.k8s)[i])])
           cidr == InOrder([i \in DOMAIN Enabled(peer.cidr) |-> Cidr(Enabled(peer.cidr)[i])])
<1>1. local.peer = peer
  BY DEF Source, SoundTo, SoundEntry, HasFields
<1>2. made = IF ~entry.val.decodes THEN Err
             ELSE IF peer = Nil THEN Ok(<<>>)
             ELSE IF to = Nil THEN Err ELSE InOrder(<<k8s, cidr>>)
  BY <1>1 DEF authzFromIngressTarget, ForEach
<1>3. CASE ~entry.val.decodes \/ (peer # Nil /\ to = Nil)
  <2>1. made = Err
    BY <1>2, <1>3
  <2> HIDE DEF made
  <2> QED BY <2>1, ListedOk DEF Err, made
<1>4. CASE entry.val.decodes /\ peer = Nil
  <2>1. made = Ok(<<>>)
    BY <1>2, <1>4
  <2> HIDE DEF made
  <2> QED BY <1>4, <2>1, ListedOk, MakesOk, ToSetFacts DEF made
<1>5. CASE entry.val.decodes /\ peer # Nil /\ to # Nil
  <2>1. IsList(Enabled(peer.k8s)) /\ IsList(Enabled(peer.cidr))
    BY <1>5, EnabledToSet DEF SoundTo, SoundEntry, AllOf
  <2>2. /\ Listed(k8s)
        /\ k8s.ok => \A x : Makes(k8s, x) <=>
             \E e \in ToSet(Enabled(peer.k8s)) : x = AuthzK8s(pkg, prepend, entry, e)
    <3> DEFINE list == Enabled(peer.k8s)
               f == [i \in DOMAIN list |-> K8s(list[i])]
    <3>1. ASSUME NEW e
          PROVE  /\ Listed(K8s(e)) /\ (K8s(e).ok => parseIngressRemoteKey(e.key) # Nil)
                 /\ \A x : Makes(K8s(e), x) <=> parseIngressRemoteKey(e.key) # Nil /\ x = AuthzK8s(pkg, prepend, entry, e)
      BY FromRuleMakes, FromRuleOk DEF AuthzK8s, WithMetadata
    <3>2. DOMAIN f = DOMAIN list /\ \A i \in DOMAIN list : f[i] = K8s(list[i])
      OBVIOUS
    <3>3. IsList(list) /\ k8s = InOrder(f)
      BY <2>1
    <3> HIDE DEF K8s, list, f, k8s
    <3>4. /\ Listed(InOrder(f))
          /\ InOrder(f).ok => \A x : Makes(InOrder(f), x) <=> \E i \in DOMAIN list : Makes(f[i], x)
      BY <3>1, <3>2, <3>3, MakesForEach
    <3>5. InOrder(f).ok => \A i \in DOMAIN list : f[i].ok
      BY <3>2, InOrderOk
    <3> QED BY <3>1, <3>2, <3>3, <3>4, <3>5 DEF list, ToSet
  <2>3. /\ Listed(cidr)
        /\ cidr.ok => \A x : Makes(cidr, x) <=>
             \E e \in ToSet(Enabled(peer.cidr)) : x = AuthzCidr(pkg, prepend, entry, e)
    <3> DEFINE list == Enabled(peer.cidr)
               f == [i \in DOMAIN list |-> Cidr(list[i])]
    <3>1. ASSUME NEW e
          PROVE  /\ Listed(Cidr(e)) /\ (Cidr(e).ok => parseIngressCIDRKey(e.key) # Nil)
                 /\ \A x : Makes(Cidr(e), x) <=> parseIngressCIDRKey(e.key) # Nil /\ x = AuthzCidr(pkg, prepend, entry, e)
      BY FromRuleMakes, FromRuleOk DEF AuthzCidr, WithMetadata
    <3>2. DOMAIN f = DOMAIN list /\ \A i \in DOMAIN list : f[i] = Cidr(list[i])
      OBVIOUS
    <3>3. IsList(list) /\ cidr = InOrder(f)
      BY <2>1
    <3> HIDE DEF Cidr, list, f, cidr
    <3>4. /\ Listed(InOrder(f))
          /\ InOrder(f).ok => \A x : Makes(InOrder(f), x) <=> \E i \in DOMAIN list : Makes(f[i], x)
      BY <3>1, <3>2, <3>3, MakesForEach
    <3>5. InOrder(f).ok => \A i \in DOMAIN list : f[i].ok
      BY <3>2, InOrderOk
    <3> QED BY <3>1, <3>2, <3>3, <3>4, <3>5 DEF list, ToSet
  <2> HIDE DEF k8s, cidr, made, peer, to
  <2>4. made = InOrder(<<k8s, cidr>>)
    BY <1>2, <1>5
  <2>5. /\ Listed(made)
        /\ made.ok => /\ k8s.ok /\ cidr.ok
                      /\ \A x : Makes(made, x) <=> Makes(k8s, x) \/ Makes(cidr, x)
    BY <2>2, <2>3, <2>4, MakesTwo
  <2>6. made.ok => \A x : Makes(made, x) <=>
          \/ \E e \in ToSet(Enabled(peer.k8s)) : x = AuthzK8s(pkg, prepend, entry, e)
          \/ \E e \in ToSet(Enabled(peer.cidr)) : x = AuthzCidr(pkg, prepend, entry, e)
    BY <2>2, <2>3, <2>5
  <2> QED BY <1>5, <2>5, <2>6 DEF made, peer
<1> QED BY <1>3, <1>4, <1>5

-----------------------------------------------------------------------------
(* The lists of rules, and the policies the user wrote. *)

LEMMA EgressMakes ==
  ASSUME NEW pkg, NEW spec, NEW env, AllOf(spec.egress.from, SoundFrom)
  PROVE  /\ Listed(expandShorthandEgress(pkg, spec, env))
         /\ expandShorthandEgress(pkg, spec, env).ok =>
              /\ \A entry \in ToSet(spec.egress.from) : expandEgressSource(pkg, spec, env, entry).ok
              /\ \A x : Makes(expandShorthandEgress(pkg, spec, env), x) <=>
                   \E entry \in ToSet(spec.egress.from) : Makes(expandEgressSource(pkg, spec, env, entry), x)
<1> DEFINE from == spec.egress.from
           f == [i \in DOMAIN from |-> expandEgressSource(pkg, spec, env, from[i])]
<1>1. expandShorthandEgress(pkg, spec, env) = InOrder(f)
  BY DEF expandShorthandEgress, ForEach
<1>2. IsList(from) /\ \A i \in DOMAIN from : SoundFrom(from[i])
  BY DEF AllOf
<1>3. DOMAIN f = DOMAIN from /\ \A i \in DOMAIN from : f[i] = expandEgressSource(pkg, spec, env, from[i])
  OBVIOUS
<1> HIDE DEF f, from
<1>4. \A i \in DOMAIN from : Listed(f[i])
  BY <1>2, <1>3, EgressSourceMakes
<1>5. /\ Listed(InOrder(f))
      /\ InOrder(f).ok => \A x : Makes(InOrder(f), x) <=> \E i \in DOMAIN from : Makes(f[i], x)
  BY <1>2, <1>3, <1>4, MakesForEach
<1>6. InOrder(f).ok => \A i \in DOMAIN from : f[i].ok
  BY <1>3, InOrderOk
<1> QED BY <1>1, <1>3, <1>5, <1>6 DEF from, ToSet

LEMMA IngressMakes ==
  ASSUME NEW pkg, NEW spec, NEW env, AllOf(spec.ingress.to, SoundTo)
  PROVE  /\ Listed(expandShorthandIngress(pkg, spec, env))
         /\ expandShorthandIngress(pkg, spec, env).ok =>
              /\ \A entry \in ToSet(spec.ingress.to) : expandIngressTarget(pkg, spec, env, entry).ok
              /\ \A x : Makes(expandShorthandIngress(pkg, spec, env), x) <=>
                   \E entry \in ToSet(spec.ingress.to) : Makes(expandIngressTarget(pkg, spec, env, entry), x)
<1> DEFINE to == spec.ingress.to
           f == [i \in DOMAIN to |-> expandIngressTarget(pkg, spec, env, to[i])]
<1>1. expandShorthandIngress(pkg, spec, env) = InOrder(f)
  BY DEF expandShorthandIngress, ForEach
<1>2. IsList(to) /\ \A i \in DOMAIN to : SoundTo(to[i])
  BY DEF AllOf
<1>3. DOMAIN f = DOMAIN to /\ \A i \in DOMAIN to : f[i] = expandIngressTarget(pkg, spec, env, to[i])
  OBVIOUS
<1> HIDE DEF f, to
<1>4. \A i \in DOMAIN to : Listed(f[i])
  BY <1>2, <1>3, IngressTargetMakes
<1>5. /\ Listed(InOrder(f))
      /\ InOrder(f).ok => \A x : Makes(InOrder(f), x) <=> \E i \in DOMAIN to : Makes(f[i], x)
  BY <1>2, <1>3, <1>4, MakesForEach
<1>6. InOrder(f).ok => \A i \in DOMAIN to : f[i].ok
  BY <1>3, InOrderOk
<1> QED BY <1>1, <1>3, <1>5, <1>6 DEF to, ToSet

LEMMA CompanionsMake ==
  ASSUME NEW pkg, NEW npSpec, NEW istio, npSpec.ingress # Nil, AllOf(npSpec.ingress.to, SoundTo),
         generateAuthzFromIngressShorthand(pkg, npSpec, istio).ok
  PROVE  /\ authzEnabled(istio) /\ generateFromNetpol(istio) =>
              \A entry \in ToSet(npSpec.ingress.to) :
                authzFromIngressTarget(pkg, npSpec.prependReleaseName, entry).ok
         /\ \A x : Makes(generateAuthzFromIngressShorthand(pkg, npSpec, istio), x) <=>
              /\ authzEnabled(istio) /\ generateFromNetpol(istio)
              /\ \E entry \in ToSet(npSpec.ingress.to) :
                   Makes(authzFromIngressTarget(pkg, npSpec.prependReleaseName, entry), x)
<1> DEFINE to == npSpec.ingress.to
           made == generateAuthzFromIngressShorthand(pkg, npSpec, istio)
           f == [i \in DOMAIN to |-> authzFromIngressTarget(pkg, npSpec.prependReleaseName, to[i])]
<1>1. CASE ~(authzEnabled(istio) /\ generateFromNetpol(istio))
  <2>1. made = Ok(<<>>)
    BY <1>1 DEF generateAuthzFromIngressShorthand
  <2> HIDE DEF made
  <2> QED BY <1>1, <2>1, MakesOk, ToSetFacts DEF made
<1>2. CASE authzEnabled(istio) /\ generateFromNetpol(istio)
  <2>1. made = InOrder(f)
    BY <1>2 DEF generateAuthzFromIngressShorthand, ForEach
  <2>2. IsList(to) /\ \A i \in DOMAIN to : SoundTo(to[i])
    BY DEF AllOf
  <2>3. /\ DOMAIN f = DOMAIN to
        /\ \A i \in DOMAIN to : f[i] = authzFromIngressTarget(pkg, npSpec.prependReleaseName, to[i])
    OBVIOUS
  <2> HIDE DEF f, to, made
  <2>4. \A i \in DOMAIN to : Listed(f[i])
    BY <2>2, <2>3, AuthzTargetMakes
  <2>5. InOrder(f).ok => \A x : Makes(InOrder(f), x) <=> \E i \in DOMAIN to : Makes(f[i], x)
    BY <2>2, <2>3, <2>4, MakesForEach
  <2>6. made.ok
    BY DEF made
  <2>7. \A i \in DOMAIN to : f[i].ok
    BY <2>1, <2>3, <2>6, InOrderOk
  <2> QED BY <1>2, <2>1, <2>3, <2>5, <2>6, <2>7 DEF to, ToSet, made
<1> QED BY <1>1, <1>2

\* A policy of additionalPolicies.
AdditionalPolicy(pkg, spec, raw) ==
  GeneratedObject("NetworkPolicy", prependName(spec.prependReleaseName, pkg.name, raw.name),
                  raw.labels, raw.annotations, raw.spec)

LEMMA NetworkPoliciesMake ==
  ASSUME NEW pkg, NEW spec, NEW istio, NEW env, SoundNetworkPolicies(spec),
         generateNetworkPolicies(pkg, spec, istio, env).ok
  PROVE  /\ spec.egress # Nil => \A entry \in ToSet(spec.egress.from) :
                                  expandEgressSource(pkg, spec, env, entry).ok
         /\ spec.ingress # Nil => \A entry \in ToSet(spec.ingress.to) :
                                  expandIngressTarget(pkg, spec, env, entry).ok
         /\ \A x : Makes(generateNetworkPolicies(pkg, spec, istio, env), x) <=>
              \/ x \in ToSet(defaultEgressPolicies(pkg, spec, istio))
              \/ x \in ToSet(defaultIngressPolicies(pkg, spec, istio))
              \/ /\ spec.egress # Nil
                 /\ \E entry \in ToSet(spec.egress.from) : Makes(expandEgressSource(pkg, spec, env, entry), x)
              \/ /\ spec.ingress # Nil
                 /\ \E entry \in ToSet(spec.ingress.to) : Makes(expandIngressTarget(pkg, spec, env, entry), x)
              \/ \E raw \in ToSet(spec.additionalPolicies) :
                   raw.decodes /\ x = AdditionalPolicy(pkg, spec, raw)
<1> DEFINE egress0 == Ok(defaultEgressPolicies(pkg, spec, istio))
           ingress0 == Ok(defaultIngressPolicies(pkg, spec, istio))
           egress == IF spec.egress = Nil THEN Ok(<<>>) ELSE expandShorthandEgress(pkg, spec, env)
           ingress == IF spec.ingress = Nil THEN Ok(<<>>) ELSE expandShorthandIngress(pkg, spec, env)
           list == spec.additionalPolicies
           f == [i \in DOMAIN list |-> buildAdditionalPolicy(pkg, spec, list[i])]
           additional == InOrder(f)
           made == generateNetworkPolicies(pkg, spec, istio, env)
<1>1. made = InOrder(<<egress0, ingress0, egress, ingress, additional>>)
  BY DEF generateNetworkPolicies, ForEach
<1>2. /\ Listed(egress0) /\ (\A x : Makes(egress0, x) <=> x \in ToSet(defaultEgressPolicies(pkg, spec, istio)))
      /\ Listed(ingress0) /\ (\A x : Makes(ingress0, x) <=> x \in ToSet(defaultIngressPolicies(pkg, spec, istio)))
  BY DefaultNetpolsSound, ListedOk, MakesOk DEF SoundObjects
<1>3. /\ Listed(egress)
      /\ egress.ok =>
           /\ spec.egress # Nil => \A entry \in ToSet(spec.egress.from) :
                                   expandEgressSource(pkg, spec, env, entry).ok
           /\ \A x : Makes(egress, x) <=>
                /\ spec.egress # Nil
                /\ \E entry \in ToSet(spec.egress.from) : Makes(expandEgressSource(pkg, spec, env, entry), x)
  <2>1. CASE spec.egress = Nil
    BY <2>1, ListedOk, MakesOk, ToSetFacts
  <2>2. CASE spec.egress # Nil
    <3>1. AllOf(spec.egress.from, SoundFrom)
      BY <2>2 DEF SoundNetworkPolicies, SoundEgress
    <3> QED BY <2>2, <3>1, EgressMakes
  <2> QED BY <2>1, <2>2
<1>4. /\ Listed(ingress)
      /\ ingress.ok =>
           /\ spec.ingress # Nil => \A entry \in ToSet(spec.ingress.to) :
                                    expandIngressTarget(pkg, spec, env, entry).ok
           /\ \A x : Makes(ingress, x) <=>
                /\ spec.ingress # Nil
                /\ \E entry \in ToSet(spec.ingress.to) : Makes(expandIngressTarget(pkg, spec, env, entry), x)
  <2>1. CASE spec.ingress = Nil
    BY <2>1, ListedOk, MakesOk, ToSetFacts
  <2>2. CASE spec.ingress # Nil
    <3>1. AllOf(spec.ingress.to, SoundTo)
      BY <2>2 DEF SoundNetworkPolicies, SoundIngress
    <3> QED BY <2>2, <3>1, IngressMakes
  <2> QED BY <2>1, <2>2
<1>5. /\ Listed(additional)
      /\ additional.ok => \A x : Makes(additional, x) <=>
           \E raw \in ToSet(list) : raw.decodes /\ x = AdditionalPolicy(pkg, spec, raw)
  <2>1. ASSUME NEW raw
        PROVE  /\ Listed(buildAdditionalPolicy(pkg, spec, raw))
               /\ \A x : Makes(buildAdditionalPolicy(pkg, spec, raw), x)
                          <=> raw.decodes /\ x = AdditionalPolicy(pkg, spec, raw)
    <3>1. CASE raw.decodes
      <4>1. buildAdditionalPolicy(pkg, spec, raw) = Ok(<<AdditionalPolicy(pkg, spec, raw)>>)
        BY <3>1 DEF buildAdditionalPolicy, AdditionalPolicy
      <4> QED BY <3>1, <4>1, ListedOk, MakesOk, ToSetFacts
    <3>2. CASE ~raw.decodes
      <4>1. buildAdditionalPolicy(pkg, spec, raw) = Err
        BY <3>2 DEF buildAdditionalPolicy
      <4> QED BY <3>2, <4>1, ListedOk, MakesOk
    <3> QED BY <3>1, <3>2
  <2>2. IsList(list)
    BY DEF SoundNetworkPolicies, AllOf
  <2>3. DOMAIN f = DOMAIN list /\ \A i \in DOMAIN list : f[i] = buildAdditionalPolicy(pkg, spec, list[i])
    OBVIOUS
  <2> HIDE DEF f, list
  <2>4. /\ Listed(InOrder(f))
        /\ InOrder(f).ok => \A x : Makes(InOrder(f), x) <=> \E i \in DOMAIN list : Makes(f[i], x)
    BY <2>1, <2>2, <2>3, MakesForEach
  <2> QED BY <2>1, <2>3, <2>4 DEF ToSet
<1> HIDE DEF egress0, ingress0, egress, ingress, additional, made
<1>6. /\ egress.ok /\ ingress.ok /\ additional.ok
      /\ \A x : Makes(made, x) <=> \/ Makes(egress0, x) \/ Makes(ingress0, x) \/ Makes(egress, x)
                                   \/ Makes(ingress, x) \/ Makes(additional, x)
  <2>1. made.ok
    BY DEF made
  <2> QED BY <1>1, <1>2, <1>3, <1>4, <1>5, <2>1, MakesFive
<1> QED BY <1>2, <1>3, <1>4, <1>5, <1>6 DEF made

-----------------------------------------------------------------------------
(* Routes. *)

\* An inbound route with its effective gateways and selector, and what
\* resolveInboundRoute makes of it.
RouteOf(entry, in) ==
  [entry.val EXCEPT
     !.gateways = effectiveGateways(entry.val, in.pkg.spec.routes, in.ingressConfig),
     !.selector = IF @ = {} THEN NameIs(entry.key) ELSE @]
GatewayOf(ref, in) ==
  [ns |-> ref.ns, name |-> ref.name, definition |-> gatewayDefinition(ref, in.ingressConfig)]
ResolvedOf(entry, in) ==
  [name |-> entry.key, route |-> RouteOf(entry, in),
   gateways |-> [i \in DOMAIN RouteOf(entry, in).gateways |-> GatewayOf(RouteOf(entry, in).gateways[i], in)]]

LEMMA InboundMake ==
  ASSUME NEW in, in.pkg.spec.routes # Nil, SoundRoutes(in.pkg.spec.routes), resolveInboundRoutes(in).ok
  PROVE  /\ \A entry \in ToSet(in.pkg.spec.routes.inbound) :
              entry.val.decodes /\ (entry.val.enabled => validateInbound(RouteOf(entry, in)))
         /\ \A x : x \in ToSet(resolveInboundRoutes(in).objs) <=>
              \E entry \in ToSet(in.pkg.spec.routes.inbound) : entry.val.enabled /\ x = ResolvedOf(entry, in)
<1> DEFINE inbound == in.pkg.spec.routes.inbound
           f == [i \in DOMAIN inbound |-> resolveInboundRoute(inbound[i], in)]
<1>1. resolveInboundRoutes(in) = InOrder(f)
  BY DEF resolveInboundRoutes, ForEach
<1>2. IsList(inbound) /\ \A i \in DOMAIN inbound : SoundRoute(inbound[i])
  BY DEF SoundRoutes, AllOf
<1>3. ASSUME NEW entry, SoundRoute(entry)
      PROVE  /\ Listed(resolveInboundRoute(entry, in))
             /\ resolveInboundRoute(entry, in).ok =>
                  /\ entry.val.decodes
                  /\ entry.val.enabled => validateInbound(RouteOf(entry, in))
                  /\ \A x : Makes(resolveInboundRoute(entry, in), x) <=>
                       entry.val.enabled /\ x = ResolvedOf(entry, in)
  <2> DEFINE made == resolveInboundRoute(entry, in)
  <2>1. RouteOf(entry, in).enabled = entry.val.enabled
    BY <1>3 DEF RouteOf, SoundRoute, HasFields
  <2>2. made = IF ~entry.val.decodes THEN Err
               ELSE IF ~RouteOf(entry, in).enabled THEN Ok(<<>>)
               ELSE IF in.ingressConfigErr \/ ~validateInbound(RouteOf(entry, in)) THEN Err
               ELSE Ok(<<ResolvedOf(entry, in)>>)
    BY DEF resolveInboundRoute, RouteOf, ResolvedOf, GatewayOf
  <2>3. CASE made = Err
    BY <2>3, ListedOk DEF Err
  <2>4. CASE made = Ok(<<>>) /\ entry.val.decodes /\ ~entry.val.enabled
    BY <2>4, ListedOk, MakesOk, ToSetFacts
  <2>5. CASE /\ made = Ok(<<ResolvedOf(entry, in)>>) /\ entry.val.decodes /\ entry.val.enabled
             /\ validateInbound(RouteOf(entry, in))
    BY <2>5, ListedOk, MakesOk, ToSetFacts
  <2> QED BY <2>1, <2>2, <2>3, <2>4, <2>5
<1>4. DOMAIN f = DOMAIN inbound /\ \A i \in DOMAIN inbound : f[i] = resolveInboundRoute(inbound[i], in)
  OBVIOUS
<1> HIDE DEF f, inbound
<1>5. InOrder(f).ok => \A x : Makes(InOrder(f), x) <=> \E i \in DOMAIN inbound : Makes(f[i], x)
  BY <1>2, <1>3, <1>4, MakesForEach
<1>6. \A i \in DOMAIN inbound : f[i].ok
  BY <1>1, <1>4, InOrderOk
<1>7. ASSUME NEW i \in DOMAIN inbound
      PROVE  /\ inbound[i].val.decodes
             /\ inbound[i].val.enabled => validateInbound(RouteOf(inbound[i], in))
             /\ \A x : Makes(f[i], x) <=> inbound[i].val.enabled /\ x = ResolvedOf(inbound[i], in)
  BY <1>2, <1>3, <1>4, <1>6
<1>8. \A entry : entry \in ToSet(inbound) <=> \E i \in DOMAIN inbound : entry = inbound[i]
  BY DEF ToSet
<1>9. ASSUME NEW x
      PROVE  x \in ToSet(resolveInboundRoutes(in).objs) <=> \E i \in DOMAIN inbound : Makes(f[i], x)
  BY <1>1, <1>5 DEF Makes
<1>10. \A x : x \in ToSet(resolveInboundRoutes(in).objs) <=>
         \E entry \in ToSet(inbound) : entry.val.enabled /\ x = ResolvedOf(entry, in)
  BY <1>7, <1>8, <1>9
<1>11. ASSUME NEW entry \in ToSet(inbound)
       PROVE  entry.val.decodes /\ (entry.val.enabled => validateInbound(RouteOf(entry, in)))
  BY <1>7, <1>8
<1> QED BY <1>10, <1>11 DEF inbound

LEMMA VirtualServiceMakes ==
  ASSUME NEW pkg, NEW prepend, NEW resolved, buildVirtualService(pkg, prepend, resolved).ok
  PROVE  \E vs : /\ \A x : Makes(buildVirtualService(pkg, prepend, resolved), x) <=> x = vs
                 /\ vs.kind = "VirtualService" /\ vs.annotations = resolved.route.annotations
                 /\ vs.name = prependName(prepend, pkg.name, resolved.name)
                 /\ vs.spec.gateways = resolved.route.gateways
<1> DEFINE r == resolved.route
           VS(tls, http) ==
             RouteObject(pkg, prepend, "VirtualService", resolved.name, r,
                         [hosts |-> r.hosts, gateways |-> r.gateways, tls |-> tls, http |-> http])
<1>1. PICK tls, http : buildVirtualService(pkg, prepend, resolved) = Ok(<<VS(tls, http)>>)
  <2>1. CASE r.passthrough # Nil /\ r.passthrough.enabled
    <3> DEFINE tls == <<[port |-> IF r.passthrough.gatewayPort = Nil THEN 8443 ELSE UInt32(r.passthrough.gatewayPort),
                         sni |-> r.hosts, to |-> [host |-> r.service, port |-> portNumber(r.port)]]>>
    <3>1. buildVirtualService(pkg, prepend, resolved) = Ok(<<VS(tls, <<>>)>>)
      BY <2>1 DEF buildVirtualService
    <3> HIDE DEF VS, tls
    <3> QED BY <3>1
  <2>2. CASE ~(r.passthrough # Nil /\ r.passthrough.enabled) /\ r.http = <<>>
    <3> DEFINE http == <<[to |-> [host |-> r.service, port |-> portNumber(inboundWorkloadPort(r))]]>>
    <3>1. buildVirtualService(pkg, prepend, resolved) = Ok(<<VS(<<>>, http)>>)
      BY <2>2 DEF buildVirtualService
    <3> HIDE DEF VS, http
    <3> QED BY <3>1
  <2>3. CASE ~(r.passthrough # Nil /\ r.passthrough.enabled) /\ r.http # <<>>
    <3> DEFINE http == [i \in DOMAIN r.http |-> [raw |-> r.http[i]]]
    <3>1. CASE \E i \in DOMAIN r.http : ~r.http[i].decodes
      <4>1. buildVirtualService(pkg, prepend, resolved) = Err
        BY <2>3, <3>1 DEF buildVirtualService
      <4> QED BY <4>1 DEF Err
    <3>2. CASE ~\E i \in DOMAIN r.http : ~r.http[i].decodes
      <4>1. buildVirtualService(pkg, prepend, resolved) = Ok(<<VS(<<>>, http)>>)
        BY <2>3, <3>2 DEF buildVirtualService
      <4> HIDE DEF VS, http
      <4> QED BY <4>1
    <3> QED BY <3>1, <3>2
  <2> QED BY <2>1, <2>2, <2>3
<1>2. /\ VS(tls, http).kind = "VirtualService" /\ VS(tls, http).annotations = r.annotations
      /\ VS(tls, http).name = prependName(prepend, pkg.name, resolved.name)
      /\ VS(tls, http).spec.gateways = r.gateways
  BY DEF RouteObject, GeneratedObject
<1> HIDE DEF VS
<1>3. \A x : Makes(buildVirtualService(pkg, prepend, resolved), x) <=> x = VS(tls, http)
  BY <1>1, MakesOk, ToSetFacts
<1> QED BY <1>2, <1>3

LEMMA InboundObjectsMake ==
  ASSUME NEW pkg, NEW prepend, NEW enabled \in BOOLEAN, NEW resolved, IsList(resolved.gateways)
  PROVE  /\ Listed(inboundObjects(pkg, prepend, enabled, resolved))
         /\ inboundObjects(pkg, prepend, enabled, resolved).ok =>
              /\ buildVirtualService(pkg, prepend, resolved).ok
              /\ \A x : Makes(inboundObjects(pkg, prepend, enabled, resolved), x) <=>
                   \/ Makes(buildVirtualService(pkg, prepend, resolved), x)
                   \/ x = buildInboundServiceEntry(pkg, prepend, resolved)
                   \/ /\ enabled
                      /\ \E i \in DOMAIN resolved.gateways :
                           x = buildInboundNetpol(pkg, prepend, resolved.route, resolved.gateways[i])
<1> DEFINE vs == buildVirtualService(pkg, prepend, resolved)
           entry == Ok(<<buildInboundServiceEntry(pkg, prepend, resolved)>>)
           list == buildInboundNetpols(pkg, prepend, resolved)
           netpols == Ok(IF enabled THEN list ELSE <<>>)
<1>1. inboundObjects(pkg, prepend, enabled, resolved) = InOrder(<<vs, entry, netpols>>)
  BY DEF inboundObjects
<1>2. Listed(vs)
  BY VirtualServiceSound, ListedOk
<1>3. Listed(entry) /\ \A x : Makes(entry, x) <=> x = buildInboundServiceEntry(pkg, prepend, resolved)
  BY ListedOk, MakesOk, ToSetFacts
<1>4. /\ IsList(list) /\ DOMAIN list = DOMAIN resolved.gateways
      /\ \A i \in DOMAIN list : list[i] = buildInboundNetpol(pkg, prepend, resolved.route, resolved.gateways[i])
  BY ListFacts, MapIsList DEF buildInboundNetpols
<1>5. Listed(netpols) /\ \A x : Makes(netpols, x) <=>
        enabled /\ \E i \in DOMAIN resolved.gateways :
          x = buildInboundNetpol(pkg, prepend, resolved.route, resolved.gateways[i])
  <2> HIDE DEF list
  <2>1. CASE enabled
    BY <1>4, <2>1, ListedOk, MakesOk, ToSetFacts
  <2>2. CASE ~enabled
    BY <2>2, ListedOk, MakesOk, ToSetFacts
  <2> QED BY <2>1, <2>2
<1> HIDE DEF vs, entry, netpols
<1>6. /\ Listed(InOrder(<<vs, entry, netpols>>))
      /\ InOrder(<<vs, entry, netpols>>).ok =>
           /\ vs.ok
           /\ \A x : Makes(InOrder(<<vs, entry, netpols>>), x) <=> Makes(vs, x) \/ Makes(entry, x) \/ Makes(netpols, x)
  BY <1>2, <1>3, <1>5, MakesThree
<1> QED BY <1>1, <1>3, <1>5, <1>6 DEF vs

\* Whether the NetworkPolicies of routes are made.
NetpolsEnabled(pkg) == pkg.spec.networkPolicies # Nil /\ pkg.spec.networkPolicies.enabled

LEMMA RoutesMake ==
  ASSUME NEW pkg, NEW routes, NEW inbound, IsList(inbound), IsList(routes.outbound),
         \A i \in DOMAIN inbound : IsList(inbound[i].gateways),
         NetpolsEnabled(pkg) \in BOOLEAN, generateRoutes(pkg, routes, inbound).ok
  PROVE  /\ \A r \in ToSet(inbound) :
              inboundObjects(pkg, routes.prependReleaseName, NetpolsEnabled(pkg), r).ok
         /\ \A x : Makes(generateRoutes(pkg, routes, inbound), x) <=>
              \/ \E r \in ToSet(inbound) :
                   Makes(inboundObjects(pkg, routes.prependReleaseName, NetpolsEnabled(pkg), r), x)
              \/ \E e \in ToSet(routes.outbound) :
                   Makes(outboundObjects(pkg, routes.prependReleaseName, e), x)
<1> DEFINE prepend == routes.prependReleaseName
           outbound == routes.outbound
           f == [i \in DOMAIN inbound |-> inboundObjects(pkg, prepend, NetpolsEnabled(pkg), inbound[i])]
           g == [i \in DOMAIN outbound |-> outboundObjects(pkg, prepend, outbound[i])]
<1>1. generateRoutes(pkg, routes, inbound) = InOrder(<<InOrder(f), InOrder(g)>>)
  BY DEF generateRoutes, ForEach, NetpolsEnabled
<1>2. /\ DOMAIN f = DOMAIN inbound
      /\ \A i \in DOMAIN inbound : f[i] = inboundObjects(pkg, prepend, NetpolsEnabled(pkg), inbound[i])
      /\ DOMAIN g = DOMAIN outbound
      /\ \A i \in DOMAIN outbound : g[i] = outboundObjects(pkg, prepend, outbound[i])
  OBVIOUS
<1> HIDE DEF f, g
<1>3. /\ Listed(InOrder(f))
      /\ InOrder(f).ok => \A x : Makes(InOrder(f), x) <=> \E i \in DOMAIN inbound : Makes(f[i], x)
  <2>1. \A i \in DOMAIN inbound : Listed(f[i])
    BY <1>2, InboundObjectsMake
  <2> QED BY <1>2, <2>1, MakesForEach
<1>4. /\ Listed(InOrder(g))
      /\ InOrder(g).ok => \A x : Makes(InOrder(g), x) <=> \E i \in DOMAIN outbound : Makes(g[i], x)
  <2>1. \A i \in DOMAIN outbound : Listed(g[i])
    BY <1>2, ListedOk DEF outboundObjects
  <2>2. IsList(outbound)
    OBVIOUS
  <2> HIDE DEF outbound
  <2> QED BY <1>2, <2>1, <2>2, MakesForEach
<1>5. /\ InOrder(f).ok /\ InOrder(g).ok
      /\ \A x : Makes(generateRoutes(pkg, routes, inbound), x) <=> Makes(InOrder(f), x) \/ Makes(InOrder(g), x)
  BY <1>1, <1>3, <1>4, MakesTwo
<1>6. \A i \in DOMAIN inbound : f[i].ok
  BY <1>2, <1>5, InOrderOk
<1> QED BY <1>2, <1>3, <1>4, <1>5, <1>6 DEF ToSet

-----------------------------------------------------------------------------
(* The last pass. *)

LastPass(in, raw) ==
  stampMetadata(in.pkg, IF hboneEnabled(in.pkg.spec.networkPolicies, in.pkg.spec.istio)
                          THEN injectHBonePorts(raw) ELSE raw)

\* A rule after the last pass.
InMesh(in, rule) ==
  IF hboneEnabled(in.pkg.spec.networkPolicies, in.pkg.spec.istio) /\ needsHBonePort(rule)
    THEN [rule EXCEPT !.ports = Append(@, Tcp(15008))] ELSE rule
AllInMesh(in, rules) == [i \in DOMAIN rules |-> InMesh(in, rules[i])]

LEMMA StampKeeps ==
  ASSUME NEW pkg, NEW obj, {"kind", "name", "annotations", "spec"} \subseteq DOMAIN obj
  PROVE  /\ stampMetadata(pkg, obj).kind = obj.kind
         /\ stampMetadata(pkg, obj).name = obj.name
         /\ stampMetadata(pkg, obj).annotations = obj.annotations
         /\ stampMetadata(pkg, obj).spec = obj.spec
         /\ stampMetadata(pkg, obj).namespace = pkg.ns
BY DEF stampMetadata, mergeMaps

\* What the injection of the port makes of the rules, and what it leaves alone.
LEMMA InjectionKeeps ==
  ASSUME NEW obj, SoundObject(obj)
  PROVE  LET made == injectHBonePorts(obj)
             With(rule) == IF needsHBonePort(rule)
                             THEN [rule EXCEPT !.ports = Append(@, Tcp(15008))] ELSE rule
         IN /\ {"kind", "name", "annotations", "spec"} \subseteq DOMAIN made
            /\ made.kind = obj.kind /\ made.name = obj.name /\ made.annotations = obj.annotations
            /\ obj.kind # "NetworkPolicy" => made.spec = obj.spec
            /\ obj.kind = "NetworkPolicy" =>
                 /\ made.spec.selector = obj.spec.selector
                 /\ made.spec.egress = [i \in DOMAIN obj.spec.egress |-> With(obj.spec.egress[i])]
                 /\ made.spec.ingress = [i \in DOMAIN obj.spec.ingress |-> With(obj.spec.ingress[i])]
<1> DEFINE Needs(rules) == \E i \in DOMAIN rules : needsHBonePort(rules[i])
           With(rule) == IF needsHBonePort(rule)
                           THEN [rule EXCEPT !.ports = Append(@, Tcp(15008))] ELSE rule
           Inject(rules) == [i \in DOMAIN rules |-> With(rules[i])]
           needed == obj.kind = "NetworkPolicy" /\ (Needs(obj.spec.egress) \/ Needs(obj.spec.ingress))
           made == [obj EXCEPT !.spec.egress = Inject(@), !.spec.ingress = Inject(@),
                               !.labels = mergeMaps(@, [hbone_injected |-> <<"true">>])]
<1>1. injectHBonePorts(obj) = IF needed THEN made ELSE obj
  BY DEF injectHBonePorts
<1>2. HasFields(obj, {"kind", "name", "labels", "annotations", "spec"})
  BY DEF SoundObject
<1>3. obj.kind = "NetworkPolicy" =>
        /\ HasFields(obj.spec, {"selector", "types", "egress", "ingress"})
        /\ IsList(obj.spec.egress) /\ IsList(obj.spec.ingress)
  BY DEF SoundObject, SoundPolicy, AllOf
<1>4. CASE ~needed
  <2>1. ASSUME NEW rules, IsList(rules), ~Needs(rules) PROVE rules = Inject(rules)
    <3>1. \A i \in DOMAIN rules : rules[i] = With(rules[i])
      BY <2>1
    <3>2. rules = [i \in DOMAIN rules |-> rules[i]]
      BY <2>1 DEF IsList
    <3> HIDE DEF With
    <3> QED BY <3>1, <3>2
  <2> HIDE DEF With, Needs, Inject
  <2>2. obj.kind = "NetworkPolicy" =>
          obj.spec.egress = Inject(obj.spec.egress) /\ obj.spec.ingress = Inject(obj.spec.ingress)
    BY <1>3, <1>4, <2>1
  <2>3. injectHBonePorts(obj) = obj /\ {"kind", "name", "annotations", "spec"} \subseteq DOMAIN obj
    BY <1>1, <1>2, <1>4 DEF HasFields
  <2> QED BY <2>2, <2>3 DEF With, Inject
<1>5. CASE needed
  <2> HIDE DEF Inject, Needs, With
  <2>1. /\ made.kind = obj.kind /\ made.name = obj.name /\ made.annotations = obj.annotations
        /\ {"kind", "name", "annotations", "spec"} \subseteq DOMAIN made
    BY <1>2 DEF HasFields
  <2>2. /\ made.spec.egress = Inject(obj.spec.egress) /\ made.spec.ingress = Inject(obj.spec.ingress)
        /\ made.spec.selector = obj.spec.selector
    BY <1>2, <1>3, <1>5 DEF HasFields
  <2>3. injectHBonePorts(obj) = made /\ obj.kind = "NetworkPolicy"
    BY <1>1, <1>5
  <2> HIDE DEF made
  <2> QED BY <2>1, <2>2, <2>3 DEF Inject, With
<1> QED BY <1>4, <1>5

LEMMA LastPassKeeps ==
  ASSUME NEW in, NEW raw, SoundObject(raw)
  PROVE  /\ LastPass(in, raw).kind = raw.kind /\ LastPass(in, raw).name = raw.name
         /\ LastPass(in, raw).annotations = raw.annotations /\ LastPass(in, raw).namespace = in.pkg.ns
         /\ raw.kind # "NetworkPolicy" => LastPass(in, raw).spec = raw.spec
         /\ raw.kind = "NetworkPolicy" =>
              /\ LastPass(in, raw).spec.selector = raw.spec.selector
              /\ LastPass(in, raw).spec.egress = AllInMesh(in, raw.spec.egress)
              /\ LastPass(in, raw).spec.ingress = AllInMesh(in, raw.spec.ingress)
<1> DEFINE hbone == hboneEnabled(in.pkg.spec.networkPolicies, in.pkg.spec.istio)
           passed == IF hbone THEN injectHBonePorts(raw) ELSE raw
<1>1. LastPass(in, raw) = stampMetadata(in.pkg, passed)
  BY DEF LastPass
<1>2. /\ {"kind", "name", "annotations", "spec"} \subseteq DOMAIN passed
      /\ passed.kind = raw.kind /\ passed.name = raw.name /\ passed.annotations = raw.annotations
      /\ raw.kind # "NetworkPolicy" => passed.spec = raw.spec
      /\ raw.kind = "NetworkPolicy" =>
           /\ passed.spec.selector = raw.spec.selector
           /\ passed.spec.egress = AllInMesh(in, raw.spec.egress)
           /\ passed.spec.ingress = AllInMesh(in, raw.spec.ingress)
  <2>1. CASE hbone
    <3>1. \A rule : InMesh(in, rule) = IF needsHBonePort(rule)
                             THEN [rule EXCEPT !.ports = Append(@, Tcp(15008))] ELSE rule
      BY <2>1 DEF InMesh
    <3>2. passed = injectHBonePorts(raw)
      BY <2>1
    <3> HIDE DEF passed
    <3> QED BY <3>1, <3>2, InjectionKeeps DEF AllInMesh
  <2>2. CASE ~hbone
    <3>1. \A rule : InMesh(in, rule) = rule
      BY <2>2 DEF InMesh
    <3>2. passed = raw
      BY <2>2
    <3>3. {"kind", "name", "annotations", "spec"} \subseteq DOMAIN raw
      BY DEF SoundObject, HasFields
    <3>4. raw.kind = "NetworkPolicy" => IsList(raw.spec.egress) /\ IsList(raw.spec.ingress)
      BY DEF SoundObject, SoundPolicy, AllOf
    <3>5. ASSUME NEW rules, IsList(rules) PROVE rules = AllInMesh(in, rules)
      <4>1. rules = [i \in DOMAIN rules |-> rules[i]]
        BY <3>5 DEF IsList
      <4> QED BY <3>1, <4>1 DEF AllInMesh
    <3> HIDE DEF passed
    <3> QED BY <3>2, <3>3, <3>4, <3>5
  <2> QED BY <2>1, <2>2
<1> HIDE DEF passed
<1> QED BY <1>1, <1>2, StampKeeps

\* One rule and none, after the last pass.
LEMMA LastPassRule ==
  ASSUME NEW in, NEW raw, SoundObject(raw), raw.kind = "NetworkPolicy"
  PROVE  /\ \A rule : raw.spec.egress = <<rule>> => LastPass(in, raw).spec.egress = <<InMesh(in, rule)>>
         /\ \A rule : raw.spec.ingress = <<rule>> => LastPass(in, raw).spec.ingress = <<InMesh(in, rule)>>
         /\ raw.spec.egress = <<>> => LastPass(in, raw).spec.egress = <<>>
         /\ raw.spec.ingress = <<>> => LastPass(in, raw).spec.ingress = <<>>
<1>1. /\ LastPass(in, raw).spec.egress = AllInMesh(in, raw.spec.egress)
      /\ LastPass(in, raw).spec.ingress = AllInMesh(in, raw.spec.ingress)
  BY LastPassKeeps
<1>2. ASSUME NEW rules, NEW rule, rules = <<rule>>
      PROVE  AllInMesh(in, rules) = <<InMesh(in, rule)>>
  BY <1>2 DEF AllInMesh
<1>3. ASSUME NEW rules, rules = <<>>
      PROVE  AllInMesh(in, rules) = <<>>
  BY <1>3 DEF AllInMesh
<1> QED BY <1>1, <1>2, <1>3

\* The ports of a rule after the last pass: its own and, perhaps, the tunnel's.
LEMMA InMeshRule ==
  ASSUME NEW in, NEW rule, HasFields(rule, {"peers", "ports"}), IsList(rule.ports)
  PROVE  /\ InMesh(in, rule).peers = rule.peers
         /\ InMesh(in, rule) = rule
            \/ /\ rule.ports # <<>>
               /\ InMesh(in, rule).ports # <<>>
               /\ ToSet(InMesh(in, rule).ports) = ToSet(rule.ports) \cup {Tcp(15008)}
<1>1. CASE InMesh(in, rule) = rule
  BY <1>1
<1>2. CASE InMesh(in, rule) # rule
  <2>1. rule.ports # <<>> /\ InMesh(in, rule) = [rule EXCEPT !.ports = Append(@, Tcp(15008))]
    BY <1>2 DEF InMesh, needsHBonePort
  <2> DEFINE more == Append(rule.ports, Tcp(15008))
             made == [rule EXCEPT !.ports = more]
  <2>2. made.peers = rule.peers /\ made.ports = more
    <3> HIDE DEF more
    <3> QED BY DEF HasFields
  <2>3. more # <<>> /\ ToSet(more) = ToSet(rule.ports) \cup {Tcp(15008)}
    <3> DEFINE ports == rule.ports
               U == ToSet(ports) \cup {Tcp(15008)}
    <3>1. ports \in Seq(U) /\ Tcp(15008) \in U
      <4>1. ports \in Seq(ToSet(ports))
        BY DEF IsList
      <4> QED BY <4>1
    <3>2. more = Append(ports, Tcp(15008))
      OBVIOUS
    <3> HIDE DEF U, ports, more
    <3>3. /\ Len(ports) \in Nat /\ DOMAIN ports = 1 .. Len(ports) /\ DOMAIN more = 1 .. Len(ports) + 1
          /\ \A i \in 1 .. Len(ports) : more[i] = ports[i]
          /\ more[Len(ports) + 1] = Tcp(15008)
      BY <3>1, <3>2
    <3>4. ToSet(more) = ToSet(ports) \cup {Tcp(15008)}
      <4>1. 1 .. Len(ports) + 1 = (1 .. Len(ports)) \cup {Len(ports) + 1}
        BY <3>3
      <4> QED BY <3>3, <4>1 DEF ToSet
    <3>5. more # <<>>
      BY <3>3
    <3> QED BY <3>4, <3>5 DEF ports
  <2> HIDE DEF more, made
  <2> QED BY <2>1, <2>2, <2>3 DEF made, more
<1> QED BY <1>1, <1>2

-----------------------------------------------------------------------------
(* The whole rendering. *)

Inbound(in) == resolveInboundRoutes(in).objs
PartOf(in, k) == Parts(in, Inbound(in))[k]

\* An object as one of the parts makes it, before the last pass.
Raw(in, x) == \E k \in 1..7 : Makes(PartOf(in, k), x)

LEMMA PartsAre ==
  ASSUME NEW in
  PROVE  /\ DOMAIN Parts(in, Inbound(in)) = 1..7
         /\ PartOf(in, 1) = IF in.pkg.spec.istio = Nil \/ ~in.pkg.spec.istio.enabled THEN Ok(<<>>)
                            ELSE generateIstio(in.pkg, in.pkg.spec.istio)
         /\ PartOf(in, 2) = IF in.pkg.spec.networkPolicies = Nil \/ ~in.pkg.spec.networkPolicies.enabled
                            THEN Ok(<<>>)
                            ELSE generateNetworkPolicies(in.pkg, in.pkg.spec.networkPolicies,
                                                         in.pkg.spec.istio, Env(in))
         /\ PartOf(in, 3) = IF in.pkg.spec.routes = Nil THEN Ok(<<>>)
                            ELSE generateRoutes(in.pkg, in.pkg.spec.routes, Inbound(in))
         /\ PartOf(in, 4) = Ok(generateDefaultAuthzPolicies(in.pkg, in.pkg.spec.istio,
                                                            in.pkg.spec.networkPolicies))
         /\ PartOf(in, 5) = IF in.pkg.spec.networkPolicies = Nil THEN Ok(<<>>)
                            ELSE generateAuthzFromIngressShorthand(in.pkg, in.pkg.spec.networkPolicies,
                                                                   in.pkg.spec.istio)
         /\ PartOf(in, 6) = IF in.pkg.spec.routes = Nil THEN Ok(<<>>)
                            ELSE Ok(generateAuthzFromRoutes(in.pkg, in.pkg.spec.routes,
                                                            in.pkg.spec.istio, Inbound(in)))
         /\ PartOf(in, 7) = generateCustomAuthzPolicies(in.pkg.spec.istio)
BY DEF Parts, PartOf

\* The inbound routes are lists of routes with lists of gateways.
LEMMA InboundListed ==
  ASSUME NEW in, SoundInput(in), resolveInboundRoutes(in).ok
  PROVE  IsList(Inbound(in)) /\ \A i \in DOMAIN Inbound(in) : IsList(Inbound(in)[i].gateways)
<1>1. /\ in.pkg.spec.routes # Nil => SoundRoutes(in.pkg.spec.routes)
      /\ in.ingressConfig # Nil /\ in.ingressConfig.defaults # Nil => IsList(in.ingressConfig.defaults)
  BY DEF SoundInput
<1> QED BY <1>1, InboundIsList DEF Inbound

\* Each part gives sound objects.
LEMMA PartSound ==
  ASSUME NEW in, SoundInput(in), resolveInboundRoutes(in).ok, NEW k \in 1..7
  PROVE  SoundResult(PartOf(in, k))
<1> DEFINE spec == in.pkg.spec
<1>1. SoundResult(Ok(<<>>))
  BY OkSound, SoundShortLists
<1>2. SoundResult(PartOf(in, 1))
  BY <1>1, PartsAre, IstioSound DEF SoundInput, SoundIstio
<1>3. SoundResult(PartOf(in, 2))
  <2>1. /\ Env(in).kubeAPIPorts = in.kubeAPIPorts /\ Env(in).sharedEgress = in.shared.egress
        /\ Env(in).sharedIngress = in.shared.ingress
    BY DEF Env
  <2>2. /\ IsList(Env(in).kubeAPIPorts)
        /\ SoundDefinitions(Env(in).sharedEgress) /\ SoundDefinitions(Env(in).sharedIngress)
    BY <2>1 DEF SoundInput
  <2>3. spec.networkPolicies # Nil => SoundNetworkPolicies(spec.networkPolicies)
    BY DEF SoundInput
  <2> QED BY <1>1, <2>2, <2>3, PartsAre, NetworkPoliciesSound
<1>4. SoundResult(PartOf(in, 3))
  BY <1>1, PartsAre, InboundListed, RoutesSound DEF SoundInput, SoundRoutes
<1>5. SoundResult(PartOf(in, 4))
  BY PartsAre, OkSound, DefaultAuthzSound
<1>6. SoundResult(PartOf(in, 5))
  BY <1>1, PartsAre, AuthzFromIngressSound DEF SoundInput
<1>7. SoundResult(PartOf(in, 6))
  BY <1>1, PartsAre, InboundListed, OkSound, AuthzFromRoutesSound
<1>8. SoundResult(PartOf(in, 7))
  BY PartsAre, CustomAuthzSound DEF SoundInput
<1> QED BY <1>2, <1>3, <1>4, <1>5, <1>6, <1>7, <1>8

\* The objects of a rendering are those of its parts, after the last pass.
LEMMA GenerateMakes ==
  ASSUME NEW in, SoundInput(in), Generate(in).ok
  PROVE  /\ resolveInboundRoutes(in).ok /\ \A k \in 1..7 : PartOf(in, k).ok
         /\ IsList(Generate(in).objs)
         /\ \A x : Raw(in, x) => SoundObject(x)
         /\ \A x : x \in ToSet(Generate(in).objs) <=> \E raw : Raw(in, raw) /\ x = LastPass(in, raw)
<1> DEFINE inbound == resolveInboundRoutes(in)
           parts == Parts(in, Inbound(in))
           out == InOrder(parts)
           hbone == hboneEnabled(in.pkg.spec.networkPolicies, in.pkg.spec.istio)
<1>1. Generate(in) = IF inbound.ok /\ out.ok THEN Ok(Finished(in, hbone, out.objs)) ELSE Err
  BY DEF Generate, Inbound
<1>2. inbound.ok /\ out.ok /\ Generate(in).objs = Finished(in, hbone, out.objs)
  BY <1>1 DEF Ok, Err
<1>3. DOMAIN parts = 1..7 /\ \A k \in 1..7 : parts[k] = PartOf(in, k)
  BY PartsAre DEF PartOf
<1>4. \A k \in 1..7 : SoundResult(parts[k]) /\ Listed(parts[k])
  BY <1>2, <1>3, PartSound, ListedOk
<1> HIDE DEF parts, inbound
<1>5. \A k \in 1..7 : parts[k].ok
  BY <1>2, <1>3, InOrderOk
<1>6. /\ IsList(out.objs)
      /\ \A x : x \in ToSet(out.objs) <=> \E k \in 1..7 : Makes(parts[k], x)
  <2>1. /\ Listed(InOrder(parts))
        /\ InOrder(parts).ok => \A x : Makes(InOrder(parts), x) <=> \E i \in 1..7 : Makes(parts[i], x)
    BY <1>3, <1>4, MakesInOrder
  <2> QED BY <1>2, <2>1 DEF Listed, Makes
<1> HIDE DEF out
<1>7. \A x : Raw(in, x) <=> x \in ToSet(out.objs)
  BY <1>3, <1>6 DEF Raw
<1>8. \A x : Raw(in, x) => SoundObject(x)
  BY <1>3, <1>4 DEF Raw, Makes, SoundResult, SoundObjects, ToSet
<1>9. /\ DOMAIN Generate(in).objs = DOMAIN out.objs
      /\ \A i \in DOMAIN out.objs : Generate(in).objs[i] = LastPass(in, out.objs[i])
  BY <1>2 DEF Finished, LastPass
<1>10. IsList(Generate(in).objs)
  <2>1. Len(out.objs) \in Nat /\ DOMAIN out.objs = 1 .. Len(out.objs)
    BY <1>6, ListFacts
  <2>2. Generate(in).objs = [i \in DOMAIN out.objs |-> Generate(in).objs[i]]
    BY <1>2 DEF Finished
  <2> DEFINE objs == Generate(in).objs
             n == Len(out.objs)
  <2>3. n \in Nat /\ objs = [i \in 1..n |-> objs[i]]
    BY <2>1, <2>2
  <2> HIDE DEF objs, n
  <2> QED BY <2>3, MapIsList DEF objs
<1>11. \A x : x \in ToSet(Generate(in).objs) <=> \E raw \in ToSet(out.objs) : x = LastPass(in, raw)
  BY <1>9 DEF ToSet
<1> QED BY <1>2, <1>3, <1>5, <1>7, <1>8, <1>10, <1>11 DEF inbound

-----------------------------------------------------------------------------
(* What the routes make. *)

LEMMA NetpolsEnabledBoolean ==
  ASSUME NEW pkg
  PROVE  NetpolsEnabled(pkg) \in BOOLEAN
BY DEF NetpolsEnabled

\* The effective gateways are a list.
LEMMA RouteGateways ==
  ASSUME NEW in, SoundInput(in), in.pkg.spec.routes # Nil,
         NEW entry \in ToSet(in.pkg.spec.routes.inbound)
  PROVE  /\ SoundRoute(entry)
         /\ RouteOf(entry, in).gateways = effectiveGateways(entry.val, in.pkg.spec.routes, in.ingressConfig)
         /\ IsList(RouteOf(entry, in).gateways)
         /\ RouteOf(entry, in).selector = IF entry.val.selector = {} THEN NameIs(entry.key) ELSE entry.val.selector
         /\ RouteOf(entry, in).annotations = entry.val.annotations
         /\ RouteOf(entry, in).port = entry.val.port
         /\ RouteOf(entry, in).containerPort = entry.val.containerPort
<1>1. SoundRoutes(in.pkg.spec.routes)
  BY DEF SoundInput
<1>2. SoundRoute(entry)
  BY <1>1 DEF SoundRoutes, AllOf, ToSet
<1>3. IsList(effectiveGateways(entry.val, in.pkg.spec.routes, in.ingressConfig))
  BY <1>1, <1>2, ShortLists DEF SoundRoutes, SoundRoute, effectiveGateways, SoundInput
<1> QED BY <1>2, <1>3 DEF SoundRoute, HasFields, RouteOf

LEMMA RoutePartMakes ==
  ASSUME NEW in, SoundInput(in), Generate(in).ok, in.pkg.spec.routes # Nil
  PROVE  \A x : Makes(PartOf(in, 3), x) <=>
           \/ \E entry \in ToSet(in.pkg.spec.routes.inbound) :
                /\ entry.val.enabled
                /\ Makes(inboundObjects(in.pkg, in.pkg.spec.routes.prependReleaseName,
                                        NetpolsEnabled(in.pkg), ResolvedOf(entry, in)), x)
           \/ \E e \in ToSet(in.pkg.spec.routes.outbound) :
                Makes(outboundObjects(in.pkg, in.pkg.spec.routes.prependReleaseName, e), x)
<1>1. SoundRoutes(in.pkg.spec.routes) /\ IsList(in.pkg.spec.routes.outbound)
  BY DEF SoundInput, SoundRoutes
<1>2. /\ PartOf(in, 3) = generateRoutes(in.pkg, in.pkg.spec.routes, Inbound(in))
      /\ PartOf(in, 3).ok /\ resolveInboundRoutes(in).ok
  BY PartsAre, GenerateMakes
<1>3. IsList(Inbound(in)) /\ \A i \in DOMAIN Inbound(in) : IsList(Inbound(in)[i].gateways)
  BY <1>2, InboundListed
<1>4. \A x : x \in ToSet(Inbound(in)) <=>
        \E entry \in ToSet(in.pkg.spec.routes.inbound) : entry.val.enabled /\ x = ResolvedOf(entry, in)
  BY <1>1, <1>2, InboundMake DEF Inbound
<1>5. NetpolsEnabled(in.pkg) \in BOOLEAN
  BY NetpolsEnabledBoolean
<1>6. \A x : Makes(PartOf(in, 3), x) <=>
        \/ \E r \in ToSet(Inbound(in)) :
             Makes(inboundObjects(in.pkg, in.pkg.spec.routes.prependReleaseName, NetpolsEnabled(in.pkg), r), x)
        \/ \E e \in ToSet(in.pkg.spec.routes.outbound) :
             Makes(outboundObjects(in.pkg, in.pkg.spec.routes.prependReleaseName, e), x)
  BY <1>1, <1>2, <1>3, <1>5, RoutesMake
<1> QED BY <1>4, <1>6

\* The policies that go with the routes.
LEMMA RouteAuthzMakes ==
  ASSUME NEW pkg, NEW routes, NEW istio, NEW inbound, IsList(inbound),
         \A i \in DOMAIN inbound : IsList(inbound[i].gateways)
  PROVE  \A x : x \in ToSet(generateAuthzFromRoutes(pkg, routes, istio, inbound)) <=>
           /\ authzEnabled(istio)
           /\ \E r \in ToSet(inbound) : \E gw \in ToSet(r.gateways) :
                x = buildAuthzFromRoute(pkg, routes.prependReleaseName, r.route, gw, gatewaySuffix(inbound, gw))
<1> DEFINE Policy(r, gw) == buildAuthzFromRoute(pkg, routes.prependReleaseName, r.route, gw,
                                                gatewaySuffix(inbound, gw))
           Policies(r) == [j \in DOMAIN r.gateways |-> Policy(r, r.gateways[j])]
           lists == [i \in DOMAIN inbound |-> Policies(inbound[i])]
<1>1. CASE ~authzEnabled(istio)
  <2>1. generateAuthzFromRoutes(pkg, routes, istio, inbound) = <<>>
    BY <1>1 DEF generateAuthzFromRoutes
  <2> QED BY <1>1, <2>1, ToSetFacts
<1>2. CASE authzEnabled(istio)
  <2>1. generateAuthzFromRoutes(pkg, routes, istio, inbound) = FlattenSeq(lists)
    BY <1>2 DEF generateAuthzFromRoutes
  <2> HIDE DEF Policy
  <2>2. ASSUME NEW r, IsList(r.gateways)
        PROVE  /\ IsList(Policies(r))
               /\ \A x : x \in ToSet(Policies(r)) <=> \E gw \in ToSet(r.gateways) : x = Policy(r, gw)
    <3> DEFINE f == Policies(r)
               n == Len(r.gateways)
    <3>1. n \in Nat /\ DOMAIN r.gateways = 1..n
      BY <2>2, ListFacts
    <3>2. f = [i \in 1..n |-> f[i]]
      BY <3>1
    <3>3. DOMAIN f = DOMAIN r.gateways /\ \A j \in DOMAIN r.gateways : f[j] = Policy(r, r.gateways[j])
      OBVIOUS
    <3> HIDE DEF Policies, f, n
    <3>4. IsList(f)
      BY <3>1, <3>2, MapIsList
    <3>5. \A x : x \in ToSet(f) <=> \E gw \in ToSet(r.gateways) : x = Policy(r, gw)
      BY <3>3 DEF ToSet
    <3> QED BY <3>4, <3>5 DEF f
  <2> HIDE DEF Policies
  <2>3. DOMAIN lists = DOMAIN inbound /\ \A i \in DOMAIN inbound : lists[i] = Policies(inbound[i])
    OBVIOUS
  <2>4. IsList(lists)
    <3>1. Len(inbound) \in Nat /\ DOMAIN inbound = 1 .. Len(inbound)
      BY ListFacts
    <3> QED BY <3>1, MapIsList
  <2> HIDE DEF lists
  <2>5. ToSet(FlattenSeq(lists)) = UNION {ToSet(lists[i]) : i \in DOMAIN lists}
    BY <2>2, <2>3, <2>4, FlattenSeqToSet
  <2>6. \A x : x \in ToSet(FlattenSeq(lists)) <=> \E i \in DOMAIN inbound : x \in ToSet(Policies(inbound[i]))
    BY <2>3, <2>5
  <2>7. \A x : x \in ToSet(FlattenSeq(lists)) <=> \E r \in ToSet(inbound) : x \in ToSet(Policies(r))
    BY <2>6 DEF ToSet
  <2>8. \A r \in ToSet(inbound) : IsList(r.gateways)
    BY DEF ToSet
  <2>9. \A x : x \in ToSet(FlattenSeq(lists)) <=>
                 \E r \in ToSet(inbound) : \E gw \in ToSet(r.gateways) : x = Policy(r, gw)
    BY <2>2, <2>7, <2>8
  <2> QED BY <1>2, <2>1, <2>9 DEF Policy
<1> QED BY <1>1, <1>2

\* Everything an enabled inbound route asks for is made.
LEMMA RouteIsMade ==
  ASSUME NEW in, SoundInput(in), Generate(in).ok, in.pkg.spec.routes # Nil,
         NEW entry \in ToSet(in.pkg.spec.routes.inbound), entry.val.enabled
  PROVE  LET r == RouteOf(entry, in)
             prepend == in.pkg.spec.routes.prependReleaseName
         IN /\ validateInbound(r)
            /\ \E vs : /\ Raw(in, vs) /\ vs.kind = "VirtualService"
                       /\ vs.name = prependName(prepend, in.pkg.name, entry.key)
                       /\ vs.spec.gateways = r.gateways
            /\ NetpolsEnabled(in.pkg) =>
                 \A ref \in ToSet(r.gateways) : Raw(in, buildInboundNetpol(in.pkg, prepend, r, GatewayOf(ref, in)))
            /\ authzEnabled(in.pkg.spec.istio) =>
                 \A ref \in ToSet(r.gateways) : \E suffix :
                   Raw(in, buildAuthzFromRoute(in.pkg, prepend, r, GatewayOf(ref, in), suffix))
<1> DEFINE r == RouteOf(entry, in)
           prepend == in.pkg.spec.routes.prependReleaseName
           resolved == ResolvedOf(entry, in)
           made == inboundObjects(in.pkg, prepend, NetpolsEnabled(in.pkg), resolved)
<1>1. /\ resolveInboundRoutes(in).ok /\ SoundRoutes(in.pkg.spec.routes)
      /\ PartOf(in, 3) = generateRoutes(in.pkg, in.pkg.spec.routes, Inbound(in)) /\ PartOf(in, 3).ok
  BY GenerateMakes, PartsAre DEF SoundInput
<1>2. /\ validateInbound(r)
      /\ resolved \in ToSet(Inbound(in))
  BY <1>1, InboundMake DEF Inbound
<1>3. /\ resolved.route = r /\ resolved.name = entry.key
      /\ DOMAIN resolved.gateways = DOMAIN r.gateways
      /\ \A i \in DOMAIN r.gateways : resolved.gateways[i] = GatewayOf(r.gateways[i], in)
  BY DEF ResolvedOf
<1>4. IsList(Inbound(in)) /\ (\A i \in DOMAIN Inbound(in) : IsList(Inbound(in)[i].gateways))
  BY <1>1, InboundListed
<1>5. IsList(resolved.gateways)
  BY <1>2, <1>4 DEF ToSet
<1> HIDE DEF resolved, r
<1>6. NetpolsEnabled(in.pkg) \in BOOLEAN /\ IsList(in.pkg.spec.routes.outbound)
  BY <1>1, NetpolsEnabledBoolean DEF SoundRoutes
<1>7. made.ok /\ \A x : Makes(made, x) => Makes(PartOf(in, 3), x)
  BY <1>1, <1>2, <1>4, <1>6, RoutesMake
<1>8. /\ buildVirtualService(in.pkg, prepend, resolved).ok
      /\ \A x : Makes(made, x) <=>
           \/ Makes(buildVirtualService(in.pkg, prepend, resolved), x)
           \/ x = buildInboundServiceEntry(in.pkg, prepend, resolved)
           \/ /\ NetpolsEnabled(in.pkg)
              /\ \E i \in DOMAIN resolved.gateways :
                   x = buildInboundNetpol(in.pkg, prepend, resolved.route, resolved.gateways[i])
  BY <1>5, <1>6, <1>7, InboundObjectsMake
<1>9. \A x : Makes(made, x) => Raw(in, x)
  BY <1>7 DEF Raw
<1> HIDE DEF made
<1>10. \E vs : /\ Raw(in, vs) /\ vs.kind = "VirtualService"
               /\ vs.name = prependName(prepend, in.pkg.name, entry.key)
               /\ vs.spec.gateways = r.gateways
  BY <1>3, <1>8, <1>9, VirtualServiceMakes
<1>11. NetpolsEnabled(in.pkg) =>
         \A ref \in ToSet(r.gateways) : Raw(in, buildInboundNetpol(in.pkg, prepend, r, GatewayOf(ref, in)))
  BY <1>3, <1>8, <1>9 DEF ToSet
<1>12. ASSUME authzEnabled(in.pkg.spec.istio), NEW ref \in ToSet(r.gateways)
       PROVE  \E suffix : Raw(in, buildAuthzFromRoute(in.pkg, prepend, r, GatewayOf(ref, in), suffix))
  <2> DEFINE list == generateAuthzFromRoutes(in.pkg, in.pkg.spec.routes, in.pkg.spec.istio, Inbound(in))
             gw == GatewayOf(ref, in)
             policy == buildAuthzFromRoute(in.pkg, prepend, r, gw, gatewaySuffix(Inbound(in), gw))
  <2>1. gw \in ToSet(resolved.gateways)
    BY <1>3 DEF ToSet
  <2> HIDE DEF gw
  <2>2. policy \in ToSet(list)
    BY <1>2, <1>3, <1>4, <1>12, <2>1, RouteAuthzMakes
  <2> HIDE DEF list, policy
  <2>3. Makes(PartOf(in, 6), policy)
    BY <2>2, PartsAre, MakesOk DEF list
  <2>4. Raw(in, policy)
    BY <2>3 DEF Raw
  <2> QED BY <2>4 DEF policy, gw
<1> QED BY <1>2, <1>10, <1>11, <1>12 DEF r

-----------------------------------------------------------------------------
(* Which part an object of some kind comes from. *)

\* What is made for istio is neither a policy nor a VirtualService.
LEMMA IstioPartKinds ==
  ASSUME NEW in, SoundInput(in), Generate(in).ok, NEW x, Makes(PartOf(in, 1), x)
  PROVE  x.kind \in {"PeerAuthentication", "Sidecar", "ServiceEntry"}
<1> DEFINE spec == in.pkg.spec.istio
           pkg == in.pkg
           auth == Ok(<<GeneratedObject("PeerAuthentication",
                          prependName(spec.prependReleaseName, pkg.name, <<"default", "peer", "auth">>),
                          NoEntries, NoEntries, [mtls |-> mTLSMode(spec)])>>)
           sidecar == Ok(sidecarResource(pkg, spec))
           entries == spec.serviceEntries
           One(raw) == IF raw.name = <<>> THEN Err ELSE RawObject("ServiceEntry", raw.name, raw)
           f == [i \in DOMAIN entries |-> One(entries[i])]
           custom == InOrder(f)
<1>1. CASE spec = Nil \/ ~spec.enabled
  BY <1>1, PartsAre, MakesOk, ToSetFacts
<1>2. CASE ~(spec = Nil \/ ~spec.enabled)
  <2>1. PartOf(in, 1) = InOrder(<<auth, sidecar, custom>>)
    BY <1>2, PartsAre DEF generateIstio, generateCustomServiceEntries, ForEach
  <2>2. PartOf(in, 1).ok
    BY GenerateMakes
  <2>3. Listed(auth) /\ \A y : Makes(auth, y) => y.kind = "PeerAuthentication"
    BY ListedOk, MakesOk, ToSetFacts DEF GeneratedObject
  <2>4. Listed(sidecar) /\ \A y : Makes(sidecar, y) => y.kind = "Sidecar"
    BY ListedOk, MakesOk, ToSetFacts DEF GeneratedObject, sidecarResource
  <2>5. ASSUME NEW raw PROVE Listed(One(raw)) /\ \A y : Makes(One(raw), y) => y.kind = "ServiceEntry"
    <3>1. One(raw) = Err \/ One(raw) = Ok(<<GeneratedObject("ServiceEntry", raw.name, raw.labels, raw.annotations, raw.spec)>>)
      BY DEF RawObject
    <3> HIDE DEF One
    <3> QED BY <3>1, ListedOk, MakesOk, ToSetFacts DEF GeneratedObject
  <2>6. IsList(entries)
    BY <1>2 DEF SoundInput, SoundIstio
  <2>7. DOMAIN f = DOMAIN entries /\ \A i \in DOMAIN entries : f[i] = One(entries[i])
    OBVIOUS
  <2> HIDE DEF One, f, entries
  <2>8. Listed(custom) /\ (custom.ok => \A y : Makes(custom, y) => y.kind = "ServiceEntry")
    BY <2>5, <2>6, <2>7, MakesForEach
  <2> HIDE DEF auth, sidecar, custom
  <2>9. /\ custom.ok
        /\ \A y : Makes(PartOf(in, 1), y) <=> Makes(auth, y) \/ Makes(sidecar, y) \/ Makes(custom, y)
    BY <2>1, <2>2, <2>3, <2>4, <2>8, MakesThree
  <2> QED BY <2>3, <2>4, <2>8, <2>9
<1> QED BY <1>1, <1>2

\* The NetworkPolicies of routes have the annotations of a route that decodes.
LEMMA RoutePartKinds ==
  ASSUME NEW in, SoundInput(in), Generate(in).ok, NEW x, Makes(PartOf(in, 3), x)
  PROVE  /\ x.kind \in {"NetworkPolicy", "VirtualService", "ServiceEntry"}
         /\ x.kind = "NetworkPolicy" =>
              /\ in.pkg.spec.routes # Nil
              /\ \E entry \in ToSet(in.pkg.spec.routes.inbound) :
                   entry.val.decodes /\ x.annotations = entry.val.annotations
<1> DEFINE routes == in.pkg.spec.routes
           prepend == routes.prependReleaseName
<1>1. routes # Nil
  BY PartsAre, MakesOk, ToSetFacts
<1>2. \/ \E entry \in ToSet(routes.inbound) :
           /\ entry.val.enabled
           /\ Makes(inboundObjects(in.pkg, prepend, NetpolsEnabled(in.pkg), ResolvedOf(entry, in)), x)
      \/ \E e \in ToSet(routes.outbound) : Makes(outboundObjects(in.pkg, prepend, e), x)
  BY <1>1, RoutePartMakes
<1>3. ASSUME NEW e, Makes(outboundObjects(in.pkg, prepend, e), x) PROVE x.kind = "ServiceEntry"
  <2>1. outboundObjects(in.pkg, prepend, e) \in {Err, Ok(<<>>)}
        \/ outboundObjects(in.pkg, prepend, e) = Ok(<<buildOutboundServiceEntry(in.pkg, prepend, e.key, e.val)>>)
    BY DEF outboundObjects
  <2>2. x = buildOutboundServiceEntry(in.pkg, prepend, e.key, e.val)
    BY <1>3, <2>1, MakesOk, ToSetFacts
  <2> QED BY <2>2 DEF buildOutboundServiceEntry, RouteObject, GeneratedObject
<1>4. ASSUME NEW entry \in ToSet(routes.inbound), entry.val.enabled,
             Makes(inboundObjects(in.pkg, prepend, NetpolsEnabled(in.pkg), ResolvedOf(entry, in)), x)
      PROVE  /\ x.kind \in {"NetworkPolicy", "VirtualService", "ServiceEntry"}
             /\ x.kind = "NetworkPolicy" => entry.val.decodes /\ x.annotations = entry.val.annotations
  <2> DEFINE resolved == ResolvedOf(entry, in)
             made == inboundObjects(in.pkg, prepend, NetpolsEnabled(in.pkg), resolved)
             vs == buildVirtualService(in.pkg, prepend, resolved)
  <2>1. resolveInboundRoutes(in).ok /\ SoundRoutes(routes)
    BY <1>1, GenerateMakes DEF SoundInput
  <2>2. entry.val.decodes /\ resolved \in ToSet(Inbound(in))
    BY <1>1, <1>4, <2>1, InboundMake DEF Inbound
  <2>3. IsList(resolved.gateways)
    BY <2>1, <2>2, InboundListed DEF ToSet
  <2>4. resolved.route.annotations = entry.val.annotations
    <3>1. RouteOf(entry, in).annotations = entry.val.annotations
      BY <1>1, RouteGateways
    <3>2. resolved.route = RouteOf(entry, in)
      BY DEF ResolvedOf
    <3> QED BY <3>1, <3>2
  <2> HIDE DEF resolved
  <2>5. NetpolsEnabled(in.pkg) \in BOOLEAN /\ made.ok
    BY <1>4, NetpolsEnabledBoolean DEF Makes, resolved
  <2>6. /\ vs.ok
        /\ \A y : Makes(made, y) <=>
             \/ Makes(vs, y)
             \/ y = buildInboundServiceEntry(in.pkg, prepend, resolved)
             \/ /\ NetpolsEnabled(in.pkg)
                /\ \E i \in DOMAIN resolved.gateways :
                     y = buildInboundNetpol(in.pkg, prepend, resolved.route, resolved.gateways[i])
    BY <2>3, <2>5, InboundObjectsMake
  <2>7. Makes(made, x)
    BY <1>4 DEF resolved
  <2>8. CASE Makes(vs, x)
    <3>1. x.kind = "VirtualService"
      BY <2>6, <2>8, VirtualServiceMakes
    <3> QED BY <3>1
  <2>9. CASE x = buildInboundServiceEntry(in.pkg, prepend, resolved)
    <3>1. x.kind = "ServiceEntry"
      BY <2>9 DEF buildInboundServiceEntry, RouteObject, GeneratedObject
    <3> QED BY <3>1
  <2>10. ASSUME NEW i \in DOMAIN resolved.gateways,
                x = buildInboundNetpol(in.pkg, prepend, resolved.route, resolved.gateways[i])
         PROVE  x.kind = "NetworkPolicy" /\ x.annotations = resolved.route.annotations
    BY <2>10 DEF buildInboundNetpol, RouteObject, GeneratedObject
  <2> QED BY <2>2, <2>4, <2>6, <2>7, <2>8, <2>9, <2>10
<1> QED BY <1>1, <1>2, <1>3, <1>4

\* The last four parts are AuthorizationPolicies.  Those that are not made for a rule
\* have no annotations, or the user's.
LEMMA AuthzPartKinds ==
  ASSUME NEW in, SoundInput(in), Generate(in).ok, NEW k \in {4, 6, 7}, NEW x, Makes(PartOf(in, k), x)
  PROVE  /\ x.kind = "AuthorizationPolicy"
         /\ PlainSpec(in.pkg.spec) => Plain(x.annotations)
<1> DEFINE istio == in.pkg.spec.istio
           authz == istio.authorizationPolicies
<1>1. CASE k = 4
  <2>1. x \in ToSet(generateDefaultAuthzPolicies(in.pkg, istio, in.pkg.spec.networkPolicies))
    BY <1>1, PartsAre, MakesOk
  <2>2. \E name, spec : x = Authz(name, NoMetadata, spec)
    <3> DEFINE One(wanted, name, spec) == IF wanted THEN <<Authz(name, NoMetadata, spec)>> ELSE <<>>
    <3>1. \E a, b, n, m, s, t : generateDefaultAuthzPolicies(in.pkg, istio, in.pkg.spec.networkPolicies)
                                \in {<<>>, One(a, n, s) \o One(b, m, t)}
      BY DEF generateDefaultAuthzPolicies
    <3>2. PICK a, b, n, m, s, t : generateDefaultAuthzPolicies(in.pkg, istio, in.pkg.spec.networkPolicies)
                                  \in {<<>>, One(a, n, s) \o One(b, m, t)}
      BY <3>1
    <3>3. ASSUME NEW w, NEW name, NEW spec
          PROVE  /\ IsList(One(w, name, spec))
                 /\ \A y \in ToSet(One(w, name, spec)) : y = Authz(name, NoMetadata, spec)
      BY ShortLists, ToSetFacts
    <3> HIDE DEF One
    <3>4. ToSet(One(a, n, s) \o One(b, m, t)) = ToSet(One(a, n, s)) \cup ToSet(One(b, m, t))
      BY <3>3, ConcatenationElements
    <3> DEFINE made == generateDefaultAuthzPolicies(in.pkg, istio, in.pkg.spec.networkPolicies)
    <3> HIDE DEF made
    <3>5. x \in ToSet(made) /\ (made = <<>> \/ made = One(a, n, s) \o One(b, m, t))
      BY <2>1, <3>2 DEF made
    <3>6. x \in ToSet(One(a, n, s)) \/ x \in ToSet(One(b, m, t))
      BY <3>4, <3>5, ToSetFacts
    <3>7. x = Authz(n, NoMetadata, s) \/ x = Authz(m, NoMetadata, t)
      BY <3>3, <3>6
    <3> QED BY <3>7
  <2>3. x.kind = "AuthorizationPolicy" /\ x.annotations = NoEntries
    BY <2>2 DEF Authz, GeneratedObject, NoMetadata
  <2> QED BY <2>3 DEF Plain, NoEntries
<1>2. CASE k = 6
  <2> DEFINE routes == in.pkg.spec.routes
  <2>1. routes # Nil
    BY <1>2, PartsAre, MakesOk, ToSetFacts
  <2>2. x \in ToSet(generateAuthzFromRoutes(in.pkg, routes, istio, Inbound(in)))
    BY <1>2, <2>1, PartsAre, MakesOk
  <2>3. resolveInboundRoutes(in).ok /\ SoundRoutes(routes)
    BY <2>1, GenerateMakes DEF SoundInput
  <2>4. IsList(Inbound(in)) /\ \A i \in DOMAIN Inbound(in) : IsList(Inbound(in)[i].gateways)
    BY <2>3, InboundListed
  <2>5. \E r \in ToSet(Inbound(in)) : \E gw, suffix :
          x = buildAuthzFromRoute(in.pkg, routes.prependReleaseName, r.route, gw, suffix)
    BY <2>2, <2>4, RouteAuthzMakes
  <2>6. PICK r \in ToSet(Inbound(in)) : \E gw, suffix :
          x = buildAuthzFromRoute(in.pkg, routes.prependReleaseName, r.route, gw, suffix)
    BY <2>5
  <2>7. x.kind = "AuthorizationPolicy" /\ x.annotations = r.route.annotations
    BY <2>6 DEF buildAuthzFromRoute, Authz, GeneratedObject
  <2>8. PICK entry \in ToSet(routes.inbound) : r = ResolvedOf(entry, in) /\ entry.val.decodes
    BY <2>1, <2>3, InboundMake DEF Inbound
  <2>9. x.annotations = entry.val.annotations
    <3>1. RouteOf(entry, in).annotations = entry.val.annotations
      BY <2>1, RouteGateways
    <3>2. r.route = RouteOf(entry, in)
      BY <2>8 DEF ResolvedOf
    <3> QED BY <2>7, <3>1, <3>2
  <2> QED BY <2>1, <2>7, <2>8, <2>9 DEF PlainSpec
<1>3. CASE k = 7
  <2> DEFINE Custom(raw) == IF raw.name = <<>> THEN Err ELSE RawObject("AuthorizationPolicy", raw.name, raw)
             Additional(e) == IF ~e.val.enabled THEN Ok(<<>>)
               ELSE RawObject("AuthorizationPolicy",
                              IF e.val.name \in {Nil, <<>>} THEN e.key ELSE e.val.name, e.val)
             policies == authz.custom
             more == authz.additionalPolicies
             f == [i \in DOMAIN policies |-> Custom(policies[i])]
             g == [i \in DOMAIN more |-> Additional(more[i])]
  <2>0. PartOf(in, 7) = generateCustomAuthzPolicies(istio) /\ PartOf(in, 7).ok
    BY PartsAre, GenerateMakes
  <2>1. ~(istio = Nil \/ ~istio.enabled \/ authz = Nil)
    <3> SUFFICES ASSUME istio = Nil \/ ~istio.enabled \/ authz = Nil PROVE FALSE
      OBVIOUS
    <3>1. generateCustomAuthzPolicies(istio) = Ok(<<>>)
      BY DEF generateCustomAuthzPolicies
    <3> QED BY <1>3, <2>0, <3>1, MakesOk, ToSetFacts
  <2>2. PartOf(in, 7) = InOrder(<<InOrder(f), InOrder(g)>>) /\ PartOf(in, 7).ok
    <3>1. generateCustomAuthzPolicies(istio) = InOrder(<<InOrder(f), InOrder(g)>>)
      BY <2>1 DEF generateCustomAuthzPolicies, ForEach
    <3> QED BY <2>0, <3>1
  <2>3. IsList(policies) /\ IsList(more)
    BY <2>1 DEF SoundInput, SoundIstio, SoundAuthorization
  <2>4. ASSUME NEW raw
        PROVE  /\ Listed(Custom(raw))
               /\ \A y : Makes(Custom(raw), y) => /\ y.kind = "AuthorizationPolicy" /\ raw.decodes
                                                  /\ y.annotations = raw.annotations
    <3> DEFINE obj == GeneratedObject("AuthorizationPolicy", raw.name, raw.labels, raw.annotations, raw.spec)
    <3>1. Custom(raw) = Err \/ (Custom(raw) = Ok(<<obj>>) /\ raw.decodes)
      BY DEF RawObject
    <3>2. obj.kind = "AuthorizationPolicy" /\ obj.annotations = raw.annotations
      BY DEF GeneratedObject
    <3> HIDE DEF Custom, obj
    <3> QED BY <3>1, <3>2, ListedOk, MakesOk, ToSetFacts
  <2>5. ASSUME NEW e
        PROVE  /\ Listed(Additional(e))
               /\ \A y : Makes(Additional(e), y) => /\ y.kind = "AuthorizationPolicy" /\ e.val.decodes
                                                    /\ y.annotations = e.val.annotations
    <3> DEFINE raw == e.val
               name == IF raw.name \in {Nil, <<>>} THEN e.key ELSE raw.name
               obj == GeneratedObject("AuthorizationPolicy", name, raw.labels, raw.annotations, raw.spec)
    <3>1. Additional(e) \in {Err, Ok(<<>>)} \/ (Additional(e) = Ok(<<obj>>) /\ raw.decodes)
      BY DEF RawObject
    <3>2. obj.kind = "AuthorizationPolicy" /\ obj.annotations = raw.annotations
      BY DEF GeneratedObject
    <3> HIDE DEF Additional, obj
    <3> QED BY <3>1, <3>2, ListedOk, MakesOk, ToSetFacts
  <2>6. /\ DOMAIN f = DOMAIN policies /\ \A i \in DOMAIN policies : f[i] = Custom(policies[i])
        /\ DOMAIN g = DOMAIN more /\ \A i \in DOMAIN more : g[i] = Additional(more[i])
    OBVIOUS
  <2> HIDE DEF Custom, Additional, f, g
  <2>7. /\ Listed(InOrder(f))
        /\ InOrder(f).ok => \A y : Makes(InOrder(f), y) <=> \E i \in DOMAIN policies : Makes(f[i], y)
    <3> HIDE DEF policies
    <3> QED BY <2>3, <2>4, <2>6, MakesForEach
  <2>8. /\ Listed(InOrder(g))
        /\ InOrder(g).ok => \A y : Makes(InOrder(g), y) <=> \E i \in DOMAIN more : Makes(g[i], y)
    <3> HIDE DEF more
    <3> QED BY <2>3, <2>5, <2>6, MakesForEach
  <2>9. /\ InOrder(f).ok /\ InOrder(g).ok
        /\ \A y : Makes(PartOf(in, 7), y) <=> Makes(InOrder(f), y) \/ Makes(InOrder(g), y)
    BY <2>2, <2>7, <2>8, MakesTwo
  <2>10. \/ \E i \in DOMAIN policies : Makes(Custom(policies[i]), x)
         \/ \E i \in DOMAIN more : Makes(Additional(more[i]), x)
    BY <1>3, <2>6, <2>7, <2>8, <2>9
  <2>11. CASE \E i \in DOMAIN policies : Makes(Custom(policies[i]), x)
    <3>1. PICK i \in DOMAIN policies : Makes(Custom(policies[i]), x)
      BY <2>11
    <3> QED BY <2>1, <2>4, <3>1 DEF PlainSpec, PlainAuthz, ToSet
  <2>12. CASE \E i \in DOMAIN more : Makes(Additional(more[i]), x)
    <3>1. PICK i \in DOMAIN more : Makes(Additional(more[i]), x)
      BY <2>12
    <3> QED BY <2>1, <2>5, <3>1 DEF PlainSpec, PlainAuthz, ToSet
  <2> QED BY <2>10, <2>11, <2>12
<1> QED BY <1>1, <1>2, <1>3

-----------------------------------------------------------------------------
(* Annotations. *)

PlainMetadata(meta) == meta # Nil => Plain(meta.annotations)

\* The metadata of a rule leaves an object what it is, and its own annotations.
LEMMA MetadataKeeps ==
  ASSUME NEW entry, NEW e, NEW obj, HasFields(obj, {"kind", "name", "labels", "annotations", "spec"})
  PROVE  /\ WithMetadata(entry, e, obj).kind = obj.kind
         /\ WithMetadata(entry, e, obj).spec = obj.spec
         /\ \A k \in DOMAIN obj.annotations :
              /\ k \in DOMAIN WithMetadata(entry, e, obj).annotations
              /\ WithMetadata(entry, e, obj).annotations[k] = obj.annotations[k]
         /\ PlainMetadata(Source(entry.val).metadata) /\ PlainMetadata(e.val.metadata) =>
              \A k \in GeneratedKeys : k \in DOMAIN WithMetadata(entry, e, obj).annotations
                                         <=> k \in DOMAIN obj.annotations
<1> DEFINE local == Source(entry.val).metadata
           remote == e.val.metadata
           Given(m) == IF m = Nil THEN NoMetadata ELSE m
           meta == mergeShorthandMetadata(local, remote)
           x == WithMetadata(entry, e, obj)
<1>1. x = [obj EXCEPT !.labels = mergeMaps(meta.labels, @), !.annotations = mergeMaps(meta.annotations, @)]
  BY DEF WithMetadata, applyShorthandMetadata
<1>2. DOMAIN meta.annotations = DOMAIN Given(local).annotations \cup DOMAIN Given(remote).annotations
  BY DEF mergeShorthandMetadata, mergeMaps
<1> HIDE DEF meta, x
<1>3. x.kind = obj.kind /\ x.spec = obj.spec /\ x.annotations = mergeMaps(meta.annotations, obj.annotations)
  BY <1>1 DEF HasFields
<1>4. /\ DOMAIN x.annotations = DOMAIN meta.annotations \cup DOMAIN obj.annotations
      /\ \A k \in DOMAIN obj.annotations : x.annotations[k] = obj.annotations[k]
  BY <1>3 DEF mergeMaps
<1>5. ASSUME NEW m, PlainMetadata(m) PROVE DOMAIN Given(m).annotations \cap GeneratedKeys = {}
  <2>1. DOMAIN NoMetadata.annotations = {}
    BY DEF NoMetadata, NoEntries
  <2> QED BY <1>5, <2>1 DEF PlainMetadata, Plain
<1> HIDE DEF Given
<1>6. ASSUME PlainMetadata(local), PlainMetadata(remote), NEW k \in GeneratedKeys
      PROVE  k \in DOMAIN x.annotations <=> k \in DOMAIN obj.annotations
  BY <1>2, <1>4, <1>5, <1>6
<1> QED BY <1>3, <1>4, <1>6 DEF x

\* Enabled rules have the metadata that was written.
LEMMA RuleMetadataPlain ==
  ASSUME NEW entry, HasFields(entry.val, {"decodes", "podSelector", "metadata", "peer"}),
         entry.val.peer # Nil, PlainRules(entry),
         NEW kind \in {"k8s", "definition", "cidr", "literal"},
         IsList(entry.val.peer[kind]), \A i \in DOMAIN entry.val.peer[kind] : SoundTarget(entry.val.peer[kind][i]),
         NEW e \in ToSet(Enabled(entry.val.peer[kind]))
  PROVE  PlainMetadata(Source(entry.val).metadata) /\ PlainMetadata(e.val.metadata)
<1> DEFINE list == entry.val.peer[kind]
<1>1. Source(entry.val).metadata = entry.val.metadata
  BY DEF Source, HasFields
<1>2. PICK rule \in ToSet(list) : e = [key |-> rule.key, val |-> Target(rule.val)]
  BY EnabledToSet
<1>3. SoundTarget(rule)
  BY <1>2 DEF ToSet
<1>4. e.val.metadata = rule.val.metadata
  <2>1. Target(rule.val).metadata = rule.val.metadata
    BY <1>3 DEF Target, SoundTarget, HasFields
  <2> QED BY <1>2, <2>1
<1>5. PlainEntry(entry) /\ PlainEntry(rule)
  BY <1>2 DEF PlainRules
<1> QED BY <1>1, <1>4, <1>5 DEF PlainEntry, PlainMetadata

\* Whether an object is made from the key of a rule, and not from a literal one.
Keyed(x) == "remote_key" \in DOMAIN x.annotations /\ "from_spec_literal" \notin DOMAIN x.annotations

LEMMA EgressKeys ==
  ASSUME NEW pkg, NEW spec, NEW env, NEW entry, SoundFrom(entry), PlainRules(entry), entry.val.peer # Nil
  PROVE  /\ \A e \in ToSet(Enabled(entry.val.peer.k8s)) : Keyed(EgressK8s(pkg, spec, entry, e))
         /\ \A e \in ToSet(Enabled(entry.val.peer.definition)) : ~Keyed(EgressDefinition(pkg, spec, env, entry, e))
         /\ \A e \in ToSet(Enabled(entry.val.peer.cidr)) : Keyed(EgressCidr(pkg, spec, entry, e))
         /\ \A e \in ToSet(Enabled(entry.val.peer.literal)) : ~Keyed(EgressLiteral(pkg, spec, entry, e))
<1> DEFINE peer == entry.val.peer
<1>1. HasFields(entry.val, {"decodes", "podSelector", "metadata", "peer"})
  BY DEF SoundFrom, SoundEntry
<1>2. /\ IsList(peer.k8s) /\ \A i \in DOMAIN peer.k8s : SoundTarget(peer.k8s[i])
      /\ IsList(peer.definition) /\ \A i \in DOMAIN peer.definition : SoundTarget(peer.definition[i])
      /\ IsList(peer.cidr) /\ \A i \in DOMAIN peer.cidr : SoundTarget(peer.cidr[i])
      /\ IsList(peer.literal) /\ \A i \in DOMAIN peer.literal : SoundTarget(peer.literal[i])
  BY DEF SoundFrom, SoundEntry, AllOf, SoundRemote, SoundCidr, SoundWithPorts, SoundLiteral
<1>3. \A e \in ToSet(Enabled(peer.k8s)) \cup ToSet(Enabled(peer.definition))
               \cup ToSet(Enabled(peer.cidr)) \cup ToSet(Enabled(peer.literal)) :
        PlainMetadata(Source(entry.val).metadata) /\ PlainMetadata(e.val.metadata)
  BY <1>1, <1>2, RuleMetadataPlain
<1>4. {"remote_key", "from_spec_literal"} \subseteq GeneratedKeys
  BY DEF GeneratedKeys
<1>5. ASSUME NEW name, NEW annotations, NEW selector, NEW rules
      PROVE  /\ HasFields(Netpol(pkg, spec, name, annotations, selector, "egress", rules),
                          {"kind", "name", "labels", "annotations", "spec"})
             /\ Netpol(pkg, spec, name, annotations, selector, "egress", rules).annotations = annotations
  BY DEF Netpol, GeneratedObject, HasFields
<1>6. ASSUME NEW e \in ToSet(Enabled(peer.k8s)) PROVE Keyed(EgressK8s(pkg, spec, entry, e))
  <2> DEFINE obj == buildShorthandEgressNetpol(pkg, spec, entry.key, Source(entry.val), e.key,
                                               parseEgressRemoteKey(e.key), e.val)
  <2>1. HasFields(obj, {"kind", "name", "labels", "annotations", "spec"})
        /\ obj.annotations = Annotated(entry.key, e.key)
    BY <1>5 DEF buildShorthandEgressNetpol
  <2>2. EgressK8s(pkg, spec, entry, e) = WithMetadata(entry, e, obj)
    BY DEF EgressK8s
  <2>3. DOMAIN obj.annotations = {"local_key", "remote_key"}
    BY <2>1 DEF Annotated
  <2> HIDE DEF obj
  <2> QED BY <1>3, <1>4, <2>1, <2>2, <2>3, MetadataKeeps DEF Keyed
<1>7. ASSUME NEW e \in ToSet(Enabled(peer.definition)) PROVE ~Keyed(EgressDefinition(pkg, spec, env, entry, e))
  <2> DEFINE obj == buildEgressDefinitionNetpol(pkg, spec, entry.key, Source(entry.val), e.key,
                                                resolveEgressDefinition(spec, e.key, env))
  <2>1. HasFields(obj, {"kind", "name", "labels", "annotations", "spec"})
        /\ obj.annotations = [local_key |-> entry.key, from_definition |-> e.key]
    BY <1>5 DEF buildEgressDefinitionNetpol
  <2>2. EgressDefinition(pkg, spec, env, entry, e) = WithMetadata(entry, e, obj)
    BY DEF EgressDefinition
  <2>3. DOMAIN obj.annotations = {"local_key", "from_definition"}
    BY <2>1
  <2> HIDE DEF obj
  <2> QED BY <1>3, <1>4, <2>1, <2>2, <2>3, MetadataKeeps DEF Keyed
<1>8. ASSUME NEW e \in ToSet(Enabled(peer.cidr)) PROVE Keyed(EgressCidr(pkg, spec, entry, e))
  <2> DEFINE obj == buildEgressCIDRNetpol(pkg, spec, entry.key, Source(entry.val), e.key,
                                          parseEgressCIDRKey(e.key))
  <2>1. HasFields(obj, {"kind", "name", "labels", "annotations", "spec"})
        /\ obj.annotations = Annotated(entry.key, e.key)
    BY <1>5 DEF buildEgressCIDRNetpol
  <2>2. EgressCidr(pkg, spec, entry, e) = WithMetadata(entry, e, obj)
    BY DEF EgressCidr
  <2>3. DOMAIN obj.annotations = {"local_key", "remote_key"}
    BY <2>1 DEF Annotated
  <2> HIDE DEF obj
  <2> QED BY <1>3, <1>4, <2>1, <2>2, <2>3, MetadataKeeps DEF Keyed
<1>9. ASSUME NEW e \in ToSet(Enabled(peer.literal)) PROVE ~Keyed(EgressLiteral(pkg, spec, entry, e))
  <2> DEFINE obj == buildEgressLiteralNetpol(pkg, spec, entry.key, Source(entry.val), e)
  <2>1. HasFields(obj, {"kind", "name", "labels", "annotations", "spec"})
        /\ obj.annotations = LiteralAnnotations(entry.key, e)
    BY <1>5 DEF buildEgressLiteralNetpol
  <2>2. EgressLiteral(pkg, spec, entry, e) = WithMetadata(entry, e, obj)
    BY DEF EgressLiteral
  <2>3. "from_spec_literal" \in DOMAIN obj.annotations
    BY <2>1 DEF LiteralAnnotations, mergeMaps
  <2> HIDE DEF obj
  <2> QED BY <2>1, <2>2, <2>3, MetadataKeeps DEF Keyed
<1> QED BY <1>6, <1>7, <1>8, <1>9

LEMMA IngressKeys ==
  ASSUME NEW pkg, NEW spec, NEW env, NEW entry, SoundTo(entry), PlainRules(entry), entry.val.peer # Nil
  PROVE  /\ \A e \in ToSet(Enabled(entry.val.peer.k8s)) :
              /\ Keyed(IngressK8s(pkg, spec, entry, e))
              /\ IngressK8s(pkg, spec, entry, e).annotations.remote_key = e.key
         /\ \A e \in ToSet(Enabled(entry.val.peer.definition)) : ~Keyed(IngressDefinition(pkg, spec, env, entry, e))
         /\ \A e \in ToSet(Enabled(entry.val.peer.cidr)) :
              /\ Keyed(IngressCidr(pkg, spec, entry, e))
              /\ IngressCidr(pkg, spec, entry, e).annotations.remote_key = e.key
         /\ \A e \in ToSet(Enabled(entry.val.peer.literal)) : ~Keyed(IngressLiteral(pkg, spec, entry, e))
<1> DEFINE peer == entry.val.peer
           to == parseIngressLocalKey(entry.key)
           local == Source(entry.val)
<1>1. HasFields(entry.val, {"decodes", "podSelector", "metadata", "peer"})
  BY DEF SoundTo, SoundEntry
<1>2. /\ IsList(peer.k8s) /\ \A i \in DOMAIN peer.k8s : SoundTarget(peer.k8s[i])
      /\ IsList(peer.definition) /\ \A i \in DOMAIN peer.definition : SoundTarget(peer.definition[i])
      /\ IsList(peer.cidr) /\ \A i \in DOMAIN peer.cidr : SoundTarget(peer.cidr[i])
      /\ IsList(peer.literal) /\ \A i \in DOMAIN peer.literal : SoundTarget(peer.literal[i])
  BY DEF SoundTo, SoundEntry, AllOf, SoundLiteral
<1>3. \A e \in ToSet(Enabled(peer.k8s)) \cup ToSet(Enabled(peer.definition))
               \cup ToSet(Enabled(peer.cidr)) \cup ToSet(Enabled(peer.literal)) :
        PlainMetadata(Source(entry.val).metadata) /\ PlainMetadata(e.val.metadata)
  BY <1>1, <1>2, RuleMetadataPlain
<1>4. {"remote_key", "from_spec_literal"} \subseteq GeneratedKeys
  BY DEF GeneratedKeys
<1>5. ASSUME NEW name, NEW annotations, NEW selector, NEW rules
      PROVE  /\ HasFields(Netpol(pkg, spec, name, annotations, selector, "ingress", rules),
                          {"kind", "name", "labels", "annotations", "spec"})
             /\ Netpol(pkg, spec, name, annotations, selector, "ingress", rules).annotations = annotations
  BY DEF Netpol, GeneratedObject, HasFields
<1>6. ASSUME NEW e \in ToSet(Enabled(peer.k8s))
      PROVE  Keyed(IngressK8s(pkg, spec, entry, e)) /\ IngressK8s(pkg, spec, entry, e).annotations.remote_key = e.key
  <2> DEFINE obj == buildShorthandIngressNetpol(pkg, spec, to, local, e.key, parseIngressRemoteKey(e.key), e.val)
  <2>1. HasFields(obj, {"kind", "name", "labels", "annotations", "spec"})
        /\ obj.annotations = Annotated(to.pod, e.key)
    BY <1>5 DEF buildShorthandIngressNetpol
  <2>2. IngressK8s(pkg, spec, entry, e) = WithMetadata(entry, e, obj)
    BY DEF IngressK8s
  <2>3. DOMAIN obj.annotations = {"local_key", "remote_key"} /\ obj.annotations["remote_key"] = e.key
    BY <2>1 DEF Annotated
  <2> HIDE DEF obj
  <2> QED BY <1>3, <1>4, <2>1, <2>2, <2>3, MetadataKeeps DEF Keyed
<1>7. ASSUME NEW e \in ToSet(Enabled(peer.definition)) PROVE ~Keyed(IngressDefinition(pkg, spec, env, entry, e))
  <2> DEFINE obj == buildIngressDefinitionNetpol(pkg, spec, to, local, e.key,
                                                 resolveIngressDefinition(spec, e.key, env))
  <2>1. HasFields(obj, {"kind", "name", "labels", "annotations", "spec"})
        /\ obj.annotations = [local_key |-> to.pod, from_definition |-> e.key]
    BY <1>5 DEF buildIngressDefinitionNetpol
  <2>2. IngressDefinition(pkg, spec, env, entry, e) = WithMetadata(entry, e, obj)
    BY DEF IngressDefinition
  <2>3. DOMAIN obj.annotations = {"local_key", "from_definition"}
    BY <2>1
  <2> HIDE DEF obj
  <2> QED BY <1>3, <1>4, <2>1, <2>2, <2>3, MetadataKeeps DEF Keyed
<1>8. ASSUME NEW e \in ToSet(Enabled(peer.cidr))
      PROVE  Keyed(IngressCidr(pkg, spec, entry, e)) /\ IngressCidr(pkg, spec, entry, e).annotations.remote_key = e.key
  <2> DEFINE obj == buildIngressCIDRNetpol(pkg, spec, to, local, e.key, parseIngressCIDRKey(e.key))
  <2>1. HasFields(obj, {"kind", "name", "labels", "annotations", "spec"})
        /\ obj.annotations = Annotated(to.pod, e.key)
    BY <1>5 DEF buildIngressCIDRNetpol
  <2>2. IngressCidr(pkg, spec, entry, e) = WithMetadata(entry, e, obj)
    BY DEF IngressCidr
  <2>3. DOMAIN obj.annotations = {"local_key", "remote_key"} /\ obj.annotations["remote_key"] = e.key
    BY <2>1 DEF Annotated
  <2> HIDE DEF obj
  <2> QED BY <1>3, <1>4, <2>1, <2>2, <2>3, MetadataKeeps DEF Keyed
<1>9. ASSUME NEW e \in ToSet(Enabled(peer.literal)) PROVE ~Keyed(IngressLiteral(pkg, spec, entry, e))
  <2> DEFINE obj == buildIngressLiteralNetpol(pkg, spec, to, local, e)
  <2>1. HasFields(obj, {"kind", "name", "labels", "annotations", "spec"})
        /\ obj.annotations = LiteralAnnotations(to.pod, e)
    BY <1>5 DEF buildIngressLiteralNetpol
  <2>2. IngressLiteral(pkg, spec, entry, e) = WithMetadata(entry, e, obj)
    BY DEF IngressLiteral
  <2>3. "from_spec_literal" \in DOMAIN obj.annotations
    BY <2>1 DEF LiteralAnnotations, mergeMaps
  <2> HIDE DEF obj
  <2> QED BY <2>1, <2>2, <2>3, MetadataKeeps DEF Keyed
<1> QED BY <1>6, <1>7, <1>8, <1>9

-----------------------------------------------------------------------------
(* The policies that are made from the keys of rules. *)

\* A default policy, when it is wanted, and all those of a side.
DefaultIf(pkg, spec, direction, wanted, what, rules) ==
  IF wanted THEN DefaultNetpol(pkg, spec, direction, what, rules) ELSE <<>>

EgressDefault(pkg, spec, istio, default) ==
  CASE default = "denyAll" ->
         DefaultIf(pkg, spec, "egress", Wanted(spec.egress, "denyAll"), <<"deny", "all">>, <<>>)
    [] default = "allowInNamespace" ->
         DefaultIf(pkg, spec, "egress", Wanted(spec.egress, "allowInNamespace"),
                   <<"allow", "all", "in", "ns">>, <<Rule(<<Pods(Nil, {})>>, <<>>)>>)
    [] default = "allowKubeDNS" ->
         DefaultIf(pkg, spec, "egress", Wanted(spec.egress, "allowKubeDNS"),
                   <<"allow", "kube", "dns">>, <<Rule(<<kubeDNS>>, <<Udp(53), Tcp(53)>>)>>)
    [] default = "allowIstiod" ->
         DefaultIf(pkg, spec, "egress", Wanted(spec.egress, "allowIstiod") /\ ~istioAmbient(istio),
                   <<"allow", "istiod">>, <<Rule(<<istiod>>, <<Tcp(15012)>>)>>)
IngressDefault(pkg, spec, istio, default) ==
  CASE default = "denyAll" ->
         DefaultIf(pkg, spec, "ingress", Wanted(spec.ingress, "denyAll"), <<"deny", "all">>, <<>>)
    [] default = "allowInNamespace" ->
         DefaultIf(pkg, spec, "ingress", Wanted(spec.ingress, "allowInNamespace"),
                   <<"allow", "all", "in", "ns">>, <<Rule(<<Pods(Nil, {})>>, <<>>)>>)
    [] default = "allowPrometheusToIstioSidecar" ->
         DefaultIf(pkg, spec, "ingress",
                   Wanted(spec.ingress, "allowPrometheusToIstioSidecar") /\ ~istioAmbient(istio),
                   <<"allow", "prometheus", "to", "istio", "sidecar">>,
                   <<Rule(<<prometheus>>, <<Tcp(15020)>>)>>)
    [] default = "kubelet" ->
         DefaultIf(pkg, spec, "ingress", istioAmbient(istio) /\ SideEnabled(spec.ingress),
                   <<"allow", "ambient", "kubelet">>, <<Rule(<<kubelet>>, <<>>)>>)

LEMMA DefaultsAre ==
  ASSUME NEW pkg, NEW spec, NEW istio
  PROVE  /\ defaultEgressPolicies(pkg, spec, istio) =
              EgressDefault(pkg, spec, istio, "denyAll") \o EgressDefault(pkg, spec, istio, "allowInNamespace")
              \o EgressDefault(pkg, spec, istio, "allowKubeDNS") \o EgressDefault(pkg, spec, istio, "allowIstiod")
         /\ defaultIngressPolicies(pkg, spec, istio) =
              IngressDefault(pkg, spec, istio, "denyAll") \o IngressDefault(pkg, spec, istio, "allowInNamespace")
              \o IngressDefault(pkg, spec, istio, "allowPrometheusToIstioSidecar")
              \o IngressDefault(pkg, spec, istio, "kubelet")
<1>1. defaultEgressPolicies(pkg, spec, istio) =
      EgressDefault(pkg, spec, istio, "denyAll") \o EgressDefault(pkg, spec, istio, "allowInNamespace")
      \o EgressDefault(pkg, spec, istio, "allowKubeDNS") \o EgressDefault(pkg, spec, istio, "allowIstiod")
  <2> DEFINE p == DefaultIf(pkg, spec, "egress", Wanted(spec.egress, "denyAll"), <<"deny", "all">>, <<>>)
             q == DefaultIf(pkg, spec, "egress", Wanted(spec.egress, "allowInNamespace"), <<"allow", "all", "in", "ns">>,
                            <<Rule(<<Pods(Nil, {})>>, <<>>)>>)
             r == DefaultIf(pkg, spec, "egress", Wanted(spec.egress, "allowKubeDNS"), <<"allow", "kube", "dns">>,
                            <<Rule(<<kubeDNS>>, <<Udp(53), Tcp(53)>>)>>)
             s == DefaultIf(pkg, spec, "egress", Wanted(spec.egress, "allowIstiod") /\ ~istioAmbient(istio),
                            <<"allow", "istiod">>, <<Rule(<<istiod>>, <<Tcp(15012)>>)>>)
  <2>1. defaultEgressPolicies(pkg, spec, istio) = p \o q \o r \o s
    BY DEF defaultEgressPolicies, DefaultIf
  <2>2. EgressDefault(pkg, spec, istio, "denyAll") = p
    BY DEF EgressDefault
  <2>3. EgressDefault(pkg, spec, istio, "allowInNamespace") = q
    BY DEF EgressDefault
  <2>4. EgressDefault(pkg, spec, istio, "allowKubeDNS") = r
    BY DEF EgressDefault
  <2>5. EgressDefault(pkg, spec, istio, "allowIstiod") = s
    BY DEF EgressDefault
  <2> HIDE DEF p, q, r, s
  <2> QED BY <2>1, <2>2, <2>3, <2>4, <2>5
<1>2. defaultIngressPolicies(pkg, spec, istio) =
      IngressDefault(pkg, spec, istio, "denyAll") \o IngressDefault(pkg, spec, istio, "allowInNamespace")
      \o IngressDefault(pkg, spec, istio, "allowPrometheusToIstioSidecar") \o IngressDefault(pkg, spec, istio, "kubelet")
  <2> DEFINE p == DefaultIf(pkg, spec, "ingress", Wanted(spec.ingress, "denyAll"), <<"deny", "all">>, <<>>)
             q == DefaultIf(pkg, spec, "ingress", Wanted(spec.ingress, "allowInNamespace"), <<"allow", "all", "in", "ns">>,
                            <<Rule(<<Pods(Nil, {})>>, <<>>)>>)
             r == DefaultIf(pkg, spec, "ingress", Wanted(spec.ingress, "allowPrometheusToIstioSidecar") /\ ~istioAmbient(istio),
                            <<"allow", "prometheus", "to", "istio", "sidecar">>, <<Rule(<<prometheus>>, <<Tcp(15020)>>)>>)
             s == DefaultIf(pkg, spec, "ingress", istioAmbient(istio) /\ SideEnabled(spec.ingress),
                            <<"allow", "ambient", "kubelet">>, <<Rule(<<kubelet>>, <<>>)>>)
  <2>1. defaultIngressPolicies(pkg, spec, istio) = p \o q \o r \o s
    BY DEF defaultIngressPolicies, DefaultIf
  <2>2. IngressDefault(pkg, spec, istio, "denyAll") = p
    BY DEF IngressDefault
  <2>3. IngressDefault(pkg, spec, istio, "allowInNamespace") = q
    BY DEF IngressDefault
  <2>4. IngressDefault(pkg, spec, istio, "allowPrometheusToIstioSidecar") = r
    BY DEF IngressDefault
  <2>5. IngressDefault(pkg, spec, istio, "kubelet") = s
    BY DEF IngressDefault
  <2> HIDE DEF p, q, r, s
  <2> QED BY <2>1, <2>2, <2>3, <2>4, <2>5
<1> QED BY <1>1, <1>2

\* The default policies are NetworkPolicies without annotations.
PlainNetpol(x) == x.kind = "NetworkPolicy" /\ x.annotations = NoEntries

LEMMA DefaultsUnkeyed ==
  ASSUME NEW pkg, NEW spec, NEW istio, NEW x,
         x \in ToSet(defaultEgressPolicies(pkg, spec, istio)) \cup ToSet(defaultIngressPolicies(pkg, spec, istio))
  PROVE  ~Keyed(x) /\ x.kind = "NetworkPolicy"
<1>1. ASSUME NEW direction, NEW wanted, NEW what, NEW rules
      PROVE  /\ IsList(DefaultIf(pkg, spec, direction, wanted, what, rules))
             /\ \A y \in ToSet(DefaultIf(pkg, spec, direction, wanted, what, rules)) : PlainNetpol(y)
  <2> DEFINE obj == Netpol(pkg, spec, <<"default", direction>> \o what, NoEntries, {}, direction, rules)
  <2>1. PlainNetpol(obj)
    BY DEF Netpol, GeneratedObject, PlainNetpol
  <2>2. DefaultIf(pkg, spec, direction, wanted, what, rules) \in {<<>>, <<obj>>}
    BY DEF DefaultIf, DefaultNetpol
  <2> HIDE DEF obj
  <2> QED BY <2>1, <2>2, ShortLists, ToSetFacts
<1>2. ASSUME NEW p, NEW q, NEW r, NEW s, IsList(p), IsList(q), IsList(r), IsList(s),
             \A y \in ToSet(p) \cup ToSet(q) \cup ToSet(r) \cup ToSet(s) : PlainNetpol(y)
      PROVE  \A y \in ToSet(p \o q \o r \o s) : PlainNetpol(y)
  <2>1. IsList(p \o q) /\ ToSet(p \o q) = ToSet(p) \cup ToSet(q)
    BY <1>2, ConcatenationElements
  <2>2. IsList(p \o q \o r) /\ ToSet(p \o q \o r) = ToSet(p \o q) \cup ToSet(r)
    BY <1>2, <2>1, ConcatenationElements
  <2>3. ToSet(p \o q \o r \o s) = ToSet(p \o q \o r) \cup ToSet(s)
    BY <1>2, <2>2, ConcatenationElements
  <2> QED BY <1>2, <2>1, <2>2, <2>3
<1>3. \A default \in {"denyAll", "allowInNamespace", "allowKubeDNS", "allowIstiod"} :
        /\ IsList(EgressDefault(pkg, spec, istio, default))
        /\ \A y \in ToSet(EgressDefault(pkg, spec, istio, default)) : PlainNetpol(y)
  BY <1>1 DEF EgressDefault
<1>4. \A default \in {"denyAll", "allowInNamespace", "allowPrometheusToIstioSidecar", "kubelet"} :
        /\ IsList(IngressDefault(pkg, spec, istio, default))
        /\ \A y \in ToSet(IngressDefault(pkg, spec, istio, default)) : PlainNetpol(y)
  BY <1>1 DEF IngressDefault
<1>5. \A y \in ToSet(defaultEgressPolicies(pkg, spec, istio)) : PlainNetpol(y)
  <2> DEFINE p == EgressDefault(pkg, spec, istio, "denyAll")
             q == EgressDefault(pkg, spec, istio, "allowInNamespace")
             r == EgressDefault(pkg, spec, istio, "allowKubeDNS")
             s == EgressDefault(pkg, spec, istio, "allowIstiod")
  <2>1. defaultEgressPolicies(pkg, spec, istio) = p \o q \o r \o s
    BY DefaultsAre
  <2>2. /\ IsList(p) /\ IsList(q) /\ IsList(r) /\ IsList(s)
        /\ \A y \in ToSet(p) \cup ToSet(q) \cup ToSet(r) \cup ToSet(s) : PlainNetpol(y)
    BY <1>3
  <2> HIDE DEF p, q, r, s
  <2> QED BY <1>2, <2>1, <2>2
<1>6. \A y \in ToSet(defaultIngressPolicies(pkg, spec, istio)) : PlainNetpol(y)
  <2> DEFINE p == IngressDefault(pkg, spec, istio, "denyAll")
             q == IngressDefault(pkg, spec, istio, "allowInNamespace")
             r == IngressDefault(pkg, spec, istio, "allowPrometheusToIstioSidecar")
             s == IngressDefault(pkg, spec, istio, "kubelet")
  <2>1. defaultIngressPolicies(pkg, spec, istio) = p \o q \o r \o s
    BY DefaultsAre
  <2>2. /\ IsList(p) /\ IsList(q) /\ IsList(r) /\ IsList(s)
        /\ \A y \in ToSet(p) \cup ToSet(q) \cup ToSet(r) \cup ToSet(s) : PlainNetpol(y)
    BY <1>4
  <2> HIDE DEF p, q, r, s
  <2> QED BY <1>2, <2>1, <2>2
<1>7. PlainNetpol(x)
  BY <1>5, <1>6
<1> QED BY <1>7 DEF Keyed, NoEntries, PlainNetpol

\* The policies of an enabled k8s or CIDR rule of the Package's.
FromEgress(in, x) ==
  /\ in.pkg.spec.networkPolicies.egress # Nil
  /\ \E entry \in ToSet(in.pkg.spec.networkPolicies.egress.from) :
       /\ entry.val.peer # Nil
       /\ \/ \E e \in ToSet(Enabled(entry.val.peer.k8s)) :
               x = EgressK8s(in.pkg, in.pkg.spec.networkPolicies, entry, e)
          \/ \E e \in ToSet(Enabled(entry.val.peer.cidr)) :
               x = EgressCidr(in.pkg, in.pkg.spec.networkPolicies, entry, e)
FromIngress(in, x) ==
  /\ in.pkg.spec.networkPolicies.ingress # Nil
  /\ \E entry \in ToSet(in.pkg.spec.networkPolicies.ingress.to) :
       /\ entry.val.peer # Nil
       /\ \/ \E e \in ToSet(Enabled(entry.val.peer.k8s)) :
               x = IngressK8s(in.pkg, in.pkg.spec.networkPolicies, entry, e)
          \/ \E e \in ToSet(Enabled(entry.val.peer.cidr)) :
               x = IngressCidr(in.pkg, in.pkg.spec.networkPolicies, entry, e)

\* The second part, when there is one.
LEMMA NetpolPart ==
  ASSUME NEW in, SoundInput(in), Generate(in).ok
  PROVE  /\ ~NetpolsEnabled(in.pkg) => \A x : ~Makes(PartOf(in, 2), x)
         /\ NetpolsEnabled(in.pkg) =>
              /\ in.pkg.spec.networkPolicies # Nil /\ SoundNetworkPolicies(in.pkg.spec.networkPolicies)
              /\ PartOf(in, 2) = generateNetworkPolicies(in.pkg, in.pkg.spec.networkPolicies,
                                                         in.pkg.spec.istio, Env(in))
              /\ PartOf(in, 2).ok
<1>1. CASE in.pkg.spec.networkPolicies = Nil \/ ~in.pkg.spec.networkPolicies.enabled
  <2>1. ~NetpolsEnabled(in.pkg)
    BY <1>1 DEF NetpolsEnabled
  <2>2. PartOf(in, 2) = Ok(<<>>)
    BY <1>1, PartsAre
  <2> QED BY <2>1, <2>2, MakesOk, ToSetFacts
<1>2. CASE ~(in.pkg.spec.networkPolicies = Nil \/ ~in.pkg.spec.networkPolicies.enabled)
  <2>1. NetpolsEnabled(in.pkg)
    BY <1>2 DEF NetpolsEnabled
  <2>2. in.pkg.spec.networkPolicies # Nil /\ SoundNetworkPolicies(in.pkg.spec.networkPolicies)
    BY <1>2 DEF SoundInput
  <2> QED BY <1>2, <2>1, <2>2, PartsAre, GenerateMakes
<1> QED BY <1>1, <1>2

\* Every enabled rule could be read.
LEMMA RulesAreRead ==
  ASSUME NEW in, SoundInput(in), Generate(in).ok, NetpolsEnabled(in.pkg)
  PROVE  /\ in.pkg.spec.networkPolicies.egress # Nil =>
              \A entry \in ToSet(in.pkg.spec.networkPolicies.egress.from) :
                /\ SoundFrom(entry) /\ entry.val.decodes
                /\ entry.val.peer # Nil =>
                     /\ \A e \in ToSet(Enabled(entry.val.peer.k8s)) : parseEgressRemoteKey(e.key) # Nil
                     /\ \A e \in ToSet(Enabled(entry.val.peer.cidr)) : parseEgressCIDRKey(e.key) # Nil
         /\ in.pkg.spec.networkPolicies.ingress # Nil =>
              \A entry \in ToSet(in.pkg.spec.networkPolicies.ingress.to) :
                /\ SoundTo(entry) /\ entry.val.decodes
                /\ entry.val.peer # Nil =>
                     /\ parseIngressLocalKey(entry.key) # Nil
                     /\ \A e \in ToSet(Enabled(entry.val.peer.k8s)) : parseIngressRemoteKey(e.key) # Nil
                     /\ \A e \in ToSet(Enabled(entry.val.peer.cidr)) : parseIngressCIDRKey(e.key) # Nil
<1> DEFINE np == in.pkg.spec.networkPolicies
<1>1. /\ np # Nil /\ SoundNetworkPolicies(np)
      /\ generateNetworkPolicies(in.pkg, np, in.pkg.spec.istio, Env(in)).ok
  BY NetpolPart
<1> HIDE DEF np
<1>2. /\ np.egress # Nil => \A entry \in ToSet(np.egress.from) : expandEgressSource(in.pkg, np, Env(in), entry).ok
      /\ np.ingress # Nil => \A entry \in ToSet(np.ingress.to) : expandIngressTarget(in.pkg, np, Env(in), entry).ok
  BY <1>1, NetworkPoliciesMake
<1>3. /\ np.egress # Nil => \A entry \in ToSet(np.egress.from) : SoundFrom(entry)
      /\ np.ingress # Nil => \A entry \in ToSet(np.ingress.to) : SoundTo(entry)
  BY <1>1 DEF SoundNetworkPolicies, SoundEgress, SoundIngress, AllOf, ToSet
<1> QED BY <1>2, <1>3, EgressSourceMakes, IngressTargetMakes DEF np

\* The policies of rules are NetworkPolicies.
LEMMA RuleKinds ==
  ASSUME NEW pkg, NEW spec, NEW entry, NEW e
  PROVE  /\ EgressK8s(pkg, spec, entry, e).kind = "NetworkPolicy"
         /\ EgressCidr(pkg, spec, entry, e).kind = "NetworkPolicy"
         /\ IngressK8s(pkg, spec, entry, e).kind = "NetworkPolicy"
         /\ IngressCidr(pkg, spec, entry, e).kind = "NetworkPolicy"
<1>1. ASSUME NEW name, NEW annotations, NEW selector, NEW direction, NEW rules
      PROVE  WithMetadata(entry, e, Netpol(pkg, spec, name, annotations, selector, direction, rules)).kind
               = "NetworkPolicy"
  <2> DEFINE obj == Netpol(pkg, spec, name, annotations, selector, direction, rules)
  <2>1. HasFields(obj, {"kind", "name", "labels", "annotations", "spec"}) /\ obj.kind = "NetworkPolicy"
    BY DEF Netpol, GeneratedObject, HasFields
  <2> HIDE DEF obj
  <2> QED BY <2>1, MetadataKeeps DEF obj
<1>2. EgressK8s(pkg, spec, entry, e).kind = "NetworkPolicy"
  BY <1>1 DEF EgressK8s, buildShorthandEgressNetpol
<1>3. EgressCidr(pkg, spec, entry, e).kind = "NetworkPolicy"
  BY <1>1 DEF EgressCidr, buildEgressCIDRNetpol
<1>4. IngressK8s(pkg, spec, entry, e).kind = "NetworkPolicy"
  BY <1>1 DEF IngressK8s, buildShorthandIngressNetpol
<1>5. IngressCidr(pkg, spec, entry, e).kind = "NetworkPolicy"
  BY <1>1 DEF IngressCidr, buildIngressCIDRNetpol
<1> QED BY <1>2, <1>3, <1>4, <1>5

\* The AuthorizationPolicies of the rules: the pods and the ports of the local key.
LEMMA CompanionSpecs ==
  ASSUME NEW pkg, NEW prepend, NEW entry, NEW e, NEW x,
         x \in {AuthzK8s(pkg, prepend, entry, e), AuthzCidr(pkg, prepend, entry, e)}
  PROVE  /\ x.kind = "AuthorizationPolicy"
         /\ \E from, who : x.spec = Allow(ingressSelector(parseIngressLocalKey(entry.key), Source(entry.val)),
              <<AuthzRule(from, who, operationPorts(parseIngressLocalKey(entry.key)))>>)
<1> DEFINE to == parseIngressLocalKey(entry.key)
           local == Source(entry.val)
           Spec0(from, who) == Allow(ingressSelector(to, local), <<AuthzRule(from, who, operationPorts(to))>>)
<1>1. ASSUME NEW name, NEW meta, NEW from, NEW who
      PROVE  /\ WithMetadata(entry, e, Authz(name, meta, Spec0(from, who))).kind = "AuthorizationPolicy"
             /\ WithMetadata(entry, e, Authz(name, meta, Spec0(from, who))).spec = Spec0(from, who)
  <2> DEFINE obj == Authz(name, meta, Spec0(from, who))
  <2> HIDE DEF Spec0
  <2>1. /\ HasFields(obj, {"kind", "name", "labels", "annotations", "spec"})
        /\ obj.kind = "AuthorizationPolicy" /\ obj.spec = Spec0(from, who)
    BY DEF Authz, GeneratedObject, HasFields
  <2> HIDE DEF obj
  <2> QED BY <2>1, MetadataKeeps DEF obj
<1>2. ASSUME x = AuthzK8s(pkg, prepend, entry, e)
      PROVE  \E name, meta, from, who : x = WithMetadata(entry, e, Authz(name, meta, Spec0(from, who)))
  <2> DEFINE obj == buildAuthzFromShorthand(pkg, prepend, to, local, e.key, parseIngressRemoteKey(e.key))
  <2>1. \E name, meta, from, who : obj = Authz(name, meta, Spec0(from, who))
    BY DEF buildAuthzFromShorthand
  <2>2. x = WithMetadata(entry, e, obj)
    BY <1>2 DEF AuthzK8s
  <2> QED BY <2>1, <2>2
<1>3. ASSUME x = AuthzCidr(pkg, prepend, entry, e)
      PROVE  \E name, meta, from, who : x = WithMetadata(entry, e, Authz(name, meta, Spec0(from, who)))
  <2> DEFINE obj == buildAuthzFromCIDR(pkg, prepend, to, local, e.key, parseIngressCIDRKey(e.key))
  <2>1. \E name, meta, from, who : obj = Authz(name, meta, Spec0(from, who))
    BY DEF buildAuthzFromCIDR
  <2>2. x = WithMetadata(entry, e, obj)
    BY <1>3 DEF AuthzCidr
  <2> QED BY <2>1, <2>2
<1>4. PICK name, meta, from, who : x = WithMetadata(entry, e, Authz(name, meta, Spec0(from, who)))
  BY <1>2, <1>3
<1>5. x.kind = "AuthorizationPolicy" /\ x.spec = Spec0(from, who)
  BY <1>1, <1>4
<1> QED BY <1>5

\* The policies of an enabled k8s or CIDR ingress rule, at layer 7.
FromCompanion(in, x) ==
  /\ in.pkg.spec.networkPolicies # Nil /\ in.pkg.spec.networkPolicies.ingress # Nil
  /\ authzEnabled(in.pkg.spec.istio) /\ generateFromNetpol(in.pkg.spec.istio)
  /\ \E entry \in ToSet(in.pkg.spec.networkPolicies.ingress.to) :
       /\ entry.val.peer # Nil
       /\ \/ \E e \in ToSet(Enabled(entry.val.peer.k8s)) :
               x = AuthzK8s(in.pkg, in.pkg.spec.networkPolicies.prependReleaseName, entry, e)
          \/ \E e \in ToSet(Enabled(entry.val.peer.cidr)) :
               x = AuthzCidr(in.pkg, in.pkg.spec.networkPolicies.prependReleaseName, entry, e)

LEMMA CompanionPart ==
  ASSUME NEW in, SoundInput(in), Generate(in).ok, NEW x
  PROVE  /\ Makes(PartOf(in, 5), x) <=> FromCompanion(in, x)
         /\ Makes(PartOf(in, 5), x) => x.kind = "AuthorizationPolicy"
<1> DEFINE np == in.pkg.spec.networkPolicies
           istio == in.pkg.spec.istio
           prepend == np.prependReleaseName
           made == generateAuthzFromIngressShorthand(in.pkg, np, istio)
<1>1. CASE np = Nil
  <2>1. PartOf(in, 5) = Ok(<<>>)
    BY <1>1, PartsAre
  <2> QED BY <1>1, <2>1, MakesOk, ToSetFacts DEF FromCompanion
<1>2. CASE np # Nil /\ np.ingress = Nil
  <2>1. PartOf(in, 5) = Ok(<<>>)
    BY <1>2, PartsAre DEF generateAuthzFromIngressShorthand
  <2> QED BY <1>2, <2>1, MakesOk, ToSetFacts DEF FromCompanion
<1>3. CASE np # Nil /\ np.ingress # Nil
  <2>1. PartOf(in, 5) = made /\ made.ok
    BY <1>3, PartsAre, GenerateMakes
  <2>2. AllOf(np.ingress.to, SoundTo)
    BY <1>3 DEF SoundInput, SoundNetworkPolicies, SoundIngress
  <2>3. \A entry \in ToSet(np.ingress.to) : SoundTo(entry)
    BY <2>2 DEF AllOf, ToSet
  <2> HIDE DEF np, istio
  <2>4. /\ authzEnabled(istio) /\ generateFromNetpol(istio) =>
             \A entry \in ToSet(np.ingress.to) : authzFromIngressTarget(in.pkg, prepend, entry).ok
        /\ Makes(made, x) <=>
             /\ authzEnabled(istio) /\ generateFromNetpol(istio)
             /\ \E entry \in ToSet(np.ingress.to) : Makes(authzFromIngressTarget(in.pkg, prepend, entry), x)
    BY <1>3, <2>1, <2>2, CompanionsMake
  <2> HIDE DEF made
  <2>5. Makes(made, x) <=>
          /\ authzEnabled(istio) /\ generateFromNetpol(istio)
          /\ \E entry \in ToSet(np.ingress.to) :
               /\ entry.val.peer # Nil
               /\ \/ \E e \in ToSet(Enabled(entry.val.peer.k8s)) : x = AuthzK8s(in.pkg, prepend, entry, e)
                  \/ \E e \in ToSet(Enabled(entry.val.peer.cidr)) : x = AuthzCidr(in.pkg, prepend, entry, e)
    BY <2>3, <2>4, AuthzTargetMakes
  <2>6. Makes(PartOf(in, 5), x) <=> FromCompanion(in, x)
    BY <1>3, <2>1, <2>5 DEF FromCompanion, np, istio
  <2>7. ASSUME FromCompanion(in, x) PROVE x.kind = "AuthorizationPolicy"
    <3>1. PICK entry, e : x \in {AuthzK8s(in.pkg, prepend, entry, e), AuthzCidr(in.pkg, prepend, entry, e)}
      BY <2>7 DEF FromCompanion, np
    <3> QED BY <3>1, CompanionSpecs
  <2> QED BY <2>6, <2>7
<1> QED BY <1>1, <1>2, <1>3

\* Exactly the policies of k8s and CIDR rules have a key.
LEMMA KeyedAreFromRules ==
  ASSUME NEW in, SoundInput(in), Generate(in).ok, PlainSpec(in.pkg.spec), NEW x
  PROVE  Raw(in, x) /\ x.kind = "NetworkPolicy" /\ Keyed(x)
           <=> NetpolsEnabled(in.pkg) /\ (FromEgress(in, x) \/ FromIngress(in, x))
<1> DEFINE np == in.pkg.spec.networkPolicies
           istio == in.pkg.spec.istio
           env == Env(in)
           Egress(entry) == expandEgressSource(in.pkg, np, env, entry)
           Ingress(entry) == expandIngressTarget(in.pkg, np, env, entry)
<1>1. ASSUME NetpolsEnabled(in.pkg)
      PROVE  /\ PlainPolicies(np) /\ SoundNetworkPolicies(np)
             /\ np.egress # Nil => \A entry \in ToSet(np.egress.from) :
                  SoundFrom(entry) /\ PlainRules(entry) /\ Egress(entry).ok
             /\ np.ingress # Nil => \A entry \in ToSet(np.ingress.to) :
                  SoundTo(entry) /\ PlainRules(entry) /\ Ingress(entry).ok
             /\ \A y : Makes(PartOf(in, 2), y) <=>
                  \/ y \in ToSet(defaultEgressPolicies(in.pkg, np, istio))
                  \/ y \in ToSet(defaultIngressPolicies(in.pkg, np, istio))
                  \/ np.egress # Nil /\ \E entry \in ToSet(np.egress.from) : Makes(Egress(entry), y)
                  \/ np.ingress # Nil /\ \E entry \in ToSet(np.ingress.to) : Makes(Ingress(entry), y)
                  \/ \E raw \in ToSet(np.additionalPolicies) :
                       raw.decodes /\ y = AdditionalPolicy(in.pkg, np, raw)
  <2>1. /\ np # Nil /\ SoundNetworkPolicies(np)
        /\ PartOf(in, 2) = generateNetworkPolicies(in.pkg, np, istio, env) /\ PartOf(in, 2).ok
    BY <1>1, NetpolPart
  <2>2. PlainPolicies(np)
    BY <2>1 DEF PlainSpec
  <2>3. /\ np.egress # Nil => \A entry \in ToSet(np.egress.from) : SoundFrom(entry) /\ PlainRules(entry)
        /\ np.ingress # Nil => \A entry \in ToSet(np.ingress.to) : SoundTo(entry) /\ PlainRules(entry)
    BY <1>1, <2>2, RulesAreRead DEF PlainPolicies
  <2> HIDE DEF np, istio, env
  <2> QED BY <2>1, <2>2, <2>3, NetworkPoliciesMake
<1>2. ASSUME NetpolsEnabled(in.pkg), np.egress # Nil, NEW entry \in ToSet(np.egress.from)
      PROVE  Makes(Egress(entry), x) /\ Keyed(x) <=>
               /\ entry.val.peer # Nil
               /\ \/ \E e \in ToSet(Enabled(entry.val.peer.k8s)) : x = EgressK8s(in.pkg, np, entry, e)
                  \/ \E e \in ToSet(Enabled(entry.val.peer.cidr)) : x = EgressCidr(in.pkg, np, entry, e)
  <2>1. SoundFrom(entry) /\ PlainRules(entry) /\ Egress(entry).ok
    BY <1>1, <1>2
  <2> HIDE DEF np, env
  <2>2. Makes(Egress(entry), x) <=>
          /\ entry.val.peer # Nil
          /\ \/ \E e \in ToSet(Enabled(entry.val.peer.k8s)) : x = EgressK8s(in.pkg, np, entry, e)
             \/ \E e \in ToSet(Enabled(entry.val.peer.definition)) : x = EgressDefinition(in.pkg, np, env, entry, e)
             \/ \E e \in ToSet(Enabled(entry.val.peer.cidr)) : x = EgressCidr(in.pkg, np, entry, e)
             \/ \E e \in ToSet(Enabled(entry.val.peer.literal)) : x = EgressLiteral(in.pkg, np, entry, e)
    BY <2>1, EgressSourceMakes
  <2> HIDE DEF Egress
  <2> QED BY <2>1, <2>2, EgressKeys
<1>3. ASSUME NetpolsEnabled(in.pkg), np.ingress # Nil, NEW entry \in ToSet(np.ingress.to)
      PROVE  Makes(Ingress(entry), x) /\ Keyed(x) <=>
               /\ entry.val.peer # Nil
               /\ \/ \E e \in ToSet(Enabled(entry.val.peer.k8s)) : x = IngressK8s(in.pkg, np, entry, e)
                  \/ \E e \in ToSet(Enabled(entry.val.peer.cidr)) : x = IngressCidr(in.pkg, np, entry, e)
  <2>1. SoundTo(entry) /\ PlainRules(entry) /\ Ingress(entry).ok
    BY <1>1, <1>3
  <2> HIDE DEF np, env
  <2>2. Makes(Ingress(entry), x) <=>
          /\ entry.val.peer # Nil
          /\ \/ \E e \in ToSet(Enabled(entry.val.peer.k8s)) : x = IngressK8s(in.pkg, np, entry, e)
             \/ \E e \in ToSet(Enabled(entry.val.peer.definition)) : x = IngressDefinition(in.pkg, np, env, entry, e)
             \/ \E e \in ToSet(Enabled(entry.val.peer.cidr)) : x = IngressCidr(in.pkg, np, entry, e)
             \/ \E e \in ToSet(Enabled(entry.val.peer.literal)) : x = IngressLiteral(in.pkg, np, entry, e)
    BY <2>1, IngressTargetMakes
  <2> HIDE DEF Ingress
  <2>3. entry.val.peer # Nil =>
          /\ \A e \in ToSet(Enabled(entry.val.peer.k8s)) : Keyed(IngressK8s(in.pkg, np, entry, e))
          /\ \A e \in ToSet(Enabled(entry.val.peer.definition)) :
               ~Keyed(IngressDefinition(in.pkg, np, env, entry, e))
          /\ \A e \in ToSet(Enabled(entry.val.peer.cidr)) : Keyed(IngressCidr(in.pkg, np, entry, e))
          /\ \A e \in ToSet(Enabled(entry.val.peer.literal)) : ~Keyed(IngressLiteral(in.pkg, np, entry, e))
    BY <2>1, IngressKeys
  <2> QED BY <2>2, <2>3
<1>4. ASSUME NetpolsEnabled(in.pkg), NEW raw \in ToSet(np.additionalPolicies), raw.decodes,
             x = AdditionalPolicy(in.pkg, np, raw)
      PROVE  ~Keyed(x)
  <2>1. x.annotations = raw.annotations
    BY <1>4 DEF AdditionalPolicy, GeneratedObject
  <2>2. Plain(raw.annotations)
    BY <1>1, <1>4 DEF PlainPolicies
  <2> QED BY <2>1, <2>2 DEF Keyed, Plain, GeneratedKeys
<1>5. NetpolsEnabled(in.pkg) =>
        (Makes(PartOf(in, 2), x) /\ Keyed(x) <=> FromEgress(in, x) \/ FromIngress(in, x))
  <2>1. ASSUME NetpolsEnabled(in.pkg)
        PROVE  Makes(PartOf(in, 2), x) /\ Keyed(x) <=>
                 \/ np.egress # Nil /\ \E entry \in ToSet(np.egress.from) : Makes(Egress(entry), x) /\ Keyed(x)
                 \/ np.ingress # Nil /\ \E entry \in ToSet(np.ingress.to) : Makes(Ingress(entry), x) /\ Keyed(x)
    <3> HIDE DEF np, istio, Egress, Ingress
    <3> QED BY <1>1, <1>4, <2>1, DefaultsUnkeyed
  <2> HIDE DEF Egress, Ingress
  <2> QED BY <1>2, <1>3, <2>1 DEF FromEgress, FromIngress
<1>6. ASSUME FromEgress(in, x) \/ FromIngress(in, x) PROVE x.kind = "NetworkPolicy"
  BY <1>6, RuleKinds DEF FromEgress, FromIngress
<1>7. ASSUME Raw(in, x), x.kind = "NetworkPolicy", Keyed(x) PROVE Makes(PartOf(in, 2), x)
  <2>1. PICK k \in 1..7 : Makes(PartOf(in, k), x)
    BY <1>7 DEF Raw
  <2>2. k # 1
    BY <1>7, <2>1, IstioPartKinds
  <2>3. k # 3
    <3> SUFFICES ASSUME k = 3 PROVE FALSE
      OBVIOUS
    <3>1. /\ in.pkg.spec.routes # Nil
          /\ \E entry \in ToSet(in.pkg.spec.routes.inbound) : entry.val.decodes /\ x.annotations = entry.val.annotations
      BY <1>7, <2>1, RoutePartKinds
    <3>2. Plain(x.annotations)
      BY <3>1 DEF PlainSpec
    <3> QED BY <1>7, <3>2 DEF Keyed, Plain, GeneratedKeys
  <2>4. k \notin {4, 6, 7}
    BY <1>7, <2>1, AuthzPartKinds
  <2>5. k # 5
    BY <1>7, <2>1, CompanionPart
  <2> QED BY <2>1, <2>2, <2>3, <2>4, <2>5
<1>8. Makes(PartOf(in, 2), x) => Raw(in, x) /\ NetpolsEnabled(in.pkg)
  BY NetpolPart DEF Raw
<1> QED BY <1>5, <1>6, <1>7, <1>8

\* What the policies of rules say: their pods, and one rule for one direction.
EgressK8sRule(e) ==
  Rule(<<Pods(remoteNamespaceSelector(parseEgressRemoteKey(e.key).ns, e.val.namespaceSelector),
              remotePodSelector(parseEgressRemoteKey(e.key).pod, e.val.podSelector))>>,
       parsedPorts(parseEgressRemoteKey(e.key)))
EgressCidrRule(spec, e) ==
  Rule(<<IPBlock(parseEgressCIDRKey(e.key).cidr,
                 applyExcludeCIDRs(parseEgressCIDRKey(e.key).cidr, excludeCIDRsFor(spec)))>>,
       parsedPorts(parseEgressCIDRKey(e.key)))
IngressK8sRule(entry, e) ==
  Rule(<<Pods(remoteNamespaceSelector(parseIngressRemoteKey(e.key).ns, e.val.namespaceSelector),
              remotePodSelector(parseIngressRemoteKey(e.key).pod, e.val.podSelector))>>,
       parsedPorts(parseIngressLocalKey(entry.key)))
IngressCidrRule(entry, e) ==
  Rule(<<IPBlock(parseIngressCIDRKey(e.key).cidr, <<>>)>>, parsedPorts(parseIngressLocalKey(entry.key)))

EgressSelectorOf(entry) == egressSelector(entry.key, Source(entry.val))
IngressSelectorOf(entry) == ingressSelector(parseIngressLocalKey(entry.key), Source(entry.val))

LEMMA RuleSpecs ==
  ASSUME NEW pkg, NEW spec, NEW entry, NEW e
  PROVE  /\ EgressK8s(pkg, spec, entry, e).spec.selector = EgressSelectorOf(entry)
         /\ EgressK8s(pkg, spec, entry, e).spec.egress = <<EgressK8sRule(e)>>
         /\ EgressK8s(pkg, spec, entry, e).spec.ingress = <<>>
         /\ EgressCidr(pkg, spec, entry, e).spec.selector = EgressSelectorOf(entry)
         /\ EgressCidr(pkg, spec, entry, e).spec.egress = <<EgressCidrRule(spec, e)>>
         /\ EgressCidr(pkg, spec, entry, e).spec.ingress = <<>>
         /\ IngressK8s(pkg, spec, entry, e).spec.selector = IngressSelectorOf(entry)
         /\ IngressK8s(pkg, spec, entry, e).spec.ingress = <<IngressK8sRule(entry, e)>>
         /\ IngressK8s(pkg, spec, entry, e).spec.egress = <<>>
         /\ IngressCidr(pkg, spec, entry, e).spec.selector = IngressSelectorOf(entry)
         /\ IngressCidr(pkg, spec, entry, e).spec.ingress = <<IngressCidrRule(entry, e)>>
         /\ IngressCidr(pkg, spec, entry, e).spec.egress = <<>>
<1>1. ASSUME NEW name, NEW annotations, NEW selector, NEW direction, NEW rules
      PROVE  WithMetadata(entry, e, Netpol(pkg, spec, name, annotations, selector, direction, rules)).spec
               = NetworkPolicySpec(selector, direction, rules)
  <2> DEFINE obj == Netpol(pkg, spec, name, annotations, selector, direction, rules)
  <2>1. /\ HasFields(obj, {"kind", "name", "labels", "annotations", "spec"})
        /\ obj.spec = NetworkPolicySpec(selector, direction, rules)
    BY DEF Netpol, GeneratedObject, HasFields
  <2> HIDE DEF obj
  <2> QED BY <2>1, MetadataKeeps DEF obj
<1>2. EgressK8s(pkg, spec, entry, e).spec = NetworkPolicySpec(EgressSelectorOf(entry), "egress", <<EgressK8sRule(e)>>)
  BY <1>1 DEF EgressK8s, buildShorthandEgressNetpol, EgressK8sRule, EgressSelectorOf
<1>3. EgressCidr(pkg, spec, entry, e).spec
        = NetworkPolicySpec(EgressSelectorOf(entry), "egress", <<EgressCidrRule(spec, e)>>)
  BY <1>1 DEF EgressCidr, buildEgressCIDRNetpol, EgressCidrRule, EgressSelectorOf
<1>4. IngressK8s(pkg, spec, entry, e).spec
        = NetworkPolicySpec(IngressSelectorOf(entry), "ingress", <<IngressK8sRule(entry, e)>>)
  BY <1>1 DEF IngressK8s, buildShorthandIngressNetpol, IngressK8sRule, IngressSelectorOf
<1>5. IngressCidr(pkg, spec, entry, e).spec
        = NetworkPolicySpec(IngressSelectorOf(entry), "ingress", <<IngressCidrRule(entry, e)>>)
  BY <1>1 DEF IngressCidr, buildIngressCIDRNetpol, IngressCidrRule, IngressSelectorOf
<1>6. ASSUME NEW selector, NEW rules
      PROVE  /\ NetworkPolicySpec(selector, "egress", rules).selector = selector
             /\ NetworkPolicySpec(selector, "egress", rules).egress = rules
             /\ NetworkPolicySpec(selector, "egress", rules).ingress = <<>>
             /\ NetworkPolicySpec(selector, "ingress", rules).selector = selector
             /\ NetworkPolicySpec(selector, "ingress", rules).egress = <<>>
             /\ NetworkPolicySpec(selector, "ingress", rules).ingress = rules
  BY DEF NetworkPolicySpec
<1>7. /\ EgressK8s(pkg, spec, entry, e).spec.selector = EgressSelectorOf(entry)
      /\ EgressK8s(pkg, spec, entry, e).spec.egress = <<EgressK8sRule(e)>>
      /\ EgressK8s(pkg, spec, entry, e).spec.ingress = <<>>
  BY <1>2, <1>6
<1>8. /\ EgressCidr(pkg, spec, entry, e).spec.selector = EgressSelectorOf(entry)
      /\ EgressCidr(pkg, spec, entry, e).spec.egress = <<EgressCidrRule(spec, e)>>
      /\ EgressCidr(pkg, spec, entry, e).spec.ingress = <<>>
  BY <1>3, <1>6
<1>9. /\ IngressK8s(pkg, spec, entry, e).spec.selector = IngressSelectorOf(entry)
      /\ IngressK8s(pkg, spec, entry, e).spec.ingress = <<IngressK8sRule(entry, e)>>
      /\ IngressK8s(pkg, spec, entry, e).spec.egress = <<>>
  BY <1>4, <1>6
<1>10. /\ IngressCidr(pkg, spec, entry, e).spec.selector = IngressSelectorOf(entry)
       /\ IngressCidr(pkg, spec, entry, e).spec.ingress = <<IngressCidrRule(entry, e)>>
       /\ IngressCidr(pkg, spec, entry, e).spec.egress = <<>>
  BY <1>5, <1>6
<1> QED BY <1>7, <1>8, <1>9, <1>10

\* An enabled entry is one that was written, decoded.
LEMMA EnabledIsWritten ==
  ASSUME NEW entries, IsList(entries), NEW e \in ToSet(Enabled(entries))
  PROVE  \E rule \in ToSet(entries) : /\ Target(rule.val).enabled
                                      /\ e.key = rule.key /\ e.val = Target(rule.val)
BY EnabledToSet

\* What a key that could be read says.
LEMMA ParsedFacts ==
  ASSUME NEW key
  PROVE  /\ parseEgressRemoteKey(key) # Nil =>
              /\ parseEgressRemoteKey(key).protocol = Protocol(key.scheme)
              /\ parseEgressRemoteKey(key).ports = key.ports.nums
              /\ parseEgressRemoteKey(key).range = key.ports.range
              /\ parseEgressRemoteKey(key).ns = key.ns /\ parseEgressRemoteKey(key).pod = key.pod
         /\ parseIngressLocalKey(key) # Nil =>
              /\ parseIngressLocalKey(key).protocol = Protocol(key.scheme)
              /\ parseIngressLocalKey(key).ports = key.ports.nums
              /\ parseIngressLocalKey(key).range = key.ports.range
              /\ parseIngressLocalKey(key).pod = key.pod
         /\ parseEgressCIDRKey(key) # Nil =>
              /\ parseEgressCIDRKey(key).protocol = Protocol(key.scheme)
              /\ parseEgressCIDRKey(key).ports = key.ports.nums
              /\ parseEgressCIDRKey(key).range = key.ports.range
              /\ parseEgressCIDRKey(key).cidr = key.cidr
         /\ parseIngressRemoteKey(key) # Nil =>
              parseIngressRemoteKey(key).ns = key.ns /\ parseIngressRemoteKey(key).pod = key.pod
<1> DEFINE common == [protocol |-> Protocol(key.scheme), ports |-> key.ports.nums, range |-> key.ports.range]
<1>1. ASSUME NEW rest, ParsedWithPorts(key, rest) # Nil
      PROVE  ParsedWithPorts(key, rest) = mergeMaps(common, rest)
  BY <1>1 DEF ParsedWithPorts, parsePortSpec
<1>2. ASSUME NEW ns, NEW pod
      PROVE  LET r == mergeMaps(common, [ns |-> ns, pod |-> pod])
             IN /\ r.protocol = common.protocol /\ r.ports = common.ports /\ r.range = common.range
                /\ r.ns = ns /\ r.pod = pod
  BY DEF mergeMaps
<1>3. ASSUME NEW pod
      PROVE  LET r == mergeMaps(common, [pod |-> pod])
             IN /\ r.protocol = common.protocol /\ r.ports = common.ports /\ r.range = common.range
                /\ r.pod = pod
  BY DEF mergeMaps
<1>4. ASSUME NEW cidr
      PROVE  LET r == mergeMaps(common, [cidr |-> cidr])
             IN /\ r.protocol = common.protocol /\ r.ports = common.ports /\ r.range = common.range
                /\ r.cidr = cidr
  BY DEF mergeMaps
<1>5. common.protocol = Protocol(key.scheme) /\ common.ports = key.ports.nums /\ common.range = key.ports.range
  OBVIOUS
<1> HIDE DEF common
<1>6. parseEgressRemoteKey(key) # Nil => parseEgressRemoteKey(key) = mergeMaps(common, [ns |-> key.ns, pod |-> key.pod])
  BY <1>1 DEF parseEgressRemoteKey
<1>7. parseIngressLocalKey(key) # Nil => parseIngressLocalKey(key) = mergeMaps(common, [pod |-> key.pod])
  BY <1>1 DEF parseIngressLocalKey
<1>8. parseEgressCIDRKey(key) # Nil => parseEgressCIDRKey(key) = mergeMaps(common, [cidr |-> key.cidr])
  BY <1>1 DEF parseEgressCIDRKey
<1>9. parseIngressRemoteKey(key) # Nil =>
        parseIngressRemoteKey(key).ns = key.ns /\ parseIngressRemoteKey(key).pod = key.pod
  BY DEF parseIngressRemoteKey
<1> QED BY <1>2, <1>3, <1>4, <1>5, <1>6, <1>7, <1>8, <1>9

\* The second part is NetworkPolicies.
LEMMA NetpolPartKinds ==
  ASSUME NEW in, SoundInput(in), Generate(in).ok, NEW x, Makes(PartOf(in, 2), x)
  PROVE  x.kind = "NetworkPolicy"
<1> DEFINE np == in.pkg.spec.networkPolicies
           istio == in.pkg.spec.istio
           env == Env(in)
<1>1. /\ np # Nil /\ SoundNetworkPolicies(np)
      /\ PartOf(in, 2) = generateNetworkPolicies(in.pkg, np, istio, env) /\ PartOf(in, 2).ok
      /\ NetpolsEnabled(in.pkg)
  BY NetpolPart
<1>2. /\ np.egress # Nil => \A entry \in ToSet(np.egress.from) : SoundFrom(entry)
      /\ np.ingress # Nil => \A entry \in ToSet(np.ingress.to) : SoundTo(entry)
  BY <1>1, RulesAreRead
<1>3. ASSUME NEW entry, NEW e, NEW name, NEW annotations, NEW selector, NEW direction, NEW rules
      PROVE  WithMetadata(entry, e, Netpol(in.pkg, np, name, annotations, selector, direction, rules)).kind
               = "NetworkPolicy"
  <2> DEFINE obj == Netpol(in.pkg, np, name, annotations, selector, direction, rules)
  <2>1. HasFields(obj, {"kind", "name", "labels", "annotations", "spec"}) /\ obj.kind = "NetworkPolicy"
    BY DEF Netpol, GeneratedObject, HasFields
  <2> HIDE DEF obj
  <2> QED BY <2>1, MetadataKeeps DEF obj
<1> HIDE DEF np, istio, env
<1>4. ASSUME NEW entry, NEW e
      PROVE  /\ EgressDefinition(in.pkg, np, env, entry, e).kind = "NetworkPolicy"
             /\ EgressLiteral(in.pkg, np, entry, e).kind = "NetworkPolicy"
             /\ IngressDefinition(in.pkg, np, env, entry, e).kind = "NetworkPolicy"
             /\ IngressLiteral(in.pkg, np, entry, e).kind = "NetworkPolicy"
  <2>1. EgressDefinition(in.pkg, np, env, entry, e).kind = "NetworkPolicy"
    BY <1>3 DEF EgressDefinition, buildEgressDefinitionNetpol
  <2>2. EgressLiteral(in.pkg, np, entry, e).kind = "NetworkPolicy"
    BY <1>3 DEF EgressLiteral, buildEgressLiteralNetpol
  <2>3. IngressDefinition(in.pkg, np, env, entry, e).kind = "NetworkPolicy"
    BY <1>3 DEF IngressDefinition, buildIngressDefinitionNetpol
  <2>4. IngressLiteral(in.pkg, np, entry, e).kind = "NetworkPolicy"
    BY <1>3 DEF IngressLiteral, buildIngressLiteralNetpol
  <2> QED BY <2>1, <2>2, <2>3, <2>4
<1>5. /\ np.egress # Nil => \A entry \in ToSet(np.egress.from) : expandEgressSource(in.pkg, np, env, entry).ok
      /\ np.ingress # Nil => \A entry \in ToSet(np.ingress.to) : expandIngressTarget(in.pkg, np, env, entry).ok
      /\ \/ x \in ToSet(defaultEgressPolicies(in.pkg, np, istio))
         \/ x \in ToSet(defaultIngressPolicies(in.pkg, np, istio))
         \/ /\ np.egress # Nil
            /\ \E entry \in ToSet(np.egress.from) : Makes(expandEgressSource(in.pkg, np, env, entry), x)
         \/ /\ np.ingress # Nil
            /\ \E entry \in ToSet(np.ingress.to) : Makes(expandIngressTarget(in.pkg, np, env, entry), x)
         \/ \E raw \in ToSet(np.additionalPolicies) : raw.decodes /\ x = AdditionalPolicy(in.pkg, np, raw)
  BY <1>1, NetworkPoliciesMake
<1>6. ASSUME np.egress # Nil, NEW entry \in ToSet(np.egress.from),
             Makes(expandEgressSource(in.pkg, np, env, entry), x)
      PROVE  x.kind = "NetworkPolicy"
  <2>1. \E e : x \in {EgressK8s(in.pkg, np, entry, e), EgressDefinition(in.pkg, np, env, entry, e),
                      EgressCidr(in.pkg, np, entry, e), EgressLiteral(in.pkg, np, entry, e)}
    BY <1>2, <1>5, <1>6, EgressSourceMakes
  <2> QED BY <1>4, <2>1, RuleKinds
<1>7. ASSUME np.ingress # Nil, NEW entry \in ToSet(np.ingress.to),
             Makes(expandIngressTarget(in.pkg, np, env, entry), x)
      PROVE  x.kind = "NetworkPolicy"
  <2>1. \E e : x \in {IngressK8s(in.pkg, np, entry, e), IngressDefinition(in.pkg, np, env, entry, e),
                      IngressCidr(in.pkg, np, entry, e), IngressLiteral(in.pkg, np, entry, e)}
    BY <1>2, <1>5, <1>7, IngressTargetMakes
  <2> QED BY <1>4, <2>1, RuleKinds
<1>8. ASSUME NEW raw, x = AdditionalPolicy(in.pkg, np, raw) PROVE x.kind = "NetworkPolicy"
  BY <1>8 DEF AdditionalPolicy, GeneratedObject
<1> QED BY <1>5, <1>6, <1>7, <1>8, DefaultsUnkeyed

\* The key a companion is made from.
LEMMA CompanionKeys ==
  ASSUME NEW pkg, NEW prepend, NEW entry, SoundTo(entry), PlainRules(entry), entry.val.peer # Nil
  PROVE  /\ \A e \in ToSet(Enabled(entry.val.peer.k8s)) : FromKey(AuthzK8s(pkg, prepend, entry, e)) = e.key
         /\ \A e \in ToSet(Enabled(entry.val.peer.cidr)) : FromKey(AuthzCidr(pkg, prepend, entry, e)) = e.key
<1> DEFINE peer == entry.val.peer
           to == parseIngressLocalKey(entry.key)
           local == Source(entry.val)
           keys == {"from_namespace", "from_spiffe", "from_cidr"}
<1>1. HasFields(entry.val, {"decodes", "podSelector", "metadata", "peer"})
  BY DEF SoundTo, SoundEntry
<1>2. /\ IsList(peer.k8s) /\ \A i \in DOMAIN peer.k8s : SoundTarget(peer.k8s[i])
      /\ IsList(peer.cidr) /\ \A i \in DOMAIN peer.cidr : SoundTarget(peer.cidr[i])
  BY DEF SoundTo, SoundEntry, AllOf
<1>3. \A e \in ToSet(Enabled(peer.k8s)) \cup ToSet(Enabled(peer.cidr)) :
        PlainMetadata(Source(entry.val).metadata) /\ PlainMetadata(e.val.metadata)
  BY <1>1, <1>2, RuleMetadataPlain
<1>4. keys \subseteq GeneratedKeys
  BY DEF GeneratedKeys
<1>5. ASSUME NEW e \in ToSet(Enabled(peer.k8s)) \cup ToSet(Enabled(peer.cidr)), NEW obj, NEW key \in keys,
             HasFields(obj, {"kind", "name", "labels", "annotations", "spec"}),
             DOMAIN obj.annotations \cap keys = {key}, obj.annotations[key] = e.key
      PROVE  FromKey(WithMetadata(entry, e, obj)) = e.key
  <2> DEFINE x == WithMetadata(entry, e, obj)
  <2>1. \A k \in keys : k \in DOMAIN x.annotations <=> k = key
    BY <1>3, <1>4, <1>5, MetadataKeeps
  <2>2. x.annotations[key] = e.key
    BY <1>5, MetadataKeeps
  <2> HIDE DEF x
  <2> DEFINE a == x.annotations
  <2>3. ASSUME key = "from_namespace" PROVE FromKey(x) = e.key
    <3>1. "from_namespace" \in DOMAIN a /\ a.from_namespace = e.key
      BY <2>1, <2>2, <2>3
    <3>2. "from_spiffe" \notin DOMAIN a /\ "from_cidr" \notin DOMAIN a
      BY <2>1, <2>3
    <3> QED BY <3>1, <3>2 DEF FromKey
  <2>4. ASSUME key = "from_spiffe" PROVE FromKey(x) = e.key
    <3>1. "from_spiffe" \in DOMAIN a /\ a.from_spiffe = e.key
      BY <2>1, <2>2, <2>4
    <3>2. "from_namespace" \notin DOMAIN a /\ "from_cidr" \notin DOMAIN a
      BY <2>1, <2>4
    <3> QED BY <3>1, <3>2 DEF FromKey
  <2>5. ASSUME key = "from_cidr" PROVE FromKey(x) = e.key
    <3>1. "from_cidr" \in DOMAIN a /\ a.from_cidr = e.key
      BY <2>1, <2>2, <2>5
    <3>2. "from_namespace" \notin DOMAIN a /\ "from_spiffe" \notin DOMAIN a
      BY <2>1, <2>5
    <3> QED BY <3>1, <3>2 DEF FromKey
  <2>6. FromKey(x) = e.key
    BY <2>3, <2>4, <2>5
  <2> QED BY <2>6 DEF x
<1>6. ASSUME NEW name, NEW annotations, NEW spec
      PROVE  /\ HasFields(Authz(name, Annotations(annotations), spec), {"kind", "name", "labels", "annotations", "spec"})
             /\ Authz(name, Annotations(annotations), spec).annotations = annotations
  BY DEF Authz, Annotations, GeneratedObject, HasFields
<1>7. ASSUME NEW e \in ToSet(Enabled(peer.k8s)) PROVE FromKey(AuthzK8s(pkg, prepend, entry, e)) = e.key
  <2> DEFINE remote == parseIngressRemoteKey(e.key)
             obj == buildAuthzFromShorthand(pkg, prepend, to, local, e.key, remote)
  <2>1. \E name, spec : \/ obj = Authz(name, Annotations([from_spiffe |-> e.key, identity |-> remote.identity]), spec)
                        \/ obj = Authz(name, Annotations([from_namespace |-> e.key]), spec)
                        \/ obj = Authz(name, Annotations([from_namespace |-> e.key, pod |-> remote.pod]), spec)
    BY DEF buildAuthzFromShorthand
  <2> HIDE DEF obj
  <2>2. /\ HasFields(obj, {"kind", "name", "labels", "annotations", "spec"})
        /\ \/ obj.annotations = [from_spiffe |-> e.key, identity |-> remote.identity]
           \/ obj.annotations = [from_namespace |-> e.key]
           \/ obj.annotations = [from_namespace |-> e.key, pod |-> remote.pod]
    BY <1>6, <2>1
  <2>3. \E key \in keys : DOMAIN obj.annotations \cap keys = {key} /\ obj.annotations[key] = e.key
    <3>1. CASE obj.annotations = [from_spiffe |-> e.key, identity |-> remote.identity]
      <4>1. DOMAIN obj.annotations \cap keys = {"from_spiffe"} /\ obj.annotations["from_spiffe"] = e.key
        BY <3>1
      <4> QED BY <4>1
    <3>2. CASE \/ obj.annotations = [from_namespace |-> e.key]
               \/ obj.annotations = [from_namespace |-> e.key, pod |-> remote.pod]
      <4>1. DOMAIN obj.annotations \cap keys = {"from_namespace"} /\ obj.annotations["from_namespace"] = e.key
        BY <3>2
      <4> QED BY <4>1
    <3> QED BY <2>2, <3>1, <3>2
  <2>4. AuthzK8s(pkg, prepend, entry, e) = WithMetadata(entry, e, obj)
    BY DEF AuthzK8s, obj
  <2> HIDE DEF keys
  <2> QED BY <1>5, <2>2, <2>3, <2>4
<1>8. ASSUME NEW e \in ToSet(Enabled(peer.cidr)) PROVE FromKey(AuthzCidr(pkg, prepend, entry, e)) = e.key
  <2> DEFINE remote == parseIngressCIDRKey(e.key)
             obj == buildAuthzFromCIDR(pkg, prepend, to, local, e.key, remote)
  <2>1. /\ HasFields(obj, {"kind", "name", "labels", "annotations", "spec"})
        /\ obj.annotations = [from_cidr |-> e.key, cidr |-> remote.cidr]
    BY <1>6 DEF buildAuthzFromCIDR
  <2>2. AuthzCidr(pkg, prepend, entry, e) = WithMetadata(entry, e, obj)
    BY DEF AuthzCidr
  <2>3. DOMAIN obj.annotations \cap keys = {"from_cidr"} /\ obj.annotations["from_cidr"] = e.key
    BY <2>1
  <2>4. "from_cidr" \in keys
    OBVIOUS
  <2> HIDE DEF keys, obj
  <2> QED BY <1>5, <2>1, <2>2, <2>3, <2>4
<1> QED BY <1>7, <1>8
=============================================================================
