-------------------------- MODULE GeneratorProofs --------------------------
(***************************************************************************)
(* Facts about the generator that hold for every input.                    *)
(*                                                                         *)
(* They need induction, on the length of a list that is flattened.  The    *)
(* library's induction theorems take an operator; the least element of a   *)
(* set of naturals does without one.                                       *)
(***************************************************************************)
EXTENDS Generator, InputTypes, WellFoundedInduction, TLAPS

-----------------------------------------------------------------------------
(* Induction, and the flattening of lists. *)

\* A set of natural numbers that is not empty has a least element.
LEMMA LeastNatural ==
  ASSUME NEW S \in SUBSET Nat, S # {}
  PROVE  \E m \in S : \A n \in S : m <= n
<1> DEFINE Less == OpToRel(<, Nat)
<1>1. PICK m \in S : \A n \in S : ~(<<n, m>> \in Less)
  <2> HIDE DEF Less
  <2> QED BY NatLessThanWellFounded, WFMin DEF Less
<1>2. \A n \in S : ~(n < m)
  BY <1>1 DEF OpToRel
<1> QED BY <1>2

\* Induction, for a set: it has every number if it has 0 and successors.
LEMMA InductiveSet ==
  ASSUME NEW S, 0 \in S, \A i \in Nat : i \in S => i + 1 \in S
  PROVE  Nat \subseteq S
<1> DEFINE Missing == {i \in Nat : i \notin S}
<1>1. SUFFICES ASSUME Missing # {} PROVE FALSE
  OBVIOUS
<1>2. PICK m \in Missing : \A k \in Missing : m <= k
  <2>1. Missing \in SUBSET Nat
    OBVIOUS
  <2> HIDE DEF Missing
  <2> QED BY <1>1, <2>1, LeastNatural
<1>3. m # 0 /\ m - 1 \in Nat /\ m - 1 \notin Missing
  BY <1>2
<1> QED BY <1>2, <1>3

\* What the recursive function in FlattenSeq computes, step by step (that it has a
\* value at all is part of the proof).
LEMMA FlattenSeqSteps ==
  ASSUME NEW s, Len(s) \in Nat, Len(s) # 0
  PROVE  \E flat : /\ FlattenSeq(s) = flat[Len(s)]
                   /\ \A i \in 1 .. Len(s) : flat[i] = IF i = 1 THEN s[i] ELSE flat[i - 1] \o s[i]
<1> DEFINE n == Len(s)
           Layer(f, k) == [i \in 1..k |-> IF i = 1 THEN s[i] ELSE f[i - 1] \o s[i]]
           IsFlat(f, k) == f = Layer(f, k)
           flat == CHOOSE f : IsFlat(f, n)
<1>1. ASSUME NEW f, NEW k \in Nat, IsFlat(f, k), NEW i \in 1..k
      PROVE  f[i] = IF i = 1 THEN s[i] ELSE f[i - 1] \o s[i]
  <2>1. Layer(f, k)[i] = IF i = 1 THEN s[i] ELSE f[i - 1] \o s[i]
    OBVIOUS
  <2> HIDE DEF Layer
  <2> QED BY <1>1, <2>1
<1>2. FlattenSeq(s) = flat[n]
  BY DEF FlattenSeq
<1> DEFINE HasFlat(k) == \E f : IsFlat(f, k)
           Flattens == {k \in Nat : k <= n => HasFlat(k)}
<1>3. HasFlat(n)
  <2>1. HasFlat(0)
    <3>1. IsFlat(<<>>, 0)
      OBVIOUS
    <3> QED BY <3>1
  <2>2. ASSUME NEW k \in Nat, k + 1 <= n, HasFlat(k) PROVE HasFlat(k + 1)
    <3>1. PICK f : IsFlat(f, k)
      BY <2>2
    <3> DEFINE g == [i \in 1 .. k + 1 |->
                       IF i <= k THEN f[i] ELSE IF i = 1 THEN s[i] ELSE f[k] \o s[i]]
    <3>2. ASSUME NEW i \in 1 .. k + 1
          PROVE  g[i] = IF i = 1 THEN s[i] ELSE g[i - 1] \o s[i]
      <4>1. CASE i <= k
        <5>1. f[i] = IF i = 1 THEN s[i] ELSE f[i - 1] \o s[i]
          <6> HIDE DEF IsFlat
          <6> QED BY <3>1, <4>1, <1>1
        <5>2. i # 1 => i - 1 \in 1 .. k + 1 /\ i - 1 <= k
          BY <4>1
        <5> QED BY <4>1, <5>1, <5>2
      <4>2. CASE i = k + 1
        BY <4>2
      <4> QED BY <4>1, <4>2
    <3>3. g = [i \in 1 .. k + 1 |-> IF i = 1 THEN s[i] ELSE g[i - 1] \o s[i]]
      <4>1. g = [i \in 1 .. k + 1 |-> g[i]]
        OBVIOUS
      <4> HIDE DEF g
      <4> QED BY <3>2, <4>1
    <3> QED BY <3>3
  <2> HIDE DEF HasFlat
  <2>3. 0 \in Flattens /\ \A k \in Nat : k \in Flattens => k + 1 \in Flattens
    BY <2>1, <2>2
  <2>4. Nat \subseteq Flattens
    <3> HIDE DEF Flattens
    <3> QED BY <2>3, InductiveSet
  <2> QED BY <2>4
<1>4. IsFlat(flat, n)
  <2> HIDE DEF IsFlat
  <2> QED BY <1>3
<1> HIDE DEF flat, IsFlat
<1> QED BY <1>1, <1>2, <1>4

\* Flattening a list of lists gives a list of their elements.
LEMMA FlattenSeqType ==
  ASSUME NEW U, NEW s \in Seq(Seq(U))
  PROVE  FlattenSeq(s) \in Seq(U)
<1> DEFINE n == Len(s)
<1>1. CASE n = 0
  BY <1>1 DEF FlattenSeq
<1>2. CASE n # 0
  <2>1. PICK flat : /\ FlattenSeq(s) = flat[n]
                    /\ \A i \in 1..n : flat[i] = IF i = 1 THEN s[i] ELSE flat[i - 1] \o s[i]
    BY <1>2, FlattenSeqSteps
  <2> DEFINE Lists == {k \in Nat : k \in 1..n => flat[k] \in Seq(U)}
  <2>2. 0 \in Lists
    OBVIOUS
  <2>3. ASSUME NEW k \in Nat, k \in Lists PROVE k + 1 \in Lists
    <3>1. SUFFICES ASSUME k + 1 \in 1..n PROVE flat[k + 1] \in Seq(U)
      OBVIOUS
    <3>2. flat[k + 1] = IF k = 0 THEN s[k + 1] ELSE flat[k] \o s[k + 1]
      BY <2>1, <3>1
    <3>3. s[k + 1] \in Seq(U)
      BY <3>1
    <3>4. k # 0 => flat[k] \in Seq(U)
      BY <2>3, <3>1
    <3> QED BY <3>2, <3>3, <3>4
  <2>4. Nat \subseteq Lists
    <3> HIDE DEF Lists
    <3> QED BY <2>2, <2>3, InductiveSet
  <2> QED BY <1>2, <2>1, <2>4
<1> QED BY <1>1, <1>2

\* A list, by its domain.
LEMMA ListFacts ==
  ASSUME NEW list, IsList(list)
  PROVE  Len(list) \in Nat /\ DOMAIN list = 1 .. Len(list)
BY DEF IsList

LEMMA MapIsList ==
  ASSUME NEW n \in Nat, NEW f, f = [i \in 1..n |-> f[i]]
  PROVE  IsList(f) /\ Len(f) = n
BY DEF IsList, ToSet

LEMMA SeqIsList ==
  ASSUME NEW U, NEW list \in Seq(U)
  PROVE  IsList(list) /\ \A i \in DOMAIN list : list[i] \in U
BY DEF IsList, ToSet

LEMMA ShortLists ==
  /\ IsList(<<>>) /\ DOMAIN <<>> = {}
  /\ \A x : IsList(<<x>>) /\ DOMAIN <<x>> = {1} /\ <<x>>[1] = x
BY DEF IsList, ToSet

\* What is in a flattened list comes from one of its parts.
LEMMA FlattenSeqElements ==
  ASSUME NEW s, IsList(s), \A i \in DOMAIN s : IsList(s[i])
  PROVE  /\ IsList(FlattenSeq(s))
         /\ \A j \in DOMAIN FlattenSeq(s) :
              \E i \in DOMAIN s : \E k \in DOMAIN s[i] : FlattenSeq(s)[j] = s[i][k]
<1> DEFINE U == UNION {ToSet(s[i]) : i \in DOMAIN s}
<1>1. \A i \in DOMAIN s : s[i] \in Seq(U)
  <2> SUFFICES ASSUME NEW i \in DOMAIN s PROVE s[i] \in Seq(U)
    OBVIOUS
  <2>1. s[i] \in Seq(ToSet(s[i])) /\ ToSet(s[i]) \subseteq U
    BY DEF IsList
  <2> HIDE DEF U
  <2> QED BY <2>1
<1>2. s \in Seq(Seq(U))
  <2> HIDE DEF U
  <2> QED BY <1>1, ListFacts DEF IsList, ToSet
<1>3. FlattenSeq(s) \in Seq(U)
  <2> HIDE DEF U
  <2> QED BY <1>2, FlattenSeqType
<1>4. IsList(FlattenSeq(s)) /\ \A j \in DOMAIN FlattenSeq(s) : FlattenSeq(s)[j] \in U
  BY <1>3, SeqIsList
<1> QED BY <1>4 DEF ToSet

-----------------------------------------------------------------------------
(* What a rendering does not depend on. *)

LEMMA InOrderOk ==
  ASSUME NEW results, InOrder(results).ok
  PROVE  \A i \in DOMAIN results : results[i].ok
BY DEF InOrder, Err

\* A list of results that is in order stays what it is when every result that is
\* in order does.
LEMMA InOrderSame ==
  ASSUME NEW r, NEW s, DOMAIN s = DOMAIN r, InOrder(r).ok,
         \A i \in DOMAIN r : r[i].ok => s[i] = r[i]
  PROVE  InOrder(s) = InOrder(r)
<1>1. \A i \in DOMAIN r : s[i] = r[i]
  BY InOrderOk
<1>2. [i \in DOMAIN s |-> s[i].objs] = [i \in DOMAIN r |-> r[i].objs]
  BY <1>1
<1> QED BY <1>1, <1>2 DEF InOrder

LEMMA FromRuleOk ==
  ASSUME NEW readable \in BOOLEAN, NEW obj, NEW local, NEW val,
         FromRule(readable, obj, local, val).ok
  PROVE  readable
BY DEF FromRule, Err

\* The same definitions: what resolves in one environment resolves to the same
\* in the other.
SameEgress(spec, env, env2, name) ==
  resolveEgressDefinition(spec, name, env) # Nil =>
    resolveEgressDefinition(spec, name, env2) = resolveEgressDefinition(spec, name, env)
SameIngress(spec, env, env2, name) ==
  resolveIngressDefinition(spec, name, env) # Nil =>
    resolveIngressDefinition(spec, name, env2) = resolveIngressDefinition(spec, name, env)

\* The definitions that the enabled rules of an entry refer to.
ReferredTo(entry) ==
  IF entry.val.decodes /\ Source(entry.val).peer # Nil
    THEN LET defs == Enabled(Source(entry.val).peer.definition)
         IN {defs[i].key : i \in DOMAIN defs}
    ELSE {}

LEMMA EgressSourceSame ==
  ASSUME NEW pkg, NEW spec, NEW entry, NEW env, NEW env2,
         \A name \in ReferredTo(entry) : SameEgress(spec, env, env2, name),
         expandEgressSource(pkg, spec, env, entry).ok
  PROVE  expandEgressSource(pkg, spec, env2, entry) = expandEgressSource(pkg, spec, env, entry)
<1> DEFINE local == Source(entry.val)
           defs == Enabled(local.peer.definition)
           K8s(e) == LET r == parseEgressRemoteKey(e.key) IN
             FromRule(r # Nil, buildShorthandEgressNetpol(pkg, spec, entry.key, local, e.key, r, e.val),
                      local, e.val)
           Cidr(e) == LET r == parseEgressCIDRKey(e.key) IN
             FromRule(r # Nil, buildEgressCIDRNetpol(pkg, spec, entry.key, local, e.key, r), local, e.val)
           Literal(e) ==
             FromRule(~LiteralFails(e), buildEgressLiteralNetpol(pkg, spec, entry.key, local, e),
                      local, e.val)
           k8s == ForEach(Enabled(local.peer.k8s), K8s)
           cidr == ForEach(Enabled(local.peer.cidr), Cidr)
           literal == ForEach(Enabled(local.peer.literal), Literal)
           Def(v, e) == resolveEgressDefinition(spec, e.key, v)
           Made(def, e) == buildEgressDefinitionNetpol(pkg, spec, entry.key, local, e.key, def)
           One(v, e) == FromRule(Def(v, e) # Nil, Made(Def(v, e), e), local, e.val)
           Definitions(v) == InOrder([i \in DOMAIN defs |-> One(v, defs[i])])
           Four(v) == InOrder(<<k8s, Definitions(v), cidr, literal>>)
<1>1. \A v : expandEgressSource(pkg, spec, v, entry) =
               IF ~entry.val.decodes THEN Err
               ELSE IF local.peer = Nil THEN Ok(<<>>) ELSE Four(v)
  BY DEF expandEgressSource, ForEach
<1>2. SUFFICES ASSUME entry.val.decodes, local.peer # Nil, Four(env).ok
               PROVE  Four(env2) = Four(env)
  BY <1>1 DEF Err
<1>3. \A i \in DOMAIN defs : Def(env, defs[i]) # Nil => Def(env2, defs[i]) = Def(env, defs[i])
  BY <1>2 DEF SameEgress, ReferredTo
<1> HIDE DEF k8s, cidr, literal, defs, local, Def, Made
<1>4. \A i \in DOMAIN defs : One(env, defs[i]).ok => One(env2, defs[i]) = One(env, defs[i])
  BY <1>3, FromRuleOk
<1> HIDE DEF One
<1>5. Definitions(env).ok => Definitions(env2) = Definitions(env)
  BY <1>4, InOrderSame
<1> HIDE DEF Definitions
<1> QED BY <1>2, <1>5, InOrderSame

LEMMA IngressTargetSame ==
  ASSUME NEW pkg, NEW spec, NEW entry, NEW env, NEW env2,
         \A name \in ReferredTo(entry) : SameIngress(spec, env, env2, name),
         expandIngressTarget(pkg, spec, env, entry).ok
  PROVE  expandIngressTarget(pkg, spec, env2, entry) = expandIngressTarget(pkg, spec, env, entry)
<1> DEFINE local == Source(entry.val)
           to == parseIngressLocalKey(entry.key)
           defs == Enabled(local.peer.definition)
           K8s(e) == LET r == parseIngressRemoteKey(e.key) IN
             FromRule(r # Nil, buildShorthandIngressNetpol(pkg, spec, to, local, e.key, r, e.val),
                      local, e.val)
           Cidr(e) == LET r == parseIngressCIDRKey(e.key) IN
             FromRule(r # Nil, buildIngressCIDRNetpol(pkg, spec, to, local, e.key, r), local, e.val)
           Literal(e) ==
             FromRule(~LiteralFails(e), buildIngressLiteralNetpol(pkg, spec, to, local, e), local, e.val)
           k8s == ForEach(Enabled(local.peer.k8s), K8s)
           cidr == ForEach(Enabled(local.peer.cidr), Cidr)
           literal == ForEach(Enabled(local.peer.literal), Literal)
           Def(v, e) == resolveIngressDefinition(spec, e.key, v)
           Made(def, e) == buildIngressDefinitionNetpol(pkg, spec, to, local, e.key, def)
           One(v, e) == FromRule(Def(v, e) # Nil, Made(Def(v, e), e), local, e.val)
           Definitions(v) == InOrder([i \in DOMAIN defs |-> One(v, defs[i])])
           Four(v) == InOrder(<<k8s, Definitions(v), cidr, literal>>)
<1>1. \A v : expandIngressTarget(pkg, spec, v, entry) =
               IF ~entry.val.decodes THEN Err
               ELSE IF local.peer = Nil THEN Ok(<<>>)
               ELSE IF to = Nil THEN Err ELSE Four(v)
  BY DEF expandIngressTarget, ForEach
<1>2. SUFFICES ASSUME entry.val.decodes, local.peer # Nil, Four(env).ok
               PROVE  Four(env2) = Four(env)
  BY <1>1 DEF Err
<1>3. \A i \in DOMAIN defs : Def(env, defs[i]) # Nil => Def(env2, defs[i]) = Def(env, defs[i])
  BY <1>2 DEF SameIngress, ReferredTo
<1> HIDE DEF k8s, cidr, literal, defs, local, Def, Made
<1>4. \A i \in DOMAIN defs : One(env, defs[i]).ok => One(env2, defs[i]) = One(env, defs[i])
  BY <1>3, FromRuleOk
<1> HIDE DEF One
<1>5. Definitions(env).ok => Definitions(env2) = Definitions(env)
  BY <1>4, InOrderSame
<1> HIDE DEF Definitions
<1> QED BY <1>2, <1>5, InOrderSame

\* Two environments agree on the definitions that a spec refers to.
Agree(spec, env, env2) ==
  /\ spec.egress # Nil => \A i \in DOMAIN spec.egress.from :
       \A name \in ReferredTo(spec.egress.from[i]) : SameEgress(spec, env, env2, name)
  /\ spec.ingress # Nil => \A i \in DOMAIN spec.ingress.to :
       \A name \in ReferredTo(spec.ingress.to[i]) : SameIngress(spec, env, env2, name)

LEMMA NetworkPoliciesSame ==
  ASSUME NEW pkg, NEW spec, NEW istio, NEW env, NEW env2, Agree(spec, env, env2),
         generateNetworkPolicies(pkg, spec, istio, env).ok
  PROVE  generateNetworkPolicies(pkg, spec, istio, env2) = generateNetworkPolicies(pkg, spec, istio, env)
<1> DEFINE from == spec.egress.from
           to == spec.ingress.to
           Egress(v) == IF spec.egress = Nil THEN Ok(<<>>) ELSE expandShorthandEgress(pkg, spec, v)
           Ingress(v) == IF spec.ingress = Nil THEN Ok(<<>>) ELSE expandShorthandIngress(pkg, spec, v)
           egress == Ok(defaultEgressPolicies(pkg, spec, istio))
           ingress == Ok(defaultIngressPolicies(pkg, spec, istio))
           additional == ForEach(spec.additionalPolicies, LAMBDA raw : buildAdditionalPolicy(pkg, spec, raw))
           Five(v) == <<egress, ingress, Egress(v), Ingress(v), additional>>
<1>1. \A v : generateNetworkPolicies(pkg, spec, istio, v) = InOrder(Five(v))
  BY DEF generateNetworkPolicies
<1>2. Egress(env).ok => Egress(env2) = Egress(env)
  <2>1. SUFFICES ASSUME spec.egress # Nil, expandShorthandEgress(pkg, spec, env).ok
                 PROVE  expandShorthandEgress(pkg, spec, env2) = expandShorthandEgress(pkg, spec, env)
    OBVIOUS
  <2> DEFINE One(v, i) == expandEgressSource(pkg, spec, v, from[i])
  <2>2. \A v : expandShorthandEgress(pkg, spec, v) = InOrder([i \in DOMAIN from |-> One(v, i)])
    BY DEF expandShorthandEgress, ForEach
  <2>3. \A i \in DOMAIN from : One(env, i).ok => One(env2, i) = One(env, i)
    BY <2>1, EgressSourceSame DEF Agree
  <2> HIDE DEF One, from
  <2> QED BY <2>1, <2>2, <2>3, InOrderSame
<1>3. Ingress(env).ok => Ingress(env2) = Ingress(env)
  <2>1. SUFFICES ASSUME spec.ingress # Nil, expandShorthandIngress(pkg, spec, env).ok
                 PROVE  expandShorthandIngress(pkg, spec, env2) = expandShorthandIngress(pkg, spec, env)
    OBVIOUS
  <2> DEFINE One(v, i) == expandIngressTarget(pkg, spec, v, to[i])
  <2>2. \A v : expandShorthandIngress(pkg, spec, v) = InOrder([i \in DOMAIN to |-> One(v, i)])
    BY DEF expandShorthandIngress, ForEach
  <2>3. \A i \in DOMAIN to : One(env, i).ok => One(env2, i) = One(env, i)
    BY <2>1, IngressTargetSame DEF Agree
  <2> HIDE DEF One, to
  <2> QED BY <2>1, <2>2, <2>3, InOrderSame
<1> HIDE DEF Egress, Ingress, egress, ingress, additional
<1>4. /\ DOMAIN Five(env2) = DOMAIN Five(env)
      /\ \A i \in DOMAIN Five(env) : Five(env)[i].ok => Five(env2)[i] = Five(env)[i]
  BY <1>2, <1>3
<1> HIDE DEF Five
<1> QED BY <1>1, <1>4, InOrderSame

\* Two inputs of one Package that agree on the definitions, and on the inbound
\* routes, are rendered the same.
LEMMA GenerateSame ==
  ASSUME NEW in, NEW in2, in2.pkg = in.pkg, Generate(in).ok,
         in.pkg.spec.networkPolicies # Nil /\ in.pkg.spec.networkPolicies.enabled =>
           Agree(in.pkg.spec.networkPolicies, Env(in), Env(in2)),
         resolveInboundRoutes(in).ok => resolveInboundRoutes(in2) = resolveInboundRoutes(in)
  PROVE  Generate(in2) = Generate(in)
<1> DEFINE spec == in.pkg.spec
           Inbound(v) == resolveInboundRoutes(v)
           Policies(v) == IF spec.networkPolicies = Nil \/ ~spec.networkPolicies.enabled THEN Ok(<<>>)
                          ELSE generateNetworkPolicies(in.pkg, spec.networkPolicies, spec.istio, Env(v))
           hbone == hboneEnabled(spec.networkPolicies, spec.istio)
           Out(v) == InOrder(Parts(v, Inbound(v).objs))
<1>1. \A v : Generate(v) = IF Inbound(v).ok /\ Out(v).ok
                             THEN Ok(Finished(v, hboneEnabled(v.pkg.spec.networkPolicies, v.pkg.spec.istio),
                                              Out(v).objs))
                             ELSE Err
  BY DEF Generate
<1>2. Inbound(in).ok /\ Out(in).ok
  BY <1>1 DEF Err
<1>3. Inbound(in2) = Inbound(in)
  BY <1>2
<1>4. Out(in2) = Out(in)
  <2> DEFINE inbound == Inbound(in).objs
  <2>1. Policies(in).ok => Policies(in2) = Policies(in)
    BY NetworkPoliciesSame
  <2>2. /\ DOMAIN Parts(in, inbound) = 1..7 /\ DOMAIN Parts(in2, inbound) = 1..7
        /\ Parts(in, inbound)[2] = Policies(in) /\ Parts(in2, inbound)[2] = Policies(in2)
        /\ \A i \in 1..7 : i # 2 => Parts(in2, inbound)[i] = Parts(in, inbound)[i]
    BY DEF Parts
  <2>3. InOrder(Parts(in2, inbound)) = InOrder(Parts(in, inbound))
    <3> HIDE DEF inbound, Policies
    <3>1. InOrder(Parts(in, inbound)).ok
      BY <1>2 DEF inbound
    <3> QED BY <2>1, <2>2, <3>1, InOrderSame
  <2> QED BY <1>3, <2>3
<1>5. \A inject, made : Finished(in2, inject, made) = Finished(in, inject, made)
  BY DEF Finished
<1> HIDE DEF Inbound, Out
<1> QED BY <1>1, <1>2, <1>3, <1>4, <1>5

\* What resolves although the shared definitions cannot be read is package-local.
LEMMA ResolveBlind ==
  ASSUME NEW local, NEW shared, NEW shared2, NEW err, err, NEW err2, NEW builtIn, NEW name,
         resolve(local, shared, err, builtIn, name) # Nil
  PROVE  resolve(local, shared2, err2, builtIn, name) = resolve(local, shared, err, builtIn, name)
BY DEF resolve

\* Routes that are resolved although the ingress configuration cannot be read are
\* disabled, every one.
LEMMA InboundBlind ==
  ASSUME NEW in, NEW in2, in2.pkg = in.pkg, in.ingressConfigErr,
         in.pkg.spec.routes # Nil => SoundRoutes(in.pkg.spec.routes),
         resolveInboundRoutes(in).ok
  PROVE  resolveInboundRoutes(in2) = resolveInboundRoutes(in)
<1> DEFINE routes == in.pkg.spec.routes
           inbound == routes.inbound
           One(v, i) == resolveInboundRoute(inbound[i], v)
<1>1. CASE routes = Nil
  BY <1>1 DEF resolveInboundRoutes
<1>2. CASE routes # Nil
  <2>1. \A v : v.pkg = in.pkg => resolveInboundRoutes(v) = InOrder([i \in DOMAIN inbound |-> One(v, i)])
    BY <1>2 DEF resolveInboundRoutes, ForEach
  <2>2. ASSUME NEW i \in DOMAIN inbound, One(in, i).ok
        PROVE  One(in2, i) = One(in, i)
    <3> DEFINE val == inbound[i].val
               Route(v) == [val EXCEPT
                  !.gateways = effectiveGateways(val, v.pkg.spec.routes, v.ingressConfig),
                  !.selector = IF @ = {} THEN NameIs(inbound[i].key) ELSE @]
    <3>1. "enabled" \in DOMAIN val
      BY <1>2 DEF SoundRoutes, AllOf, SoundRoute, HasFields
    <3>2. \A v : Route(v).enabled = val.enabled
      <4> HIDE DEF val
      <4> QED BY <3>1
    <3>3. \A v : ~Route(v).enabled =>
                   One(v, i) = IF ~val.decodes THEN Err ELSE Ok(<<>>)
      BY DEF resolveInboundRoute
    <3>4. ~Route(in).enabled
      BY <2>2 DEF resolveInboundRoute, Err
    <3> HIDE DEF val, Route, One
    <3> QED BY <3>2, <3>3, <3>4
  <2> HIDE DEF One, inbound
  <2> QED BY <2>1, <2>2, InOrderSame
<1> QED BY <1>1, <1>2

\* A rendering that succeeds with unread definitions, or with an unread ingress
\* configuration, does not depend on what they would have been.
LEMMA GenerateBlind ==
  ASSUME NEW in, NEW in2, in2.pkg = in.pkg, in2.kubeAPIPorts = in.kubeAPIPorts,
         in.pkg.spec.routes # Nil => SoundRoutes(in.pkg.spec.routes),
         in.sharedErr \/ (in2.shared = in.shared /\ in2.sharedErr = in.sharedErr),
         \/ in.ingressConfigErr
         \/ in2.ingressConfig = in.ingressConfig /\ in2.ingressConfigErr = in.ingressConfigErr,
         Generate(in).ok
  PROVE  Generate(in2) = Generate(in)
<1>1. \A spec, name : SameEgress(spec, Env(in), Env(in2), name)
  BY ResolveBlind DEF SameEgress, resolveEgressDefinition, Env
<1>2. \A spec, name : SameIngress(spec, Env(in), Env(in2), name)
  BY ResolveBlind DEF SameIngress, resolveIngressDefinition, Env
<1>3. \A spec : Agree(spec, Env(in), Env(in2))
  BY <1>1, <1>2 DEF Agree
<1>4. resolveInboundRoutes(in).ok => resolveInboundRoutes(in2) = resolveInboundRoutes(in)
  <2>1. CASE in.ingressConfigErr
    BY <2>1, InboundBlind
  <2>2. CASE in2.ingressConfig = in.ingressConfig /\ in2.ingressConfigErr = in.ingressConfigErr
    BY <2>2 DEF resolveInboundRoutes, resolveInboundRoute
  <2> QED BY <2>1, <2>2
<1> QED BY <1>3, <1>4, GenerateSame

-----------------------------------------------------------------------------
(* The ports of the API server. *)

\* Decoding and passing over entries makes up no key.
LEMMA EnabledEntries ==
  ASSUME NEW entries, IsList(entries)
  PROVE  /\ IsList(Enabled(entries))
         /\ \A j \in DOMAIN Enabled(entries) : \E i \in DOMAIN entries :
              Enabled(entries)[j] = [key |-> entries[i].key, val |-> Target(entries[i].val)]
<1> DEFINE One(i) == IF Target(entries[i].val).enabled
                       THEN <<[key |-> entries[i].key, val |-> Target(entries[i].val)]>> ELSE <<>>
           parts == [i \in DOMAIN entries |-> One(i)]
<1>1. Enabled(entries) = FlattenSeq(parts)
  BY DEF Enabled
<1>2. IsList(parts)
  <2> HIDE DEF One
  <2> QED BY ListFacts, MapIsList
<1>3. \A i \in DOMAIN parts : IsList(parts[i])
  BY ShortLists
<1>4. \A i \in DOMAIN parts : \A k \in DOMAIN parts[i] :
        parts[i][k] = [key |-> entries[i].key, val |-> Target(entries[i].val)]
  OBVIOUS
<1>5. DOMAIN parts = DOMAIN entries
  OBVIOUS
<1> HIDE DEF parts
<1> QED BY <1>1, <1>2, <1>3, <1>4, <1>5, FlattenSeqElements

\* What an egress entry refers to stands in quotes in its text.
LEMMA ReferredToIsQuoted ==
  ASSUME NEW entry, SoundFrom(entry)
  PROVE  ReferredTo(entry) \subseteq Quoted(entry.val)
<1> SUFFICES ASSUME NEW name \in ReferredTo(entry) PROVE name \in Quoted(entry.val)
  OBVIOUS
<1> DEFINE defs == entry.val.peer.definition
<1>1. Source(entry.val).peer = entry.val.peer
  BY DEF Source, SoundFrom, SoundEntry, HasFields
<1>2. entry.val.peer # Nil /\ \E j \in DOMAIN Enabled(defs) : name = Enabled(defs)[j].key
  BY <1>1 DEF ReferredTo
<1>3. IsList(defs)
  BY <1>2 DEF SoundFrom, SoundEntry, AllOf
<1>4. \E i \in DOMAIN defs : name = defs[i].key
  BY <1>2, <1>3, EnabledEntries
<1> QED BY <1>2, <1>4 DEF Quoted, ToSet

\* A rendering of a spec in which the controller finds no reference to the API
\* server does not depend on its ports.
LEMMA GenerateWithoutPorts ==
  ASSUME NEW in, NEW in2, in2.pkg = in.pkg, SoundInput(in),
         in2.shared = in.shared, in2.sharedErr = in.sharedErr,
         in2.ingressConfig = in.ingressConfig, in2.ingressConfigErr = in.ingressConfigErr,
         ~referencesKubeAPI(in.pkg.spec), Generate(in).ok
  PROVE  Generate(in2) = Generate(in)
<1> DEFINE np == in.pkg.spec.networkPolicies
<1>1. \A name : name # kubeAPI => SameEgress(np, Env(in), Env(in2), name)
  BY DEF SameEgress, resolveEgressDefinition, resolve, builtInEgressDefinitions, Env
<1>2. \A name : SameIngress(np, Env(in), Env(in2), name)
  BY DEF SameIngress, resolveIngressDefinition, Env
<1>3. ASSUME np # Nil, np.enabled PROVE Agree(np, Env(in), Env(in2))
  <2>1. ASSUME np.egress # Nil, NEW i \in DOMAIN np.egress.from
        PROVE  kubeAPI \notin ReferredTo(np.egress.from[i])
    <3>1. SoundFrom(np.egress.from[i])
      BY <1>3, <2>1 DEF SoundInput, SoundNetworkPolicies, SoundEgress, AllOf
    <3>2. kubeAPI \notin Quoted(np.egress.from[i].val)
      BY <1>3, <2>1 DEF referencesKubeAPI
    <3> QED BY <3>1, <3>2, ReferredToIsQuoted
  <2> QED BY <1>1, <1>2, <2>1 DEF Agree
<1>4. resolveInboundRoutes(in2) = resolveInboundRoutes(in)
  BY DEF resolveInboundRoutes, resolveInboundRoute
<1> QED BY <1>3, <1>4, GenerateSame

-----------------------------------------------------------------------------
(* What every object is like before the last pass. *)

Kinds == {"NetworkPolicy", "PeerAuthentication", "AuthorizationPolicy", "VirtualService",
          "ServiceEntry", "Sidecar"}

SoundObject(obj) ==
  /\ HasFields(obj, {"kind", "name", "labels", "annotations", "spec"})
  /\ obj.kind \in Kinds
  /\ obj.kind = "NetworkPolicy" => SoundPolicy(obj.spec)

SoundObjects(list) == IsList(list) /\ \A i \in DOMAIN list : SoundObject(list[i])
SoundResult(result) == result.ok => SoundObjects(result.objs)

LEMMA SoundShortLists ==
  /\ SoundObjects(<<>>)
  /\ \A obj : SoundObject(obj) => SoundObjects(<<obj>>)
BY ShortLists DEF SoundObjects

LEMMA SoundConcatenation ==
  ASSUME NEW s, NEW t, SoundObjects(s), SoundObjects(t)
  PROVE  SoundObjects(s \o t)
<1> DEFINE U == ToSet(s) \cup ToSet(t)
<1>1. s \in Seq(U) /\ t \in Seq(U)
  <2>1. s \in Seq(ToSet(s)) /\ t \in Seq(ToSet(t))
    BY DEF SoundObjects, IsList
  <2> QED BY <2>1
<1>2. s \o t \in Seq(U)
  <2> HIDE DEF U
  <2> QED BY <1>1
<1>3. IsList(s \o t) /\ \A i \in DOMAIN (s \o t) : (s \o t)[i] \in U
  BY <1>2, SeqIsList
<1>4. \A obj \in U : SoundObject(obj)
  BY DEF SoundObjects, ToSet
<1> HIDE DEF U
<1> QED BY <1>3, <1>4 DEF SoundObjects

LEMMA SoundMap ==
  ASSUME NEW n \in Nat, NEW f, f = [i \in 1..n |-> f[i]], \A i \in 1..n : SoundObject(f[i])
  PROVE  SoundObjects(f)
<1>1. DOMAIN f = 1..n
  OBVIOUS
<1> QED BY <1>1, MapIsList DEF SoundObjects

\* What results in order give comes from one of them.
LEMMA InOrderElements ==
  ASSUME NEW results, NEW n \in Nat, DOMAIN results = 1..n, InOrder(results).ok,
         \A i \in 1..n : results[i].ok => IsList(results[i].objs)
  PROVE  /\ IsList(InOrder(results).objs)
         /\ \A j \in DOMAIN InOrder(results).objs :
              \E i \in 1..n : \E k \in DOMAIN results[i].objs :
                InOrder(results).objs[j] = results[i].objs[k]
<1> DEFINE lists == [i \in DOMAIN results |-> results[i].objs]
<1>1. \A i \in 1..n : results[i].ok
  BY InOrderOk
<1>2. InOrder(results).objs = FlattenSeq(lists)
  BY <1>1 DEF InOrder, Ok
<1>3. DOMAIN lists = 1..n /\ \A i \in 1..n : lists[i] = results[i].objs
  OBVIOUS
<1>4. IsList(lists)
  BY MapIsList
<1> HIDE DEF lists
<1> QED BY <1>1, <1>2, <1>3, <1>4, FlattenSeqElements

LEMMA InOrderSound ==
  ASSUME NEW results, NEW n \in Nat, DOMAIN results = 1..n, \A i \in 1..n : SoundResult(results[i])
  PROVE  SoundResult(InOrder(results))
<1>1. SUFFICES ASSUME InOrder(results).ok PROVE SoundObjects(InOrder(results).objs)
  BY DEF SoundResult
<1>2. \A i \in 1..n : SoundObjects(results[i].objs)
  BY <1>1, InOrderOk DEF SoundResult
<1> QED BY <1>1, <1>2, InOrderElements DEF SoundObjects

LEMMA SoundTuples ==
  ASSUME NEW a, SoundResult(a), NEW b, SoundResult(b), NEW c, SoundResult(c),
         NEW d, SoundResult(d)
  PROVE  /\ SoundResult(InOrder(<<a, b>>))
         /\ SoundResult(InOrder(<<a, b, c>>))
         /\ SoundResult(InOrder(<<a, b, c, d>>))
<1> DEFINE two == <<a, b>>
           three == <<a, b, c>>
           four == <<a, b, c, d>>
<1>1. DOMAIN two = 1..2 /\ \A i \in 1..2 : SoundResult(two[i])
  OBVIOUS
<1>2. DOMAIN three = 1..3 /\ \A i \in 1..3 : SoundResult(three[i])
  OBVIOUS
<1>3. DOMAIN four = 1..4 /\ \A i \in 1..4 : SoundResult(four[i])
  OBVIOUS
<1> HIDE DEF two, three, four
<1>4. SoundResult(InOrder(two)) /\ SoundResult(InOrder(three)) /\ SoundResult(InOrder(four))
  BY <1>1, <1>2, <1>3, InOrderSound
<1> QED BY <1>4 DEF two, three, four

LEMMA OkSound ==
  ASSUME NEW made, SoundObjects(made)
  PROVE  SoundResult(Ok(made))
BY DEF SoundResult, Ok

LEMMA ErrSound == SoundResult(Err)
BY DEF SoundResult, Err

LEMMA GeneratedObjectSound ==
  ASSUME NEW kind \in Kinds, NEW name, NEW labels, NEW annotations, NEW spec,
         kind = "NetworkPolicy" => SoundPolicy(spec)
  PROVE  SoundObject(GeneratedObject(kind, name, labels, annotations, spec))
BY DEF SoundObject, HasFields, GeneratedObject

\* A policy with sound rules is sound.
LEMMA NetworkPolicySpecSound ==
  ASSUME NEW selector, NEW direction \in {"egress", "ingress"}, NEW rules, AllOf(rules, SoundRule)
  PROVE  SoundPolicy(NetworkPolicySpec(selector, direction, rules))
<1>1. AllOf(<<>>, SoundRule)
  BY ShortLists DEF AllOf
<1> QED BY <1>1 DEF SoundPolicy, NetworkPolicySpec, HasFields

LEMMA OneRuleSound ==
  ASSUME NEW rule, SoundRule(rule)
  PROVE  AllOf(<<rule>>, SoundRule)
BY ShortLists DEF AllOf

LEMMA RuleSound ==
  ASSUME NEW peers, NEW ports, AllOf(ports, SoundPort)
  PROVE  SoundRule(Rule(peers, ports))
BY DEF SoundRule, Rule, HasFields

LEMMA NetpolSound ==
  ASSUME NEW pkg, NEW spec, NEW name, NEW annotations, NEW selector,
         NEW direction \in {"egress", "ingress"}, NEW rules, AllOf(rules, SoundRule)
  PROVE  SoundObject(Netpol(pkg, spec, name, annotations, selector, direction, rules))
BY NetworkPolicySpecSound, GeneratedObjectSound DEF Netpol, Kinds

\* The metadata of a rule does not change what an object is.
LEMMA FromRuleSound ==
  ASSUME NEW readable \in BOOLEAN, NEW obj, NEW local, NEW val, readable => SoundObject(obj)
  PROVE  SoundResult(FromRule(readable, obj, local, val))
<1> DEFINE meta == mergeShorthandMetadata(local.metadata, val.metadata)
           made == applyShorthandMetadata(obj, meta)
<1>1. SUFFICES ASSUME readable PROVE SoundObjects(<<made>>)
  BY OkSound, ErrSound DEF FromRule
<1>2. SoundObject(made)
  <2> HIDE DEF meta
  <2> QED BY <1>1 DEF SoundObject, HasFields, applyShorthandMetadata
<1> HIDE DEF made
<1> QED BY <1>2, SoundShortLists

-----------------------------------------------------------------------------
(* Ports, definitions and rules. *)

\* A conversion gives a number, and leaves the numbers of its type as they are.
LEMMA Conversions ==
  /\ \A n \in Int : Int32(n) \in Int
  /\ \A n \in -MaxInt32 - 1 .. MaxInt32 : Int32(n) = n
  /\ \A n \in 0 .. MaxInt32 : UInt32(n) = n
<1>1. \A n \in Int : Int32(n) \in Int
  BY MaxInt32Assumption DEF Int32, UInt32
<1>2. \A n \in -MaxInt32 - 1 .. MaxInt32 : Int32(n) = n
  BY MaxInt32Assumption DEF Int32, UInt32
<1>3. \A n \in 0 .. MaxInt32 : UInt32(n) = n
  BY MaxInt32Assumption DEF UInt32
<1> QED BY <1>1, <1>2, <1>3

\* A key with sound ports parses to sound ports.
LEMMA ParsedPortsSound ==
  ASSUME NEW key, NEW rest, SoundKeyPorts(key.ports), ParsedWithPorts(key, rest) # Nil,
         DOMAIN rest \cap {"protocol", "ports", "range"} = {}
  PROVE  AllOf(parsedPorts(ParsedWithPorts(key, rest)), SoundPort)
<1> DEFINE parsed == ParsedWithPorts(key, rest)
           nums == key.ports.nums
<1>1. parsed.ports = nums /\ parsed.range = key.ports.range
  BY DEF ParsedWithPorts, parsePortSpec, mergeMaps
<1>2. CASE parsed.range /\ Len(nums) = 2
  <2> DEFINE begin == Int32(nums[1])
             end == Int32(nums[2])
  <2>1. parsedPorts(parsed) = <<NetpolPort(parsed.protocol, begin, end)>>
    BY <1>1, <1>2 DEF parsedPorts, buildNetpolPorts
  <2>2. begin \in Int /\ end \in Int /\ begin <= end
    <3>1. DOMAIN nums = 1..2 /\ key.ports.range
      BY <1>1, <1>2, ListFacts DEF SoundKeyPorts
    <3>2. nums[1] \in Int /\ nums[2] \in Int /\ begin <= end
      BY <3>1 DEF SoundKeyPorts, ToSet
    <3> QED BY <3>2, Conversions
  <2> HIDE DEF nums, begin, end
  <2>3. SoundPort(NetpolPort(parsed.protocol, begin, end))
    BY <2>2 DEF SoundPort, NetpolPort
  <2> QED BY <2>1, <2>3, ShortLists DEF AllOf
<1>3. CASE ~(parsed.range /\ Len(nums) = 2)
  <2> DEFINE ports == [i \in DOMAIN nums |-> NetpolPort(parsed.protocol, Int32(nums[i]), Nil)]
  <2>1. parsedPorts(parsed) = ports
    BY <1>1, <1>3 DEF parsedPorts, buildNetpolPorts
  <2>2. \A i \in DOMAIN nums : SoundPort(ports[i])
    BY DEF SoundPort, NetpolPort
  <2>3. DOMAIN nums = 1 .. Len(nums) /\ Len(nums) \in Nat
    BY ListFacts DEF SoundKeyPorts
  <2>4. DOMAIN ports = 1 .. Len(nums) /\ ports = [i \in 1 .. Len(nums) |-> ports[i]]
    BY <2>3
  <2> HIDE DEF nums, ports
  <2> QED BY <2>1, <2>2, <2>3, <2>4, MapIsList DEF AllOf
<1> QED BY <1>2, <1>3

\* A definition that resolves is a sound rule, whichever layer it is from.
LEMMA ResolveSound ==
  ASSUME NEW local, NEW shared, NEW err, NEW builtIn, NEW name,
         SoundDefinitions(local), SoundDefinitions(shared),
         \A n \in DOMAIN builtIn : SoundRule(builtIn[n]),
         resolve(local, shared, err, builtIn, name) # Nil
  PROVE  SoundRule(resolve(local, shared, err, builtIn, name))
<1>1. \A raw : AllOf(raw.ports, SoundPort) /\ ParsedDefinition(raw) # Nil => SoundRule(ParsedDefinition(raw))
  BY RuleSound DEF ParsedDefinition, buildDefinition
<1> QED BY <1>1 DEF resolve, SoundDefinitions

LEMMA EgressDefinitionSound ==
  ASSUME NEW spec, NEW name, NEW env, SoundDefinitions(spec.egress.definitions),
         SoundDefinitions(env.sharedEgress), IsList(env.kubeAPIPorts),
         resolveEgressDefinition(spec, name, env) # Nil
  PROVE  SoundRule(resolveEgressDefinition(spec, name, env))
<1> DEFINE ports == env.kubeAPIPorts
           made == [i \in DOMAIN ports |-> [protocol |-> "TCP", port |-> ports[i], end |-> Nil]]
<1>1. AllOf(made, SoundPort)
  <2>1. \A i \in DOMAIN ports : SoundPort(made[i])
    BY DEF SoundPort
  <2>2. DOMAIN made = 1 .. Len(ports) /\ Len(ports) \in Nat
    BY ListFacts
  <2>3. made = [i \in 1 .. Len(ports) |-> made[i]]
    BY <2>2
  <2>4. DOMAIN made = DOMAIN ports
    OBVIOUS
  <2> HIDE DEF made, ports
  <2> QED BY <2>1, <2>2, <2>3, <2>4, MapIsList DEF AllOf
<1>2. \A n \in DOMAIN builtInEgressDefinitions(ports) : SoundRule(builtInEgressDefinitions(ports)[n])
  <2>1. \A peers : SoundRule(Rule(peers, made))
    BY <1>1, RuleSound
  <2> QED BY <2>1 DEF builtInEgressDefinitions
<1> HIDE DEF made, ports
<1> QED BY <1>2, ResolveSound DEF resolveEgressDefinition, ports

LEMMA IngressDefinitionSound ==
  ASSUME NEW spec, NEW name, NEW env, SoundDefinitions(spec.ingress.definitions),
         SoundDefinitions(env.sharedIngress),
         resolveIngressDefinition(spec, name, env) # Nil
  PROVE  SoundRule(resolveIngressDefinition(spec, name, env))
<1>1. \A n \in DOMAIN builtInIngressDefinitions : SoundRule(builtInIngressDefinitions[n])
  <2>1. AllOf(<<>>, SoundPort)
    BY ShortLists DEF AllOf
  <2>2. \A peers : SoundRule(Rule(peers, <<>>))
    BY <2>1, RuleSound
  <2> QED BY <2>2 DEF builtInIngressDefinitions
<1> QED BY <1>1, ResolveSound DEF resolveIngressDefinition

-----------------------------------------------------------------------------
(* The NetworkPolicies. *)

\* An enabled entry has the key of an entry as written, and its value decoded.
LEMMA EnabledTargets ==
  ASSUME NEW entries, IsList(entries), \A i \in DOMAIN entries : SoundTarget(entries[i])
  PROVE  /\ Len(Enabled(entries)) \in Nat
         /\ DOMAIN Enabled(entries) = 1 .. Len(Enabled(entries))
         /\ \A j \in DOMAIN Enabled(entries) : \E i \in DOMAIN entries :
              /\ Enabled(entries)[j].key = entries[i].key
              /\ Enabled(entries)[j].val.spec = entries[i].val.spec
<1>1. \A i \in DOMAIN entries : Target(entries[i].val).spec = entries[i].val.spec
  BY DEF SoundTarget, HasFields, Target
<1>2. Len(Enabled(entries)) \in Nat /\ DOMAIN Enabled(entries) = 1 .. Len(Enabled(entries))
  BY EnabledEntries, ListFacts
<1> QED BY <1>1, <1>2, EnabledEntries

LEMMA EgressSourceSound ==
  ASSUME NEW pkg, NEW spec, NEW env, NEW entry, SoundFrom(entry),
         SoundDefinitions(spec.egress.definitions),
         SoundDefinitions(env.sharedEgress), IsList(env.kubeAPIPorts)
  PROVE  SoundResult(expandEgressSource(pkg, spec, env, entry))
<1> DEFINE local == Source(entry.val)
           peer == entry.val.peer
           K8s(e) == LET r == parseEgressRemoteKey(e.key) IN
             FromRule(r # Nil, buildShorthandEgressNetpol(pkg, spec, entry.key, local, e.key, r, e.val),
                      local, e.val)
           Definition(e) == LET def == resolveEgressDefinition(spec, e.key, env) IN
             FromRule(def # Nil, buildEgressDefinitionNetpol(pkg, spec, entry.key, local, e.key, def),
                      local, e.val)
           Cidr(e) == LET r == parseEgressCIDRKey(e.key) IN
             FromRule(r # Nil, buildEgressCIDRNetpol(pkg, spec, entry.key, local, e.key, r), local, e.val)
           Literal(e) ==
             FromRule(~LiteralFails(e), buildEgressLiteralNetpol(pkg, spec, entry.key, local, e),
                      local, e.val)
           k8s == InOrder([i \in DOMAIN Enabled(peer.k8s) |-> K8s(Enabled(peer.k8s)[i])])
           definition == InOrder([i \in DOMAIN Enabled(peer.definition) |->
                                    Definition(Enabled(peer.definition)[i])])
           cidr == InOrder([i \in DOMAIN Enabled(peer.cidr) |-> Cidr(Enabled(peer.cidr)[i])])
           literal == InOrder([i \in DOMAIN Enabled(peer.literal) |->
                                 Literal(Enabled(peer.literal)[i])])
<1>1. local.peer = peer
  BY DEF Source, SoundFrom, SoundEntry, HasFields
<1>2. expandEgressSource(pkg, spec, env, entry) =
        IF ~entry.val.decodes THEN Err
        ELSE IF peer = Nil THEN Ok(<<>>) ELSE InOrder(<<k8s, definition, cidr, literal>>)
  BY <1>1 DEF expandEgressSource, ForEach
<1>3. SUFFICES ASSUME peer # Nil PROVE SoundResult(InOrder(<<k8s, definition, cidr, literal>>))
  BY <1>2, OkSound, ErrSound, SoundShortLists
<1>4. /\ IsList(peer.k8s) /\ \A i \in DOMAIN peer.k8s : SoundWithPorts(peer.k8s[i])
      /\ IsList(peer.definition) /\ \A i \in DOMAIN peer.definition : SoundTarget(peer.definition[i])
      /\ IsList(peer.cidr) /\ \A i \in DOMAIN peer.cidr : SoundWithPorts(peer.cidr[i])
      /\ IsList(peer.literal) /\ \A i \in DOMAIN peer.literal : SoundLiteral(peer.literal[i])
  BY <1>3 DEF SoundFrom, SoundEntry, AllOf, SoundRemote, SoundCidr
<1>5. SoundResult(k8s)
  <2>1. ASSUME NEW e, SoundKeyPorts(e.key.ports) PROVE SoundResult(K8s(e))
    <3> DEFINE r == parseEgressRemoteKey(e.key)
    <3>1. r # Nil => AllOf(parsedPorts(r), SoundPort)
      BY <2>1, ParsedPortsSound DEF parseEgressRemoteKey
    <3>2. r # Nil => SoundObject(buildShorthandEgressNetpol(pkg, spec, entry.key, local, e.key, r, e.val))
      <4> HIDE DEF r, local
      <4> QED BY <3>1, RuleSound, OneRuleSound, NetpolSound DEF buildShorthandEgressNetpol
    <3> HIDE DEF r, local
    <3> QED BY <3>2, FromRuleSound DEF r
  <2>2. \A i \in DOMAIN Enabled(peer.k8s) : SoundKeyPorts(Enabled(peer.k8s)[i].key.ports)
    BY <1>4, EnabledTargets DEF SoundWithPorts
  <2>3. \A i \in DOMAIN Enabled(peer.k8s) : SoundResult(K8s(Enabled(peer.k8s)[i]))
    BY <2>1, <2>2
  <2>4. Len(Enabled(peer.k8s)) \in Nat /\ DOMAIN Enabled(peer.k8s) = 1 .. Len(Enabled(peer.k8s))
    BY <1>4, EnabledTargets DEF SoundWithPorts
  <2> HIDE DEF K8s, peer
  <2> QED BY <2>3, <2>4, InOrderSound
<1>6. SoundResult(definition)
  <2>1. ASSUME NEW e PROVE SoundResult(Definition(e))
    <3> DEFINE def == resolveEgressDefinition(spec, e.key, env)
    <3>1. def # Nil => SoundRule(def)
      BY EgressDefinitionSound
    <3>2. def # Nil => SoundObject(buildEgressDefinitionNetpol(pkg, spec, entry.key, local, e.key, def))
      <4> HIDE DEF def, local
      <4> QED BY <3>1, OneRuleSound, NetpolSound DEF buildEgressDefinitionNetpol
    <3> HIDE DEF def, local
    <3> QED BY <3>2, FromRuleSound DEF def
  <2>2. Len(Enabled(peer.definition)) \in Nat
          /\ DOMAIN Enabled(peer.definition) = 1 .. Len(Enabled(peer.definition))
    BY <1>4, EnabledTargets
  <2> HIDE DEF Definition, peer
  <2> QED BY <2>1, <2>2, InOrderSound
<1>7. SoundResult(cidr)
  <2>1. ASSUME NEW e, SoundKeyPorts(e.key.ports) PROVE SoundResult(Cidr(e))
    <3> DEFINE r == parseEgressCIDRKey(e.key)
    <3>1. r # Nil => AllOf(parsedPorts(r), SoundPort)
      BY <2>1, ParsedPortsSound DEF parseEgressCIDRKey
    <3>2. r # Nil => SoundObject(buildEgressCIDRNetpol(pkg, spec, entry.key, local, e.key, r))
      <4> HIDE DEF r, local
      <4> QED BY <3>1, RuleSound, OneRuleSound, NetpolSound DEF buildEgressCIDRNetpol
    <3> HIDE DEF r, local
    <3> QED BY <3>2, FromRuleSound DEF r
  <2>2. \A i \in DOMAIN Enabled(peer.cidr) : SoundKeyPorts(Enabled(peer.cidr)[i].key.ports)
    BY <1>4, EnabledTargets DEF SoundWithPorts
  <2>3. \A i \in DOMAIN Enabled(peer.cidr) : SoundResult(Cidr(Enabled(peer.cidr)[i]))
    BY <2>1, <2>2
  <2>4. Len(Enabled(peer.cidr)) \in Nat /\ DOMAIN Enabled(peer.cidr) = 1 .. Len(Enabled(peer.cidr))
    BY <1>4, EnabledTargets DEF SoundWithPorts, SoundLiteral
  <2> HIDE DEF Cidr, peer
  <2> QED BY <2>3, <2>4, InOrderSound
<1>8. SoundResult(literal)
  <2>1. ASSUME NEW e, e.val.spec # Nil => AllOf(e.val.spec.rules, SoundRule) PROVE SoundResult(Literal(e))
    <3>1. ~LiteralFails(e) => SoundObject(buildEgressLiteralNetpol(pkg, spec, entry.key, local, e))
      <4> HIDE DEF local
      <4> QED BY <2>1, NetpolSound DEF LiteralFails, buildEgressLiteralNetpol
    <3>2. LiteralFails(e) \in BOOLEAN
      BY DEF LiteralFails
    <3> HIDE DEF local
    <3> QED BY <3>1, <3>2, FromRuleSound
  <2>2. \A i \in DOMAIN Enabled(peer.literal) : LET e == Enabled(peer.literal)[i] IN
          e.val.spec # Nil => AllOf(e.val.spec.rules, SoundRule)
    BY <1>4, EnabledTargets DEF SoundLiteral
  <2>3. \A i \in DOMAIN Enabled(peer.literal) : SoundResult(Literal(Enabled(peer.literal)[i]))
    BY <2>1, <2>2
  <2>4. Len(Enabled(peer.literal)) \in Nat /\ DOMAIN Enabled(peer.literal) = 1 .. Len(Enabled(peer.literal))
    BY <1>4, EnabledTargets DEF SoundWithPorts, SoundLiteral
  <2> HIDE DEF Literal, peer
  <2> QED BY <2>3, <2>4, InOrderSound
<1> HIDE DEF k8s, definition, cidr, literal
<1> QED BY <1>5, <1>6, <1>7, <1>8, SoundTuples

LEMMA IngressTargetSound ==
  ASSUME NEW pkg, NEW spec, NEW env, NEW entry, SoundTo(entry),
         SoundDefinitions(spec.ingress.definitions), SoundDefinitions(env.sharedIngress)
  PROVE  SoundResult(expandIngressTarget(pkg, spec, env, entry))
<1> DEFINE local == Source(entry.val)
           peer == entry.val.peer
           to == parseIngressLocalKey(entry.key)
           K8s(e) == LET r == parseIngressRemoteKey(e.key) IN
             FromRule(r # Nil, buildShorthandIngressNetpol(pkg, spec, to, local, e.key, r, e.val),
                      local, e.val)
           Definition(e) == LET def == resolveIngressDefinition(spec, e.key, env) IN
             FromRule(def # Nil, buildIngressDefinitionNetpol(pkg, spec, to, local, e.key, def),
                      local, e.val)
           Cidr(e) == LET r == parseIngressCIDRKey(e.key) IN
             FromRule(r # Nil, buildIngressCIDRNetpol(pkg, spec, to, local, e.key, r), local, e.val)
           Literal(e) ==
             FromRule(~LiteralFails(e), buildIngressLiteralNetpol(pkg, spec, to, local, e), local, e.val)
           k8s == InOrder([i \in DOMAIN Enabled(peer.k8s) |-> K8s(Enabled(peer.k8s)[i])])
           definition == InOrder([i \in DOMAIN Enabled(peer.definition) |->
                                    Definition(Enabled(peer.definition)[i])])
           cidr == InOrder([i \in DOMAIN Enabled(peer.cidr) |-> Cidr(Enabled(peer.cidr)[i])])
           literal == InOrder([i \in DOMAIN Enabled(peer.literal) |->
                                 Literal(Enabled(peer.literal)[i])])
<1>1. local.peer = peer
  BY DEF Source, SoundTo, SoundEntry, HasFields
<1>2. expandIngressTarget(pkg, spec, env, entry) =
        IF ~entry.val.decodes THEN Err
        ELSE IF peer = Nil THEN Ok(<<>>)
        ELSE IF to = Nil THEN Err ELSE InOrder(<<k8s, definition, cidr, literal>>)
  BY <1>1 DEF expandIngressTarget, ForEach
<1>3. SUFFICES ASSUME peer # Nil, to # Nil PROVE SoundResult(InOrder(<<k8s, definition, cidr, literal>>))
  BY <1>2, OkSound, ErrSound, SoundShortLists
<1>4. /\ IsList(peer.k8s) /\ \A i \in DOMAIN peer.k8s : SoundTarget(peer.k8s[i])
      /\ IsList(peer.definition) /\ \A i \in DOMAIN peer.definition : SoundTarget(peer.definition[i])
      /\ IsList(peer.cidr) /\ \A i \in DOMAIN peer.cidr : SoundTarget(peer.cidr[i])
      /\ IsList(peer.literal) /\ \A i \in DOMAIN peer.literal : SoundLiteral(peer.literal[i])
  BY <1>3 DEF SoundTo, SoundEntry, AllOf
<1>5. AllOf(parsedPorts(to), SoundPort)
  BY <1>3, ParsedPortsSound DEF SoundTo, parseIngressLocalKey
<1>6. SoundResult(k8s)
  <2>1. ASSUME NEW e PROVE SoundResult(K8s(e))
    <3> DEFINE r == parseIngressRemoteKey(e.key)
    <3>1. SoundObject(buildShorthandIngressNetpol(pkg, spec, to, local, e.key, r, e.val))
      <4> HIDE DEF r, local, to
      <4> QED BY <1>5, RuleSound, OneRuleSound, NetpolSound DEF buildShorthandIngressNetpol
    <3> HIDE DEF r, local, to
    <3> QED BY <3>1, FromRuleSound DEF r
  <2>2. Len(Enabled(peer.k8s)) \in Nat /\ DOMAIN Enabled(peer.k8s) = 1 .. Len(Enabled(peer.k8s))
    BY <1>4, EnabledTargets
  <2> HIDE DEF K8s, peer
  <2> QED BY <2>1, <2>2, InOrderSound
<1>7. SoundResult(definition)
  <2>1. ASSUME NEW e PROVE SoundResult(Definition(e))
    <3> DEFINE def == resolveIngressDefinition(spec, e.key, env)
    <3>1. def # Nil => SoundRule(def)
      BY IngressDefinitionSound
    <3>2. def # Nil => SoundObject(buildIngressDefinitionNetpol(pkg, spec, to, local, e.key, def))
      <4> HIDE DEF def, local, to
      <4>1. \A peers : SoundRule(Rule(peers, parsedPorts(to)))
        BY <1>5, RuleSound
      <4> QED BY <3>1, <4>1, OneRuleSound, NetpolSound DEF buildIngressDefinitionNetpol
    <3> HIDE DEF def, local, to
    <3> QED BY <3>2, FromRuleSound DEF def
  <2>2. Len(Enabled(peer.definition)) \in Nat /\ DOMAIN Enabled(peer.definition) = 1 .. Len(Enabled(peer.definition))
    BY <1>4, EnabledTargets
  <2> HIDE DEF Definition, peer
  <2> QED BY <2>1, <2>2, InOrderSound
<1>8. SoundResult(cidr)
  <2>1. ASSUME NEW e PROVE SoundResult(Cidr(e))
    <3> DEFINE r == parseIngressCIDRKey(e.key)
    <3>1. SoundObject(buildIngressCIDRNetpol(pkg, spec, to, local, e.key, r))
      <4> HIDE DEF r, local, to
      <4> QED BY <1>5, RuleSound, OneRuleSound, NetpolSound DEF buildIngressCIDRNetpol
    <3> HIDE DEF r, local, to
    <3> QED BY <3>1, FromRuleSound DEF r
  <2>2. Len(Enabled(peer.cidr)) \in Nat /\ DOMAIN Enabled(peer.cidr) = 1 .. Len(Enabled(peer.cidr))
    BY <1>4, EnabledTargets
  <2> HIDE DEF Cidr, peer
  <2> QED BY <2>1, <2>2, InOrderSound
<1>9. SoundResult(literal)
  <2>1. ASSUME NEW e, e.val.spec # Nil => AllOf(e.val.spec.rules, SoundRule) PROVE SoundResult(Literal(e))
    <3>1. ~LiteralFails(e) => SoundObject(buildIngressLiteralNetpol(pkg, spec, to, local, e))
      <4> HIDE DEF local, to
      <4> QED BY <2>1, NetpolSound DEF LiteralFails, buildIngressLiteralNetpol
    <3>2. LiteralFails(e) \in BOOLEAN
      BY DEF LiteralFails
    <3> HIDE DEF local, to
    <3> QED BY <3>1, <3>2, FromRuleSound
  <2>2. \A i \in DOMAIN Enabled(peer.literal) : LET e == Enabled(peer.literal)[i] IN
          e.val.spec # Nil => AllOf(e.val.spec.rules, SoundRule)
    BY <1>4, EnabledTargets DEF SoundLiteral
  <2>3. \A i \in DOMAIN Enabled(peer.literal) : SoundResult(Literal(Enabled(peer.literal)[i]))
    BY <2>1, <2>2
  <2>4. Len(Enabled(peer.literal)) \in Nat /\ DOMAIN Enabled(peer.literal) = 1 .. Len(Enabled(peer.literal))
    BY <1>4, EnabledTargets DEF SoundLiteral
  <2> HIDE DEF Literal, peer
  <2> QED BY <2>3, <2>4, InOrderSound
<1> HIDE DEF k8s, definition, cidr, literal
<1> QED BY <1>6, <1>7, <1>8, <1>9, SoundTuples

\* The default policies, both directions.
LEMMA DefaultNetpolsSound ==
  ASSUME NEW pkg, NEW spec, NEW istio
  PROVE  /\ SoundObjects(defaultEgressPolicies(pkg, spec, istio))
         /\ SoundObjects(defaultIngressPolicies(pkg, spec, istio))
<1> DEFINE Made(direction, what, rules) == DefaultNetpol(pkg, spec, direction, what, rules)
           Maybe(wanted, made) == IF wanted THEN made ELSE <<>>
<1>1. ASSUME NEW direction \in {"egress", "ingress"}, NEW what, NEW rules, AllOf(rules, SoundRule)
      PROVE  SoundObjects(Made(direction, what, rules))
  BY <1>1, NetpolSound, SoundShortLists DEF DefaultNetpol
<1>2. \A p : SoundPort(Tcp(p)) /\ SoundPort(Udp(p))
  BY DEF SoundPort, Tcp, Udp, NetpolPort
<1>3. /\ AllOf(<<>>, SoundPort) /\ \A p : AllOf(<<Tcp(p)>>, SoundPort)
      /\ AllOf(<<Udp(53), Tcp(53)>>, SoundPort)
  <2>1. AllOf(<<>>, SoundPort) /\ \A p : AllOf(<<Tcp(p)>>, SoundPort)
    BY <1>2, ShortLists DEF AllOf
  <2> DEFINE ports == <<Udp(53), Tcp(53)>>
  <2>2. ports = [i \in 1..2 |-> ports[i]] /\ DOMAIN ports = 1..2 /\ ports[1] = Udp(53) /\ ports[2] = Tcp(53)
    OBVIOUS
  <2> HIDE DEF ports
  <2>3. IsList(ports)
    BY <2>2, MapIsList
  <2>4. \A i \in 1..2 : SoundPort(ports[i])
    BY <1>2, <2>2
  <2>5. AllOf(ports, SoundPort)
    BY <2>2, <2>3, <2>4 DEF AllOf
  <2> QED BY <2>1, <2>5 DEF ports
<1>4. /\ AllOf(<<>>, SoundRule)
      /\ \A peers : AllOf(<<Rule(peers, <<>>)>>, SoundRule)
      /\ \A peers, p : AllOf(<<Rule(peers, <<Tcp(p)>>)>>, SoundRule)
      /\ \A peers : AllOf(<<Rule(peers, <<Udp(53), Tcp(53)>>)>>, SoundRule)
  <2>1. AllOf(<<>>, SoundRule)
    BY ShortLists DEF AllOf
  <2> QED BY <1>3, <2>1, RuleSound, OneRuleSound
<1>5. \A wanted, made : SoundObjects(made) => SoundObjects(Maybe(wanted, made))
  BY SoundShortLists
<1>6. SoundObjects(defaultEgressPolicies(pkg, spec, istio))
  <2> DEFINE a == Maybe(Wanted(spec.egress, "denyAll"), Made("egress", <<"deny", "all">>, <<>>))
             b == Maybe(Wanted(spec.egress, "allowInNamespace"),
                        Made("egress", <<"allow", "all", "in", "ns">>, <<Rule(<<Pods(Nil, {})>>, <<>>)>>))
             c == Maybe(Wanted(spec.egress, "allowKubeDNS"),
                        Made("egress", <<"allow", "kube", "dns">>, <<Rule(<<kubeDNS>>, <<Udp(53), Tcp(53)>>)>>))
             d == Maybe(Wanted(spec.egress, "allowIstiod") /\ ~istioAmbient(istio),
                        Made("egress", <<"allow", "istiod">>, <<Rule(<<istiod>>, <<Tcp(15012)>>)>>))
  <2>1. defaultEgressPolicies(pkg, spec, istio) = a \o b \o c \o d
    BY DEF defaultEgressPolicies
  <2> HIDE DEF Made, Maybe
  <2>2. SoundObjects(a) /\ SoundObjects(b) /\ SoundObjects(c) /\ SoundObjects(d)
    BY <1>1, <1>4, <1>5
  <2> HIDE DEF a, b, c, d
  <2> QED BY <2>1, <2>2, SoundConcatenation
<1>7. SoundObjects(defaultIngressPolicies(pkg, spec, istio))
  <2> DEFINE a == Maybe(Wanted(spec.ingress, "denyAll"), Made("ingress", <<"deny", "all">>, <<>>))
             b == Maybe(Wanted(spec.ingress, "allowInNamespace"),
                        Made("ingress", <<"allow", "all", "in", "ns">>, <<Rule(<<Pods(Nil, {})>>, <<>>)>>))
             c == Maybe(Wanted(spec.ingress, "allowPrometheusToIstioSidecar") /\ ~istioAmbient(istio),
                        Made("ingress", <<"allow", "prometheus", "to", "istio", "sidecar">>,
                             <<Rule(<<prometheus>>, <<Tcp(15020)>>)>>))
             d == Maybe(istioAmbient(istio) /\ SideEnabled(spec.ingress),
                        Made("ingress", <<"allow", "ambient", "kubelet">>, <<Rule(<<kubelet>>, <<>>)>>))
  <2>1. defaultIngressPolicies(pkg, spec, istio) = a \o b \o c \o d
    BY DEF defaultIngressPolicies
  <2> HIDE DEF Made, Maybe
  <2>2. SoundObjects(a) /\ SoundObjects(b) /\ SoundObjects(c) /\ SoundObjects(d)
    BY <1>1, <1>4, <1>5
  <2> HIDE DEF a, b, c, d
  <2> QED BY <2>1, <2>2, SoundConcatenation
<1> QED BY <1>6, <1>7

LEMMA NetworkPoliciesSound ==
  ASSUME NEW pkg, NEW spec, NEW istio, NEW env, SoundNetworkPolicies(spec),
         SoundDefinitions(env.sharedEgress), SoundDefinitions(env.sharedIngress), IsList(env.kubeAPIPorts)
  PROVE  SoundResult(generateNetworkPolicies(pkg, spec, istio, env))
<1> DEFINE Egress == IF spec.egress = Nil THEN Ok(<<>>) ELSE expandShorthandEgress(pkg, spec, env)
           Ingress == IF spec.ingress = Nil THEN Ok(<<>>) ELSE expandShorthandIngress(pkg, spec, env)
           egress == Ok(defaultEgressPolicies(pkg, spec, istio))
           ingress == Ok(defaultIngressPolicies(pkg, spec, istio))
           more == spec.additionalPolicies
           additional == InOrder([i \in DOMAIN more |-> buildAdditionalPolicy(pkg, spec, more[i])])
           five == <<egress, ingress, Egress, Ingress, additional>>
<1>1. generateNetworkPolicies(pkg, spec, istio, env) = InOrder(five)
  BY DEF generateNetworkPolicies, ForEach
<1>2. SoundResult(egress) /\ SoundResult(ingress)
  BY DefaultNetpolsSound, OkSound
<1>3. SoundResult(Egress)
  <2>1. SUFFICES ASSUME spec.egress # Nil PROVE SoundResult(expandShorthandEgress(pkg, spec, env))
    BY OkSound, SoundShortLists
  <2> DEFINE from == spec.egress.from
             One(i) == expandEgressSource(pkg, spec, env, from[i])
  <2>2. expandShorthandEgress(pkg, spec, env) = InOrder([i \in DOMAIN from |-> One(i)])
    BY DEF expandShorthandEgress, ForEach
  <2>3. IsList(from) /\ \A i \in DOMAIN from : SoundFrom(from[i])
    BY <2>1 DEF SoundNetworkPolicies, SoundEgress, AllOf
  <2>4. SoundDefinitions(spec.egress.definitions)
    BY <2>1 DEF SoundNetworkPolicies, SoundEgress
  <2>5. \A i \in DOMAIN from : SoundResult(One(i))
    BY <2>3, <2>4, EgressSourceSound
  <2>6. Len(from) \in Nat /\ DOMAIN from = 1 .. Len(from)
    BY <2>3, ListFacts
  <2> HIDE DEF One, from
  <2> QED BY <2>2, <2>5, <2>6, InOrderSound
<1>4. SoundResult(Ingress)
  <2>1. SUFFICES ASSUME spec.ingress # Nil PROVE SoundResult(expandShorthandIngress(pkg, spec, env))
    BY OkSound, SoundShortLists
  <2> DEFINE to == spec.ingress.to
             One(i) == expandIngressTarget(pkg, spec, env, to[i])
  <2>2. expandShorthandIngress(pkg, spec, env) = InOrder([i \in DOMAIN to |-> One(i)])
    BY DEF expandShorthandIngress, ForEach
  <2>3. IsList(to) /\ \A i \in DOMAIN to : SoundTo(to[i])
    BY <2>1 DEF SoundNetworkPolicies, SoundIngress, AllOf
  <2>4. SoundDefinitions(spec.ingress.definitions)
    BY <2>1 DEF SoundNetworkPolicies, SoundIngress
  <2>5. \A i \in DOMAIN to : SoundResult(One(i))
    BY <2>3, <2>4, IngressTargetSound
  <2>6. Len(to) \in Nat /\ DOMAIN to = 1 .. Len(to)
    BY <2>3, ListFacts
  <2> HIDE DEF One, to
  <2> QED BY <2>2, <2>5, <2>6, InOrderSound
<1>5. SoundResult(additional)
  <2>1. IsList(more) /\ \A i \in DOMAIN more : more[i].decodes => SoundPolicy(more[i].spec)
    BY DEF SoundNetworkPolicies, AllOf
  <2>2. \A i \in DOMAIN more : SoundResult(buildAdditionalPolicy(pkg, spec, more[i]))
    BY <2>1, GeneratedObjectSound, SoundShortLists, OkSound, ErrSound DEF buildAdditionalPolicy, Kinds
  <2>3. Len(more) \in Nat /\ DOMAIN more = 1 .. Len(more)
    BY <2>1, ListFacts
  <2> HIDE DEF more
  <2> QED BY <2>2, <2>3, InOrderSound
<1> HIDE DEF egress, ingress, Egress, Ingress, additional
<1>6. DOMAIN five = 1..5 /\ \A i \in 1..5 : SoundResult(five[i])
  BY <1>2, <1>3, <1>4, <1>5
<1> HIDE DEF five
<1> QED BY <1>1, <1>6, InOrderSound

-----------------------------------------------------------------------------
(* Istio, routes and AuthorizationPolicies. *)

LEMMA RawObjectSound ==
  ASSUME NEW kind \in Kinds \ {"NetworkPolicy"}, NEW name, NEW raw
  PROVE  SoundResult(RawObject(kind, name, raw))
BY GeneratedObjectSound, SoundShortLists, OkSound, ErrSound DEF RawObject

LEMMA IstioSound ==
  ASSUME NEW pkg, NEW spec, IsList(spec.serviceEntries)
  PROVE  SoundResult(generateIstio(pkg, spec))
<1> DEFINE auth == Ok(<<GeneratedObject("PeerAuthentication",
                          prependName(spec.prependReleaseName, pkg.name, <<"default", "peer", "auth">>),
                          NoEntries, NoEntries, [mtls |-> mTLSMode(spec)])>>)
           sidecar == Ok(sidecarResource(pkg, spec))
           entries == spec.serviceEntries
           One(i) == IF entries[i].name = <<>> THEN Err
                     ELSE RawObject("ServiceEntry", entries[i].name, entries[i])
           custom == InOrder([i \in DOMAIN entries |-> One(i)])
<1>1. generateIstio(pkg, spec) = InOrder(<<auth, sidecar, custom>>)
  BY DEF generateIstio, generateCustomServiceEntries, ForEach
<1>2. SoundResult(auth)
  BY GeneratedObjectSound, SoundShortLists, OkSound DEF Kinds
<1>3. SoundResult(sidecar)
  BY GeneratedObjectSound, SoundShortLists, OkSound DEF Kinds, sidecarResource
<1>4. SoundResult(custom)
  <2>1. \A i \in DOMAIN entries : SoundResult(One(i))
    BY RawObjectSound, ErrSound DEF Kinds
  <2>2. Len(entries) \in Nat /\ DOMAIN entries = 1 .. Len(entries)
    BY ListFacts
  <2> HIDE DEF One, entries
  <2> QED BY <2>1, <2>2, InOrderSound
<1> HIDE DEF auth, sidecar, custom
<1> QED BY <1>1, <1>2, <1>3, <1>4, SoundTuples

\* The inbound routes are a list, and so are the gateways of each.
LEMMA InboundIsList ==
  ASSUME NEW in, in.pkg.spec.routes # Nil => SoundRoutes(in.pkg.spec.routes),
         in.ingressConfig # Nil /\ in.ingressConfig.defaults # Nil => IsList(in.ingressConfig.defaults),
         resolveInboundRoutes(in).ok
  PROVE  /\ IsList(resolveInboundRoutes(in).objs)
         /\ \A i \in DOMAIN resolveInboundRoutes(in).objs : IsList(resolveInboundRoutes(in).objs[i].gateways)
<1> DEFINE routes == in.pkg.spec.routes
           inbound == routes.inbound
           One(i) == resolveInboundRoute(inbound[i], in)
<1>1. CASE routes = Nil
  BY <1>1, ShortLists DEF resolveInboundRoutes, Ok
<1>2. CASE routes # Nil
  <2>1. resolveInboundRoutes(in) = InOrder([i \in DOMAIN inbound |-> One(i)])
    BY <1>2 DEF resolveInboundRoutes, ForEach
  <2>2. IsList(inbound) /\ \A i \in DOMAIN inbound : SoundRoute(inbound[i])
    BY <1>2 DEF SoundRoutes, AllOf
  <2>3. Len(inbound) \in Nat /\ DOMAIN inbound = 1 .. Len(inbound)
    BY <2>2, ListFacts
  <2>4. ASSUME NEW i \in DOMAIN inbound, One(i).ok
        PROVE  IsList(One(i).objs) /\ \A k \in DOMAIN One(i).objs : IsList(One(i).objs[k].gateways)
    <3> DEFINE val == inbound[i].val
               effective == effectiveGateways(val, routes, in.ingressConfig)
               route == [val EXCEPT !.gateways = effective,
                                    !.selector = IF @ = {} THEN NameIs(inbound[i].key) ELSE @]
               Resolved(ref) == [ns |-> ref.ns, name |-> ref.name,
                                 definition |-> gatewayDefinition(ref, in.ingressConfig)]
               gateways == [j \in DOMAIN route.gateways |-> Resolved(route.gateways[j])]
               resolved == [name |-> inbound[i].key, route |-> route, gateways |-> gateways]
    <3>1. One(i).objs = <<>> \/ One(i).objs = <<resolved>>
      BY <2>4 DEF resolveInboundRoute, Err, Ok
    <3>2. IsList(effective)
      BY <1>2, <2>2, ShortLists DEF effectiveGateways, SoundRoutes, SoundRoute
    <3>3. route.gateways = effective
      <4>1. "gateways" \in DOMAIN val
        BY <2>2 DEF SoundRoute, HasFields
      <4> HIDE DEF val, effective
      <4> QED BY <4>1
    <3>4. IsList(gateways)
      <4>1. Len(effective) \in Nat /\ DOMAIN gateways = 1 .. Len(effective)
        <5> HIDE DEF effective, route
        <5> QED BY <3>2, <3>3, ListFacts
      <4>2. gateways = [j \in 1 .. Len(effective) |-> gateways[j]]
        <5> HIDE DEF effective, route, Resolved
        <5> QED BY <4>1
      <4> HIDE DEF gateways, effective
      <4> QED BY <4>1, <4>2, MapIsList
    <3>5. resolved.gateways = gateways
      OBVIOUS
    <3> HIDE DEF resolved, gateways, One
    <3> QED BY <3>1, <3>4, <3>5, ShortLists
  <2> DEFINE results == [i \in DOMAIN inbound |-> One(i)]
  <2>5. /\ DOMAIN results = 1 .. Len(inbound)
        /\ \A i \in 1 .. Len(inbound) : results[i].ok =>
             IsList(results[i].objs) /\ \A k \in DOMAIN results[i].objs : IsList(results[i].objs[k].gateways)
    <3> HIDE DEF One, inbound
    <3> QED BY <2>3, <2>4
  <2>6. resolveInboundRoutes(in) = InOrder(results)
    BY <2>1
  <2> HIDE DEF results, One, inbound
  <2>7. \A i \in 1 .. Len(inbound) : results[i].ok
    BY <2>5, <2>6, InOrderOk
  <2> QED BY <2>3, <2>5, <2>6, <2>7, InOrderElements
<1> QED BY <1>1, <1>2

LEMMA VirtualServiceSound ==
  ASSUME NEW pkg, NEW prepend, NEW resolved
  PROVE  SoundResult(buildVirtualService(pkg, prepend, resolved))
<1>1. \A name, meta, spec : SoundResult(Ok(<<RouteObject(pkg, prepend, "VirtualService", name, meta, spec)>>))
  BY GeneratedObjectSound, SoundShortLists, OkSound DEF Kinds, RouteObject
<1> QED BY <1>1, ErrSound DEF buildVirtualService

LEMMA InboundNetpolSound ==
  ASSUME NEW pkg, NEW prepend, NEW r, NEW gw
  PROVE  SoundObject(buildInboundNetpol(pkg, prepend, r, gw))
<1>1. \A p : AllOf(<<Tcp(p)>>, SoundPort)
  BY ShortLists DEF AllOf, SoundPort, Tcp, NetpolPort
<1>2. \A peers, p : AllOf(<<Rule(peers, <<Tcp(p)>>)>>, SoundRule)
  BY <1>1, RuleSound, OneRuleSound
<1>3. \A selector, peers, p :
        SoundPolicy(NetworkPolicySpec(selector, "ingress", <<Rule(peers, <<Tcp(p)>>)>>))
  BY <1>2, NetworkPolicySpecSound
<1> QED BY <1>3, GeneratedObjectSound DEF buildInboundNetpol, RouteObject, Kinds

LEMMA RoutesSound ==
  ASSUME NEW pkg, NEW routes, NEW inbound, IsList(inbound),
         \A i \in DOMAIN inbound : IsList(inbound[i].gateways), IsList(routes.outbound)
  PROVE  SoundResult(generateRoutes(pkg, routes, inbound))
<1> DEFINE enabled == pkg.spec.networkPolicies # Nil /\ pkg.spec.networkPolicies.enabled
           prepend == routes.prependReleaseName
           outbound == routes.outbound
           In(i) == inboundObjects(pkg, prepend, enabled, inbound[i])
           Out(i) == outboundObjects(pkg, prepend, outbound[i])
           ins == InOrder([i \in DOMAIN inbound |-> In(i)])
           outs == InOrder([i \in DOMAIN outbound |-> Out(i)])
<1>1. generateRoutes(pkg, routes, inbound) = InOrder(<<ins, outs>>)
  BY DEF generateRoutes, ForEach
<1>2. \A i \in DOMAIN inbound : SoundResult(In(i))
  <2> SUFFICES ASSUME NEW i \in DOMAIN inbound PROVE SoundResult(In(i))
    OBVIOUS
  <2> DEFINE vs == buildVirtualService(pkg, prepend, inbound[i])
             entry == Ok(<<buildInboundServiceEntry(pkg, prepend, inbound[i])>>)
             gws == inbound[i].gateways
             netpols == [j \in DOMAIN gws |-> buildInboundNetpol(pkg, prepend, inbound[i].route, gws[j])]
             made == Ok(IF enabled THEN netpols ELSE <<>>)
  <2>1. In(i) = InOrder(<<vs, entry, made>>)
    BY DEF inboundObjects, buildInboundNetpols
  <2>2. SoundResult(vs)
    BY VirtualServiceSound
  <2>3. SoundResult(entry)
    BY GeneratedObjectSound, SoundShortLists, OkSound DEF Kinds, RouteObject, buildInboundServiceEntry
  <2>4. SoundObjects(netpols)
    <3>1. \A j \in DOMAIN gws : SoundObject(netpols[j])
      BY InboundNetpolSound
    <3>2. Len(gws) \in Nat /\ DOMAIN gws = 1 .. Len(gws)
      BY ListFacts
    <3>3. netpols = [j \in 1 .. Len(gws) |-> netpols[j]]
      BY <3>2
    <3> HIDE DEF netpols, gws
    <3> QED BY <3>1, <3>2, <3>3, SoundMap
  <2>5. SoundResult(made)
    BY <2>4, SoundShortLists, OkSound
  <2> HIDE DEF vs, entry, made
  <2> QED BY <2>1, <2>2, <2>3, <2>5, SoundTuples
<1>3. \A i \in DOMAIN outbound : SoundResult(Out(i))
  BY GeneratedObjectSound, SoundShortLists, OkSound, ErrSound
     DEF Kinds, RouteObject, outboundObjects, buildOutboundServiceEntry
<1>4. /\ Len(inbound) \in Nat /\ DOMAIN inbound = 1 .. Len(inbound)
      /\ Len(outbound) \in Nat /\ DOMAIN outbound = 1 .. Len(outbound)
  BY ListFacts
<1>5. SoundResult(ins) /\ SoundResult(outs)
  <2> HIDE DEF In, Out, outbound
  <2> QED BY <1>2, <1>3, <1>4, InOrderSound
<1> HIDE DEF ins, outs
<1> QED BY <1>1, <1>5, SoundTuples

\* An AuthorizationPolicy may say anything.
LEMMA AuthzSound ==
  ASSUME NEW name, NEW meta, NEW spec
  PROVE  SoundObject(Authz(name, meta, spec))
BY GeneratedObjectSound DEF Authz, Kinds

LEMMA DefaultAuthzSound ==
  ASSUME NEW pkg, NEW istio, NEW npSpec
  PROVE  SoundObjects(generateDefaultAuthzPolicies(pkg, istio, npSpec))
<1> DEFINE Made(what, spec) ==
             <<Authz(prependName(istio.prependReleaseName, pkg.name, <<"default", "authz", "allow">> \o what),
                     NoMetadata, spec)>>
           nothing == IF authzDefaultWanted(istio, "denyAll")
                        THEN Made(<<"nothing">>, AllowNothing) ELSE <<>>
           inNamespace == IF authzDefaultWanted(istio, "allowInNamespace")
                            THEN Made(<<"all", "in", "ns">>,
                                      Allow(Nil, <<AuthzRule("namespace", pkg.ns, <<>>)>>)) ELSE <<>>
<1>1. \/ generateDefaultAuthzPolicies(pkg, istio, npSpec) = <<>>
      \/ generateDefaultAuthzPolicies(pkg, istio, npSpec) = nothing \o inNamespace
  BY DEF generateDefaultAuthzPolicies
<1>2. \A what, spec : SoundObjects(Made(what, spec))
  BY AuthzSound, SoundShortLists
<1>3. SoundObjects(nothing) /\ SoundObjects(inNamespace)
  <2> HIDE DEF Made
  <2> QED BY <1>2, SoundShortLists
<1> HIDE DEF nothing, inNamespace
<1> QED BY <1>1, <1>3, SoundConcatenation, SoundShortLists

LEMMA AuthzTargetSound ==
  ASSUME NEW pkg, NEW prepend, NEW entry, SoundTo(entry)
  PROVE  SoundResult(authzFromIngressTarget(pkg, prepend, entry))
<1> DEFINE local == Source(entry.val)
           peer == entry.val.peer
           to == parseIngressLocalKey(entry.key)
           K8s(e) == LET r == parseIngressRemoteKey(e.key) IN
             FromRule(r # Nil, buildAuthzFromShorthand(pkg, prepend, to, local, e.key, r), local, e.val)
           Cidr(e) == LET r == parseIngressCIDRKey(e.key) IN
             FromRule(r # Nil, buildAuthzFromCIDR(pkg, prepend, to, local, e.key, r), local, e.val)
           k8s == InOrder([i \in DOMAIN Enabled(peer.k8s) |-> K8s(Enabled(peer.k8s)[i])])
           cidr == InOrder([i \in DOMAIN Enabled(peer.cidr) |-> Cidr(Enabled(peer.cidr)[i])])
<1>1. local.peer = peer
  BY DEF Source, SoundTo, SoundEntry, HasFields
<1>2. authzFromIngressTarget(pkg, prepend, entry) =
        IF ~entry.val.decodes THEN Err
        ELSE IF peer = Nil THEN Ok(<<>>)
        ELSE IF to = Nil THEN Err ELSE InOrder(<<k8s, cidr>>)
  BY <1>1 DEF authzFromIngressTarget, ForEach
<1>3. SUFFICES ASSUME peer # Nil PROVE SoundResult(InOrder(<<k8s, cidr>>))
  BY <1>2, OkSound, ErrSound, SoundShortLists
<1>4. /\ IsList(peer.k8s) /\ \A i \in DOMAIN peer.k8s : SoundTarget(peer.k8s[i])
      /\ IsList(peer.cidr) /\ \A i \in DOMAIN peer.cidr : SoundTarget(peer.cidr[i])
  BY <1>3 DEF SoundTo, SoundEntry, AllOf
<1>5. SoundResult(k8s)
  <2>1. ASSUME NEW e PROVE SoundResult(K8s(e))
    <3> DEFINE r == parseIngressRemoteKey(e.key)
    <3>1. SoundObject(buildAuthzFromShorthand(pkg, prepend, to, local, e.key, r))
      <4> HIDE DEF r, local, to
      <4> QED BY AuthzSound DEF buildAuthzFromShorthand
    <3> HIDE DEF r, local, to
    <3> QED BY <3>1, FromRuleSound DEF r
  <2>2. Len(Enabled(peer.k8s)) \in Nat /\ DOMAIN Enabled(peer.k8s) = 1 .. Len(Enabled(peer.k8s))
    BY <1>4, EnabledTargets
  <2> HIDE DEF K8s, peer
  <2> QED BY <2>1, <2>2, InOrderSound
<1>6. SoundResult(cidr)
  <2>1. ASSUME NEW e PROVE SoundResult(Cidr(e))
    <3> DEFINE r == parseIngressCIDRKey(e.key)
    <3>1. SoundObject(buildAuthzFromCIDR(pkg, prepend, to, local, e.key, r))
      <4> HIDE DEF r, local, to
      <4> QED BY AuthzSound DEF buildAuthzFromCIDR
    <3> HIDE DEF r, local, to
    <3> QED BY <3>1, FromRuleSound DEF r
  <2>2. Len(Enabled(peer.cidr)) \in Nat /\ DOMAIN Enabled(peer.cidr) = 1 .. Len(Enabled(peer.cidr))
    BY <1>4, EnabledTargets
  <2> HIDE DEF Cidr, peer
  <2> QED BY <2>1, <2>2, InOrderSound
<1> HIDE DEF k8s, cidr
<1> QED BY <1>5, <1>6, SoundTuples

LEMMA AuthzFromIngressSound ==
  ASSUME NEW pkg, NEW npSpec, NEW istio, SoundNetworkPolicies(npSpec)
  PROVE  SoundResult(generateAuthzFromIngressShorthand(pkg, npSpec, istio))
<1> DEFINE to == npSpec.ingress.to
           One(i) == authzFromIngressTarget(pkg, npSpec.prependReleaseName, to[i])
<1>1. \/ generateAuthzFromIngressShorthand(pkg, npSpec, istio) = Ok(<<>>)
      \/ /\ npSpec.ingress # Nil
         /\ generateAuthzFromIngressShorthand(pkg, npSpec, istio) = InOrder([i \in DOMAIN to |-> One(i)])
  BY DEF generateAuthzFromIngressShorthand, ForEach
<1>2. SUFFICES ASSUME npSpec.ingress # Nil PROVE SoundResult(InOrder([i \in DOMAIN to |-> One(i)]))
  BY <1>1, OkSound, SoundShortLists
<1>3. IsList(to) /\ \A i \in DOMAIN to : SoundTo(to[i])
  BY <1>2 DEF SoundNetworkPolicies, SoundIngress, AllOf
<1>4. \A i \in DOMAIN to : SoundResult(One(i))
  BY <1>3, AuthzTargetSound
<1>5. Len(to) \in Nat /\ DOMAIN to = 1 .. Len(to)
  BY <1>3, ListFacts
<1> HIDE DEF One, to
<1> QED BY <1>4, <1>5, InOrderSound

LEMMA AuthzFromRoutesSound ==
  ASSUME NEW pkg, NEW routes, NEW istio, NEW inbound, IsList(inbound),
         \A i \in DOMAIN inbound : IsList(inbound[i].gateways)
  PROVE  SoundObjects(generateAuthzFromRoutes(pkg, routes, istio, inbound))
<1> DEFINE Policy(i, j) == buildAuthzFromRoute(pkg, routes.prependReleaseName, inbound[i].route,
                             inbound[i].gateways[j], gatewaySuffix(inbound, inbound[i].gateways[j]))
           Policies(i) == [j \in DOMAIN inbound[i].gateways |-> Policy(i, j)]
           lists == [i \in DOMAIN inbound |-> Policies(i)]
<1>1. \/ generateAuthzFromRoutes(pkg, routes, istio, inbound) = <<>>
      \/ generateAuthzFromRoutes(pkg, routes, istio, inbound) = FlattenSeq(lists)
  BY DEF generateAuthzFromRoutes
<1>2. \A i, j : SoundObject(Policy(i, j))
  BY AuthzSound DEF buildAuthzFromRoute
<1>3. \A i \in DOMAIN inbound : SoundObjects(Policies(i))
  <2> SUFFICES ASSUME NEW i \in DOMAIN inbound PROVE SoundObjects(Policies(i))
    OBVIOUS
  <2> DEFINE gws == inbound[i].gateways
             made == [j \in DOMAIN gws |-> Policy(i, j)]
  <2>1. Len(gws) \in Nat /\ DOMAIN gws = 1 .. Len(gws)
    BY ListFacts
  <2> HIDE DEF Policy
  <2>2. made = [j \in 1 .. Len(gws) |-> made[j]] /\ \A j \in 1 .. Len(gws) : SoundObject(made[j])
    BY <1>2, <2>1
  <2>3. Policies(i) = made
    OBVIOUS
  <2> HIDE DEF made, gws
  <2> QED BY <2>1, <2>2, <2>3, SoundMap
<1> HIDE DEF Policies
<1>4. Len(inbound) \in Nat /\ DOMAIN inbound = 1 .. Len(inbound)
  BY ListFacts
<1>5. DOMAIN lists = DOMAIN inbound /\ \A i \in DOMAIN inbound : lists[i] = Policies(i)
  OBVIOUS
<1>6. IsList(lists)
  BY <1>4, MapIsList
<1> HIDE DEF lists
<1>7. SoundObjects(FlattenSeq(lists))
  BY <1>3, <1>5, <1>6, FlattenSeqElements DEF SoundObjects
<1> QED BY <1>1, <1>7, SoundShortLists

LEMMA CustomAuthzSound ==
  ASSUME NEW istio, istio # Nil => SoundIstio(istio)
  PROVE  SoundResult(generateCustomAuthzPolicies(istio))
<1> DEFINE policies == istio.authorizationPolicies.custom
           more == istio.authorizationPolicies.additionalPolicies
           Custom(i) == IF policies[i].name = <<>> THEN Err
                        ELSE RawObject("AuthorizationPolicy", policies[i].name, policies[i])
           Additional(i) == IF ~more[i].val.enabled THEN Ok(<<>>)
             ELSE RawObject("AuthorizationPolicy",
                            IF more[i].val.name \in {Nil, <<>>} THEN more[i].key ELSE more[i].val.name,
                            more[i].val)
           custom == InOrder([i \in DOMAIN policies |-> Custom(i)])
           additional == InOrder([i \in DOMAIN more |-> Additional(i)])
<1>1. generateCustomAuthzPolicies(istio) =
        IF istio = Nil \/ ~istio.enabled \/ istio.authorizationPolicies = Nil THEN Ok(<<>>)
        ELSE InOrder(<<custom, additional>>)
  BY DEF generateCustomAuthzPolicies, ForEach
<1>2. SUFFICES ASSUME istio # Nil, istio.authorizationPolicies # Nil
               PROVE  SoundResult(InOrder(<<custom, additional>>))
  BY <1>1, OkSound, SoundShortLists
<1>3. \A i : SoundResult(Custom(i)) /\ SoundResult(Additional(i))
  BY RawObjectSound, OkSound, ErrSound, SoundShortLists DEF Kinds
<1>4. /\ Len(policies) \in Nat /\ DOMAIN policies = 1 .. Len(policies)
      /\ Len(more) \in Nat /\ DOMAIN more = 1 .. Len(more)
  BY <1>2, ListFacts DEF SoundIstio, SoundAuthorization
<1>5. SoundResult(custom) /\ SoundResult(additional)
  <2> HIDE DEF Custom, Additional, policies, more
  <2> QED BY <1>3, <1>4, InOrderSound
<1> HIDE DEF custom, additional
<1> QED BY <1>5, SoundTuples

-----------------------------------------------------------------------------
(* The whole rendering. *)

LEMMA PartsSound ==
  ASSUME NEW in, SoundInput(in), NEW inbound, IsList(inbound),
         \A i \in DOMAIN inbound : IsList(inbound[i].gateways)
  PROVE  SoundResult(InOrder(Parts(in, inbound)))
<1> DEFINE pkg == in.pkg
           spec == in.pkg.spec
           istio == IF spec.istio = Nil \/ ~spec.istio.enabled THEN Ok(<<>>)
                    ELSE generateIstio(pkg, spec.istio)
           netpols == IF spec.networkPolicies = Nil \/ ~spec.networkPolicies.enabled THEN Ok(<<>>)
                      ELSE generateNetworkPolicies(pkg, spec.networkPolicies, spec.istio, Env(in))
           routes == IF spec.routes = Nil THEN Ok(<<>>) ELSE generateRoutes(pkg, spec.routes, inbound)
           defaults == Ok(generateDefaultAuthzPolicies(pkg, spec.istio, spec.networkPolicies))
           fromIngress == IF spec.networkPolicies = Nil THEN Ok(<<>>)
                          ELSE generateAuthzFromIngressShorthand(pkg, spec.networkPolicies, spec.istio)
           fromRoutes == IF spec.routes = Nil THEN Ok(<<>>)
                         ELSE Ok(generateAuthzFromRoutes(pkg, spec.routes, spec.istio, inbound))
           custom == generateCustomAuthzPolicies(spec.istio)
           seven == <<istio, netpols, routes, defaults, fromIngress, fromRoutes, custom>>
<1>1. Parts(in, inbound) = seven
  BY DEF Parts
<1>2. SoundResult(Ok(<<>>))
  BY OkSound, SoundShortLists
<1>3. SoundResult(istio)
  BY <1>2, IstioSound DEF SoundInput, SoundIstio
<1>4. SoundResult(netpols)
  <2>1. /\ Env(in).kubeAPIPorts = in.kubeAPIPorts /\ Env(in).sharedEgress = in.shared.egress
        /\ Env(in).sharedIngress = in.shared.ingress
    BY DEF Env
  <2>2. /\ IsList(Env(in).kubeAPIPorts)
        /\ SoundDefinitions(Env(in).sharedEgress) /\ SoundDefinitions(Env(in).sharedIngress)
    BY <2>1 DEF SoundInput
  <2>3. spec.networkPolicies # Nil => SoundNetworkPolicies(spec.networkPolicies)
    BY DEF SoundInput
  <2> QED BY <1>2, <2>2, <2>3, NetworkPoliciesSound
<1>5. SoundResult(routes)
  BY <1>2, RoutesSound DEF SoundInput, SoundRoutes
<1>6. SoundResult(defaults)
  BY OkSound, DefaultAuthzSound
<1>7. SoundResult(fromIngress)
  BY <1>2, AuthzFromIngressSound DEF SoundInput
<1>8. SoundResult(fromRoutes)
  BY <1>2, OkSound, AuthzFromRoutesSound
<1>9. SoundResult(custom)
  BY CustomAuthzSound DEF SoundInput
<1> HIDE DEF istio, netpols, routes, defaults, fromIngress, fromRoutes, custom
<1>10. DOMAIN seven = 1..7 /\ \A i \in 1..7 : SoundResult(seven[i])
  <2>1. /\ DOMAIN seven = 1..7 /\ seven[1] = istio /\ seven[2] = netpols /\ seven[3] = routes
        /\ seven[4] = defaults /\ seven[5] = fromIngress /\ seven[6] = fromRoutes /\ seven[7] = custom
    OBVIOUS
  <2> HIDE DEF seven
  <2> QED BY <1>3, <1>4, <1>5, <1>6, <1>7, <1>8, <1>9, <2>1
<1> HIDE DEF seven
<1> QED BY <1>1, <1>10, InOrderSound

\* Every object of a rendering is a sound one after the last pass.
LEMMA GenerateFinishes ==
  ASSUME NEW in, SoundInput(in), Generate(in).ok, NEW i \in DOMAIN Generate(in).objs
  PROVE  \E obj : /\ SoundObject(obj)
                  /\ Generate(in).objs[i] =
                       stampMetadata(in.pkg,
                         IF hboneEnabled(in.pkg.spec.networkPolicies, in.pkg.spec.istio)
                           THEN injectHBonePorts(obj) ELSE obj)
<1> DEFINE inbound == resolveInboundRoutes(in)
           out == InOrder(Parts(in, inbound.objs))
           inject == hboneEnabled(in.pkg.spec.networkPolicies, in.pkg.spec.istio)
<1>1. Generate(in) = IF inbound.ok /\ out.ok THEN Ok(Finished(in, inject, out.objs)) ELSE Err
  BY DEF Generate
<1>2. inbound.ok /\ out.ok /\ Generate(in).objs = Finished(in, inject, out.objs)
  BY <1>1 DEF Ok, Err
<1>3. SoundObjects(out.objs)
  <2>1. /\ in.pkg.spec.routes # Nil => SoundRoutes(in.pkg.spec.routes)
        /\ in.ingressConfig # Nil /\ in.ingressConfig.defaults # Nil => IsList(in.ingressConfig.defaults)
    BY DEF SoundInput
  <2>2. IsList(inbound.objs) /\ \A k \in DOMAIN inbound.objs : IsList(inbound.objs[k].gateways)
    BY <1>2, <2>1, InboundIsList
  <2> QED BY <1>2, <2>2, PartsSound DEF SoundResult
<1> HIDE DEF out, inject
<1>4. i \in DOMAIN out.objs /\ SoundObject(out.objs[i])
  BY <1>2, <1>3 DEF Finished, SoundObjects
<1>5. Generate(in).objs[i] =
        stampMetadata(in.pkg, IF inject THEN injectHBonePorts(out.objs[i]) ELSE out.objs[i])
  BY <1>2, <1>4 DEF Finished
<1> QED BY <1>4, <1>5 DEF inject

\* What the stamp leaves alone, and what it sets.
LEMMA Stamped ==
  ASSUME NEW pkg, NEW obj, {"kind", "spec"} \subseteq DOMAIN obj
  PROVE  /\ stampMetadata(pkg, obj).kind = obj.kind
         /\ stampMetadata(pkg, obj).spec = obj.spec
         /\ stampMetadata(pkg, obj).labels.package = pkg.name
         /\ stampMetadata(pkg, obj).namespace = pkg.ns
         /\ stampMetadata(pkg, obj).owner = pkg.uid
BY DEF stampMetadata, mergeMaps

\* A rule lets the tunnel through, or does not have to.
Tunnelled(rule) == SoundRule(rule) /\ ~needsHBonePort(rule)

LEMMA InjectedRule ==
  ASSUME NEW rule, SoundRule(rule)
  PROVE  Tunnelled([rule EXCEPT !.ports = Append(@, Tcp(15008))])
<1> DEFINE ports == rule.ports
           more == Append(ports, Tcp(15008))
           made == [rule EXCEPT !.ports = more]
<1>1. IsList(ports) /\ \A i \in DOMAIN ports : SoundPort(ports[i])
  BY DEF SoundRule, AllOf
<1>2. made.peers = rule.peers /\ made.ports = more /\ HasFields(made, {"peers", "ports"})
  <2> HIDE DEF more
  <2> QED BY DEF SoundRule, HasFields
<1>3. /\ IsList(more) /\ \A i \in DOMAIN more : SoundPort(more[i])
      /\ Len(ports) + 1 \in DOMAIN more /\ more[Len(ports) + 1] = Tcp(15008)
  <2> DEFINE U == ToSet(ports) \cup {Tcp(15008)}
  <2>1. ports \in Seq(U)
    <3>1. ports \in Seq(ToSet(ports))
      BY <1>1 DEF IsList
    <3> QED BY <3>1
  <2>2. \A p \in U : SoundPort(p)
    <3>1. SoundPort(Tcp(15008))
      BY DEF SoundPort, Tcp, NetpolPort
    <3> QED BY <1>1, <3>1 DEF ToSet
  <2>3. Tcp(15008) \in U
    OBVIOUS
  <2> HIDE DEF U, ports
  <2>4. more \in Seq(U) /\ Len(ports) + 1 \in DOMAIN more /\ more[Len(ports) + 1] = Tcp(15008)
    BY <2>1, <2>3
  <2> HIDE DEF more
  <2> QED BY <2>2, <2>4, SeqIsList
<1>4. SoundRule(made)
  <2> HIDE DEF more, made
  <2> QED BY <1>2, <1>3 DEF SoundRule, AllOf
<1>5. ~needsHBonePort(made)
  <2> HIDE DEF more, made
  <2> QED BY <1>2, <1>3 DEF needsHBonePort, Tcp, NetpolPort
<1> QED BY <1>4, <1>5 DEF Tunnelled

\* The injection changes neither the kind nor the rules that need nothing.
LEMMA Injected ==
  ASSUME NEW obj, SoundObject(obj)
  PROVE  /\ {"kind", "spec"} \subseteq DOMAIN injectHBonePorts(obj)
         /\ injectHBonePorts(obj).kind = obj.kind
         /\ obj.kind = "NetworkPolicy" =>
              LET spec == injectHBonePorts(obj).spec IN
              /\ \A i \in DOMAIN spec.egress : Tunnelled(spec.egress[i])
              /\ \A i \in DOMAIN spec.ingress : Tunnelled(spec.ingress[i])
<1> DEFINE Needs(rules) == \E i \in DOMAIN rules : needsHBonePort(rules[i])
           With(rule) == IF needsHBonePort(rule)
                           THEN [rule EXCEPT !.ports = Append(@, Tcp(15008))] ELSE rule
           Inject(rules) == [i \in DOMAIN rules |-> With(rules[i])]
           needed == obj.kind = "NetworkPolicy" /\ (Needs(obj.spec.egress) \/ Needs(obj.spec.ingress))
           made == [obj EXCEPT !.spec.egress = Inject(@), !.spec.ingress = Inject(@),
                               !.labels = mergeMaps(@, [hbone_injected |-> <<"true">>])]
<1>1. injectHBonePorts(obj) = IF needed THEN made ELSE obj
  BY DEF injectHBonePorts
<1>2. \A rule : SoundRule(rule) => Tunnelled(With(rule))
  BY InjectedRule DEF Tunnelled
<1>3. HasFields(obj, {"kind", "name", "labels", "annotations", "spec"})
  BY DEF SoundObject
<1>4. obj.kind = "NetworkPolicy" =>
        /\ HasFields(obj.spec, {"selector", "types", "egress", "ingress"})
        /\ \A i \in DOMAIN obj.spec.egress : SoundRule(obj.spec.egress[i])
        /\ \A i \in DOMAIN obj.spec.ingress : SoundRule(obj.spec.ingress[i])
  BY DEF SoundObject, SoundPolicy, AllOf
<1> HIDE DEF With
<1>5. CASE ~needed
  BY <1>1, <1>3, <1>4, <1>5 DEF HasFields, Tunnelled
<1>6. CASE needed
  <2> HIDE DEF Inject, Needs
  <2>1. made.kind = obj.kind /\ {"kind", "spec"} \subseteq DOMAIN made
    BY <1>3 DEF HasFields
  <2>2. made.spec.egress = Inject(obj.spec.egress) /\ made.spec.ingress = Inject(obj.spec.ingress)
    BY <1>3, <1>4, <1>6 DEF HasFields
  <2>3. \A rules : (\A i \in DOMAIN rules : SoundRule(rules[i])) =>
                     \A i \in DOMAIN Inject(rules) : Tunnelled(Inject(rules)[i])
    BY <1>2 DEF Inject
  <2> HIDE DEF made
  <2> QED BY <1>1, <1>4, <1>6, <2>1, <2>2, <2>3
<1> QED BY <1>5, <1>6
=============================================================================
