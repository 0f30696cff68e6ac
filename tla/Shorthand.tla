----------------------------- MODULE Shorthand -----------------------------
(***************************************************************************)
(* The vocabulary of pkg/generator: object names (names.go), the keys and  *)
(* values of the egress and ingress shorthand (shorthand.go), selectors    *)
(* and metadata.                                                           *)
(*                                                                         *)
(* A name is the sequence of its parts between hyphens, so that joining    *)
(* names with "-" is concatenation and two ways of joining can meet in one *)
(* name, as they can in the code.  "" is <<>> and "*" is Wildcard.         *)
(*                                                                         *)
(* A key is the record of what is written in it; `matches' says whether it *)
(* matches the regular expression of its kind.  A Go map whose iteration   *)
(* is sorted is the sequence of its entries [key, val] in that order.      *)
(***************************************************************************)
EXTENDS Integers, SequencesExt

CONSTANTS
  Nil,              \* an absent field or a nil pointer
  LowerCase(_),     \* strings.ToLower on one part of a name
  MaxInt32          \* math.MaxInt32: the greatest int32

\* What is absent is no number, no port and not the empty selector.
ASSUME NilAssumption == Nil \notin Int /\ Nil \notin [int : Int] /\ Nil # {}

\* Every port is an int32.
ASSUME MaxInt32Assumption == MaxInt32 \in Nat /\ MaxInt32 >= 65535

Wildcard == <<"*">>

Lower(name) == [i \in DOMAIN name |-> LowerCase(name[i])]

prependName(prepend, releaseName, name) ==
  IF prepend THEN releaseName \o name ELSE name

\* What a generating function returns: objects, or an error.
Ok(made) == [ok |-> TRUE, objs |-> made]
Err == [ok |-> FALSE, objs |-> <<>>]

\* Objects generated one after the other; the first error ends it.
InOrder(results) ==
  IF \A i \in DOMAIN results : results[i].ok
    THEN Ok(FlattenSeq([i \in DOMAIN results |-> results[i].objs]))
    ELSE Err

ForEach(seq, Op(_)) == InOrder([i \in DOMAIN seq |-> Op(seq[i])])

\* mergeMaps: the second map wins.
mergeMaps(a, b) ==
  [k \in DOMAIN a \cup DOMAIN b |-> IF k \in DOMAIN b THEN b[k] ELSE a[k]]

-----------------------------------------------------------------------------
(* Ports.  In a key: nums, whether it is a range, whether every number fits *)
(* an int (of 64 bits), and whether it is written in brackets.              *)

NoPorts == [nums |-> <<>>, range |-> FALSE, fits |-> TRUE, brackets |-> FALSE]

\* parsePortSpec; the brackets make no difference.
parsePortSpec(text) == IF text.fits THEN [ports |-> text.nums, range |-> text.range] ELSE Nil

Numbers(ports) == [i \in DOMAIN ports |-> ToString(ports[i])]

namePortSuffix(ports, range) ==
  IF ports = <<>> THEN <<"any", "port">>
  ELSE IF range THEN <<"ports", ToString(ports[1]), "thru", ToString(ports[2])>>
  ELSE <<IF Len(ports) > 1 THEN "ports" ELSE "port">> \o Numbers(ports)

\* An intstr.IntOrString is [int |-> 80] or [named |-> "http"].
NetpolPort(protocol, int, end) == [protocol |-> protocol, port |-> [int |-> int], end |-> end]

\* The conversions int32(n) and uint32(n): the last 32 bits, with and without a sign.
UInt32(n) == n % (2 * MaxInt32 + 2)
Int32(n) == UInt32(n + MaxInt32 + 1) - (MaxInt32 + 1)

\* intstr.FromInt keeps an int32, and so does EndPort.
buildNetpolPorts(protocol, ports, range) ==
  IF range /\ Len(ports) = 2 THEN <<NetpolPort(protocol, Int32(ports[1]), Int32(ports[2]))>>
  ELSE [i \in DOMAIN ports |-> NetpolPort(protocol, Int32(ports[i]), Nil)]

-----------------------------------------------------------------------------
(* Keys. *)

Protocol(scheme) == IF scheme = "udp" THEN "UDP" ELSE "TCP"
ProtocolPart(protocol) == IF protocol = "UDP" THEN <<"udp">> ELSE <<"tcp">>

\* The part of parsing that all keys with a scheme and ports have in common.
ParsedWithPorts(key, rest) ==
  LET spec == parsePortSpec(key.ports)
  IN IF ~key.matches \/ spec = Nil THEN Nil
     ELSE mergeMaps([protocol |-> Protocol(key.scheme), ports |-> spec.ports, range |-> spec.range], rest)

\* [<tcp|udp>://]<ns>[/<pod>][:<ports>]
parseEgressRemoteKey(key) == ParsedWithPorts(key, [ns |-> key.ns, pod |-> key.pod])

\* [<identity>@]<ns>[/<pod>]
parseIngressRemoteKey(key) ==
  IF key.matches THEN [identity |-> key.identity, ns |-> key.ns, pod |-> key.pod] ELSE Nil

\* [<tcp|udp>://]<pod>[:<ports>]
parseIngressLocalKey(key) == ParsedWithPorts(key, [pod |-> key.pod])

\* [<tcp|udp>://]<cidr>[:<ports>], and <cidr>
parseEgressCIDRKey(key) == ParsedWithPorts(key, [cidr |-> key.cidr])
parseIngressCIDRKey(key) == IF key.matches THEN [cidr |-> key.cidr] ELSE Nil

\* The regular expression of a literal rule's key admits plain names only.
LiteralKeyMatches(key) == key.matches

-----------------------------------------------------------------------------
(* Selectors.  A set of pairs <<label, value>>, all of which must match.  As *)
(* written, a selector is nested under matchLabels or flat; what is neither  *)
(* a string nor under matchLabels (a matchExpressions list) is lost.         *)

Flat(labels) == [matchLabels |-> Nil, flat |-> labels]
Nested(labels) == [matchLabels |-> labels, flat |-> {}]

flattenMatchLabels(m) ==
  IF m = Nil THEN Nil ELSE IF m.matchLabels # Nil THEN m.matchLabels ELSE m.flat

\* len(m) > 0
NonEmpty(labels) == labels # Nil /\ labels # {}

NamespaceIs(ns) == {<<"kubernetes.io/metadata.name", ns>>}
NameIs(name) == {<<"app.kubernetes.io/name", name>>}

remoteNamespaceSelector(ns, override) ==
  IF NonEmpty(override) THEN override ELSE IF ns = Wildcard THEN {} ELSE NamespaceIs(ns)

\* A mutant: "*" is taken for the name of a pod.
remotePodSelector_WildcardIsAName(pod, override) ==
  IF NonEmpty(override) THEN override ELSE IF pod = <<>> THEN {} ELSE NameIs(pod)

remotePodSelector(pod, override) ==
  IF NonEmpty(override) THEN override ELSE IF pod \in {<<>>, Wildcard} THEN {} ELSE NameIs(pod)

-----------------------------------------------------------------------------
(* Metadata and rule values. *)

NoEntries == [k \in {} |-> Nil]
NoMetadata == [labels |-> NoEntries, annotations |-> NoEntries]

\* mergeShorthandMetadata: the rule's entries win over the pod's.
mergeShorthandMetadata(local, remote) ==
  LET Given(m) == IF m = Nil THEN NoMetadata ELSE m
  IN [labels |-> mergeMaps(Given(local).labels, Given(remote).labels),
      annotations |-> mergeMaps(Given(local).annotations, Given(remote).annotations)]

\* applyShorthandMetadata: the generated entries win over the user's.
applyShorthandMetadata(obj, meta) ==
  [obj EXCEPT !.labels = mergeMaps(meta.labels, @),
              !.annotations = mergeMaps(meta.annotations, @)]

\* UnmarshalJSON of shorthandTarget and literalTarget: a bool, or an object that
\* is enabled unless it says otherwise.  The selectors of an object are flattened.
Just(bool) == [enabled |-> bool, podSelector |-> Nil, namespaceSelector |-> Nil,
               metadata |-> Nil, spec |-> Nil]

Target(val) ==
  [val EXCEPT !.enabled = @ = Nil \/ @,
              !.podSelector = flattenMatchLabels(@),
              !.namespaceSelector = flattenMatchLabels(@)]

\* The entries that a loop does not pass over, decoded.
Enabled(entries) ==
  FlattenSeq([i \in DOMAIN entries |->
    LET target == Target(entries[i].val)
    IN IF target.enabled THEN <<[key |-> entries[i].key, val |-> target]>> ELSE <<>>])
=============================================================================
