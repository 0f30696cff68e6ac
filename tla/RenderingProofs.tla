-------------------------- MODULE RenderingProofs --------------------------
(***************************************************************************)
(* What holds of the rendering of every input, however many definitions,   *)
(* rules, routes and policies it has.  The facts about the generator are   *)
(* in GeneratorProofs and ProvenanceProofs; here they become invariants of *)
(* Rendering.                                                              *)
(***************************************************************************)
EXTENDS ProvenanceProofs

\* The output, when there is one, is the generator's for the input.
IInv == input \in Inputs /\ output \in {Nil, Generate(input)}

LEMMA RenderingInductive == Spec => []IInv
<1>1. Init => IInv
  BY DEF Init, IInv
<1>2. IInv /\ [Next]_vars => IInv'
  <2> SUFFICES ASSUME IInv, [Next]_vars PROVE IInv'
    OBVIOUS
  <2>1. CASE Render
    BY <2>1 DEF Render, IInv
  <2>2. CASE Done
    BY <2>2 DEF Done, IInv, vars
  <2>3. CASE UNCHANGED vars
    BY <2>3 DEF IInv, vars
  <2> QED BY <2>1, <2>2, <2>3 DEF Next
<1> QED BY <1>1, <1>2, PTL DEF Spec

\* A rendering that succeeded, as the properties see it.
LEMMA RenderedFacts ==
  ASSUME IInv, Rendered
  PROVE  SoundInput(input) /\ output = Generate(input) /\ Generate(input).ok
BY InputsAssumption DEF IInv, Rendered

-----------------------------------------------------------------------------
\* The operator never guesses, whatever the Package, the shared definitions and the
\* ingress configuration are: what it renders while it cannot read one of them is
\* what it would render if it could (resolveEgressDefinition,
\* resolveIngressDefinition and resolveInboundRoutes refuse everything else).
THEOREM OperatorNeverGuesses == Spec => []NeverGuesses
<1>1. IInv => NeverGuesses
  <2> SUFFICES ASSUME IInv, Rendered PROVE NeverGuesses
    BY DEF NeverGuesses
  <2>1. SoundInput(input) /\ output = Generate(input) /\ Generate(input).ok
    BY RenderedFacts
  <2>2. HasFields(input, {"pkg", "kubeAPIPorts", "shared", "sharedErr", "ingressConfig", "ingressConfigErr"})
    BY <2>1 DEF SoundInput
  <2>3. input.pkg.spec.routes # Nil => SoundRoutes(input.pkg.spec.routes)
    BY <2>1 DEF SoundInput
  <2>4. ASSUME input.sharedErr, NEW pool \in SharedPools
        PROVE  Generate([input EXCEPT !.sharedErr = FALSE, !.shared = pool]) = output
    <3> DEFINE in == [input EXCEPT !.sharedErr = FALSE, !.shared = pool]
    <3>1. /\ in.pkg = input.pkg /\ in.kubeAPIPorts = input.kubeAPIPorts
          /\ in.ingressConfig = input.ingressConfig /\ in.ingressConfigErr = input.ingressConfigErr
      BY <2>2 DEF HasFields
    <3> HIDE DEF in
    <3>2. Generate(in) = Generate(input)
      BY <2>1, <2>3, <2>4, <3>1, GenerateBlind
    <3> QED BY <2>1, <3>2 DEF in
  <2>5. ASSUME input.ingressConfigErr, NEW config \in IngressConfigs
        PROVE  Generate([input EXCEPT !.ingressConfigErr = FALSE, !.ingressConfig = config]) = output
    <3> DEFINE in == [input EXCEPT !.ingressConfigErr = FALSE, !.ingressConfig = config]
    <3>1. /\ in.pkg = input.pkg /\ in.kubeAPIPorts = input.kubeAPIPorts
          /\ in.shared = input.shared /\ in.sharedErr = input.sharedErr
      BY <2>2 DEF HasFields
    <3> HIDE DEF in
    <3>2. Generate(in) = Generate(input)
      BY <2>1, <2>3, <2>5, <3>1, GenerateBlind
    <3> QED BY <2>1, <3>2 DEF in
  <2> QED BY <2>4, <2>5 DEF NeverGuesses
<1> QED BY <1>1, RenderingInductive, PTL

\* The controller asks for the ports of the API server whenever they matter: what is
\* rendered of a spec in which referencesKubeAPI finds nothing is the same for all
\* ports, because what the enabled definition rules name stands in quotes in the
\* text it searches.
THEOREM PortsAreLookedUp == Spec => []PortsLookedUp
<1>1. IInv => PortsLookedUp
  <2> SUFFICES ASSUME IInv, Rendered, ~referencesKubeAPI(input.pkg.spec), NEW ports \in PortLookups
               PROVE  Generate([input EXCEPT !.kubeAPIPorts = ports]) = output
    BY DEF PortsLookedUp
  <2>1. SoundInput(input) /\ output = Generate(input) /\ Generate(input).ok
    BY RenderedFacts
  <2> DEFINE in == [input EXCEPT !.kubeAPIPorts = ports]
  <2>2. /\ in.pkg = input.pkg /\ in.shared = input.shared /\ in.sharedErr = input.sharedErr
        /\ in.ingressConfig = input.ingressConfig /\ in.ingressConfigErr = input.ingressConfigErr
    BY <2>1 DEF SoundInput, HasFields
  <2> HIDE DEF in
  <2>3. Generate(in) = Generate(input)
    BY <2>1, <2>2, GenerateWithoutPorts
  <2> QED BY <2>1, <2>3 DEF in
<1> QED BY <1>1, RenderingInductive, PTL

\* Nothing that is generated escapes prune and garbage collection: every object is of
\* a kind that pruneStale lists, and stampMetadata has given it the Package's label,
\* namespace and owner over whatever the user wrote.
THEOREM ObjectsArePrunable == Spec => []EveryObjectIsPrunable
<1>1. IInv => EveryObjectIsPrunable
  <2> SUFFICES ASSUME IInv, Rendered, NEW i \in DOMAIN output.objs
               PROVE  /\ output.objs[i].kind \in managedListKinds
                      /\ output.objs[i].labels.package = input.pkg.name
                      /\ output.objs[i].namespace = input.pkg.ns
                      /\ output.objs[i].owner = input.pkg.uid
    BY DEF EveryObjectIsPrunable
  <2>1. SoundInput(input) /\ output = Generate(input) /\ Generate(input).ok
    BY RenderedFacts
  <2> DEFINE inject == hboneEnabled(input.pkg.spec.networkPolicies, input.pkg.spec.istio)
             Passed(obj) == IF inject THEN injectHBonePorts(obj) ELSE obj
  <2>2. PICK obj : SoundObject(obj) /\ output.objs[i] = stampMetadata(input.pkg, Passed(obj))
    BY <2>1, GenerateFinishes
  <2>3. {"kind", "spec"} \subseteq DOMAIN Passed(obj) /\ Passed(obj).kind = obj.kind
    <3>1. {"kind", "spec"} \subseteq DOMAIN obj
      BY <2>2 DEF SoundObject, HasFields
    <3> QED BY <2>2, <3>1, Injected
  <2>4. obj.kind \in managedListKinds
    BY <2>2 DEF SoundObject, Kinds, managedListKinds
  <2> HIDE DEF Passed
  <2> QED BY <2>2, <2>3, <2>4, Stamped
<1> QED BY <1>1, RenderingInductive, PTL

\* With HBONE on, every rule of every NetworkPolicy that names pods and ports lets the
\* tunnel's port through, for every policy the Package can ask for: injectHBonePorts
\* runs over all the objects, and the port it adds, or finds, is TCP 15008.
THEOREM TunnelIsReachable == Spec => []AmbientReachable
<1>1. ASSUME NEW rule, Tunnelled(rule), peerHasK8sSelector(rule.peers), rule.ports # <<>>
      PROVE  15008 \in TcpNumbers(rule)
  <2>1. PICK i \in DOMAIN rule.ports :
          rule.ports[i].protocol = "TCP" /\ rule.ports[i].port = [int |-> 15008]
    BY <1>1 DEF Tunnelled, needsHBonePort
  <2> DEFINE p == rule.ports[i]
  <2>2. SoundPort(p)
    BY <1>1 DEF Tunnelled, SoundRule, AllOf
  <2>3. p.port # Nil /\ "named" \notin DOMAIN p.port /\ p.port.int = 15008
    BY <2>1, NilAssumption
  <2>4. 15008 \in PortNumbers(p)
    <3>1. PortNumbers(p) = 15008 .. (IF p.end = Nil THEN 15008 ELSE p.end)
      BY <2>3 DEF PortNumbers
    <3>2. p.end # Nil => p.end \in Int /\ 15008 <= p.end
      BY <2>2, <2>3 DEF SoundPort
    <3> HIDE DEF p
    <3> QED BY <3>1, <3>2
  <2>5. p \in {q \in ToSet(rule.ports) : q.protocol # "UDP"}
    BY <2>1 DEF ToSet
  <2> HIDE DEF p
  <2> QED BY <2>4, <2>5 DEF TcpNumbers
<1>2. IInv => AmbientReachable
  <2> SUFFICES ASSUME IInv, Rendered, hboneEnabled(input.pkg.spec.networkPolicies, input.pkg.spec.istio),
                      NEW np \in Objects("NetworkPolicy"),
                      NEW rule \in ToSet(np.spec.egress) \cup ToSet(np.spec.ingress),
                      peerHasK8sSelector(rule.peers), rule.ports # <<>>
               PROVE  15008 \in TcpNumbers(rule)
    BY DEF AmbientReachable
  <2>1. SoundInput(input) /\ output = Generate(input) /\ Generate(input).ok
    BY RenderedFacts
  <2>2. np.kind = "NetworkPolicy" /\ \E i \in DOMAIN output.objs : np = output.objs[i]
    BY DEF Objects, ToSet
  <2>3. PICK obj : SoundObject(obj) /\ np = stampMetadata(input.pkg, injectHBonePorts(obj))
    BY <2>1, <2>2, GenerateFinishes
  <2>4. np.spec = injectHBonePorts(obj).spec /\ obj.kind = "NetworkPolicy"
    BY <2>2, <2>3, Injected, Stamped
  <2>5. Tunnelled(rule)
    BY <2>3, <2>4, Injected DEF ToSet
  <2> QED BY <1>1, <2>5
<1> QED BY <1>2, RenderingInductive, PTL

-----------------------------------------------------------------------------
(* Routes. *)

\* As long as no two objects have the same kind and name, all of them are in force.
LEMMA NoCollision ==
  ASSUME IsList(output.objs), ~Collides
  PROVE  /\ LastWrites = ToSet(output.objs)
         /\ \A x, y \in ToSet(output.objs) : x.kind = y.kind /\ x.name = y.name => x = y
<1> DEFINE objs == output.objs
           n == Len(objs)
           Kept(i) == \A j \in 1..n : j > i => <<objs[j].kind, objs[j].name>> # <<objs[i].kind, objs[i].name>>
           I == {i \in 1..n : Kept(i)}
           f == [i \in I |-> objs[i]]
           T == {objs[i] : i \in I}
<1>1. n \in Nat /\ DOMAIN objs = 1..n
  BY ListFacts
<1>2. LastWrites = T
  BY <1>1 DEF LastWrites
<1>3. IsFiniteSet(1..n) /\ Cardinality(1..n) = n
  BY <1>1, FS_Interval
<1>4. IsFiniteSet(I) /\ Cardinality(I) <= n /\ (Cardinality(I) = n => I = 1..n)
  <2> HIDE DEF n, Kept
  <2>1. I \in SUBSET (1..n)
    OBVIOUS
  <2> HIDE DEF I
  <2> QED BY <1>3, <2>1, FS_Subset
<1>5. Cardinality(T) <= Cardinality(I)
  <2> HIDE DEF I
  <2>1. f \in Surjection(I, T)
    BY DEF Surjection
  <2> HIDE DEF f, T
  <2> QED BY <1>4, <2>1, FS_Surjection
<1>6. Cardinality(T) = n
  BY <1>2 DEF Collides
<1>7. I = 1..n
  <2>1. Cardinality(I) \in Nat
    BY <1>4, FS_CardinalityType
  <2> HIDE DEF I, T, n
  <2> QED BY <1>1, <1>4, <1>5, <1>6, <2>1
<1>8. LastWrites = ToSet(objs)
  BY <1>1, <1>2, <1>7 DEF ToSet
<1>9. ASSUME NEW i \in 1..n, NEW j \in 1..n, objs[i].kind = objs[j].kind, objs[i].name = objs[j].name
      PROVE  i = j
  <2>1. Kept(i) /\ Kept(j)
    BY <1>7
  <2>2. ~(j > i) /\ ~(i > j)
    BY <1>9, <2>1
  <2> HIDE DEF Kept, objs, n
  <2> QED BY <1>1, <2>2
<1>10. ASSUME NEW x \in ToSet(objs), NEW y \in ToSet(objs), x.kind = y.kind, x.name = y.name
       PROVE  x = y
  BY <1>1, <1>9, <1>10 DEF ToSet
<1> QED BY <1>8, <1>10

\* A route's NetworkPolicy lets its gateway through on its port.
LEMMA RoutePolicyAdmits ==
  ASSUME NEW in, NEW prepend, NEW r, NEW gw, inboundWorkloadPort(r) \in [int : 0 .. MaxInt32]
  PROVE  LET np == LastPass(in, buildInboundNetpol(in.pkg, prepend, r, gw)) IN
         /\ np.kind = "NetworkPolicy" /\ np.spec.selector = r.selector
         /\ \E rule \in ToSet(np.spec.ingress) :
              /\ Pods(NamespaceIs(gw.ns), gw.definition.podSelector) \in ToSet(rule.peers)
              /\ inboundWorkloadPort(r).int \in NetpolNumbers(rule)
<1> DEFINE raw == buildInboundNetpol(in.pkg, prepend, r, gw)
           np == LastPass(in, raw)
           n == inboundWorkloadPort(r).int
           peer == Pods(NamespaceIs(gw.ns), gw.definition.podSelector)
           rule == Rule(<<peer>>, <<Tcp(n)>>)
<1>1. n \in Int /\ portNumber(inboundWorkloadPort(r)) = n /\ Int32(n) = n
  <2>1. n \in 0 .. MaxInt32 /\ portNumber(inboundWorkloadPort(r)) = UInt32(n)
    BY NilAssumption, MaxInt32Assumption DEF portNumber
  <2> HIDE DEF n
  <2> QED BY <2>1, Conversions, MaxInt32Assumption
<1>2. /\ SoundObject(raw) /\ raw.kind = "NetworkPolicy" /\ raw.spec.selector = r.selector
      /\ raw.spec.ingress = <<rule>>
  BY <1>1, InboundNetpolSound DEF buildInboundNetpol, RouteObject, GeneratedObject, NetworkPolicySpec
<1>3. HasFields(rule, {"peers", "ports"}) /\ rule.peers = <<peer>> /\ rule.ports = <<Tcp(n)>>
  BY DEF Rule, HasFields
<1> HIDE DEF raw, peer, rule, n
<1>4. np.kind = "NetworkPolicy" /\ np.spec.selector = r.selector /\ np.spec.ingress = <<InMesh(in, rule)>>
  BY <1>2, LastPassKeeps, LastPassRule
<1>5. /\ InMesh(in, rule).peers = <<peer>>
      /\ Tcp(n) \in ToSet(InMesh(in, rule).ports)
  <2>1. IsList(rule.ports) /\ Tcp(n) \in ToSet(rule.ports)
    BY <1>3, ShortLists, ToSetFacts
  <2> QED BY <1>3, <2>1, InMeshRule
<1>6. n \in PortNumbers(Tcp(n))
  BY <1>1, NilAssumption DEF PortNumbers, Tcp, NetpolPort
<1>7. n \in NetpolNumbers(InMesh(in, rule))
  BY <1>5, <1>6 DEF NetpolNumbers
<1>8. peer \in ToSet(InMesh(in, rule).peers) /\ InMesh(in, rule) \in ToSet(np.spec.ingress)
  BY <1>4, <1>5, ToSetFacts
<1> QED BY <1>4, <1>7, <1>8 DEF raw, peer, n

\* So does its AuthorizationPolicy.
AuthzAdmits(ap, selector, gw, port) ==
  /\ ap.kind = "AuthorizationPolicy" /\ ap.spec.selector = selector
  /\ \E rule \in ToSet(ap.spec.rules) :
       /\ rule.from = "principal"
       /\ rule.who = Principal(gw.ns, gw.definition.serviceAccountName)
       /\ rule.to # <<>> => ToString(port) \in AuthzNumbers(rule)

LEMMA RouteAuthzAdmits ==
  ASSUME NEW in, NEW prepend, NEW r, NEW gw, NEW suffix, inboundWorkloadPort(r) \in [int : 0 .. MaxInt32]
  PROVE  AuthzAdmits(LastPass(in, buildAuthzFromRoute(in.pkg, prepend, r, gw, suffix)),
                     r.selector, gw, inboundWorkloadPort(r).int)
<1> DEFINE raw == buildAuthzFromRoute(in.pkg, prepend, r, gw, suffix)
           n == inboundWorkloadPort(r).int
           who == Principal(gw.ns, gw.definition.serviceAccountName)
           to == IF n = 0 THEN <<>> ELSE <<<<ToString(n)>>>>
           rule == AuthzRule("principal", who, to)
<1>1. n \in Int /\ portNumber(inboundWorkloadPort(r)) = n
  <2>1. n \in 0 .. MaxInt32 /\ portNumber(inboundWorkloadPort(r)) = UInt32(n)
    BY NilAssumption, MaxInt32Assumption DEF portNumber
  <2> HIDE DEF n
  <2> QED BY <2>1, Conversions
<1>2. /\ SoundObject(raw) /\ raw.kind = "AuthorizationPolicy" /\ raw.spec.selector = r.selector
      /\ raw.spec.rules = <<rule>>
  BY <1>1, AuthzSound DEF buildAuthzFromRoute, Authz, GeneratedObject, Allow
<1>3. rule.from = "principal" /\ rule.who = who /\ rule.to = to
  BY DEF AuthzRule
<1>4. rule.to # <<>> => ToString(n) \in AuthzNumbers(rule)
  <2> SUFFICES ASSUME rule.to # <<>> PROVE ToString(n) \in AuthzNumbers(rule)
    OBVIOUS
  <2> HIDE DEF rule, n
  <2>1. rule.to = <<<<ToString(n)>>>>
    BY <1>3
  <2>2. 1 \in DOMAIN rule.to /\ ToString(n) \in ToSet(rule.to[1])
    BY <2>1, ToSetFacts
  <2> QED BY <2>2 DEF AuthzNumbers
<1> HIDE DEF raw, rule, who, n
<1>5. LastPass(in, raw).kind = "AuthorizationPolicy" /\ LastPass(in, raw).spec = raw.spec
  BY <1>2, LastPassKeeps
<1>6. rule \in ToSet(LastPass(in, raw).spec.rules) /\ LastPass(in, raw).spec.selector = r.selector
  BY <1>2, <1>5, ToSetFacts
<1> QED BY <1>3, <1>4, <1>5, <1>6 DEF raw, who, n, AuthzAdmits

\* Every route works end to end, however many there are and wherever their gateways
\* come from: the policies of both layers that generateRoutes and
\* generateAuthzFromRoutes make let each gateway of the route's VirtualService through
\* to the pods, on the port they listen on.  That no two objects have the same name is
\* needed: a policy that another one overwrites lets nobody in.
THEOREM GatewaysAreAdmitted == Spec => []RoutesAdmitTheirGateways
<1>1. IInv => RoutesAdmitTheirGateways
  <2> DEFINE routes == input.pkg.spec.routes
             prepend == routes.prependReleaseName
  <2> SUFFICES ASSUME IInv, Rendered, routes # Nil, ~Collides, NEW entry \in ToSet(routes.inbound)
               PROVE  RouteAdmitted(entry)
    BY DEF RoutesAdmitTheirGateways
  <2> DEFINE r == RouteOf(entry, input)
             port == inboundWorkloadPort(r)
  <2>1. SoundInput(input) /\ output = Generate(input) /\ Generate(input).ok
    BY RenderedFacts
  <2>2. /\ IsList(r.gateways) /\ r.port = entry.val.port /\ r.containerPort = entry.val.containerPort
        /\ r.selector = IF entry.val.selector = {} THEN NameIs(entry.key) ELSE entry.val.selector
    BY <2>1, RouteGateways
  <2>3. port = IF entry.val.containerPort = Nil THEN entry.val.port ELSE entry.val.containerPort
    BY <2>2 DEF inboundWorkloadPort
  <2>4. SUFFICES ASSUME entry.val.enabled, port \in [int : 0 .. MaxInt32]
                 PROVE  /\ BoundTo(entry.key) # {}
                        /\ \A ref \in BoundTo(entry.key) :
                             LetsIn(r.selector,
                                    [ns |-> ref.ns, definition |-> gatewayDefinition(ref, input.ingressConfig)],
                                    port.int)
    BY <2>2, <2>3 DEF RouteAdmitted
  <2>5. /\ validateInbound(r)
        /\ \E vs : /\ Raw(input, vs) /\ vs.kind = "VirtualService"
                   /\ vs.name = prependName(prepend, input.pkg.name, entry.key)
                   /\ vs.spec.gateways = r.gateways
        /\ NetpolsEnabled(input.pkg) =>
             \A ref \in ToSet(r.gateways) :
               Raw(input, buildInboundNetpol(input.pkg, prepend, r, GatewayOf(ref, input)))
        /\ authzEnabled(input.pkg.spec.istio) =>
             \A ref \in ToSet(r.gateways) : \E suffix :
               Raw(input, buildAuthzFromRoute(input.pkg, prepend, r, GatewayOf(ref, input), suffix))
    BY <2>1, <2>4, RouteIsMade
  <2>6. /\ IsList(output.objs) /\ \A raw : Raw(input, raw) => SoundObject(raw)
        /\ \A raw : Raw(input, raw) => LastPass(input, raw) \in ToSet(output.objs)
    BY <2>1, GenerateMakes
  <2>7. /\ LastWrites = ToSet(output.objs)
        /\ \A x, y \in ToSet(output.objs) : x.kind = y.kind /\ x.name = y.name => x = y
    BY <2>6, NoCollision
  <2> HIDE DEF r, port
  <2>8. BoundTo(entry.key) = ToSet(r.gateways)
    <3>1. PICK raw : /\ Raw(input, raw) /\ raw.kind = "VirtualService"
                     /\ raw.name = prependName(prepend, input.pkg.name, entry.key)
                     /\ raw.spec.gateways = r.gateways
      BY <2>5
    <3> DEFINE vs == LastPass(input, raw)
    <3>2. /\ vs \in ToSet(output.objs) /\ vs.kind = "VirtualService" /\ vs.spec.gateways = r.gateways
          /\ vs.name = prependName(prepend, input.pkg.name, entry.key)
      BY <2>6, <3>1, LastPassKeeps
    <3> HIDE DEF vs
    <3>3. {v \in Objects("VirtualService") :
             v.name = prependName(input.pkg.spec.routes.prependReleaseName, input.pkg.name, entry.key)} = {vs}
      BY <2>7, <3>2 DEF Objects
    <3> QED BY <3>2, <3>3 DEF BoundTo
  <2>9. ToSet(r.gateways) # {}
    <3>1. r.gateways # <<>>
      BY <2>5 DEF validateInbound
    <3>2. Len(r.gateways) \in Nat /\ DOMAIN r.gateways = 1 .. Len(r.gateways)
      BY <2>2, ListFacts
    <3>3. Len(r.gateways) # 0
      BY <2>2, <3>1 DEF IsList
    <3>4. 1 \in DOMAIN r.gateways
      BY <3>2, <3>3
    <3> QED BY <3>4 DEF ToSet
  <2>10. ASSUME NEW ref \in ToSet(r.gateways)
         PROVE  LetsIn(r.selector,
                       [ns |-> ref.ns, definition |-> gatewayDefinition(ref, input.ingressConfig)], port.int)
    <3> DEFINE gw == GatewayOf(ref, input)
               gw2 == [ns |-> ref.ns, definition |-> gatewayDefinition(ref, input.ingressConfig)]
    <3>1. gw.ns = gw2.ns /\ gw.definition = gw2.definition
      BY DEF GatewayOf
    <3> HIDE DEF gw, gw2
    <3>2. NpEnabled => NetpolsEnabled(input.pkg)
      BY DEF NpEnabled, NetpolsEnabled
    <3>3. ASSUME NpEnabled
          PROVE  \E np \in LastWrites :
                   /\ np.kind = "NetworkPolicy" /\ np.spec.selector = r.selector
                   /\ \E rule \in ToSet(np.spec.ingress) :
                        /\ Pods(NamespaceIs(gw.ns), gw.definition.podSelector) \in ToSet(rule.peers)
                        /\ port.int \in NetpolNumbers(rule)
      <4> DEFINE raw == buildInboundNetpol(input.pkg, prepend, r, gw)
      <4>1. Raw(input, raw)
        BY <2>5, <3>2, <3>3 DEF gw
      <4>2. LastPass(input, raw) \in LastWrites
        BY <2>6, <2>7, <4>1
      <4> QED BY <2>4, <4>2, RoutePolicyAdmits DEF port
    <3>4. ASSUME authzEnabled(input.pkg.spec.istio)
          PROVE  \E ap \in LastWrites : AuthzAdmits(ap, r.selector, gw, port.int)
      <4>1. PICK suffix : Raw(input, buildAuthzFromRoute(input.pkg, prepend, r, gw, suffix))
        BY <2>5, <3>4 DEF gw
      <4> DEFINE ap == LastPass(input, buildAuthzFromRoute(input.pkg, prepend, r, gw, suffix))
      <4>2. ap \in LastWrites
        BY <2>6, <2>7, <4>1
      <4>3. AuthzAdmits(ap, r.selector, gw, port.int)
        BY <2>4, RouteAuthzAdmits DEF port
      <4> HIDE DEF ap
      <4> QED BY <4>2, <4>3
    <3> QED BY <3>1, <3>3, <3>4 DEF LetsIn, gw2, AuthzAdmits
  <2> QED BY <2>8, <2>9, <2>10
<1> QED BY <1>1, RenderingInductive, PTL

-----------------------------------------------------------------------------
(* Networks. *)

\* Among networks, the length of the prefix and one address decide inclusion.
LEMMA NetworkInclusion ==
  ASSUME NEW c \in CIDR, NEW d \in CIDR, Parses(c), Parses(d)
  PROVE  /\ Network(d) \subseteq Network(c) <=> c.len <= d.len /\ Within(c, d.addr)
         /\ Network(c) = Network(d) => c.len = d.len
<1>1. ASSUME NEW b \in CIDR, Parses(b)
      PROVE  b.addr \in Addresses /\ b.len \in 0..Width /\ b.addr \in Network(b)
  BY <1>1, WidthAssumption DEF CIDR, Network, Within, Parses
<1>2. ASSUME NEW a \in CIDR, NEW b \in CIDR, Parses(a), Parses(b), Network(b) \subseteq Network(a)
      PROVE  a.len <= b.len /\ Within(a, b.addr)
  <2>1. Within(a, b.addr)
    BY <1>1, <1>2 DEF Network
  <2>2. a.len <= b.len
    <3> SUFFICES ASSUME ~(a.len <= b.len) PROVE FALSE
      OBVIOUS
    <3> DEFINE i == a.len
               flipped == [b.addr EXCEPT ![i] = 1 - @]
    <3>1. /\ b.addr \in [1..Width -> {0, 1}] /\ a.addr \in [1..Width -> {0, 1}]
          /\ a.len \in Nat /\ b.len \in Nat /\ i \in 1..a.len /\ i \in 1..Width
      BY <1>1, <1>2, WidthAssumption DEF Addresses, CIDR
    <3>2. flipped \in Addresses /\ (\A j \in 1..b.len : flipped[j] = b.addr[j]) /\ flipped[i] # b.addr[i]
      <4>1. b.addr[i] \in {0, 1} /\ 1 - b.addr[i] \in {0, 1} /\ 1 - b.addr[i] # b.addr[i]
        <5>1. b.addr[i] \in {0, 1}
          <6> HIDE DEF i
          <6> QED BY <3>1
        <5>2. \A bit \in {0, 1} : 1 - bit \in {0, 1} /\ 1 - bit # bit
          OBVIOUS
        <5> QED BY <5>1, <5>2
      <4>2. flipped \in Addresses
        BY <3>1, <4>1 DEF Addresses
      <4>3. \A j \in 1..b.len : j # i /\ j \in 1..Width
        BY <1>2, <3>1, WidthAssumption DEF Parses
      <4> QED BY <3>1, <4>1, <4>2, <4>3
    <3> HIDE DEF flipped
    <3>3. flipped \in Network(b)
      BY <3>2 DEF Network, Within
    <3>4. Within(a, flipped)
      BY <1>2, <3>3 DEF Network
    <3> QED BY <2>1, <3>1, <3>2, <3>4 DEF Within
  <2> QED BY <2>1, <2>2
<1>3. ASSUME c.len <= d.len, Within(c, d.addr) PROVE Network(d) \subseteq Network(c)
  <2> SUFFICES ASSUME NEW x \in Network(d) PROVE x \in Network(c)
    OBVIOUS
  <2>1. x \in Addresses /\ Within(d, x)
    BY DEF Network
  <2>2. \A i \in 1..c.len : i \in 1..d.len
    BY <1>1, <1>3
  <2> QED BY <1>3, <2>1, <2>2 DEF Network, Within
<1>4. Network(c) = Network(d) => c.len = d.len
  <2> SUFFICES ASSUME Network(c) = Network(d) PROVE c.len = d.len
    OBVIOUS
  <2>1. c.len <= d.len /\ d.len <= c.len
    BY <1>2
  <2> QED BY <1>1, <2>1
<1> QED BY <1>2, <1>3, <1>4

\* The exclusions that are kept are those inside the rule, but for the rule's own
\* network written differently.
LEMMA ExcludedIsInside ==
  ASSUME NEW c \in CIDR, NEW ex \in CIDR, Parses(c), ~SameNetworkOtherText(c, ex)
  PROVE  Excluded(c, ex) <=> Parses(ex) /\ Network(ex) \subseteq Network(c) /\ Network(ex) # Network(c)
<1>1. CASE ~Parses(ex)
  BY <1>1 DEF Excluded
<1>2. CASE Parses(ex)
  <2>1. /\ Network(ex) \subseteq Network(c) <=> c.len <= ex.len /\ Within(c, ex.addr)
        /\ Network(c) = Network(ex) => c.len = ex.len
    BY <1>2, NetworkInclusion
  <2>2. c.len \in Int /\ ex.len \in Int
    BY DEF CIDR
  <2>3. Network(c) = Network(ex) <=> c = ex
    BY <2>1 DEF SameNetworkOtherText
  <2> QED BY <1>2, <2>1, <2>2, <2>3 DEF Excluded
<1> QED BY <1>1, <1>2

LEMMA KeptExclusions ==
  ASSUME NEW c, Parses(c), NEW exclusions, IsList(exclusions)
  PROVE  \A ex : ex \in ToSet(applyExcludeCIDRs(c, exclusions)) <=> ex \in ToSet(exclusions) /\ Excluded(c, ex)
<1> DEFINE lists == [i \in DOMAIN exclusions |->
                       IF Excluded(c, exclusions[i]) THEN <<exclusions[i]>> ELSE <<>>]
<1>1. applyExcludeCIDRs(c, exclusions) = FlattenSeq(lists)
  BY DEF applyExcludeCIDRs
<1>2. Len(exclusions) \in Nat /\ DOMAIN exclusions = 1 .. Len(exclusions)
  BY ListFacts
<1>3. /\ IsList(lists) /\ DOMAIN lists = DOMAIN exclusions
      /\ \A i \in DOMAIN lists : lists[i] = IF Excluded(c, exclusions[i]) THEN <<exclusions[i]>> ELSE <<>>
  BY <1>2, MapIsList
<1> HIDE DEF lists
<1>4. \A i \in DOMAIN lists : IsList(lists[i])
  BY <1>3, ShortLists
<1>5. ToSet(FlattenSeq(lists)) = UNION {ToSet(lists[i]) : i \in DOMAIN lists}
  BY <1>3, <1>4, FlattenSeqToSet
<1>6. \A i \in DOMAIN exclusions : \A ex : ex \in ToSet(lists[i]) <=> Excluded(c, exclusions[i]) /\ ex = exclusions[i]
  BY <1>3, ToSetFacts
<1>7. ASSUME NEW ex
      PROVE  ex \in ToSet(FlattenSeq(lists)) <=> \E i \in DOMAIN exclusions : ex \in ToSet(lists[i])
  BY <1>3, <1>5
<1>8. \A ex : ex \in ToSet(FlattenSeq(lists)) <=>
        \E i \in DOMAIN exclusions : Excluded(c, exclusions[i]) /\ ex = exclusions[i]
  BY <1>6, <1>7
<1>9. \A ex : ex \in ToSet(exclusions) <=> \E i \in DOMAIN exclusions : ex = exclusions[i]
  BY ToSetFacts
<1> QED BY <1>1, <1>8, <1>9

\* What a rule for a CIDR lets out, without the exclusions inside it.
LEMMA AdmittedIsRest ==
  ASSUME NEW c \in CIDR, Parses(c), NEW exclusions \in Seq(CIDR),
         \A ex \in ToSet(exclusions) : ~SameNetworkOtherText(c, ex)
  PROVE  Admitted(c, applyExcludeCIDRs(c, exclusions)) =
           Network(c) \ UNION {Network(ex) : ex \in
             {ex \in ToSet(exclusions) : Parses(ex) /\ Network(ex) \subseteq Network(c) /\ Network(ex) # Network(c)}}
<1> DEFINE except == applyExcludeCIDRs(c, exclusions)
           inside == {ex \in ToSet(exclusions) : Parses(ex) /\ Network(ex) \subseteq Network(c)
                                                   /\ Network(ex) # Network(c)}
<1>1. IsList(exclusions) /\ ToSet(exclusions) \subseteq CIDR
  BY SeqIsList DEF ToSet
<1>2. \A ex : ex \in ToSet(except) <=> ex \in ToSet(exclusions) /\ Excluded(c, ex)
  BY <1>1, KeptExclusions
<1>3. \A ex : ex \in ToSet(except) <=> ex \in inside
  BY <1>1, <1>2, ExcludedIsInside
<1> HIDE DEF except, inside
<1>4. {Network(except[i]) : i \in DOMAIN except} = {Network(ex) : ex \in inside}
  BY <1>3 DEF ToSet
<1> QED BY <1>4 DEF Admitted, except, inside

\* The policies whose names and annotations come from rules' keys, after the last pass.
LEMMA KeyedObjects ==
  ASSUME NEW in, SoundInput(in), Generate(in).ok, PlainSpec(in.pkg.spec),
         NEW np \in ToSet(Generate(in).objs), np.kind = "NetworkPolicy",
         "remote_key" \in DOMAIN np.annotations, "from_spec_literal" \notin DOMAIN np.annotations
  PROVE  /\ NetpolsEnabled(in.pkg)
         /\ \E raw : /\ np = LastPass(in, raw) /\ Raw(in, raw) /\ SoundObject(raw) /\ raw.kind = "NetworkPolicy"
                     /\ raw.annotations = np.annotations
                     /\ FromEgress(in, raw) \/ FromIngress(in, raw)
<1>1. PICK raw : Raw(in, raw) /\ np = LastPass(in, raw)
  BY GenerateMakes
<1>2. SoundObject(raw)
  BY <1>1, GenerateMakes
<1>3. raw.kind = "NetworkPolicy" /\ raw.annotations = np.annotations
  BY <1>1, <1>2, LastPassKeeps
<1>4. Keyed(raw)
  BY <1>3 DEF Keyed
<1>5. NetpolsEnabled(in.pkg) /\ (FromEgress(in, raw) \/ FromIngress(in, raw))
  BY <1>1, <1>3, <1>4, KeyedAreFromRules
<1> QED BY <1>1, <1>2, <1>3, <1>5

\* The policy of an egress CIDR rule excludes what is excluded inside it.
LEMMA CidrExclusions ==
  ASSUME NEW in, SoundInput(in), Generate(in).ok, NetpolsEnabled(in.pkg),
         NEW raw, SoundObject(raw), raw.kind = "NetworkPolicy", FromEgress(in, raw)
  PROVE  \/ \E pods, ports : pods.cidr = Nil /\ raw.spec.egress = <<Rule(<<pods>>, ports)>>
         \/ \E cidr \in CIDR : \E ports :
              /\ excludeCIDRsFor(in.pkg.spec.networkPolicies) \in Seq(CIDR)
              /\ raw.spec.egress = <<Rule(<<IPBlock(cidr,
                   applyExcludeCIDRs(cidr, excludeCIDRsFor(in.pkg.spec.networkPolicies)))>>, ports)>>
<1> DEFINE np == in.pkg.spec.networkPolicies
<1>1. PICK entry \in ToSet(np.egress.from) :
        /\ np.egress # Nil /\ entry.val.peer # Nil
        /\ \/ \E e \in ToSet(Enabled(entry.val.peer.k8s)) : raw = EgressK8s(in.pkg, np, entry, e)
           \/ \E e \in ToSet(Enabled(entry.val.peer.cidr)) : raw = EgressCidr(in.pkg, np, entry, e)
  BY DEF FromEgress
<1>2. /\ SoundFrom(entry)
      /\ \A e \in ToSet(Enabled(entry.val.peer.cidr)) : parseEgressCIDRKey(e.key) # Nil
  BY <1>1, RulesAreRead
<1>3. ASSUME NEW e, raw = EgressK8s(in.pkg, np, entry, e)
      PROVE  \E pods, ports : pods.cidr = Nil /\ raw.spec.egress = <<Rule(<<pods>>, ports)>>
  <2> DEFINE pods == Pods(remoteNamespaceSelector(parseEgressRemoteKey(e.key).ns, e.val.namespaceSelector),
                          remotePodSelector(parseEgressRemoteKey(e.key).pod, e.val.podSelector))
             ports == parsedPorts(parseEgressRemoteKey(e.key))
  <2>1. raw.spec.egress = <<EgressK8sRule(e)>>
    BY <1>3, RuleSpecs
  <2>2. pods.cidr = Nil
    BY DEF Pods
  <2>3. EgressK8sRule(e) = Rule(<<pods>>, ports)
    BY DEF EgressK8sRule
  <2> HIDE DEF pods, ports
  <2> QED BY <2>1, <2>2, <2>3
<1>4. ASSUME NEW e \in ToSet(Enabled(entry.val.peer.cidr)), raw = EgressCidr(in.pkg, np, entry, e)
      PROVE  \E cidr \in CIDR : \E ports :
               /\ excludeCIDRsFor(np) \in Seq(CIDR)
               /\ raw.spec.egress = <<Rule(<<IPBlock(cidr, applyExcludeCIDRs(cidr, excludeCIDRsFor(np)))>>, ports)>>
  <2> DEFINE cidr == parseEgressCIDRKey(e.key).cidr
             ports == parsedPorts(parseEgressCIDRKey(e.key))
  <2>1. raw.spec.egress = <<EgressCidrRule(np, e)>>
    BY <1>4, RuleSpecs
  <2>2. EgressCidrRule(np, e) = Rule(<<IPBlock(cidr, applyExcludeCIDRs(cidr, excludeCIDRsFor(np)))>>, ports)
    BY DEF EgressCidrRule
  <2>3. cidr \in CIDR
    <3>1. IsList(entry.val.peer.cidr) /\ \A i \in DOMAIN entry.val.peer.cidr : SoundCidr(entry.val.peer.cidr[i])
      BY <1>1, <1>2 DEF SoundFrom, SoundEntry, AllOf
    <3>2. PICK written \in ToSet(entry.val.peer.cidr) : e.key = written.key
      BY <3>1, EnabledIsWritten
    <3>3. written.key.cidr \in CIDR
      BY <3>1, <3>2 DEF ToSet, SoundCidr
    <3>4. cidr = e.key.cidr
      BY <1>2, <1>4, ParsedFacts
    <3> QED BY <3>2, <3>3, <3>4
  <2>4. excludeCIDRsFor(np) \in Seq(CIDR)
    <3>1. defaultEgressExcludeCIDRs \in Seq(CIDR)
      <4> DEFINE c == [addr |-> [i \in 1..Width |-> IF i = Width THEN 0 ELSE 1], len |-> Width]
      <4>1. c \in CIDR
        BY WidthAssumption DEF CIDR, Addresses
      <4>2. defaultEgressExcludeCIDRs = <<c>>
        BY DEF defaultEgressExcludeCIDRs
      <4> HIDE DEF c
      <4> QED BY <4>1, <4>2
    <3>2. np # Nil /\ SoundNetworkPolicies(np)
      BY NetpolPart
    <3>3. np.egress.excludeCIDRs # Nil => np.egress.excludeCIDRs \in Seq(CIDR)
      BY <1>1, <3>2 DEF SoundNetworkPolicies, SoundEgress
    <3> QED BY <3>1, <3>3 DEF excludeCIDRsFor
  <2> HIDE DEF cidr, ports
  <2> QED BY <2>1, <2>2, <2>3, <2>4
<1> QED BY <1>1, <1>3, <1>4

\* The exclusions of a Package hold: whatever the rules and the exclusions are, and
\* however wide an address is, an egress CIDR rule lets out the addresses of its
\* network without those of every exclusion that lies inside it, and of no other
\* (applyExcludeCIDRs compares lengths and one address, and that decides inclusion).
THEOREM ExclusionsAreExact == Spec => []ExclusionsHold
<1>1. IInv => ExclusionsHold
  <2> DEFINE exclusions == excludeCIDRsFor(input.pkg.spec.networkPolicies)
             Inside(c) == {ex \in ToSet(exclusions) : Parses(ex) /\ Network(ex) \subseteq Network(c)
                                                        /\ Network(ex) # Network(c)}
  <2> SUFFICES ASSUME IInv, Rendered, PlainSpec(input.pkg.spec), NEW np \in Objects("NetworkPolicy"),
                      "remote_key" \in DOMAIN np.annotations, "from_spec_literal" \notin DOMAIN np.annotations,
                      np.spec.egress # <<>>, np.spec.egress[1].peers[1].cidr # Nil,
                      Parses(np.spec.egress[1].peers[1].cidr),
                      \A ex \in ToSet(exclusions) : ~SameNetworkOtherText(np.spec.egress[1].peers[1].cidr, ex)
               PROVE  Admitted(np.spec.egress[1].peers[1].cidr, np.spec.egress[1].peers[1].except) =
                        Network(np.spec.egress[1].peers[1].cidr)
                        \ UNION {Network(ex) : ex \in Inside(np.spec.egress[1].peers[1].cidr)}
    BY DEF ExclusionsHold
  <2>1. SoundInput(input) /\ output = Generate(input) /\ Generate(input).ok
    BY RenderedFacts
  <2>2. np \in ToSet(Generate(input).objs) /\ np.kind = "NetworkPolicy"
    BY <2>1 DEF Objects
  <2>3. NetpolsEnabled(input.pkg)
    BY <2>1, <2>2, KeyedObjects
  <2>4. PICK raw : /\ np = LastPass(input, raw) /\ SoundObject(raw) /\ raw.kind = "NetworkPolicy"
                   /\ FromEgress(input, raw) \/ FromIngress(input, raw)
    BY <2>1, <2>2, KeyedObjects
  <2>5. FromEgress(input, raw)
    <3> SUFFICES ASSUME FromIngress(input, raw) PROVE FALSE
      BY <2>4
    <3>1. raw.spec.egress = <<>>
      BY RuleSpecs DEF FromIngress
    <3> QED BY <2>4, <3>1, LastPassRule
  <2>6. \A peer, ports : raw.spec.egress = <<Rule(<<peer>>, ports)>> => np.spec.egress[1].peers[1] = peer
    <3> SUFFICES ASSUME NEW peer, NEW ports, raw.spec.egress = <<Rule(<<peer>>, ports)>>
                 PROVE  np.spec.egress[1].peers[1] = peer
      OBVIOUS
    <3> DEFINE rule == Rule(<<peer>>, ports)
    <3>1. np.spec.egress = <<InMesh(input, rule)>>
      BY <2>4, LastPassRule
    <3>2. HasFields(rule, {"peers", "ports"}) /\ rule.peers = <<peer>> /\ IsList(rule.ports)
      <4>1. SoundRule(rule)
        <5>1. AllOf(raw.spec.egress, SoundRule)
          BY <2>4 DEF SoundObject, SoundPolicy
        <5> HIDE DEF rule
        <5>2. raw.spec.egress = <<rule>>
          BY DEF rule
        <5> QED BY <5>1, <5>2 DEF AllOf
      <4> QED BY <4>1 DEF SoundRule, AllOf, Rule
    <3> HIDE DEF rule
    <3>3. InMesh(input, rule).peers = rule.peers
      BY <3>2, InMeshRule
    <3> QED BY <3>1, <3>2, <3>3
  <2>7. PICK cidr \in CIDR : \E ports :
          /\ exclusions \in Seq(CIDR)
          /\ raw.spec.egress = <<Rule(<<IPBlock(cidr, applyExcludeCIDRs(cidr, exclusions))>>, ports)>>
    BY <2>1, <2>3, <2>4, <2>5, <2>6, CidrExclusions
  <2> DEFINE peer == np.spec.egress[1].peers[1]
  <2>8. peer.cidr = cidr /\ peer.except = applyExcludeCIDRs(cidr, exclusions)
    <3>1. peer = IPBlock(cidr, applyExcludeCIDRs(cidr, exclusions))
      BY <2>6, <2>7
    <3> HIDE DEF peer
    <3> QED BY <3>1 DEF IPBlock
  <2> HIDE DEF peer, exclusions
  <2>9. Parses(cidr) /\ \A ex \in ToSet(exclusions) : ~SameNetworkOtherText(cidr, ex)
    BY <2>8 DEF peer
  <2>10. Admitted(cidr, applyExcludeCIDRs(cidr, exclusions)) = Network(cidr) \ UNION {Network(ex) : ex \in Inside(cidr)}
    BY <2>7, <2>9, AdmittedIsRest
  <2> HIDE DEF Inside
  <2> QED BY <2>8, <2>10 DEF peer
<1> QED BY <1>1, RenderingInductive, PTL

-----------------------------------------------------------------------------
(* The two layers. *)

\* The ports of a local key, all of them.
KeyNumbers(to) == IF to.range /\ Len(to.ports) = 2 THEN to.ports[1] .. to.ports[2] ELSE ToSet(to.ports)

\* At layer 4 a range is its two ends, and a number an int32.
LEMMA NetpolNumbersOf ==
  ASSUME NEW rule, NEW to, rule.ports = parsedPorts(to), IsList(to.ports), AreInt32s(to.ports)
  PROVE  NetpolNumbers(rule) = KeyNumbers(to)
<1>1. Len(to.ports) \in Nat /\ DOMAIN to.ports = 1 .. Len(to.ports)
  BY ListFacts
<1>2. \A i \in DOMAIN to.ports : to.ports[i] \in Int /\ Int32(to.ports[i]) = to.ports[i]
  BY Conversions, MaxInt32Assumption DEF AreInt32s, ToSet
<1>3. CASE to.range /\ Len(to.ports) = 2
  <2> DEFINE p == NetpolPort(to.protocol, to.ports[1], to.ports[2])
  <2>1. /\ to.ports[1] \in Int /\ Int32(to.ports[1]) = to.ports[1]
        /\ to.ports[2] \in Int /\ Int32(to.ports[2]) = to.ports[2]
    BY <1>1, <1>2, <1>3
  <2>2. PortNumbers(p) = to.ports[1] .. to.ports[2]
    <3>1. p.port = [int |-> to.ports[1]] /\ p.end = to.ports[2]
      BY DEF NetpolPort
    <3>2. p.port \in [int : Int] /\ p.end \in Int
      BY <2>1, <3>1
    <3>3. p.port # Nil /\ p.end # Nil
      BY <3>2, NilAssumption
    <3>4. "named" \notin DOMAIN p.port /\ p.port.int = to.ports[1]
      BY <3>1
    <3> HIDE DEF p
    <3> QED BY <3>1, <3>3, <3>4 DEF PortNumbers
  <2>3. rule.ports = <<p>>
    BY <1>3, <2>1 DEF parsedPorts, buildNetpolPorts
  <2>4. ToSet(rule.ports) = {p}
    <3> HIDE DEF p
    <3> QED BY <2>3 DEF ToSet
  <2> HIDE DEF p
  <2> QED BY <1>3, <2>2, <2>4 DEF NetpolNumbers, KeyNumbers
<1>4. CASE ~(to.range /\ Len(to.ports) = 2)
  <2> DEFINE P(n) == NetpolPort(to.protocol, n, Nil)
  <2>1. ASSUME NEW n \in Int PROVE PortNumbers(P(n)) = {n}
    <3>1. P(n).port = [int |-> n] /\ P(n).end = Nil
      BY DEF NetpolPort
    <3>2. P(n).port \in [int : Int]
      BY <3>1
    <3>3. P(n).port # Nil
      BY <3>2, NilAssumption
    <3>4. "named" \notin DOMAIN P(n).port /\ P(n).port.int = n
      BY <3>1
    <3>5. n .. n = {n}
      OBVIOUS
    <3> HIDE DEF P
    <3> QED BY <3>1, <3>3, <3>4, <3>5 DEF PortNumbers
  <2>2. rule.ports = [i \in DOMAIN to.ports |-> P(to.ports[i])]
    BY <1>2, <1>4 DEF parsedPorts, buildNetpolPorts
  <2> HIDE DEF P
  <2>3. ToSet(rule.ports) = {P(to.ports[i]) : i \in DOMAIN to.ports}
    BY <2>2 DEF ToSet
  <2>4. NetpolNumbers(rule) = UNION {PortNumbers(P(to.ports[i])) : i \in DOMAIN to.ports}
    BY <2>3 DEF NetpolNumbers
  <2>5. \A i \in DOMAIN to.ports : PortNumbers(P(to.ports[i])) = {to.ports[i]}
    BY <1>2, <2>1
  <2>6. NetpolNumbers(rule) = {to.ports[i] : i \in DOMAIN to.ports}
    BY <2>4, <2>5
  <2> QED BY <1>4, <2>6 DEF KeyNumbers, ToSet
<1> QED BY <1>3, <1>4

\* At layer 7 a range is spelt out.
LEMMA AuthzNumbersOf ==
  ASSUME NEW to, IsList(to.ports), ToSet(to.ports) \subseteq Int, NEW from, NEW who
  PROVE  AuthzNumbers(AuthzRule(from, who, operationPorts(to))) = NumbersAsText(KeyNumbers(to))
<1> DEFINE rule == AuthzRule(from, who, operationPorts(to))
<1>1. rule.to = operationPorts(to)
  BY DEF AuthzRule
<1>2. Len(to.ports) \in Nat /\ DOMAIN to.ports = 1 .. Len(to.ports)
  BY ListFacts
<1>3. \A i \in DOMAIN to.ports : to.ports[i] \in Int
  BY DEF ToSet
<1> HIDE DEF rule
<1>4. CASE to.ports = <<>>
  <2>1. rule.to = <<>>
    BY <1>1, <1>4 DEF operationPorts
  <2>2. AuthzNumbers(rule) = {}
    BY <2>1 DEF AuthzNumbers
  <2>3. KeyNumbers(to) = {}
    <3>1. Len(to.ports) # 2
      BY <1>4
    <3>2. ToSet(to.ports) = {}
      BY <1>4 DEF ToSet
    <3> QED BY <3>1, <3>2 DEF KeyNumbers
  <2> QED BY <2>2, <2>3 DEF NumbersAsText, rule
<1>5. CASE to.ports # <<>>
  <2> DEFINE nums == IF to.range /\ Len(to.ports) = 2
                       THEN [i \in 1 .. to.ports[2] - to.ports[1] + 1 |-> to.ports[1] + i - 1]
                       ELSE to.ports
  <2>1. rule.to = <<Numbers(nums)>>
    BY <1>1, <1>5 DEF operationPorts
  <2>2. {nums[i] : i \in DOMAIN nums} = KeyNumbers(to)
    <3>1. CASE to.range /\ Len(to.ports) = 2
      <4>1. nums = [i \in 1 .. to.ports[2] - to.ports[1] + 1 |-> to.ports[1] + i - 1]
        BY <3>1
      <4>2. to.ports[1] \in Int /\ to.ports[2] \in Int
        BY <1>2, <1>3, <3>1
      <4>3. ASSUME NEW a \in Int, NEW b \in Int
            PROVE  {a + i - 1 : i \in 1 .. b - a + 1} = a .. b
        <5>1. \A n \in a .. b : n - a + 1 \in 1 .. b - a + 1 /\ n = a + (n - a + 1) - 1
          OBVIOUS
        <5>2. \A i \in 1 .. b - a + 1 : a + i - 1 \in a .. b
          OBVIOUS
        <5> QED BY <5>1, <5>2
      <4>4. {nums[i] : i \in DOMAIN nums}
              = {to.ports[1] + i - 1 : i \in 1 .. to.ports[2] - to.ports[1] + 1}
        <5> HIDE DEF nums
        <5> QED BY <4>1
      <4>5. KeyNumbers(to) = to.ports[1] .. to.ports[2]
        BY <3>1 DEF KeyNumbers
      <4> HIDE DEF nums
      <4> QED BY <4>2, <4>3, <4>4, <4>5
    <3>2. CASE ~(to.range /\ Len(to.ports) = 2)
      BY <3>2 DEF KeyNumbers, ToSet
    <3> QED BY <3>1, <3>2
  <2> HIDE DEF nums
  <2>3. AuthzNumbers(rule) = ToSet(Numbers(nums))
    <3> DEFINE texts == Numbers(nums)
    <3> HIDE DEF texts
    <3>1. rule.to = <<texts>>
      BY <2>1 DEF texts
    <3>2. DOMAIN rule.to = {1} /\ rule.to[1] = texts
      BY <3>1
    <3> QED BY <3>2 DEF AuthzNumbers, texts
  <2>4. ToSet(Numbers(nums)) = {ToString(nums[i]) : i \in DOMAIN nums}
    BY DEF ToSet, Numbers
  <2> QED BY <2>2, <2>3, <2>4 DEF NumbersAsText, rule
<1> QED BY <1>4, <1>5

\* The last pass adds the port of the tunnel, and nothing else.
LEMMA MeshNumbers ==
  ASSUME NEW in, NEW rule, HasFields(rule, {"peers", "ports"}), IsList(rule.ports)
  PROVE  NetpolNumbers(InMesh(in, rule)) \cup {15008} = NetpolNumbers(rule) \cup {15008}
<1>1. CASE InMesh(in, rule) = rule
  BY <1>1
<1>2. CASE InMesh(in, rule) # rule
  <2>1. ToSet(InMesh(in, rule).ports) = ToSet(rule.ports) \cup {Tcp(15008)}
    BY <1>2, InMeshRule
  <2>2. PortNumbers(Tcp(15008)) = {15008}
    <3> DEFINE p == Tcp(15008)
    <3>1. p.port = [int |-> 15008] /\ p.end = Nil
      BY DEF Tcp, NetpolPort
    <3>2. p.port # Nil
      BY <3>1, NilAssumption
    <3>3. "named" \notin DOMAIN p.port /\ p.port.int = 15008
      BY <3>1
    <3>4. 15008 .. 15008 = {15008}
      OBVIOUS
    <3> HIDE DEF p
    <3>5. PortNumbers(p) = {15008}
      BY <3>1, <3>2, <3>3, <3>4 DEF PortNumbers
    <3> QED BY <3>5 DEF p
  <2>3. NetpolNumbers(InMesh(in, rule)) = NetpolNumbers(rule) \cup {15008}
    BY <2>1, <2>2 DEF NetpolNumbers
  <2> QED BY <2>3
<1> QED BY <1>1, <1>2

\* A policy of an ingress rule and the one that accompanies it say the same.
LEMMA TargetsAgree ==
  ASSUME NEW in, NEW entry, SoundTo(entry), parseIngressLocalKey(entry.key) # Nil,
         AreInt32s(entry.key.ports.nums),
         NEW raw, SoundObject(raw), raw.kind = "NetworkPolicy", raw.spec.selector = IngressSelectorOf(entry),
         NEW rule, raw.spec.ingress = <<rule>>, rule.ports = parsedPorts(parseIngressLocalKey(entry.key)),
         NEW ap, NEW from, NEW who,
         ap.spec = Allow(IngressSelectorOf(entry),
                         <<AuthzRule(from, who, operationPorts(parseIngressLocalKey(entry.key)))>>)
  PROVE  SameTarget(LastPass(in, raw), ap) /\ LastPass(in, raw).spec.ingress # <<>>
<1> DEFINE to == parseIngressLocalKey(entry.key)
           np == LastPass(in, raw)
<1>1. IsList(to.ports) /\ ToSet(to.ports) \subseteq Int /\ AreInt32s(to.ports)
  BY ParsedFacts DEF SoundTo, SoundKeyPorts
<1>2. np.spec.ingress = <<InMesh(in, rule)>> /\ np.spec.selector = raw.spec.selector
  BY LastPassRule, LastPassKeeps
<1>3. HasFields(rule, {"peers", "ports"}) /\ IsList(rule.ports)
  <2>1. AllOf(raw.spec.ingress, SoundRule)
    BY DEF SoundObject, SoundPolicy
  <2>2. SoundRule(rule)
    BY <2>1 DEF AllOf
  <2> QED BY <2>2 DEF SoundRule, AllOf
<1>4. ap.spec.selector = IngressSelectorOf(entry) /\ ap.spec.rules[1] = AuthzRule(from, who, operationPorts(to))
  BY DEF Allow
<1>5. NetpolNumbers(np.spec.ingress[1]) \cup {15008} = KeyNumbers(to) \cup {15008}
  <2>1. np.spec.ingress[1] = InMesh(in, rule)
    BY <1>2
  <2> HIDE DEF np, to
  <2>2. NetpolNumbers(rule) = KeyNumbers(to)
    BY <1>1, NetpolNumbersOf DEF to
  <2> QED BY <1>3, <2>1, <2>2, MeshNumbers
<1>6. AuthzNumbers(ap.spec.rules[1]) = NumbersAsText(KeyNumbers(to))
  <2> HIDE DEF to
  <2> QED BY <1>1, <1>4, AuthzNumbersOf
<1>7. NumbersAsText(KeyNumbers(to) \cup {15008}) = NumbersAsText(KeyNumbers(to)) \cup {ToString(15008)}
  <2> HIDE DEF to
  <2> QED BY DEF NumbersAsText
<1> HIDE DEF np, to
<1>8. SameTarget(np, ap)
  BY <1>2, <1>4, <1>5, <1>6, <1>7 DEF SameTarget
<1>9. np.spec.ingress # <<>>
  BY <1>2
<1> QED BY <1>8, <1>9 DEF np

\* Policies made at the two layers from one rule: the same key, pods and ports.
Accompanies(in, x, y) ==
  /\ FromIngress(in, x) /\ FromCompanion(in, y)
  /\ FromKey(y) = x.annotations.remote_key
  /\ LastPass(in, x).spec.ingress # <<>> /\ SameTarget(LastPass(in, x), y)

LEMMA RulesHaveCompanions ==
  ASSUME NEW in, SoundInput(in), Generate(in).ok, PlainSpec(in.pkg.spec), NetpolsEnabled(in.pkg),
         authzEnabled(in.pkg.spec.istio), generateFromNetpol(in.pkg.spec.istio),
         LocalPortsFit(in.pkg.spec.networkPolicies)
  PROVE  /\ \A x : FromIngress(in, x) => \E y : Accompanies(in, x, y)
         /\ \A y : FromCompanion(in, y) => \E x : Accompanies(in, x, y)
<1> DEFINE np == in.pkg.spec.networkPolicies
           prepend == np.prependReleaseName
<1>1. ASSUME np.ingress # Nil, NEW entry \in ToSet(np.ingress.to), entry.val.peer # Nil, NEW e, NEW x, NEW y,
             \/ /\ e \in ToSet(Enabled(entry.val.peer.k8s))
                /\ x = IngressK8s(in.pkg, np, entry, e) /\ y = AuthzK8s(in.pkg, prepend, entry, e)
             \/ /\ e \in ToSet(Enabled(entry.val.peer.cidr))
                /\ x = IngressCidr(in.pkg, np, entry, e) /\ y = AuthzCidr(in.pkg, prepend, entry, e)
      PROVE  Accompanies(in, x, y)
  <2>0. AreInt32s(entry.key.ports.nums)
    BY <1>1 DEF LocalPortsFit
  <2>1. np # Nil /\ PlainPolicies(np)
    BY NetpolPart DEF PlainSpec
  <2>2. SoundTo(entry) /\ PlainRules(entry) /\ parseIngressLocalKey(entry.key) # Nil
    BY <1>1, <2>1, RulesAreRead DEF PlainPolicies
  <2>3. FromIngress(in, x)
    BY <1>1 DEF FromIngress
  <2>4. FromCompanion(in, y)
    BY <1>1, <2>1 DEF FromCompanion
  <2> HIDE DEF np
  <2>5. x.annotations.remote_key = e.key
    BY <1>1, <2>2, IngressKeys
  <2>6. FromKey(y) = e.key
    <3>1. /\ \A f \in ToSet(Enabled(entry.val.peer.k8s)) : FromKey(AuthzK8s(in.pkg, prepend, entry, f)) = f.key
          /\ \A f \in ToSet(Enabled(entry.val.peer.cidr)) : FromKey(AuthzCidr(in.pkg, prepend, entry, f)) = f.key
      BY <1>1, <2>2, CompanionKeys
    <3> QED BY <1>1, <3>1
  <2>7. Raw(in, x) /\ x.kind = "NetworkPolicy"
    BY <2>3, KeyedAreFromRules
  <2>8. SoundObject(x)
    BY <2>7, GenerateMakes
  <2>9. PICK rule : /\ x.spec.ingress = <<rule>> /\ rule.ports = parsedPorts(parseIngressLocalKey(entry.key))
    <3>1. \/ x.spec.ingress = <<IngressK8sRule(entry, e)>>
          \/ x.spec.ingress = <<IngressCidrRule(entry, e)>>
      <4>1. /\ IngressK8s(in.pkg, np, entry, e).spec.ingress = <<IngressK8sRule(entry, e)>>
            /\ IngressCidr(in.pkg, np, entry, e).spec.ingress = <<IngressCidrRule(entry, e)>>
        BY RuleSpecs
      <4> QED BY <1>1, <4>1
    <3>2. \A rule \in {IngressK8sRule(entry, e), IngressCidrRule(entry, e)} :
            rule.ports = parsedPorts(parseIngressLocalKey(entry.key))
      BY DEF IngressK8sRule, IngressCidrRule, Rule
    <3> QED BY <3>1, <3>2
  <2>10. x.spec.selector = IngressSelectorOf(entry)
    BY <1>1, RuleSpecs
  <2>11. PICK from, who : y.spec = Allow(IngressSelectorOf(entry),
                            <<AuthzRule(from, who, operationPorts(parseIngressLocalKey(entry.key)))>>)
    <3>1. y \in {AuthzK8s(in.pkg, prepend, entry, e), AuthzCidr(in.pkg, prepend, entry, e)}
      BY <1>1
    <3> QED BY <3>1, CompanionSpecs DEF IngressSelectorOf
  <2>12. SameTarget(LastPass(in, x), y) /\ LastPass(in, x).spec.ingress # <<>>
    BY <2>0, <2>2, <2>7, <2>8, <2>9, <2>10, <2>11, TargetsAgree
  <2> QED BY <2>3, <2>4, <2>5, <2>6, <2>12 DEF Accompanies
<1>2. ASSUME NEW x, FromIngress(in, x) PROVE \E y : Accompanies(in, x, y)
  <2>1. PICK entry \in ToSet(np.ingress.to) :
          /\ np.ingress # Nil /\ entry.val.peer # Nil
          /\ \/ \E e \in ToSet(Enabled(entry.val.peer.k8s)) : x = IngressK8s(in.pkg, np, entry, e)
             \/ \E e \in ToSet(Enabled(entry.val.peer.cidr)) : x = IngressCidr(in.pkg, np, entry, e)
    BY <1>2 DEF FromIngress
  <2> HIDE DEF np, prepend
  <2> QED BY <1>1, <2>1
<1>3. ASSUME NEW y, FromCompanion(in, y) PROVE \E x : Accompanies(in, x, y)
  <2>1. PICK entry \in ToSet(np.ingress.to) :
          /\ np.ingress # Nil /\ entry.val.peer # Nil
          /\ \/ \E e \in ToSet(Enabled(entry.val.peer.k8s)) : y = AuthzK8s(in.pkg, prepend, entry, e)
             \/ \E e \in ToSet(Enabled(entry.val.peer.cidr)) : y = AuthzCidr(in.pkg, prepend, entry, e)
    BY <1>3 DEF FromCompanion
  <2> HIDE DEF np, prepend
  <2> QED BY <1>1, <2>1
<1> QED BY <1>2, <1>3

\* The AuthorizationPolicies that say what they were made from are the companions.
LEMMA FromKeyIsCompanion ==
  ASSUME NEW in, SoundInput(in), Generate(in).ok, PlainSpec(in.pkg.spec),
         NEW raw, Raw(in, raw), raw.kind = "AuthorizationPolicy", FromKey(raw) # Nil
  PROVE  FromCompanion(in, raw)
<1>1. PICK k \in 1..7 : Makes(PartOf(in, k), raw)
  BY DEF Raw
<1>2. k \notin {1, 2, 3}
  BY <1>1, IstioPartKinds, NetpolPartKinds, RoutePartKinds
<1>3. k \notin {4, 6, 7}
  <2> SUFFICES ASSUME k \in {4, 6, 7} PROVE FALSE
    OBVIOUS
  <2>1. Plain(raw.annotations)
    BY <1>1, AuthzPartKinds
  <2>2. /\ "from_namespace" \notin DOMAIN raw.annotations
        /\ "from_spiffe" \notin DOMAIN raw.annotations
        /\ "from_cidr" \notin DOMAIN raw.annotations
    BY <2>1 DEF Plain, GeneratedKeys
  <2>3. FromKey(raw) = Nil
    BY <2>2 DEF FromKey
  <2> QED BY <2>3
<1>4. k = 5
  BY <1>2, <1>3
<1> QED BY <1>1, <1>4, CompanionPart

\* The two layers agree, whatever the Package: every NetworkPolicy of a k8s or CIDR
\* ingress rule has an AuthorizationPolicy made from the same key for the same pods
\* and ports, and the other way around.  Layer 4 has the two ends of a range and the
\* port of the tunnel, layer 7 has every port of the range spelt out.  That the numbers
\* of the local keys are int32s is needed: layer 4 converts them, layer 7 does not.
THEOREM LayersAgree == Spec => []CompanionsAgree
<1>1. IInv => CompanionsAgree
  <2> SUFFICES ASSUME IInv, Rendered, NpEnabled, authzEnabled(input.pkg.spec.istio),
                      generateFromNetpol(input.pkg.spec.istio), PlainSpec(input.pkg.spec),
                      LocalPortsFit(input.pkg.spec.networkPolicies)
               PROVE  /\ \A np \in ByKey : \E ap \in Objects("AuthorizationPolicy") :
                           FromKey(ap) = np.annotations.remote_key /\ SameTarget(np, ap)
                      /\ \A ap \in Objects("AuthorizationPolicy") : FromKey(ap) # Nil =>
                           \E np \in ByKey : FromKey(ap) = np.annotations.remote_key /\ SameTarget(np, ap)
    BY DEF CompanionsAgree
  <2>1. SoundInput(input) /\ output = Generate(input) /\ Generate(input).ok
    BY RenderedFacts
  <2>2. NetpolsEnabled(input.pkg)
    BY DEF NpEnabled, NetpolsEnabled
  <2>3. ASSUME NEW x, NEW y, Accompanies(input, x, y)
        PROVE  /\ LastPass(input, x) \in ByKey /\ LastPass(input, x).annotations = x.annotations
               /\ LastPass(input, y) \in Objects("AuthorizationPolicy")
               /\ FromKey(LastPass(input, y)) = x.annotations.remote_key
               /\ SameTarget(LastPass(input, x), LastPass(input, y))
    <3>1. Raw(input, x) /\ x.kind = "NetworkPolicy" /\ Keyed(x)
      BY <2>1, <2>2, <2>3, KeyedAreFromRules DEF Accompanies
    <3>2. Raw(input, y) /\ y.kind = "AuthorizationPolicy"
      BY <2>1, <2>3, CompanionPart DEF Accompanies, Raw
    <3>3. SoundObject(x) /\ SoundObject(y)
      BY <2>1, <3>1, <3>2, GenerateMakes
    <3>4. LastPass(input, x) \in ToSet(output.objs) /\ LastPass(input, y) \in ToSet(output.objs)
      BY <2>1, <3>1, <3>2, GenerateMakes
    <3>5. /\ LastPass(input, x).kind = "NetworkPolicy" /\ LastPass(input, x).annotations = x.annotations
          /\ LastPass(input, y).kind = "AuthorizationPolicy" /\ LastPass(input, y).annotations = y.annotations
          /\ LastPass(input, y).spec = y.spec
      BY <3>1, <3>2, <3>3, LastPassKeeps
    <3>6. FromKey(LastPass(input, y)) = FromKey(y)
      BY <3>5 DEF FromKey
    <3>7. SameTarget(LastPass(input, x), y) => SameTarget(LastPass(input, x), LastPass(input, y))
      BY <3>5 DEF SameTarget
    <3> QED BY <2>3, <3>1, <3>4, <3>5, <3>6, <3>7 DEF Accompanies, ByKey, Objects, Keyed
  <2>4. ASSUME NEW np \in ByKey
        PROVE  \E ap \in Objects("AuthorizationPolicy") :
                 FromKey(ap) = np.annotations.remote_key /\ SameTarget(np, ap)
    <3>1. /\ np \in ToSet(Generate(input).objs) /\ np.kind = "NetworkPolicy" /\ np.spec.ingress # <<>>
          /\ "remote_key" \in DOMAIN np.annotations /\ "from_spec_literal" \notin DOMAIN np.annotations
      BY <2>1, <2>4 DEF ByKey, Objects
    <3>2. PICK raw : /\ np = LastPass(input, raw) /\ SoundObject(raw) /\ raw.kind = "NetworkPolicy"
                     /\ FromEgress(input, raw) \/ FromIngress(input, raw)
      BY <2>1, <3>1, KeyedObjects
    <3>3. FromIngress(input, raw)
      <4> SUFFICES ASSUME FromEgress(input, raw) PROVE FALSE
        BY <3>2
      <4>1. raw.spec.ingress = <<>>
        BY RuleSpecs DEF FromEgress
      <4> QED BY <3>1, <3>2, <4>1, LastPassRule
    <3>4. PICK y : Accompanies(input, raw, y)
      BY <2>1, <2>2, <3>3, RulesHaveCompanions
    <3> QED BY <2>3, <3>2, <3>4
  <2>5. ASSUME NEW ap \in Objects("AuthorizationPolicy"), FromKey(ap) # Nil
        PROVE  \E np \in ByKey : FromKey(ap) = np.annotations.remote_key /\ SameTarget(np, ap)
    <3>1. PICK raw : Raw(input, raw) /\ ap = LastPass(input, raw)
      BY <2>1, <2>5, GenerateMakes DEF Objects
    <3>2. raw.kind = "AuthorizationPolicy" /\ ap.annotations = raw.annotations
      BY <2>1, <2>5, <3>1, GenerateMakes, LastPassKeeps DEF Objects
    <3>3. FromKey(ap) = FromKey(raw)
      BY <3>2 DEF FromKey
    <3>4. FromCompanion(input, raw)
      BY <2>1, <2>5, <3>1, <3>2, <3>3, FromKeyIsCompanion
    <3>5. PICK x : Accompanies(input, x, raw)
      BY <2>1, <2>2, <3>4, RulesHaveCompanions
    <3> QED BY <2>3, <3>1, <3>5
  <2> QED BY <2>4, <2>5
<1> QED BY <1>1, RenderingInductive, PTL

-----------------------------------------------------------------------------
(* Lists that lack one element of another. *)

LacksAt(big, small, i) ==
  /\ Len(small) = Len(big) - 1
  /\ \A j \in 1 .. Len(big) - 1 : small[j] = IF j < i THEN big[j] ELSE big[j + 1]
Lacks(big, small, x) ==
  /\ IsList(big) /\ IsList(small)
  /\ \E i \in DOMAIN big : big[i] = x /\ LacksAt(big, small, i)

LEMMA Concatenated ==
  ASSUME NEW a, NEW b, IsList(a), IsList(b)
  PROVE  /\ IsList(a \o b) /\ Len(a \o b) = Len(a) + Len(b)
         /\ \A j \in 1 .. Len(a) + Len(b) : (a \o b)[j] = IF j <= Len(a) THEN a[j] ELSE b[j - Len(a)]
<1> DEFINE U == ToSet(a) \cup ToSet(b)
<1>1. a \in Seq(U) /\ b \in Seq(U)
  <2>1. a \in Seq(ToSet(a)) /\ b \in Seq(ToSet(b))
    BY DEF IsList
  <2> QED BY <2>1
<1> HIDE DEF U
<1>2. a \o b \in Seq(U) /\ Len(a \o b) = Len(a) + Len(b)
  BY <1>1
<1>3. \A j \in 1 .. Len(a) + Len(b) : (a \o b)[j] = IF j <= Len(a) THEN a[j] ELSE b[j - Len(a)]
  BY <1>1
<1>4. IsList(a \o b)
  BY <1>2, SeqIsList
<1> QED BY <1>2, <1>3, <1>4

LEMMA LacksIsRemoveAt ==
  ASSUME NEW big, NEW small, IsList(big), IsList(small), NEW i \in DOMAIN big, LacksAt(big, small, i)
  PROVE  small = RemoveAt(big, i)
<1> DEFINE U == ToSet(big)
           n == Len(big)
           front == SubSeq(big, 1, i - 1)
           rest == SubSeq(big, i + 1, n)
<1>1. big \in Seq(U) /\ n \in Nat /\ i \in 1..n
  BY ListFacts DEF IsList
<1> HIDE DEF U
<1>2. /\ front \in Seq(U) /\ Len(front) = i - 1 /\ \A j \in 1 .. i - 1 : front[j] = big[j]
      /\ rest \in Seq(U) /\ Len(rest) = n - i /\ \A j \in 1 .. n - i : rest[j] = big[i + j]
  BY <1>1
<1>3. RemoveAt(big, i) = front \o rest
  BY DEF RemoveAt
<1> HIDE DEF front, rest
<1>4. IsList(front) /\ IsList(rest)
  BY <1>2, SeqIsList
<1>5. /\ IsList(front \o rest) /\ Len(front \o rest) = n - 1
      /\ \A j \in 1 .. n - 1 : (front \o rest)[j] = IF j <= i - 1 THEN front[j] ELSE rest[j - (i - 1)]
  <2>1. Len(front) + Len(rest) = n - 1
    BY <1>1, <1>2
  <2>2. /\ IsList(front \o rest) /\ Len(front \o rest) = Len(front) + Len(rest)
        /\ \A j \in 1 .. Len(front) + Len(rest) :
             (front \o rest)[j] = IF j <= Len(front) THEN front[j] ELSE rest[j - Len(front)]
    BY <1>4, Concatenated
  <2> HIDE DEF n
  <2> QED BY <1>2, <2>1, <2>2
<1> DEFINE cut == front \o rest
<1> HIDE DEF cut
<1>6. \A j \in 1 .. n - 1 : cut[j] = small[j]
  <2> SUFFICES ASSUME NEW j \in 1 .. n - 1 PROVE cut[j] = small[j]
    OBVIOUS
  <2>1. CASE j < i
    BY <1>1, <1>2, <1>5, <2>1 DEF LacksAt, cut
  <2>2. CASE ~(j < i)
    <3>1. j - (i - 1) \in 1 .. n - i /\ i + (j - (i - 1)) = j + 1 /\ ~(j <= i - 1)
      BY <1>1, <2>2
    <3> QED BY <1>1, <1>2, <1>5, <2>2, <3>1 DEF LacksAt, cut
  <2> QED BY <2>1, <2>2
<1>7. cut \in Seq(ToSet(cut)) /\ small \in Seq(ToSet(small)) /\ Len(cut) = n - 1 /\ Len(small) = n - 1
  BY <1>5 DEF cut, IsList, LacksAt
<1>8. cut = small
  BY <1>1, <1>6, <1>7
<1> QED BY <1>3, <1>8 DEF cut

LEMMA LacksLeft ==
  ASSUME NEW a, NEW b, NEW c, NEW x, Lacks(a, b, x), IsList(c)
  PROVE  Lacks(a \o c, b \o c, x)
<1>1. PICK i \in DOMAIN a : a[i] = x /\ LacksAt(a, b, i)
  BY DEF Lacks
<1>2. IsList(a) /\ IsList(b)
  BY DEF Lacks
<1>3. /\ Len(a) \in Nat /\ Len(b) \in Nat /\ Len(c) \in Nat /\ i \in 1 .. Len(a)
      /\ Len(b) = Len(a) - 1
  BY <1>1, <1>2, ListFacts DEF LacksAt
<1>4. /\ IsList(a \o c) /\ Len(a \o c) = Len(a) + Len(c)
      /\ \A j \in 1 .. Len(a) + Len(c) : (a \o c)[j] = IF j <= Len(a) THEN a[j] ELSE c[j - Len(a)]
  BY <1>2, Concatenated
<1>5. /\ IsList(b \o c) /\ Len(b \o c) = Len(b) + Len(c)
      /\ \A j \in 1 .. Len(b) + Len(c) : (b \o c)[j] = IF j <= Len(b) THEN b[j] ELSE c[j - Len(b)]
  BY <1>2, Concatenated
<1> DEFINE ac == a \o c
           bc == b \o c
<1> HIDE DEF ac, bc
<1>6. DOMAIN ac = 1 .. Len(ac)
  BY <1>4, ListFacts DEF ac
<1>7. i \in DOMAIN ac /\ ac[i] = x
  BY <1>1, <1>3, <1>4, <1>6 DEF ac
<1>8. Len(bc) = Len(ac) - 1
  BY <1>3, <1>4, <1>5 DEF ac, bc
<1>9. ASSUME NEW j \in 1 .. Len(ac) - 1 PROVE bc[j] = IF j < i THEN ac[j] ELSE ac[j + 1]
  <2>0. j \in 1 .. Len(a) + Len(c) - 1 /\ j \in Int
    BY <1>3, <1>4 DEF ac
  <2>1. j \in 1 .. Len(b) + Len(c) /\ j \in 1 .. Len(a) + Len(c) /\ j + 1 \in 1 .. Len(a) + Len(c)
    BY <1>3, <2>0
  <2>2. /\ bc[j] = IF j <= Len(b) THEN b[j] ELSE c[j - Len(b)]
        /\ ac[j] = IF j <= Len(a) THEN a[j] ELSE c[j - Len(a)]
        /\ ac[j + 1] = IF j + 1 <= Len(a) THEN a[j + 1] ELSE c[j + 1 - Len(a)]
    BY <1>4, <1>5, <2>1 DEF ac, bc
  <2>3. CASE j <= Len(b)
    <3>1. j \in 1 .. Len(a) - 1
      BY <1>3, <2>1, <2>3
    <3>2. b[j] = IF j < i THEN a[j] ELSE a[j + 1]
      BY <1>1, <3>1 DEF LacksAt
    <3> QED BY <1>3, <2>2, <2>3, <3>1, <3>2
  <2>4. CASE ~(j <= Len(b))
    <3>1. ~(j < i) /\ ~(j + 1 <= Len(a)) /\ j + 1 - Len(a) = j - Len(b)
      BY <1>3, <2>0, <2>4
    <3> QED BY <2>2, <2>4, <3>1
  <2> QED BY <2>3, <2>4
<1>10. LacksAt(ac, bc, i)
  BY <1>8, <1>9 DEF LacksAt
<1>11. Lacks(ac, bc, x)
  BY <1>4, <1>5, <1>7, <1>10 DEF Lacks, ac, bc
<1> QED BY <1>11 DEF ac, bc

LEMMA LacksRight ==
  ASSUME NEW a, NEW b, NEW c, NEW x, Lacks(a, b, x), IsList(c)
  PROVE  Lacks(c \o a, c \o b, x)
<1>1. PICK i \in DOMAIN a : a[i] = x /\ LacksAt(a, b, i)
  BY DEF Lacks
<1>2. IsList(a) /\ IsList(b)
  BY DEF Lacks
<1>3. /\ Len(a) \in Nat /\ Len(b) \in Nat /\ Len(c) \in Nat /\ i \in 1 .. Len(a)
      /\ Len(b) = Len(a) - 1
  BY <1>1, <1>2, ListFacts DEF LacksAt
<1>4. /\ IsList(c \o a) /\ Len(c \o a) = Len(c) + Len(a)
      /\ \A j \in 1 .. Len(c) + Len(a) : (c \o a)[j] = IF j <= Len(c) THEN c[j] ELSE a[j - Len(c)]
  BY <1>2, Concatenated
<1>5. /\ IsList(c \o b) /\ Len(c \o b) = Len(c) + Len(b)
      /\ \A j \in 1 .. Len(c) + Len(b) : (c \o b)[j] = IF j <= Len(c) THEN c[j] ELSE b[j - Len(c)]
  BY <1>2, Concatenated
<1> DEFINE ca == c \o a
           cb == c \o b
           k == Len(c) + i
<1> HIDE DEF ca, cb
<1>6. DOMAIN ca = 1 .. Len(ca)
  BY <1>4, ListFacts DEF ca
<1>7. k \in DOMAIN ca /\ ca[k] = x
  <2>1. k \in 1 .. Len(c) + Len(a) /\ ~(k <= Len(c)) /\ k - Len(c) = i
    BY <1>3
  <2> QED BY <1>1, <1>4, <1>6, <2>1 DEF ca
<1>8. Len(cb) = Len(ca) - 1
  BY <1>3, <1>4, <1>5 DEF ca, cb
<1>9. ASSUME NEW j \in 1 .. Len(ca) - 1 PROVE cb[j] = IF j < k THEN ca[j] ELSE ca[j + 1]
  <2>0. j \in 1 .. Len(c) + Len(a) - 1 /\ j \in Int
    BY <1>3, <1>4 DEF ca
  <2>1. j \in 1 .. Len(c) + Len(b) /\ j \in 1 .. Len(c) + Len(a) /\ j + 1 \in 1 .. Len(c) + Len(a)
    BY <1>3, <2>0
  <2>2. /\ cb[j] = IF j <= Len(c) THEN c[j] ELSE b[j - Len(c)]
        /\ ca[j] = IF j <= Len(c) THEN c[j] ELSE a[j - Len(c)]
        /\ ca[j + 1] = IF j + 1 <= Len(c) THEN c[j + 1] ELSE a[j + 1 - Len(c)]
    BY <1>4, <1>5, <2>1 DEF ca, cb
  <2>3. CASE j <= Len(c)
    BY <1>3, <2>0, <2>2, <2>3
  <2>4. CASE ~(j <= Len(c))
    <3>1. /\ j - Len(c) \in 1 .. Len(a) - 1 /\ ~(j + 1 <= Len(c))
          /\ j + 1 - Len(c) = (j - Len(c)) + 1 /\ (j < k <=> j - Len(c) < i)
      BY <1>3, <2>0, <2>4
    <3>2. b[j - Len(c)] = IF j - Len(c) < i THEN a[j - Len(c)] ELSE a[(j - Len(c)) + 1]
      BY <1>1, <3>1 DEF LacksAt
    <3> QED BY <2>2, <2>4, <3>1, <3>2
  <2> QED BY <2>3, <2>4
<1>10. LacksAt(ca, cb, k)
  BY <1>8, <1>9 DEF LacksAt
<1> HIDE DEF k
<1>11. Lacks(ca, cb, x)
  BY <1>4, <1>5, <1>7, <1>10 DEF Lacks, ca, cb
<1> QED BY <1>11 DEF ca, cb

LEMMA LacksOne ==
  ASSUME NEW x
  PROVE  Lacks(<<x>>, <<>>, x)
<1>1. LacksAt(<<x>>, <<>>, 1)
  BY DEF LacksAt
<1> QED BY <1>1, ShortLists DEF Lacks

\* A list of lists, one of which lacks an element, flattened.
LEMMA LacksFlatten ==
  ASSUME NEW n \in Nat, NEW f, NEW g, IsList(f), IsList(g), Len(f) = n, Len(g) = n,
         \A i \in 1..n : IsList(f[i]), NEW k \in 1..n, NEW x, Lacks(f[k], g[k], x),
         \A i \in 1..n : i # k => g[i] = f[i]
  PROVE  Lacks(FlattenSeq(f), FlattenSeq(g), x)
<1>0. ASSUME NEW s, Len(s) = n
      PROVE  \E flat : /\ FlattenSeq(s) = flat[n]
                       /\ \A i \in 1..n : flat[i] = IF i = 1 THEN s[i] ELSE flat[i - 1] \o s[i]
  <2>1. Len(s) \in Nat /\ Len(s) # 0
    BY <1>0
  <2>2. \E flat : /\ FlattenSeq(s) = flat[Len(s)]
                  /\ \A i \in 1 .. Len(s) : flat[i] = IF i = 1 THEN s[i] ELSE flat[i - 1] \o s[i]
    BY <2>1, FlattenSeqSteps
  <2> QED BY <1>0, <2>2
<1>1. n # 0
  OBVIOUS
<1>2. PICK ff : /\ FlattenSeq(f) = ff[n]
                /\ \A i \in 1..n : ff[i] = IF i = 1 THEN f[i] ELSE ff[i - 1] \o f[i]
  BY <1>0
<1>3. PICK gg : /\ FlattenSeq(g) = gg[n]
                /\ \A i \in 1..n : gg[i] = IF i = 1 THEN g[i] ELSE gg[i - 1] \o g[i]
  BY <1>0
<1> DEFINE Holds(i) == IF i < k THEN gg[i] = ff[i] /\ IsList(ff[i]) ELSE Lacks(ff[i], gg[i], x)
           S == {i \in Nat : i \in 1..n => Holds(i)}
<1>4. 0 \in S
  OBVIOUS
<1>5. ASSUME NEW i \in Nat, i \in S PROVE i + 1 \in S
  <2>1. SUFFICES ASSUME i + 1 \in 1..n PROVE Holds(i + 1)
    OBVIOUS
  <2>2. /\ ff[i + 1] = IF i = 0 THEN f[i + 1] ELSE ff[i] \o f[i + 1]
        /\ gg[i + 1] = IF i = 0 THEN g[i + 1] ELSE gg[i] \o g[i + 1]
    BY <1>2, <1>3, <2>1
  <2>3. IsList(f[i + 1])
    BY <2>1
  <2>4. CASE i = 0
    <3>1. CASE 1 < k
      BY <2>1, <2>2, <2>3, <2>4, <3>1
    <3>2. CASE ~(1 < k)
      <4>1. k = 1
        BY <3>2
      <4> QED BY <2>2, <2>4, <3>2, <4>1
    <3> QED BY <2>4, <3>1, <3>2
  <2>5. CASE i # 0
    <3>1. Holds(i)
      BY <1>5, <2>1, <2>5
    <3>2. CASE i + 1 < k
      <4>1. gg[i] = ff[i] /\ IsList(ff[i]) /\ g[i + 1] = f[i + 1]
        BY <2>1, <3>1, <3>2
      <4>2. IsList(ff[i] \o f[i + 1])
        BY <2>3, <4>1, Concatenated
      <4> QED BY <2>2, <2>5, <3>2, <4>1, <4>2
    <3>3. CASE i + 1 = k
      <4>1. gg[i] = ff[i] /\ IsList(ff[i])
        BY <3>1, <3>3
      <4>2. Lacks(ff[i] \o f[i + 1], ff[i] \o g[i + 1], x)
        BY <3>3, <4>1, LacksRight
      <4>3. Lacks(ff[i + 1], gg[i + 1], x) /\ ~(i + 1 < k)
        BY <2>2, <2>5, <3>3, <4>1, <4>2
      <4> QED BY <4>3
    <3>4. CASE i + 1 > k
      <4>1. Lacks(ff[i], gg[i], x) /\ g[i + 1] = f[i + 1]
        BY <2>1, <3>1, <3>4
      <4>2. Lacks(ff[i] \o f[i + 1], gg[i] \o f[i + 1], x)
        BY <2>3, <4>1, LacksLeft
      <4>3. Lacks(ff[i + 1], gg[i + 1], x) /\ ~(i + 1 < k)
        BY <2>2, <2>5, <3>4, <4>1, <4>2
      <4> QED BY <4>3
    <3> QED BY <3>2, <3>3, <3>4
  <2> QED BY <2>4, <2>5
<1>6. Nat \subseteq S
  <2> HIDE DEF S
  <2> QED BY <1>4, <1>5, InductiveSet
<1>7. Holds(n)
  BY <1>1, <1>6
<1>8. Lacks(ff[n], gg[n], x)
  BY <1>7
<1> QED BY <1>2, <1>3, <1>8

\* Results in order, one of which lacks an object.
LEMMA LacksInOrder ==
  ASSUME NEW n \in Nat, NEW r, NEW s, DOMAIN r = 1..n, DOMAIN s = 1..n, InOrder(r).ok,
         \A i \in 1..n : IsList(r[i].objs), NEW k \in 1..n, s[k].ok, NEW x, Lacks(r[k].objs, s[k].objs, x),
         \A i \in 1..n : i # k => s[i] = r[i]
  PROVE  InOrder(s).ok /\ Lacks(InOrder(r).objs, InOrder(s).objs, x)
<1> DEFINE f == [i \in 1..n |-> r[i].objs]
           g == [i \in 1..n |-> s[i].objs]
<1>1. \A i \in 1..n : r[i].ok
  BY InOrderOk
<1>2. \A i \in 1..n : s[i].ok
  BY <1>1
<1>3. InOrder(r) = Ok(FlattenSeq(f)) /\ InOrder(s) = Ok(FlattenSeq(g))
  BY <1>1, <1>2 DEF InOrder
<1>4. f = [i \in 1..n |-> f[i]] /\ g = [i \in 1..n |-> g[i]]
  OBVIOUS
<1>5. \A i \in 1..n : f[i] = r[i].objs /\ g[i] = s[i].objs
  OBVIOUS
<1> HIDE DEF f, g
<1>6. IsList(f) /\ Len(f) = n /\ IsList(g) /\ Len(g) = n
  BY <1>4, MapIsList
<1>7. Lacks(FlattenSeq(f), FlattenSeq(g), x)
  <2>1. /\ \A i \in 1..n : IsList(f[i])
        /\ Lacks(f[k], g[k], x)
        /\ \A i \in 1..n : i # k => g[i] = f[i]
    BY <1>5
  <2> QED BY <1>6, <2>1, LacksFlatten
<1> QED BY <1>3, <1>7 DEF Ok

\* A list that lacks an object still lacks it after the last pass.
LEMMA LacksFinished ==
  ASSUME NEW in, NEW big, NEW small, NEW x, Lacks(big, small, x), NEW made, NEW less,
         DOMAIN made = DOMAIN big, \A i \in DOMAIN big : made[i] = LastPass(in, big[i]), IsList(made),
         DOMAIN less = DOMAIN small, \A i \in DOMAIN small : less[i] = LastPass(in, small[i]), IsList(less)
  PROVE  \E i \in DOMAIN made : made[i] = LastPass(in, x) /\ less = RemoveAt(made, i)
<1>1. PICK i \in DOMAIN big : big[i] = x /\ LacksAt(big, small, i)
  BY DEF Lacks
<1>2. /\ Len(big) \in Nat /\ DOMAIN big = 1 .. Len(big) /\ Len(made) \in Nat /\ DOMAIN made = 1 .. Len(made)
      /\ Len(small) \in Nat /\ DOMAIN small = 1 .. Len(small) /\ Len(less) \in Nat /\ DOMAIN less = 1 .. Len(less)
  BY ListFacts DEF Lacks
<1>3. Len(made) = Len(big) /\ Len(less) = Len(small) /\ Len(small) = Len(big) - 1
  BY <1>1, <1>2 DEF LacksAt
<1>4. LacksAt(made, less, i)
  <2>1. ASSUME NEW j \in 1 .. Len(made) - 1 PROVE less[j] = IF j < i THEN made[j] ELSE made[j + 1]
    <3>1. j \in DOMAIN small /\ j \in DOMAIN big /\ j + 1 \in DOMAIN big
      BY <1>2, <1>3
    <3>2. small[j] = IF j < i THEN big[j] ELSE big[j + 1]
      BY <1>1, <1>3 DEF LacksAt
    <3>3. less[j] = LastPass(in, small[j]) /\ made[j] = LastPass(in, big[j]) /\ made[j + 1] = LastPass(in, big[j + 1])
      BY <3>1
    <3> QED BY <3>2, <3>3
  <2> QED BY <1>3, <2>1 DEF LacksAt
<1>5. less = RemoveAt(made, i)
  BY <1>1, <1>4, LacksIsRemoveAt
<1> QED BY <1>1, <1>5

-----------------------------------------------------------------------------
(* What does not depend on the switches of the defaults. *)

SamePackage(p, q) == q.name = p.name /\ q.ns = p.ns /\ q.uid = p.uid
SamePolicies(s, t) ==
  /\ t.enabled = s.enabled /\ t.prependReleaseName = s.prependReleaseName
  /\ t.additionalPolicies = s.additionalPolicies /\ t.hbonePortInjection = s.hbonePortInjection
  /\ t.egress = Nil <=> s.egress = Nil
  /\ s.egress # Nil => /\ t.egress.from = s.egress.from /\ t.egress.definitions = s.egress.definitions
                       /\ t.egress.excludeCIDRs = s.egress.excludeCIDRs
  /\ t.ingress = Nil <=> s.ingress = Nil
  /\ s.ingress # Nil => t.ingress.to = s.ingress.to /\ t.ingress.definitions = s.ingress.definitions
SameAuthorization(a, b) ==
  /\ b.enabled = a.enabled /\ b.generateFromNetpol = a.generateFromNetpol
  /\ b.custom = a.custom /\ b.additionalPolicies = a.additionalPolicies
SameMesh(i, j) ==
  /\ j = Nil <=> i = Nil
  /\ i # Nil =>
       /\ j.enabled = i.enabled /\ j.ambient = i.ambient /\ j.prependReleaseName = i.prependReleaseName
       /\ j.mtls = i.mtls /\ j.sidecar = i.sidecar /\ j.serviceEntries = i.serviceEntries
       /\ j.authorizationPolicies = Nil <=> i.authorizationPolicies = Nil
       /\ i.authorizationPolicies # Nil => SameAuthorization(i.authorizationPolicies, j.authorizationPolicies)

LEMMA NetpolSame ==
  ASSUME NEW p, NEW q, SamePackage(p, q), NEW s, NEW t, t.prependReleaseName = s.prependReleaseName
  PROVE  \A name, annotations, selector, direction, rules :
           Netpol(q, t, name, annotations, selector, direction, rules)
             = Netpol(p, s, name, annotations, selector, direction, rules)
BY DEF Netpol, SamePackage

\* Results of one list that are the same, one by one.
LEMMA EachSame ==
  ASSUME NEW r, NEW s, DOMAIN s = DOMAIN r, \A i \in DOMAIN r : s[i] = r[i]
  PROVE  InOrder(s) = InOrder(r)
<1>1. [i \in DOMAIN s |-> s[i].objs] = [i \in DOMAIN r |-> r[i].objs]
  OBVIOUS
<1> QED BY <1>1 DEF InOrder

LEMMA EgressRulesSame ==
  ASSUME NEW p, NEW q, SamePackage(p, q), NEW s, NEW t, SamePolicies(s, t), s.egress # Nil, NEW env, NEW entry
  PROVE  expandEgressSource(q, t, env, entry) = expandEgressSource(p, s, env, entry)
<1> DEFINE local == Source(entry.val)
           K8s(a, b, e) == LET r == parseEgressRemoteKey(e.key) IN
             FromRule(r # Nil, buildShorthandEgressNetpol(a, b, entry.key, local, e.key, r, e.val), local, e.val)
           Definition(a, b, e) == LET def == resolveEgressDefinition(b, e.key, env) IN
             FromRule(def # Nil, buildEgressDefinitionNetpol(a, b, entry.key, local, e.key, def), local, e.val)
           Cidr(a, b, e) == LET r == parseEgressCIDRKey(e.key) IN
             FromRule(r # Nil, buildEgressCIDRNetpol(a, b, entry.key, local, e.key, r), local, e.val)
           Literal(a, b, e) ==
             FromRule(~LiteralFails(e), buildEgressLiteralNetpol(a, b, entry.key, local, e), local, e.val)
           k8s == Enabled(local.peer.k8s)
           definition == Enabled(local.peer.definition)
           cidr == Enabled(local.peer.cidr)
           literal == Enabled(local.peer.literal)
           Four(a, b) == InOrder(<<InOrder([i \in DOMAIN k8s |-> K8s(a, b, k8s[i])]),
                                   InOrder([i \in DOMAIN definition |-> Definition(a, b, definition[i])]),
                                   InOrder([i \in DOMAIN cidr |-> Cidr(a, b, cidr[i])]),
                                   InOrder([i \in DOMAIN literal |-> Literal(a, b, literal[i])])>>)
<1>1. \A a, b : expandEgressSource(a, b, env, entry) =
                  IF ~entry.val.decodes THEN Err ELSE IF local.peer = Nil THEN Ok(<<>>) ELSE Four(a, b)
  BY DEF expandEgressSource, ForEach
<1>2. t.prependReleaseName = s.prependReleaseName
  BY DEF SamePolicies
<1>3. \A name, annotations, selector, direction, rules :
        Netpol(q, t, name, annotations, selector, direction, rules)
          = Netpol(p, s, name, annotations, selector, direction, rules)
  BY <1>2, NetpolSame
<1>4. excludeCIDRsFor(t) = excludeCIDRsFor(s) /\ \A name : resolveEgressDefinition(t, name, env) = resolveEgressDefinition(s, name, env)
  BY DEF excludeCIDRsFor, resolveEgressDefinition, SamePolicies
<1> HIDE DEF local
<1>5. \A e : K8s(q, t, e) = K8s(p, s, e)
  BY <1>3 DEF buildShorthandEgressNetpol
<1>6. \A e : Definition(q, t, e) = Definition(p, s, e)
  BY <1>3, <1>4 DEF buildEgressDefinitionNetpol
<1>7. \A e : Cidr(q, t, e) = Cidr(p, s, e)
  BY <1>3, <1>4 DEF buildEgressCIDRNetpol
<1>8. \A e : Literal(q, t, e) = Literal(p, s, e)
  BY <1>3 DEF buildEgressLiteralNetpol
<1> HIDE DEF K8s, Definition, Cidr, Literal, k8s, definition, cidr, literal
<1>9. Four(q, t) = Four(p, s)
  BY <1>5, <1>6, <1>7, <1>8
<1> HIDE DEF Four
<1> QED BY <1>1, <1>9

LEMMA IngressRulesSame ==
  ASSUME NEW p, NEW q, SamePackage(p, q), NEW s, NEW t, SamePolicies(s, t), s.ingress # Nil, NEW env, NEW entry
  PROVE  expandIngressTarget(q, t, env, entry) = expandIngressTarget(p, s, env, entry)
<1> DEFINE local == Source(entry.val)
           to == parseIngressLocalKey(entry.key)
           K8s(a, b, e) == LET r == parseIngressRemoteKey(e.key) IN
             FromRule(r # Nil, buildShorthandIngressNetpol(a, b, to, local, e.key, r, e.val), local, e.val)
           Definition(a, b, e) == LET def == resolveIngressDefinition(b, e.key, env) IN
             FromRule(def # Nil, buildIngressDefinitionNetpol(a, b, to, local, e.key, def), local, e.val)
           Cidr(a, b, e) == LET r == parseIngressCIDRKey(e.key) IN
             FromRule(r # Nil, buildIngressCIDRNetpol(a, b, to, local, e.key, r), local, e.val)
           Literal(a, b, e) ==
             FromRule(~LiteralFails(e), buildIngressLiteralNetpol(a, b, to, local, e), local, e.val)
           k8s == Enabled(local.peer.k8s)
           definition == Enabled(local.peer.definition)
           cidr == Enabled(local.peer.cidr)
           literal == Enabled(local.peer.literal)
           Four(a, b) == InOrder(<<InOrder([i \in DOMAIN k8s |-> K8s(a, b, k8s[i])]),
                                   InOrder([i \in DOMAIN definition |-> Definition(a, b, definition[i])]),
                                   InOrder([i \in DOMAIN cidr |-> Cidr(a, b, cidr[i])]),
                                   InOrder([i \in DOMAIN literal |-> Literal(a, b, literal[i])])>>)
<1>1. \A a, b : expandIngressTarget(a, b, env, entry) =
                  IF ~entry.val.decodes THEN Err ELSE IF local.peer = Nil THEN Ok(<<>>)
                  ELSE IF to = Nil THEN Err ELSE Four(a, b)
  BY DEF expandIngressTarget, ForEach
<1>2. t.prependReleaseName = s.prependReleaseName
  BY DEF SamePolicies
<1>3. \A name, annotations, selector, direction, rules :
        Netpol(q, t, name, annotations, selector, direction, rules)
          = Netpol(p, s, name, annotations, selector, direction, rules)
  BY <1>2, NetpolSame
<1>4. \A name : resolveIngressDefinition(t, name, env) = resolveIngressDefinition(s, name, env)
  BY DEF resolveIngressDefinition, SamePolicies
<1> HIDE DEF local, to
<1>5. \A e : K8s(q, t, e) = K8s(p, s, e)
  BY <1>3 DEF buildShorthandIngressNetpol
<1>6. \A e : Definition(q, t, e) = Definition(p, s, e)
  BY <1>3, <1>4 DEF buildIngressDefinitionNetpol
<1>7. \A e : Cidr(q, t, e) = Cidr(p, s, e)
  BY <1>3 DEF buildIngressCIDRNetpol
<1>8. \A e : Literal(q, t, e) = Literal(p, s, e)
  BY <1>3 DEF buildIngressLiteralNetpol
<1> HIDE DEF K8s, Definition, Cidr, Literal, k8s, definition, cidr, literal
<1>9. Four(q, t) = Four(p, s)
  BY <1>5, <1>6, <1>7, <1>8
<1> HIDE DEF Four
<1> QED BY <1>1, <1>9

\* The parts of the second part: the defaults of both sides, the rules of both sides
\* and the user's own policies.
PolicyParts(pkg, spec, istio, env) ==
  <<Ok(defaultEgressPolicies(pkg, spec, istio)), Ok(defaultIngressPolicies(pkg, spec, istio)),
    IF spec.egress = Nil THEN Ok(<<>>) ELSE expandShorthandEgress(pkg, spec, env),
    IF spec.ingress = Nil THEN Ok(<<>>) ELSE expandShorthandIngress(pkg, spec, env),
    ForEach(spec.additionalPolicies, LAMBDA raw : buildAdditionalPolicy(pkg, spec, raw))>>

LEMMA PolicyRulesSame ==
  ASSUME NEW p, NEW q, SamePackage(p, q), NEW s, NEW t, SamePolicies(s, t), NEW i, NEW j, NEW env
  PROVE  \A k \in 3..5 : PolicyParts(q, t, j, env)[k] = PolicyParts(p, s, i, env)[k]
<1> DEFINE Egress(a, b) == IF b.egress = Nil THEN Ok(<<>>) ELSE expandShorthandEgress(a, b, env)
           Ingress(a, b) == IF b.ingress = Nil THEN Ok(<<>>) ELSE expandShorthandIngress(a, b, env)
           Additional(a, b) == ForEach(b.additionalPolicies, LAMBDA raw : buildAdditionalPolicy(a, b, raw))
<1>1. Egress(q, t) = Egress(p, s)
  <2>1. CASE s.egress = Nil
    BY <2>1 DEF SamePolicies
  <2>2. CASE s.egress # Nil
    <3> DEFINE from == s.egress.from
    <3>1. t.egress # Nil /\ t.egress.from = from
      BY <2>2 DEF SamePolicies
    <3>2. \A entry : expandEgressSource(q, t, env, entry) = expandEgressSource(p, s, env, entry)
      BY <2>2, EgressRulesSame
    <3>3. /\ Egress(p, s) = InOrder([k \in DOMAIN from |-> expandEgressSource(p, s, env, from[k])])
          /\ Egress(q, t) = InOrder([k \in DOMAIN from |-> expandEgressSource(q, t, env, from[k])])
      BY <2>2, <3>1 DEF expandShorthandEgress, ForEach
    <3> HIDE DEF Egress, from
    <3> QED BY <3>2, <3>3
  <2> QED BY <2>1, <2>2
<1>2. Ingress(q, t) = Ingress(p, s)
  <2>1. CASE s.ingress = Nil
    BY <2>1 DEF SamePolicies
  <2>2. CASE s.ingress # Nil
    <3> DEFINE to == s.ingress.to
    <3>1. t.ingress # Nil /\ t.ingress.to = to
      BY <2>2 DEF SamePolicies
    <3>2. \A entry : expandIngressTarget(q, t, env, entry) = expandIngressTarget(p, s, env, entry)
      BY <2>2, IngressRulesSame
    <3>3. /\ Ingress(p, s) = InOrder([k \in DOMAIN to |-> expandIngressTarget(p, s, env, to[k])])
          /\ Ingress(q, t) = InOrder([k \in DOMAIN to |-> expandIngressTarget(q, t, env, to[k])])
      BY <2>2, <3>1 DEF expandShorthandIngress, ForEach
    <3> HIDE DEF Ingress, to
    <3> QED BY <3>2, <3>3
  <2> QED BY <2>1, <2>2
<1>3. Additional(q, t) = Additional(p, s)
  <2>1. \A raw : buildAdditionalPolicy(q, t, raw) = buildAdditionalPolicy(p, s, raw)
    BY DEF buildAdditionalPolicy, SamePackage, SamePolicies
  <2> DEFINE raws == s.additionalPolicies
  <2>2. /\ Additional(p, s) = InOrder([k \in DOMAIN raws |-> buildAdditionalPolicy(p, s, raws[k])])
        /\ Additional(q, t) = InOrder([k \in DOMAIN raws |-> buildAdditionalPolicy(q, t, raws[k])])
    BY DEF ForEach, SamePolicies
  <2> HIDE DEF Additional, raws
  <2> QED BY <2>1, <2>2
<1>4. \A a, b, m : /\ PolicyParts(a, b, m, env)[3] = Egress(a, b) /\ PolicyParts(a, b, m, env)[4] = Ingress(a, b)
                   /\ PolicyParts(a, b, m, env)[5] = Additional(a, b)
  BY DEF PolicyParts
<1> HIDE DEF Egress, Ingress, Additional
<1> QED BY <1>1, <1>2, <1>3, <1>4

\* Two inputs that differ in the switches of the defaults at most.
SameApartFromDefaults(in, in2) ==
  /\ SamePackage(in.pkg, in2.pkg) /\ in2.pkg.spec.routes = in.pkg.spec.routes
  /\ in2.ingressConfig = in.ingressConfig /\ in2.ingressConfigErr = in.ingressConfigErr /\ Env(in2) = Env(in)
  /\ in2.pkg.spec.networkPolicies = Nil <=> in.pkg.spec.networkPolicies = Nil
  /\ in.pkg.spec.networkPolicies # Nil => SamePolicies(in.pkg.spec.networkPolicies, in2.pkg.spec.networkPolicies)
  /\ SameMesh(in.pkg.spec.istio, in2.pkg.spec.istio)

LEMMA MeshSame ==
  ASSUME NEW i, NEW j, SameMesh(i, j)
  PROVE  /\ istioAmbient(j) = istioAmbient(i) /\ authzEnabled(j) = authzEnabled(i)
         /\ generateFromNetpol(j) = generateFromNetpol(i)
         /\ generateCustomAuthzPolicies(j) = generateCustomAuthzPolicies(i)
<1>1. istioAmbient(j) = istioAmbient(i)
  BY DEF SameMesh, istioAmbient
<1>2. authzEnabled(j) = authzEnabled(i)
  BY DEF SameMesh, SameAuthorization, authzEnabled
<1>3. generateFromNetpol(j) = generateFromNetpol(i)
  BY DEF SameMesh, SameAuthorization, generateFromNetpol
<1>4. generateCustomAuthzPolicies(j) = generateCustomAuthzPolicies(i)
  <2>1. CASE i = Nil \/ ~i.enabled \/ i.authorizationPolicies = Nil
    BY <2>1 DEF SameMesh, generateCustomAuthzPolicies
  <2>2. CASE ~(i = Nil \/ ~i.enabled \/ i.authorizationPolicies = Nil)
    <3>1. /\ ~(j = Nil \/ ~j.enabled \/ j.authorizationPolicies = Nil)
          /\ j.authorizationPolicies.custom = i.authorizationPolicies.custom
          /\ j.authorizationPolicies.additionalPolicies = i.authorizationPolicies.additionalPolicies
      BY <2>2 DEF SameMesh, SameAuthorization
    <3> QED BY <2>2, <3>1 DEF generateCustomAuthzPolicies
  <2> QED BY <2>1, <2>2
<1> QED BY <1>1, <1>2, <1>3, <1>4

LEMMA IstioSame ==
  ASSUME NEW p, NEW q, q.name = p.name, NEW i, NEW j, SameMesh(i, j), i # Nil
  PROVE  generateIstio(q, j) = generateIstio(p, i)
<1>1. /\ j.prependReleaseName = i.prependReleaseName /\ j.mtls = i.mtls /\ j.sidecar = i.sidecar
      /\ j.ambient = i.ambient /\ j.serviceEntries = i.serviceEntries
  BY DEF SameMesh
<1>2. mTLSMode(j) = mTLSMode(i)
  BY <1>1 DEF mTLSMode
<1>3. sidecarResource(q, j) = sidecarResource(p, i)
  BY <1>1 DEF sidecarResource
<1>4. generateCustomServiceEntries(j) = generateCustomServiceEntries(i)
  BY <1>1 DEF generateCustomServiceEntries
<1> QED BY <1>1, <1>2, <1>3, <1>4 DEF generateIstio

LEMMA RoutesSame ==
  ASSUME NEW p, NEW q, q.name = p.name, NetpolsEnabled(p) = NetpolsEnabled(q), NEW routes, NEW inbound
  PROVE  generateRoutes(q, routes, inbound) = generateRoutes(p, routes, inbound)
<1> DEFINE prepend == routes.prependReleaseName
           In(a, r) == inboundObjects(a, prepend, NetpolsEnabled(a), r)
           OutOf(a, e) == outboundObjects(a, prepend, e)
<1>1. \A kind, name, meta, spec : RouteObject(q, prepend, kind, name, meta, spec) = RouteObject(p, prepend, kind, name, meta, spec)
  BY DEF RouteObject
<1> HIDE DEF prepend
<1>2. \A r : In(q, r) = In(p, r)
  <2>1. \A r : buildVirtualService(q, prepend, r) = buildVirtualService(p, prepend, r)
    BY <1>1 DEF buildVirtualService
  <2>2. \A r : buildInboundServiceEntry(q, prepend, r) = buildInboundServiceEntry(p, prepend, r)
    BY <1>1 DEF buildInboundServiceEntry
  <2>3. \A r : buildInboundNetpols(q, prepend, r) = buildInboundNetpols(p, prepend, r)
    <3>1. \A r, gw : buildInboundNetpol(q, prepend, r, gw) = buildInboundNetpol(p, prepend, r, gw)
      BY <1>1 DEF buildInboundNetpol
    <3> QED BY <3>1 DEF buildInboundNetpols
  <2> QED BY <2>1, <2>2, <2>3 DEF inboundObjects
<1>3. \A e : OutOf(q, e) = OutOf(p, e)
  <2>1. \A name, r : buildOutboundServiceEntry(q, prepend, name, r) = buildOutboundServiceEntry(p, prepend, name, r)
    BY <1>1 DEF buildOutboundServiceEntry
  <2> QED BY <2>1 DEF outboundObjects
<1>4. \A a : generateRoutes(a, routes, inbound) =
               InOrder(<<InOrder([k \in DOMAIN inbound |-> In(a, inbound[k])]),
                         InOrder([k \in DOMAIN routes.outbound |-> OutOf(a, routes.outbound[k])])>>)
  BY DEF generateRoutes, ForEach, NetpolsEnabled, prepend
<1> HIDE DEF In, OutOf
<1> QED BY <1>2, <1>3, <1>4

LEMMA AuthzSame ==
  ASSUME NEW p, NEW q, SamePackage(p, q)
  PROVE  /\ \A prepend, entry : authzFromIngressTarget(q, prepend, entry) = authzFromIngressTarget(p, prepend, entry)
         /\ \A prepend, route, gw, suffix :
              buildAuthzFromRoute(q, prepend, route, gw, suffix) = buildAuthzFromRoute(p, prepend, route, gw, suffix)
<1>1. q.name = p.name
  BY DEF SamePackage
<1>2. ASSUME NEW prepend, NEW entry
      PROVE  authzFromIngressTarget(q, prepend, entry) = authzFromIngressTarget(p, prepend, entry)
  <2>1. \A to, local, key, remote : buildAuthzFromShorthand(q, prepend, to, local, key, remote)
                                      = buildAuthzFromShorthand(p, prepend, to, local, key, remote)
    BY <1>1 DEF buildAuthzFromShorthand
  <2>2. \A to, local, key, remote : buildAuthzFromCIDR(q, prepend, to, local, key, remote)
                                      = buildAuthzFromCIDR(p, prepend, to, local, key, remote)
    BY <1>1 DEF buildAuthzFromCIDR
  <2> DEFINE local == Source(entry.val)
             to == parseIngressLocalKey(entry.key)
             K8s(a, e) == LET r == parseIngressRemoteKey(e.key) IN
               FromRule(r # Nil, buildAuthzFromShorthand(a, prepend, to, local, e.key, r), local, e.val)
             Cidr(a, e) == LET r == parseIngressCIDRKey(e.key) IN
               FromRule(r # Nil, buildAuthzFromCIDR(a, prepend, to, local, e.key, r), local, e.val)
             k8s == Enabled(local.peer.k8s)
             cidr == Enabled(local.peer.cidr)
             Two(a) == InOrder(<<InOrder([k \in DOMAIN k8s |-> K8s(a, k8s[k])]),
                                 InOrder([k \in DOMAIN cidr |-> Cidr(a, cidr[k])])>>)
  <2>3. \A a : authzFromIngressTarget(a, prepend, entry) =
                 IF ~entry.val.decodes THEN Err ELSE IF local.peer = Nil THEN Ok(<<>>)
                 ELSE IF to = Nil THEN Err ELSE Two(a)
    BY DEF authzFromIngressTarget, ForEach
  <2>4. \A e : K8s(q, e) = K8s(p, e) /\ Cidr(q, e) = Cidr(p, e)
    BY <2>1, <2>2
  <2> HIDE DEF K8s, Cidr, local, to, k8s, cidr
  <2>5. Two(q) = Two(p)
    BY <2>4
  <2> HIDE DEF Two
  <2> QED BY <2>3, <2>5
<1>3. \A prepend, route, gw, suffix :
        buildAuthzFromRoute(q, prepend, route, gw, suffix) = buildAuthzFromRoute(p, prepend, route, gw, suffix)
  BY <1>1 DEF buildAuthzFromRoute
<1> QED BY <1>2, <1>3

LEMMA InboundSame ==
  ASSUME NEW in, NEW in2, in2.pkg.spec.routes = in.pkg.spec.routes,
         in2.ingressConfig = in.ingressConfig, in2.ingressConfigErr = in.ingressConfigErr
  PROVE  resolveInboundRoutes(in2) = resolveInboundRoutes(in)
<1> DEFINE routes == in.pkg.spec.routes
           One(v, entry) == resolveInboundRoute(entry, v)
           list == routes.inbound
<1>1. \A entry : One(in2, entry) = One(in, entry)
  BY DEF resolveInboundRoute
<1>2. \A v : v.pkg.spec.routes = routes =>
               resolveInboundRoutes(v) = IF routes = Nil THEN Ok(<<>>)
                                         ELSE InOrder([k \in DOMAIN list |-> One(v, list[k])])
  BY DEF resolveInboundRoutes, ForEach
<1> HIDE DEF One, list
<1> QED BY <1>1, <1>2

LEMMA PartsSame ==
  ASSUME NEW in, NEW in2, SameApartFromDefaults(in, in2)
  PROVE  /\ resolveInboundRoutes(in2) = resolveInboundRoutes(in)
         /\ \A k \in {1, 3, 5, 6, 7} : PartOf(in2, k) = PartOf(in, k)
         /\ \A x : LastPass(in2, x) = LastPass(in, x)
<1> DEFINE p == in.pkg
           q == in2.pkg
           routes == in.pkg.spec.routes
           s == in.pkg.spec.networkPolicies
           t == in2.pkg.spec.networkPolicies
           i == in.pkg.spec.istio
           j == in2.pkg.spec.istio
<1>1. SamePackage(p, q) /\ in2.pkg.spec.routes = routes /\ SameMesh(i, j)
  BY DEF SameApartFromDefaults
<1>2. (t = Nil <=> s = Nil) /\ (s # Nil => SamePolicies(s, t))
  BY DEF SameApartFromDefaults
<1>3. /\ istioAmbient(j) = istioAmbient(i) /\ authzEnabled(j) = authzEnabled(i)
      /\ generateFromNetpol(j) = generateFromNetpol(i)
      /\ generateCustomAuthzPolicies(j) = generateCustomAuthzPolicies(i)
  BY <1>1, MeshSame
<1>4. resolveInboundRoutes(in2) = resolveInboundRoutes(in)
  BY <1>1, InboundSame DEF SameApartFromDefaults
<1>5. Inbound(in2) = Inbound(in)
  BY <1>4 DEF Inbound
<1>6. \A x : LastPass(in2, x) = LastPass(in, x)
  <2>1. hboneEnabled(t, j) = hboneEnabled(s, i)
    BY <1>2, <1>3 DEF hboneEnabled, SamePolicies
  <2>2. \A obj : stampMetadata(q, obj) = stampMetadata(p, obj)
    BY <1>1 DEF stampMetadata, SamePackage
  <2> QED BY <2>1, <2>2 DEF LastPass
<1>7. PartOf(in2, 1) = PartOf(in, 1)
  <2>1. i = Nil <=> j = Nil
    BY <1>1 DEF SameMesh
  <2>2. i # Nil => j.enabled = i.enabled
    BY <1>1 DEF SameMesh
  <2>3. i # Nil => generateIstio(q, j) = generateIstio(p, i)
    BY <1>1, IstioSame DEF SamePackage
  <2> QED BY <2>1, <2>2, <2>3, PartsAre
<1>8. PartOf(in2, 3) = PartOf(in, 3)
  <2>1. NetpolsEnabled(p) = NetpolsEnabled(q)
    BY <1>2 DEF NetpolsEnabled, SamePolicies
  <2>2. \A inbound : generateRoutes(q, routes, inbound) = generateRoutes(p, routes, inbound)
    BY <1>1, <2>1, RoutesSame DEF SamePackage
  <2> QED BY <1>1, <1>5, <2>2, PartsAre
<1>9. PartOf(in2, 5) = PartOf(in, 5)
  <2>1. ASSUME s # Nil
        PROVE  generateAuthzFromIngressShorthand(q, t, j) = generateAuthzFromIngressShorthand(p, s, i)
    <3> DEFINE to == s.ingress.to
               prepend == s.prependReleaseName
               One(a, entry) == authzFromIngressTarget(a, prepend, entry)
    <3>1. \A entry : One(q, entry) = One(p, entry)
      BY <1>1, AuthzSame
    <3>2. /\ t.prependReleaseName = prepend /\ (t.ingress = Nil <=> s.ingress = Nil)
          /\ s.ingress # Nil => t.ingress.to = to
      BY <1>2, <2>1 DEF SamePolicies
    <3>3. generateAuthzFromIngressShorthand(p, s, i) =
            IF ~authzEnabled(i) \/ ~generateFromNetpol(i) \/ s.ingress = Nil THEN Ok(<<>>)
            ELSE InOrder([k \in DOMAIN to |-> One(p, to[k])])
      BY DEF generateAuthzFromIngressShorthand, ForEach
    <3>4. generateAuthzFromIngressShorthand(q, t, j) =
            IF ~authzEnabled(j) \/ ~generateFromNetpol(j) \/ t.ingress = Nil THEN Ok(<<>>)
            ELSE InOrder([k \in DOMAIN to |-> One(q, to[k])])
      BY <3>2 DEF generateAuthzFromIngressShorthand, ForEach
    <3> HIDE DEF One, to
    <3> QED BY <1>3, <3>1, <3>2, <3>3, <3>4
  <2> QED BY <1>2, <2>1, PartsAre
<1>10. PartOf(in2, 6) = PartOf(in, 6)
  <2>1. \A prepend, route, gw, suffix :
          buildAuthzFromRoute(q, prepend, route, gw, suffix) = buildAuthzFromRoute(p, prepend, route, gw, suffix)
    BY <1>1, AuthzSame
  <2>2. \A inbound : generateAuthzFromRoutes(q, routes, j, inbound) = generateAuthzFromRoutes(p, routes, i, inbound)
    BY <1>3, <2>1 DEF generateAuthzFromRoutes
  <2> QED BY <1>1, <1>5, <2>2, PartsAre
<1>11. PartOf(in2, 7) = PartOf(in, 7)
  BY <1>3, PartsAre
<1> QED BY <1>4, <1>6, <1>7, <1>8, <1>9, <1>10, <1>11

\* A rendering, by its parts.
LEMMA GenerateByParts ==
  ASSUME NEW in
  PROVE  LET out == InOrder(Parts(in, Inbound(in)))
         IN Generate(in) = IF resolveInboundRoutes(in).ok /\ out.ok
                             THEN Ok([k \in DOMAIN out.objs |-> LastPass(in, out.objs[k])]) ELSE Err
BY DEF Generate, Inbound, Finished, LastPass

LEMMA AllPartsSame ==
  ASSUME NEW in, NEW in2, SameApartFromDefaults(in, in2), PartOf(in2, 2) = PartOf(in, 2), PartOf(in2, 4) = PartOf(in, 4)
  PROVE  Generate(in2) = Generate(in)
<1> DEFINE parts == Parts(in, Inbound(in))
           parts2 == Parts(in2, Inbound(in2))
<1>1. \A k \in 1..7 : PartOf(in2, k) = PartOf(in, k)
  <2>1. \A k \in {1, 3, 5, 6, 7} : PartOf(in2, k) = PartOf(in, k)
    BY PartsSame
  <2> QED BY <2>1
<1>2. DOMAIN parts = 1..7 /\ DOMAIN parts2 = 1..7 /\ \A k \in 1..7 : parts2[k] = parts[k]
  BY <1>1, PartsAre DEF PartOf
<1> HIDE DEF parts, parts2
<1>3. InOrder(parts2) = InOrder(parts)
  BY <1>2, EachSame
<1> DEFINE out == InOrder(parts)
<1>4. /\ InOrder(Parts(in, Inbound(in))) = out /\ InOrder(Parts(in2, Inbound(in2))) = out
  BY <1>3 DEF parts, parts2
<1>5. resolveInboundRoutes(in2) = resolveInboundRoutes(in) /\ \A x : LastPass(in2, x) = LastPass(in, x)
  BY PartsSame
<1> DEFINE made == [k \in DOMAIN out.objs |-> LastPass(in, out.objs[k])]
           made2 == [k \in DOMAIN out.objs |-> LastPass(in2, out.objs[k])]
<1>6. Generate(in) = IF resolveInboundRoutes(in).ok /\ out.ok THEN Ok(made) ELSE Err
  BY <1>4, GenerateByParts
<1>7. Generate(in2) = IF resolveInboundRoutes(in2).ok /\ out.ok THEN Ok(made2) ELSE Err
  BY <1>4, GenerateByParts
<1>8. made2 = made
  BY <1>5
<1> HIDE DEF out, made, made2
<1> QED BY <1>5, <1>6, <1>7, <1>8

LEMMA OnePartLacks ==
  ASSUME NEW in, SoundInput(in), Generate(in).ok, NEW in2, SameApartFromDefaults(in, in2),
         NEW n \in {2, 4}, \A k \in {2, 4} : k # n => PartOf(in2, k) = PartOf(in, k),
         PartOf(in2, n).ok, NEW x, Lacks(PartOf(in, n).objs, PartOf(in2, n).objs, x)
  PROVE  \E m \in DOMAIN Generate(in).objs :
           Generate(in).objs[m] = LastPass(in, x) /\ Generate(in2) = Ok(RemoveAt(Generate(in).objs, m))
<1> DEFINE parts == Parts(in, Inbound(in))
           parts2 == Parts(in2, Inbound(in2))
           out == InOrder(parts)
           out2 == InOrder(parts2)
           made == [k \in DOMAIN out.objs |-> LastPass(in, out.objs[k])]
           less == [k \in DOMAIN out2.objs |-> LastPass(in, out2.objs[k])]
<1>1. \A k \in 1..7 : k # n => PartOf(in2, k) = PartOf(in, k)
  <2>1. \A k \in {1, 3, 5, 6, 7} : PartOf(in2, k) = PartOf(in, k)
    BY PartsSame
  <2> QED BY <2>1
<1>2. resolveInboundRoutes(in2) = resolveInboundRoutes(in) /\ \A y : LastPass(in2, y) = LastPass(in, y)
  BY PartsSame
<1>3. /\ DOMAIN parts = 1..7 /\ DOMAIN parts2 = 1..7
      /\ \A k \in 1..7 : parts[k] = PartOf(in, k) /\ parts2[k] = PartOf(in2, k)
  BY PartsAre DEF PartOf
<1>4. resolveInboundRoutes(in).ok /\ out.ok /\ Generate(in) = Ok(made)
  BY GenerateByParts DEF Err
<1>5. \A k \in 1..7 : IsList(parts[k].objs)
  <2>1. resolveInboundRoutes(in).ok /\ \A k \in 1..7 : PartOf(in, k).ok
    BY GenerateMakes
  <2>2. \A k \in 1..7 : SoundResult(PartOf(in, k))
    BY <2>1, PartSound
  <2> QED BY <1>3, <2>1, <2>2, ListedOk DEF Listed
<1>6. Generate(in2) = IF resolveInboundRoutes(in2).ok /\ out2.ok
                        THEN Ok([k \in DOMAIN out2.objs |-> LastPass(in2, out2.objs[k])]) ELSE Err
  BY GenerateByParts
<1> HIDE DEF parts, parts2
<1>7. out2.ok /\ Lacks(out.objs, out2.objs, x)
  <2>1. n \in 1..7 /\ parts2[n].ok /\ Lacks(parts[n].objs, parts2[n].objs, x)
    BY <1>3
  <2>2. \A k \in 1..7 : k # n => parts2[k] = parts[k]
    BY <1>1, <1>3
  <2> QED BY <1>3, <1>4, <1>5, <2>1, <2>2, LacksInOrder
<1> HIDE DEF out, out2
<1>8. Generate(in2) = Ok(less)
  BY <1>2, <1>4, <1>6, <1>7
<1>9. IsList(made) /\ IsList(less)
  <2>1. /\ Len(out.objs) \in Nat /\ DOMAIN out.objs = 1 .. Len(out.objs)
        /\ Len(out2.objs) \in Nat /\ DOMAIN out2.objs = 1 .. Len(out2.objs)
    BY <1>7, ListFacts DEF Lacks
  <2>2. made = [k \in 1 .. Len(out.objs) |-> made[k]] /\ less = [k \in 1 .. Len(out2.objs) |-> less[k]]
    BY <2>1
  <2> HIDE DEF made, less
  <2> QED BY <2>1, <2>2, MapIsList
<1>10. /\ DOMAIN made = DOMAIN out.objs /\ \A k \in DOMAIN out.objs : made[k] = LastPass(in, out.objs[k])
       /\ DOMAIN less = DOMAIN out2.objs /\ \A k \in DOMAIN out2.objs : less[k] = LastPass(in, out2.objs[k])
  OBVIOUS
<1> HIDE DEF made, less
<1>11. \E m \in DOMAIN made : made[m] = LastPass(in, x) /\ less = RemoveAt(made, m)
  BY <1>7, <1>9, <1>10, LacksFinished
<1>12. Generate(in).objs = made
  BY <1>4 DEF Ok
<1> QED BY <1>8, <1>11, <1>12

-----------------------------------------------------------------------------
(* The defaults, with one of them switched off. *)

\* Of four lists, the one that has one element loses it.
LEMMA LacksAmongFour ==
  ASSUME NEW a, NEW b, NEW c, NEW d, IsList(a), IsList(b), IsList(c), IsList(d), NEW x
  PROVE  /\ a = <<x>> => Lacks(a \o b \o c \o d, <<>> \o b \o c \o d, x)
         /\ b = <<x>> => Lacks(a \o b \o c \o d, a \o <<>> \o c \o d, x)
         /\ c = <<x>> => Lacks(a \o b \o c \o d, a \o b \o <<>> \o d, x)
         /\ d = <<x>> => Lacks(a \o b \o c \o d, a \o b \o c \o <<>>, x)
<1>1. Lacks(<<x>>, <<>>, x)
  BY LacksOne
<1>2. IsList(a \o b) /\ IsList(a \o b \o c) /\ IsList(<<>>)
  BY Concatenated, ShortLists
<1>3. ASSUME a = <<x>> PROVE Lacks(a \o b \o c \o d, <<>> \o b \o c \o d, x)
  <2>1. Lacks(a \o b, <<>> \o b, x)
    BY <1>1, <1>3, LacksLeft
  <2>2. Lacks(a \o b \o c, <<>> \o b \o c, x)
    BY <2>1, LacksLeft
  <2> QED BY <2>2, LacksLeft
<1>4. ASSUME b = <<x>> PROVE Lacks(a \o b \o c \o d, a \o <<>> \o c \o d, x)
  <2>1. Lacks(a \o b, a \o <<>>, x)
    BY <1>1, <1>4, LacksRight
  <2>2. Lacks(a \o b \o c, a \o <<>> \o c, x)
    BY <2>1, LacksLeft
  <2> QED BY <2>2, LacksLeft
<1>5. ASSUME c = <<x>> PROVE Lacks(a \o b \o c \o d, a \o b \o <<>> \o d, x)
  <2>1. Lacks(a \o b \o c, a \o b \o <<>>, x)
    BY <1>1, <1>2, <1>5, LacksRight
  <2> QED BY <2>1, LacksLeft
<1>6. ASSUME d = <<x>> PROVE Lacks(a \o b \o c \o d, a \o b \o c \o <<>>, x)
  BY <1>1, <1>2, <1>6, LacksRight
<1> QED BY <1>3, <1>4, <1>5, <1>6

\* A side of which one default is switched off, and nothing else.
SwitchedOff(side, off, default, switches) ==
  /\ SideEnabled(off) = SideEnabled(side) /\ ~Wanted(off, default)
  /\ \A other \in switches : other # default => Wanted(off, other) = Wanted(side, other)

\* The default policy that a switch is named for.
IsDefault(x, pkg, spec, side, default) ==
  /\ x.kind = "NetworkPolicy"
  /\ x.name = prependName(spec.prependReleaseName, pkg.name, <<"default", side>> \o Switches[side][default])

LEMMA DefaultNetpolFacts ==
  ASSUME NEW p, NEW q, SamePackage(p, q), NEW s, NEW t, t.prependReleaseName = s.prependReleaseName,
         NEW direction, NEW what, NEW rules
  PROVE  /\ DefaultNetpol(q, t, direction, what, rules) = DefaultNetpol(p, s, direction, what, rules)
         /\ \E x : /\ DefaultNetpol(p, s, direction, what, rules) = <<x>> /\ x.kind = "NetworkPolicy"
                   /\ x.name = prependName(s.prependReleaseName, p.name, <<"default", direction>> \o what)
<1> DEFINE obj == Netpol(p, s, <<"default", direction>> \o what, NoEntries, {}, direction, rules)
<1>1. /\ obj.kind = "NetworkPolicy"
      /\ obj.name = prependName(s.prependReleaseName, p.name, <<"default", direction>> \o what)
  BY DEF Netpol, GeneratedObject
<1>2. obj = Netpol(q, t, <<"default", direction>> \o what, NoEntries, {}, direction, rules)
  BY NetpolSame
<1>3. /\ DefaultNetpol(p, s, direction, what, rules) = <<obj>>
      /\ DefaultNetpol(q, t, direction, what, rules) = <<obj>>
  BY <1>2 DEF DefaultNetpol
<1> HIDE DEF obj
<1> QED BY <1>1, <1>3

\* Whether the policy of a switch is wanted, and its rules.
EgressWanted(spec, istio, default) == Wanted(spec.egress, default) /\ ~(default = "allowIstiod" /\ istioAmbient(istio))
EgressAllows(default) ==
  CASE default = "denyAll" -> <<>>
    [] default = "allowInNamespace" -> <<Rule(<<Pods(Nil, {})>>, <<>>)>>
    [] default = "allowKubeDNS" -> <<Rule(<<kubeDNS>>, <<Udp(53), Tcp(53)>>)>>
    [] default = "allowIstiod" -> <<Rule(<<istiod>>, <<Tcp(15012)>>)>>
IngressWanted(spec, istio, default) ==
  Wanted(spec.ingress, default) /\ ~(default = "allowPrometheusToIstioSidecar" /\ istioAmbient(istio))
IngressAllows(default) ==
  CASE default = "denyAll" -> <<>>
    [] default = "allowInNamespace" -> <<Rule(<<Pods(Nil, {})>>, <<>>)>>
    [] default = "allowPrometheusToIstioSidecar" -> <<Rule(<<prometheus>>, <<Tcp(15020)>>)>>

\* The policies of one switch: one, or none.
EgressSwitch(pkg, spec, istio, default) ==
  IF EgressWanted(spec, istio, default)
    THEN DefaultNetpol(pkg, spec, "egress", Switches.egress[default], EgressAllows(default)) ELSE <<>>
IngressSwitch(pkg, spec, istio, default) ==
  IF IngressWanted(spec, istio, default)
    THEN DefaultNetpol(pkg, spec, "ingress", Switches.ingress[default], IngressAllows(default)) ELSE <<>>

LEMMA DefaultIs ==
  ASSUME NEW pkg, NEW spec, NEW istio
  PROVE  /\ \A default \in EgressSwitches :
              EgressDefault(pkg, spec, istio, default) = EgressSwitch(pkg, spec, istio, default)
         /\ \A default \in IngressSwitches :
              IngressDefault(pkg, spec, istio, default) = IngressSwitch(pkg, spec, istio, default)
<1>1. ASSUME NEW default \in EgressSwitches
      PROVE  EgressDefault(pkg, spec, istio, default) = EgressSwitch(pkg, spec, istio, default)
  <2>1. CASE default = "denyAll"
    <3>1. Switches.egress[default] = <<"deny", "all">>
      BY <2>1 DEF Switches
    <3> QED BY <2>1, <3>1 DEF EgressDefault, DefaultIf, EgressSwitch, EgressWanted, EgressAllows
  <2>2. CASE default = "allowInNamespace"
    <3>1. Switches.egress[default] = <<"allow", "all", "in", "ns">>
      BY <2>2 DEF Switches
    <3> QED BY <2>2, <3>1 DEF EgressDefault, DefaultIf, EgressSwitch, EgressWanted, EgressAllows
  <2>3. CASE default = "allowKubeDNS"
    <3>1. Switches.egress[default] = <<"allow", "kube", "dns">>
      BY <2>3 DEF Switches
    <3> QED BY <2>3, <3>1 DEF EgressDefault, DefaultIf, EgressSwitch, EgressWanted, EgressAllows
  <2>4. CASE default = "allowIstiod"
    <3>1. Switches.egress[default] = <<"allow", "istiod">>
      BY <2>4 DEF Switches
    <3> QED BY <2>4, <3>1 DEF EgressDefault, DefaultIf, EgressSwitch, EgressWanted, EgressAllows
  <2> QED BY <2>1, <2>2, <2>3, <2>4 DEF EgressSwitches
<1>2. ASSUME NEW default \in IngressSwitches
      PROVE  IngressDefault(pkg, spec, istio, default) = IngressSwitch(pkg, spec, istio, default)
  <2>1. CASE default = "denyAll"
    <3>1. Switches.ingress[default] = <<"deny", "all">>
      BY <2>1 DEF Switches
    <3> QED BY <2>1, <3>1 DEF IngressDefault, DefaultIf, IngressSwitch, IngressWanted, IngressAllows
  <2>2. CASE default = "allowInNamespace"
    <3>1. Switches.ingress[default] = <<"allow", "all", "in", "ns">>
      BY <2>2 DEF Switches
    <3> QED BY <2>2, <3>1 DEF IngressDefault, DefaultIf, IngressSwitch, IngressWanted, IngressAllows
  <2>3. CASE default = "allowPrometheusToIstioSidecar"
    <3>1. Switches.ingress[default] = <<"allow", "prometheus", "to", "istio", "sidecar">>
      BY <2>3 DEF Switches
    <3> QED BY <2>3, <3>1 DEF IngressDefault, DefaultIf, IngressSwitch, IngressWanted, IngressAllows
  <2> QED BY <2>1, <2>2, <2>3 DEF IngressSwitches
<1> QED BY <1>1, <1>2

\* What a switch that is turned off does to the defaults of its side.
EgressEffect(p, q, s, t, i, j, default) ==
  IF EgressWanted(s, i, default)
    THEN \E x : /\ IsDefault(x, p, s, "egress", default)
                /\ Lacks(defaultEgressPolicies(p, s, i), defaultEgressPolicies(q, t, j), x)
    ELSE defaultEgressPolicies(q, t, j) = defaultEgressPolicies(p, s, i)

LEMMA EgressSwitched ==
  ASSUME NEW p, NEW q, SamePackage(p, q), NEW s, NEW t, t.prependReleaseName = s.prependReleaseName,
         NEW i, NEW j, istioAmbient(j) = istioAmbient(i), NEW default \in EgressSwitches,
         SwitchedOff(s.egress, t.egress, default, EgressSwitches)
  PROVE  EgressEffect(p, q, s, t, i, j, default)
<1> SUFFICES IF EgressWanted(s, i, default)
               THEN \E x : /\ IsDefault(x, p, s, "egress", default)
                           /\ Lacks(defaultEgressPolicies(p, s, i), defaultEgressPolicies(q, t, j), x)
               ELSE defaultEgressPolicies(q, t, j) = defaultEgressPolicies(p, s, i)
  BY DEF EgressEffect
<1> DEFINE One(e) == EgressDefault(p, s, i, e)
           Two(e) == EgressDefault(q, t, j, e)
           Made(a, b, e) == DefaultNetpol(a, b, "egress", Switches.egress[e], EgressAllows(e))
<1>1. \A e \in EgressSwitches : /\ One(e) = IF EgressWanted(s, i, e) THEN Made(p, s, e) ELSE <<>>
                            /\ Two(e) = IF EgressWanted(t, j, e) THEN Made(q, t, e) ELSE <<>>
  BY DefaultIs DEF EgressSwitch
<1>2. \A e : Made(q, t, e) = Made(p, s, e) /\ \E x : Made(p, s, e) = <<x>>
  <2> TAKE e
  <2> DEFINE what == Switches.egress[e]
             rules == EgressAllows(e)
  <2> HIDE DEF what, rules
  <2>1. /\ DefaultNetpol(q, t, "egress", what, rules) = DefaultNetpol(p, s, "egress", what, rules)
        /\ \E x : /\ DefaultNetpol(p, s, "egress", what, rules) = <<x>> /\ x.kind = "NetworkPolicy"
                  /\ x.name = prependName(s.prependReleaseName, p.name, <<"default", "egress">> \o what)
    BY DefaultNetpolFacts
  <2> QED BY <2>1 DEF what, rules
<1>3. \E x : Made(p, s, default) = <<x>> /\ IsDefault(x, p, s, "egress", default)
  <2> DEFINE what == Switches.egress[default]
             rules == EgressAllows(default)
  <2> HIDE DEF what, rules
  <2>1. \E x : /\ DefaultNetpol(p, s, "egress", what, rules) = <<x>> /\ x.kind = "NetworkPolicy"
               /\ x.name = prependName(s.prependReleaseName, p.name, <<"default", "egress">> \o what)
    BY DefaultNetpolFacts
  <2>2. Switches["egress"][default] = what
    BY DEF what
  <2> QED BY <2>1, <2>2 DEF what, rules, IsDefault
<1>4. /\ ~EgressWanted(t, j, default)
      /\ \A e \in EgressSwitches : e # default => (EgressWanted(t, j, e) <=> EgressWanted(s, i, e))
  BY DEF SwitchedOff, EgressWanted
<1> HIDE DEF Made
<1>5. /\ \A e \in EgressSwitches : IsList(One(e)) /\ (e # default => Two(e) = One(e))
      /\ Two(default) = <<>>
  BY <1>1, <1>2, <1>4, ShortLists
<1> DEFINE a == One("denyAll")
           b == One("allowInNamespace")
           c == One("allowKubeDNS")
           d == One("allowIstiod")
<1>6. /\ defaultEgressPolicies(p, s, i) = a \o b \o c \o d
      /\ defaultEgressPolicies(q, t, j) = Two("denyAll") \o Two("allowInNamespace") \o Two("allowKubeDNS") \o Two("allowIstiod")
  BY DefaultsAre
<1>8. IsList(a) /\ IsList(b) /\ IsList(c) /\ IsList(d)
  BY <1>5 DEF EgressSwitches
<1> HIDE DEF One, Two
<1>9. \/ default = "denyAll" /\ One(default) = a /\ defaultEgressPolicies(q, t, j) = <<>> \o b \o c \o d
      \/ default = "allowInNamespace" /\ One(default) = b /\ defaultEgressPolicies(q, t, j) = a \o <<>> \o c \o d
      \/ default = "allowKubeDNS" /\ One(default) = c /\ defaultEgressPolicies(q, t, j) = a \o b \o <<>> \o d
      \/ default = "allowIstiod" /\ One(default) = d /\ defaultEgressPolicies(q, t, j) = a \o b \o c \o <<>>
  <2>1. \A e \in EgressSwitches : Two(e) = IF e = default THEN <<>> ELSE One(e)
    BY <1>5
  <2> QED BY <1>6, <2>1 DEF EgressSwitches
<1> HIDE DEF a, b, c, d
<1>10. CASE EgressWanted(s, i, default)
  <2>1. PICK x : One(default) = <<x>> /\ IsDefault(x, p, s, "egress", default)
    BY <1>1, <1>3, <1>10
  <2>2. Lacks(a \o b \o c \o d, defaultEgressPolicies(q, t, j), x)
    BY <1>8, <1>9, <2>1, LacksAmongFour
  <2> QED BY <1>6, <1>10, <2>1, <2>2
<1>11. CASE ~EgressWanted(s, i, default)
  <2>1. One(default) = <<>>
    BY <1>1, <1>11
  <2> QED BY <1>6, <1>9, <1>11, <2>1
<1> QED BY <1>10, <1>11

\* What a switch that is turned off does to the defaults of its side.
IngressEffect(p, q, s, t, i, j, default) ==
  IF IngressWanted(s, i, default)
    THEN \E x : /\ IsDefault(x, p, s, "ingress", default)
                /\ Lacks(defaultIngressPolicies(p, s, i), defaultIngressPolicies(q, t, j), x)
    ELSE defaultIngressPolicies(q, t, j) = defaultIngressPolicies(p, s, i)

LEMMA IngressSwitched ==
  ASSUME NEW p, NEW q, SamePackage(p, q), NEW s, NEW t, t.prependReleaseName = s.prependReleaseName,
         NEW i, NEW j, istioAmbient(j) = istioAmbient(i), NEW default \in IngressSwitches,
         SwitchedOff(s.ingress, t.ingress, default, IngressSwitches)
  PROVE  IngressEffect(p, q, s, t, i, j, default)
<1> SUFFICES IF IngressWanted(s, i, default)
               THEN \E x : /\ IsDefault(x, p, s, "ingress", default)
                           /\ Lacks(defaultIngressPolicies(p, s, i), defaultIngressPolicies(q, t, j), x)
               ELSE defaultIngressPolicies(q, t, j) = defaultIngressPolicies(p, s, i)
  BY DEF IngressEffect
<1> DEFINE One(e) == IngressDefault(p, s, i, e)
           Two(e) == IngressDefault(q, t, j, e)
           Made(a, b, e) == DefaultNetpol(a, b, "ingress", Switches.ingress[e], IngressAllows(e))
<1>1. \A e \in IngressSwitches : /\ One(e) = IF IngressWanted(s, i, e) THEN Made(p, s, e) ELSE <<>>
                            /\ Two(e) = IF IngressWanted(t, j, e) THEN Made(q, t, e) ELSE <<>>
  BY DefaultIs DEF IngressSwitch
<1>2. \A e : Made(q, t, e) = Made(p, s, e) /\ \E x : Made(p, s, e) = <<x>>
  <2> TAKE e
  <2> DEFINE what == Switches.ingress[e]
             rules == IngressAllows(e)
  <2> HIDE DEF what, rules
  <2>1. /\ DefaultNetpol(q, t, "ingress", what, rules) = DefaultNetpol(p, s, "ingress", what, rules)
        /\ \E x : /\ DefaultNetpol(p, s, "ingress", what, rules) = <<x>> /\ x.kind = "NetworkPolicy"
                  /\ x.name = prependName(s.prependReleaseName, p.name, <<"default", "ingress">> \o what)
    BY DefaultNetpolFacts
  <2> QED BY <2>1 DEF what, rules
<1>3. \E x : Made(p, s, default) = <<x>> /\ IsDefault(x, p, s, "ingress", default)
  <2> DEFINE what == Switches.ingress[default]
             rules == IngressAllows(default)
  <2> HIDE DEF what, rules
  <2>1. \E x : /\ DefaultNetpol(p, s, "ingress", what, rules) = <<x>> /\ x.kind = "NetworkPolicy"
               /\ x.name = prependName(s.prependReleaseName, p.name, <<"default", "ingress">> \o what)
    BY DefaultNetpolFacts
  <2>2. Switches["ingress"][default] = what
    BY DEF what
  <2> QED BY <2>1, <2>2 DEF what, rules, IsDefault
<1>4. /\ ~IngressWanted(t, j, default)
      /\ \A e \in IngressSwitches : e # default => (IngressWanted(t, j, e) <=> IngressWanted(s, i, e))
  BY DEF SwitchedOff, IngressWanted
<1> HIDE DEF Made
<1>5. /\ \A e \in IngressSwitches : IsList(One(e)) /\ (e # default => Two(e) = One(e))
      /\ Two(default) = <<>>
  BY <1>1, <1>2, <1>4, ShortLists
<1> DEFINE a == One("denyAll")
           b == One("allowInNamespace")
           c == One("allowPrometheusToIstioSidecar")
           d == One("kubelet")
<1>6. /\ defaultIngressPolicies(p, s, i) = a \o b \o c \o d
      /\ defaultIngressPolicies(q, t, j) = Two("denyAll") \o Two("allowInNamespace") \o Two("allowPrometheusToIstioSidecar") \o Two("kubelet")
  BY DefaultsAre
<1>7. IsList(d) /\ Two("kubelet") = d
  <2> DEFINE what == <<"allow", "ambient", "kubelet">>
             rules == <<Rule(<<kubelet>>, <<>>)>>
  <2>1. /\ d = IF istioAmbient(i) /\ SideEnabled(s.ingress) THEN DefaultNetpol(p, s, "ingress", what, rules) ELSE <<>>
        /\ Two("kubelet") = IF istioAmbient(j) /\ SideEnabled(t.ingress)
                            THEN DefaultNetpol(q, t, "ingress", what, rules) ELSE <<>>
    BY DEF IngressDefault, DefaultIf
  <2> HIDE DEF what, rules
  <2>2. /\ DefaultNetpol(q, t, "ingress", what, rules) = DefaultNetpol(p, s, "ingress", what, rules)
        /\ \E x : /\ DefaultNetpol(p, s, "ingress", what, rules) = <<x>> /\ x.kind = "NetworkPolicy"
                  /\ x.name = prependName(s.prependReleaseName, p.name, <<"default", "ingress">> \o what)
    BY DefaultNetpolFacts
  <2>3. SideEnabled(t.ingress) = SideEnabled(s.ingress)
    BY DEF SwitchedOff
  <2> QED BY <2>1, <2>2, <2>3, ShortLists
<1>8. IsList(a) /\ IsList(b) /\ IsList(c) /\ IsList(d)
  BY <1>5, <1>7 DEF IngressSwitches
<1> HIDE DEF One, Two
<1>9. \/ default = "denyAll" /\ One(default) = a /\ defaultIngressPolicies(q, t, j) = <<>> \o b \o c \o d
      \/ default = "allowInNamespace" /\ One(default) = b /\ defaultIngressPolicies(q, t, j) = a \o <<>> \o c \o d
      \/ default = "allowPrometheusToIstioSidecar" /\ One(default) = c /\ defaultIngressPolicies(q, t, j) = a \o b \o <<>> \o d
  <2>1. \A e \in IngressSwitches : Two(e) = IF e = default THEN <<>> ELSE One(e)
    BY <1>5
  <2> QED BY <1>6, <1>7, <2>1 DEF IngressSwitches
<1> HIDE DEF a, b, c, d
<1>10. CASE IngressWanted(s, i, default)
  <2>1. PICK x : One(default) = <<x>> /\ IsDefault(x, p, s, "ingress", default)
    BY <1>1, <1>3, <1>10
  <2>2. Lacks(a \o b \o c \o d, defaultIngressPolicies(q, t, j), x)
    BY <1>8, <1>9, <2>1, LacksAmongFour
  <2> QED BY <1>6, <1>10, <2>1, <2>2
<1>11. CASE ~IngressWanted(s, i, default)
  <2>1. One(default) = <<>>
    BY <1>1, <1>11
  <2> QED BY <1>6, <1>9, <1>11, <2>1
<1> QED BY <1>10, <1>11

\* The defaults of a side of which nothing is switched.
LEMMA Unswitched ==
  ASSUME NEW p, NEW q, SamePackage(p, q), NEW s, NEW t, t.prependReleaseName = s.prependReleaseName,
         NEW i, NEW j, istioAmbient(j) = istioAmbient(i)
  PROVE  /\ t.egress = s.egress => defaultEgressPolicies(q, t, j) = defaultEgressPolicies(p, s, i)
         /\ t.ingress = s.ingress => defaultIngressPolicies(q, t, j) = defaultIngressPolicies(p, s, i)
<1>1. \A direction, what, rules :
        DefaultNetpol(q, t, direction, what, rules) = DefaultNetpol(p, s, direction, what, rules)
  BY NetpolSame DEF DefaultNetpol
<1>2. ASSUME t.egress = s.egress PROVE defaultEgressPolicies(q, t, j) = defaultEgressPolicies(p, s, i)
  <2>1. \A e \in EgressSwitches : EgressSwitch(q, t, j, e) = EgressSwitch(p, s, i, e)
    BY <1>1, <1>2 DEF EgressSwitch, EgressWanted
  <2>2. \A e \in EgressSwitches : EgressDefault(q, t, j, e) = EgressDefault(p, s, i, e)
    BY <2>1, DefaultIs
  <2> QED BY <2>2, DefaultsAre DEF EgressSwitches
<1>3. ASSUME t.ingress = s.ingress PROVE defaultIngressPolicies(q, t, j) = defaultIngressPolicies(p, s, i)
  <2>1. \A e \in IngressSwitches : IngressSwitch(q, t, j, e) = IngressSwitch(p, s, i, e)
    BY <1>1, <1>3 DEF IngressSwitch, IngressWanted
  <2>2. \A e \in IngressSwitches : IngressDefault(q, t, j, e) = IngressDefault(p, s, i, e)
    BY <2>1, DefaultIs
  <2>3. IngressDefault(q, t, j, "kubelet") = IngressDefault(p, s, i, "kubelet")
    BY <1>1, <1>3 DEF IngressDefault, DefaultIf
  <2> QED BY <2>2, <2>3, DefaultsAre DEF IngressSwitches
<1> QED BY <1>2, <1>3

LEMMA PolicyPartsListed ==
  ASSUME NEW pkg, NEW spec, NEW istio, NEW env, SoundNetworkPolicies(spec),
         SoundDefinitions(env.sharedEgress), SoundDefinitions(env.sharedIngress), IsList(env.kubeAPIPorts),
         InOrder(PolicyParts(pkg, spec, istio, env)).ok
  PROVE  \A k \in 1..5 : IsList(PolicyParts(pkg, spec, istio, env)[k].objs)
<1> DEFINE parts == PolicyParts(pkg, spec, istio, env)
<1>1. DOMAIN parts = 1..5
  BY DEF PolicyParts
<1>2. \A k \in 1..5 : parts[k].ok
  BY <1>1, InOrderOk
<1>3. Listed(parts[1]) /\ Listed(parts[2])
  BY DefaultNetpolsSound, ListedOk DEF PolicyParts, SoundObjects
<1>4. Listed(parts[3])
  <2>1. parts[3] = IF spec.egress = Nil THEN Ok(<<>>) ELSE expandShorthandEgress(pkg, spec, env)
    BY DEF PolicyParts
  <2>2. spec.egress # Nil => AllOf(spec.egress.from, SoundFrom)
    BY DEF SoundNetworkPolicies, SoundEgress
  <2> QED BY <2>1, <2>2, EgressMakes, ListedOk
<1>5. Listed(parts[4])
  <2>1. parts[4] = IF spec.ingress = Nil THEN Ok(<<>>) ELSE expandShorthandIngress(pkg, spec, env)
    BY DEF PolicyParts
  <2>2. spec.ingress # Nil => AllOf(spec.ingress.to, SoundTo)
    BY DEF SoundNetworkPolicies, SoundIngress
  <2> QED BY <2>1, <2>2, IngressMakes, ListedOk
<1>6. Listed(parts[5])
  <2> DEFINE list == spec.additionalPolicies
             f == [k \in DOMAIN list |-> buildAdditionalPolicy(pkg, spec, list[k])]
  <2>1. parts[5] = InOrder(f)
    BY DEF PolicyParts, ForEach
  <2>2. IsList(list)
    BY DEF SoundNetworkPolicies, AllOf
  <2>3. \A raw : Listed(buildAdditionalPolicy(pkg, spec, raw))
    BY ListedOk DEF buildAdditionalPolicy
  <2>4. DOMAIN f = DOMAIN list /\ \A k \in DOMAIN list : Listed(f[k])
    BY <2>3
  <2> HIDE DEF f, list
  <2> QED BY <2>1, <2>2, <2>4, MakesForEach
<1> HIDE DEF parts
<1>7. \A k \in 1..5 : Listed(parts[k])
  BY <1>3, <1>4, <1>5, <1>6
<1>8. \A k \in 1..5 : IsList(parts[k].objs)
  BY <1>2, <1>7 DEF Listed
<1> QED BY <1>8 DEF parts

LEMMA LacksInFive ==
  ASSUME NEW a, NEW b, DOMAIN a = 1..5, DOMAIN b = 1..5, InOrder(a).ok, \A k \in 1..5 : IsList(a[k].objs),
         NEW n \in 1..2, \A k \in 1..5 : k # n => b[k] = a[k],
         b[n].ok, NEW x, Lacks(a[n].objs, b[n].objs, x)
  PROVE  InOrder(b).ok /\ Lacks(InOrder(a).objs, InOrder(b).objs, x)
<1>1. n \in 1..5
  OBVIOUS
<1> QED BY <1>1, LacksInOrder

PolicyPartsOf(in) == PolicyParts(in.pkg, in.pkg.spec.networkPolicies, in.pkg.spec.istio, Env(in))

\* The second part, when the defaults of one side lack one.
LEMMA PolicyPartLacks ==
  ASSUME NEW in, SoundInput(in), Generate(in).ok, NEW in2, SameApartFromDefaults(in, in2),
         in.pkg.spec.networkPolicies # Nil, in.pkg.spec.networkPolicies.enabled,
         NEW n \in 1..2, \A k \in 1..2 : k # n => PolicyPartsOf(in2)[k] = PolicyPartsOf(in)[k]
  PROVE  /\ PolicyPartsOf(in2)[n] = PolicyPartsOf(in)[n] => PartOf(in2, 2) = PartOf(in, 2)
         /\ \A x : PolicyPartsOf(in2)[n].ok /\ Lacks(PolicyPartsOf(in)[n].objs, PolicyPartsOf(in2)[n].objs, x) =>
              PartOf(in2, 2).ok /\ Lacks(PartOf(in, 2).objs, PartOf(in2, 2).objs, x)
<1> SUFFICES ASSUME NEW s, s = in.pkg.spec.networkPolicies, s # Nil, s.enabled, NEW t, t = in2.pkg.spec.networkPolicies,
                    NEW a, a = PolicyParts(in.pkg, s, in.pkg.spec.istio, Env(in)),
                    NEW b, b = PolicyParts(in2.pkg, t, in2.pkg.spec.istio, Env(in2)),
                    \A k \in 1..2 : k # n => b[k] = a[k]
             PROVE  /\ b[n] = a[n] => PartOf(in2, 2) = PartOf(in, 2)
                    /\ \A x : b[n].ok /\ Lacks(a[n].objs, b[n].objs, x) =>
                         PartOf(in2, 2).ok /\ Lacks(PartOf(in, 2).objs, PartOf(in2, 2).objs, x)
  BY DEF PolicyPartsOf
<1>1. SamePackage(in.pkg, in2.pkg) /\ SamePolicies(s, t) /\ t # Nil /\ Env(in2) = Env(in)
  BY DEF SameApartFromDefaults
<1>2. t.enabled
  BY <1>1 DEF SamePolicies
<1>3. \A pkg, spec, istio, env : generateNetworkPolicies(pkg, spec, istio, env) = InOrder(PolicyParts(pkg, spec, istio, env))
  BY DEF generateNetworkPolicies, PolicyParts
<1>4. PartOf(in, 2) = InOrder(a) /\ PartOf(in2, 2) = InOrder(b)
  BY <1>1, <1>2, <1>3, PartsAre
<1>5. DOMAIN a = 1..5 /\ DOMAIN b = 1..5
  BY DEF PolicyParts
<1>6. \A k \in 3..5 : b[k] = a[k]
  BY <1>1, PolicyRulesSame
<1>7. \A k \in 1..5 : k # n => b[k] = a[k]
  BY <1>6
<1>8. InOrder(a).ok
  BY <1>4, GenerateMakes
<1>9. \A k \in 1..5 : IsList(a[k].objs)
  <2>1. /\ Env(in).kubeAPIPorts = in.kubeAPIPorts /\ Env(in).sharedEgress = in.shared.egress
        /\ Env(in).sharedIngress = in.shared.ingress
    BY DEF Env
  <2>2. /\ IsList(Env(in).kubeAPIPorts) /\ SoundNetworkPolicies(s)
        /\ SoundDefinitions(Env(in).sharedEgress) /\ SoundDefinitions(Env(in).sharedIngress)
    BY <2>1 DEF SoundInput
  <2> QED BY <1>8, <2>2, PolicyPartsListed
<1>10. ASSUME b[n] = a[n] PROVE InOrder(b) = InOrder(a)
  <2>1. \A k \in 1..5 : b[k] = a[k]
    BY <1>7, <1>10
  <2> QED BY <1>5, <2>1, EachSame
<1>11. ASSUME NEW x, b[n].ok, Lacks(a[n].objs, b[n].objs, x)
       PROVE  InOrder(b).ok /\ Lacks(InOrder(a).objs, InOrder(b).objs, x)
  BY <1>5, <1>7, <1>8, <1>9, <1>11, LacksInFive
<1> QED BY <1>4, <1>10, <1>11

-----------------------------------------------------------------------------
(* The input with one switch turned off. *)

EgressTurnedOff(in, default) == [in EXCEPT !.pkg.spec.networkPolicies.egress.defaults[default] = FALSE]
OnlyEgressOff(in, in2, default) ==
  LET s == in.pkg.spec.networkPolicies
      t == in2.pkg.spec.networkPolicies
  IN /\ SameApartFromDefaults(in, in2) /\ in2.pkg.spec.istio = in.pkg.spec.istio
     /\ t.ingress = s.ingress /\ SwitchedOff(s.egress, t.egress, default, EgressSwitches)
     /\ Wanted(s.egress, default) <=> IsOn(s.egress.defaults, default)

LEMMA EgressOff ==
  ASSUME NEW in, SoundInput(in), in.pkg.spec.networkPolicies # Nil, in.pkg.spec.networkPolicies.egress # Nil,
         in.pkg.spec.networkPolicies.egress.defaults # Nil, NEW default \in EgressSwitches
  PROVE  OnlyEgressOff(in, EgressTurnedOff(in, default), default)
<1> SUFFICES ASSUME NEW s, s = in.pkg.spec.networkPolicies, s # Nil, s.egress # Nil, s.egress.defaults # Nil,
                    NEW in2, in2 = [in EXCEPT !.pkg.spec.networkPolicies.egress.defaults[default] = FALSE],
                    NEW t, t = in2.pkg.spec.networkPolicies
             PROVE  /\ SameApartFromDefaults(in, in2) /\ in2.pkg.spec.istio = in.pkg.spec.istio
                    /\ t.ingress = s.ingress /\ SwitchedOff(s.egress, t.egress, default, EgressSwitches)
                    /\ Wanted(s.egress, default) <=> IsOn(s.egress.defaults, default)
  BY DEF EgressTurnedOff, OnlyEgressOff
<1> DEFINE d2 == [s.egress.defaults EXCEPT ![default] = FALSE]
           side2 == [s.egress EXCEPT !.defaults = d2]
           s2 == [s EXCEPT !.egress = side2]
           spec2 == [in.pkg.spec EXCEPT !.networkPolicies = s2]
           pkg2 == [in.pkg EXCEPT !.spec = spec2]
<1>1. SoundNetworkPolicies(s) /\ SoundEgress(s.egress) /\ SoundPackage(in.pkg)
  BY DEF SoundInput, SoundNetworkPolicies
<1>2. /\ HasFields(in, {"pkg", "kubeAPIPorts", "shared", "sharedErr", "ingressConfig", "ingressConfigErr"})
      /\ HasFields(in.pkg, {"name", "ns", "uid", "spec"})
      /\ HasFields(in.pkg.spec, {"istio", "networkPolicies", "routes"})
  BY <1>1 DEF SoundInput, SoundPackage
<1>3. /\ HasFields(s, {"enabled", "prependReleaseName", "egress", "ingress", "additionalPolicies", "hbonePortInjection"})
      /\ HasFields(s.egress, {"defaults", "from", "definitions", "excludeCIDRs"})
      /\ HasFields(s.egress.defaults, {"enabled"} \cup EgressSwitches)
  BY <1>1 DEF SoundNetworkPolicies, SoundEgress, SoundDefaults
<1>4. d2 # Nil /\ side2 # Nil /\ s2 # Nil
  <2>1. d2 # Nil
    BY <1>1 DEF SoundEgress, SoundDefaults
  <2>2. side2 # Nil
    BY <1>1 DEF SoundEgress, StaysWithDefaults
  <2>3. s2 # Nil
    BY <1>1 DEF SoundNetworkPolicies, StaysWith
  <2> QED BY <2>1, <2>2, <2>3
<1>5. in2 = [in EXCEPT !.pkg = pkg2]
  OBVIOUS
<1>6. /\ d2[default] = FALSE /\ d2.enabled = s.egress.defaults.enabled
      /\ \A e \in EgressSwitches : e # default => d2[e] = s.egress.defaults[e]
  BY <1>3 DEF HasFields, EgressSwitches
<1> HIDE DEF d2
<1>7. side2.defaults = d2 /\ \A f \in {"defaults", "from", "definitions", "excludeCIDRs"} : f # "defaults" => side2[f] = s.egress[f]
  BY <1>3 DEF HasFields
<1> HIDE DEF side2
<1>8. s2.egress = side2 /\ \A f \in {"enabled", "prependReleaseName", "egress", "ingress", "additionalPolicies", "hbonePortInjection"} :
                        f # "egress" => s2[f] = s[f]
  BY <1>3 DEF HasFields
<1> HIDE DEF s2
<1>9. spec2.networkPolicies = s2 /\ spec2.istio = in.pkg.spec.istio /\ spec2.routes = in.pkg.spec.routes
  BY <1>2 DEF HasFields
<1> HIDE DEF spec2
<1>10. pkg2.spec = spec2 /\ pkg2.name = in.pkg.name /\ pkg2.ns = in.pkg.ns /\ pkg2.uid = in.pkg.uid
  BY <1>2 DEF HasFields
<1> HIDE DEF pkg2
<1>11. /\ in2.pkg = pkg2 /\ in2.kubeAPIPorts = in.kubeAPIPorts /\ in2.shared = in.shared /\ in2.sharedErr = in.sharedErr
       /\ in2.ingressConfig = in.ingressConfig /\ in2.ingressConfigErr = in.ingressConfigErr
  BY <1>2, <1>5 DEF HasFields
<1>12. t = s2
  BY <1>9, <1>10, <1>11
<1>13. SamePolicies(s, t)
  BY <1>4, <1>7, <1>8, <1>12 DEF SamePolicies
<1>14. SameMesh(in.pkg.spec.istio, in2.pkg.spec.istio)
  BY <1>9, <1>10, <1>11 DEF SameMesh, SameAuthorization
<1>15. SameApartFromDefaults(in, in2)
  BY <1>4, <1>9, <1>10, <1>11, <1>12, <1>13, <1>14 DEF SameApartFromDefaults, SamePackage, Env
<1>16. SwitchedOff(s.egress, t.egress, default, EgressSwitches)
  BY <1>4, <1>6, <1>7, <1>8, <1>12 DEF SwitchedOff, SideEnabled, Wanted, defaultEnabled
<1>17. Wanted(s.egress, default) <=> IsOn(s.egress.defaults, default)
  BY DEF Wanted, SideEnabled, defaultEnabled, IsOn
<1> QED BY <1>8, <1>9, <1>10, <1>11, <1>12, <1>15, <1>16, <1>17

IngressTurnedOff(in, default) == [in EXCEPT !.pkg.spec.networkPolicies.ingress.defaults[default] = FALSE]
OnlyIngressOff(in, in2, default) ==
  LET s == in.pkg.spec.networkPolicies
      t == in2.pkg.spec.networkPolicies
  IN /\ SameApartFromDefaults(in, in2) /\ in2.pkg.spec.istio = in.pkg.spec.istio
     /\ t.egress = s.egress /\ SwitchedOff(s.ingress, t.ingress, default, IngressSwitches)
     /\ Wanted(s.ingress, default) <=> IsOn(s.ingress.defaults, default)

LEMMA IngressOff ==
  ASSUME NEW in, SoundInput(in), in.pkg.spec.networkPolicies # Nil, in.pkg.spec.networkPolicies.ingress # Nil,
         in.pkg.spec.networkPolicies.ingress.defaults # Nil, NEW default \in IngressSwitches
  PROVE  OnlyIngressOff(in, IngressTurnedOff(in, default), default)
<1> SUFFICES ASSUME NEW s, s = in.pkg.spec.networkPolicies, s # Nil, s.ingress # Nil, s.ingress.defaults # Nil,
                    NEW in2, in2 = [in EXCEPT !.pkg.spec.networkPolicies.ingress.defaults[default] = FALSE],
                    NEW t, t = in2.pkg.spec.networkPolicies
             PROVE  /\ SameApartFromDefaults(in, in2) /\ in2.pkg.spec.istio = in.pkg.spec.istio
                    /\ t.egress = s.egress /\ SwitchedOff(s.ingress, t.ingress, default, IngressSwitches)
                    /\ Wanted(s.ingress, default) <=> IsOn(s.ingress.defaults, default)
  BY DEF IngressTurnedOff, OnlyIngressOff
<1> DEFINE d2 == [s.ingress.defaults EXCEPT ![default] = FALSE]
           side2 == [s.ingress EXCEPT !.defaults = d2]
           s2 == [s EXCEPT !.ingress = side2]
           spec2 == [in.pkg.spec EXCEPT !.networkPolicies = s2]
           pkg2 == [in.pkg EXCEPT !.spec = spec2]
<1>1. SoundNetworkPolicies(s) /\ SoundIngress(s.ingress) /\ SoundPackage(in.pkg)
  BY DEF SoundInput, SoundNetworkPolicies
<1>2. /\ HasFields(in, {"pkg", "kubeAPIPorts", "shared", "sharedErr", "ingressConfig", "ingressConfigErr"})
      /\ HasFields(in.pkg, {"name", "ns", "uid", "spec"})
      /\ HasFields(in.pkg.spec, {"istio", "networkPolicies", "routes"})
  BY <1>1 DEF SoundInput, SoundPackage
<1>3. /\ HasFields(s, {"enabled", "prependReleaseName", "egress", "ingress", "additionalPolicies", "hbonePortInjection"})
      /\ HasFields(s.ingress, {"defaults", "to", "definitions"})
      /\ HasFields(s.ingress.defaults, {"enabled"} \cup IngressSwitches)
  BY <1>1 DEF SoundNetworkPolicies, SoundIngress, SoundDefaults
<1>4. d2 # Nil /\ side2 # Nil /\ s2 # Nil
  <2>1. d2 # Nil
    BY <1>1 DEF SoundIngress, SoundDefaults
  <2>2. side2 # Nil
    BY <1>1 DEF SoundIngress, StaysWithDefaults
  <2>3. s2 # Nil
    BY <1>1 DEF SoundNetworkPolicies, StaysWith
  <2> QED BY <2>1, <2>2, <2>3
<1>5. in2 = [in EXCEPT !.pkg = pkg2]
  OBVIOUS
<1>6. /\ d2[default] = FALSE /\ d2.enabled = s.ingress.defaults.enabled
      /\ \A e \in IngressSwitches : e # default => d2[e] = s.ingress.defaults[e]
  BY <1>3 DEF HasFields, IngressSwitches
<1> HIDE DEF d2
<1>7. side2.defaults = d2 /\ \A f \in {"defaults", "to", "definitions"} : f # "defaults" => side2[f] = s.ingress[f]
  BY <1>3 DEF HasFields
<1> HIDE DEF side2
<1>8. s2.ingress = side2 /\ \A f \in {"enabled", "prependReleaseName", "egress", "ingress", "additionalPolicies", "hbonePortInjection"} :
                        f # "ingress" => s2[f] = s[f]
  BY <1>3 DEF HasFields
<1> HIDE DEF s2
<1>9. spec2.networkPolicies = s2 /\ spec2.istio = in.pkg.spec.istio /\ spec2.routes = in.pkg.spec.routes
  BY <1>2 DEF HasFields
<1> HIDE DEF spec2
<1>10. pkg2.spec = spec2 /\ pkg2.name = in.pkg.name /\ pkg2.ns = in.pkg.ns /\ pkg2.uid = in.pkg.uid
  BY <1>2 DEF HasFields
<1> HIDE DEF pkg2
<1>11. /\ in2.pkg = pkg2 /\ in2.kubeAPIPorts = in.kubeAPIPorts /\ in2.shared = in.shared /\ in2.sharedErr = in.sharedErr
       /\ in2.ingressConfig = in.ingressConfig /\ in2.ingressConfigErr = in.ingressConfigErr
  BY <1>2, <1>5 DEF HasFields
<1>12. t = s2
  BY <1>9, <1>10, <1>11
<1>13. SamePolicies(s, t)
  BY <1>4, <1>7, <1>8, <1>12 DEF SamePolicies
<1>14. SameMesh(in.pkg.spec.istio, in2.pkg.spec.istio)
  BY <1>9, <1>10, <1>11 DEF SameMesh, SameAuthorization
<1>15. SameApartFromDefaults(in, in2)
  BY <1>4, <1>9, <1>10, <1>11, <1>12, <1>13, <1>14 DEF SameApartFromDefaults, SamePackage, Env
<1>16. SwitchedOff(s.ingress, t.ingress, default, IngressSwitches)
  BY <1>4, <1>6, <1>7, <1>8, <1>12 DEF SwitchedOff, SideEnabled, Wanted, defaultEnabled
<1>17. Wanted(s.ingress, default) <=> IsOn(s.ingress.defaults, default)
  BY DEF Wanted, SideEnabled, defaultEnabled, IsOn
<1> QED BY <1>8, <1>9, <1>10, <1>11, <1>12, <1>15, <1>16, <1>17

AuthzTurnedOff(in, default) == [in EXCEPT !.pkg.spec.istio.authorizationPolicies.defaults[default] = FALSE]
OnlyAuthzOff(in, in2, default) ==
  LET i == in.pkg.spec.istio
      j == in2.pkg.spec.istio
  IN /\ SameApartFromDefaults(in, in2) /\ in2.pkg.spec.networkPolicies = in.pkg.spec.networkPolicies
     /\ ~authzDefaultWanted(j, default)
     /\ \A e \in AuthzSwitches : e # default => (authzDefaultWanted(j, e) <=> authzDefaultWanted(i, e))
     /\ authzDefaultWanted(i, default) <=> IsOn(i.authorizationPolicies.defaults, default)

LEMMA AuthzOff ==
  ASSUME NEW in, SoundInput(in), in.pkg.spec.istio # Nil, in.pkg.spec.istio.authorizationPolicies # Nil,
         in.pkg.spec.istio.authorizationPolicies.defaults # Nil, NEW default \in AuthzSwitches
  PROVE  OnlyAuthzOff(in, AuthzTurnedOff(in, default), default)
<1> SUFFICES ASSUME NEW i, i = in.pkg.spec.istio, i # Nil, i.authorizationPolicies # Nil,
                    i.authorizationPolicies.defaults # Nil,
                    NEW in2, in2 = [in EXCEPT !.pkg.spec.istio.authorizationPolicies.defaults[default] = FALSE],
                    NEW j, j = in2.pkg.spec.istio
             PROVE  /\ SameApartFromDefaults(in, in2) /\ in2.pkg.spec.networkPolicies = in.pkg.spec.networkPolicies
                    /\ ~authzDefaultWanted(j, default)
                    /\ \A e \in AuthzSwitches : e # default => (authzDefaultWanted(j, e) <=> authzDefaultWanted(i, e))
                    /\ authzDefaultWanted(i, default) <=> IsOn(i.authorizationPolicies.defaults, default)
  BY DEF AuthzTurnedOff, OnlyAuthzOff
<1> DEFINE authz == i.authorizationPolicies
           d2 == [authz.defaults EXCEPT ![default] = FALSE]
           authz2 == [authz EXCEPT !.defaults = d2]
           i2 == [i EXCEPT !.authorizationPolicies = authz2]
           spec2 == [in.pkg.spec EXCEPT !.istio = i2]
           pkg2 == [in.pkg EXCEPT !.spec = spec2]
<1>1. SoundIstio(i) /\ SoundAuthorization(authz) /\ SoundPackage(in.pkg)
  BY DEF SoundInput, SoundIstio
<1>2. /\ HasFields(in, {"pkg", "kubeAPIPorts", "shared", "sharedErr", "ingressConfig", "ingressConfigErr"})
      /\ HasFields(in.pkg, {"name", "ns", "uid", "spec"})
      /\ HasFields(in.pkg.spec, {"istio", "networkPolicies", "routes"})
  BY <1>1 DEF SoundInput, SoundPackage
<1>3. /\ HasFields(i, {"enabled", "ambient", "prependReleaseName", "mtls", "sidecar", "serviceEntries",
                       "authorizationPolicies"})
      /\ HasFields(authz, {"enabled", "generateFromNetpol", "defaults", "custom", "additionalPolicies"})
      /\ HasFields(authz.defaults, {"enabled"} \cup AuthzSwitches)
  BY <1>1 DEF SoundIstio, SoundAuthorization, SoundDefaults
<1>4. d2 # Nil /\ authz2 # Nil /\ i2 # Nil
  <2>1. d2 # Nil
    BY <1>1 DEF SoundAuthorization, SoundDefaults
  <2>2. authz2 # Nil
    BY <1>1 DEF SoundAuthorization, StaysWithDefaults
  <2>3. i2 # Nil
    BY <1>1 DEF SoundIstio, StaysWith
  <2> QED BY <2>1, <2>2, <2>3
<1>5. in2 = [in EXCEPT !.pkg = pkg2]
  OBVIOUS
<1>6. /\ d2[default] = FALSE /\ d2.enabled = authz.defaults.enabled
      /\ \A e \in AuthzSwitches : e # default => d2[e] = authz.defaults[e]
  BY <1>3 DEF HasFields, AuthzSwitches
<1> HIDE DEF d2
<1>7. /\ authz2.defaults = d2 /\ authz2.enabled = authz.enabled /\ authz2.generateFromNetpol = authz.generateFromNetpol
      /\ authz2.custom = authz.custom /\ authz2.additionalPolicies = authz.additionalPolicies
  BY <1>3 DEF HasFields
<1> HIDE DEF authz2
<1>8. /\ i2.authorizationPolicies = authz2 /\ i2.enabled = i.enabled /\ i2.ambient = i.ambient
      /\ i2.prependReleaseName = i.prependReleaseName /\ i2.mtls = i.mtls /\ i2.sidecar = i.sidecar
      /\ i2.serviceEntries = i.serviceEntries
  BY <1>3 DEF HasFields
<1> HIDE DEF i2
<1>9. spec2.istio = i2 /\ spec2.networkPolicies = in.pkg.spec.networkPolicies /\ spec2.routes = in.pkg.spec.routes
  BY <1>2 DEF HasFields
<1> HIDE DEF spec2
<1>10. pkg2.spec = spec2 /\ pkg2.name = in.pkg.name /\ pkg2.ns = in.pkg.ns /\ pkg2.uid = in.pkg.uid
  BY <1>2 DEF HasFields
<1> HIDE DEF pkg2
<1>11. /\ in2.pkg = pkg2 /\ in2.kubeAPIPorts = in.kubeAPIPorts /\ in2.shared = in.shared /\ in2.sharedErr = in.sharedErr
       /\ in2.ingressConfig = in.ingressConfig /\ in2.ingressConfigErr = in.ingressConfigErr
  BY <1>2, <1>5 DEF HasFields
<1>12. j = i2
  BY <1>9, <1>10, <1>11
<1>13. SameMesh(i, j)
  BY <1>4, <1>7, <1>8, <1>12 DEF SameMesh, SameAuthorization
<1>14. in2.pkg.spec.networkPolicies = in.pkg.spec.networkPolicies
  BY <1>9, <1>10, <1>11
<1>15. SameApartFromDefaults(in, in2)
  BY <1>9, <1>10, <1>11, <1>13, <1>14 DEF SameApartFromDefaults, SamePackage, SamePolicies, Env
<1>16. /\ ~authzDefaultWanted(j, default)
       /\ \A e \in AuthzSwitches : e # default => (authzDefaultWanted(j, e) <=> authzDefaultWanted(i, e))
  BY <1>4, <1>6, <1>7, <1>8, <1>12 DEF authzDefaultWanted, defaultEnabled
<1>17. authzDefaultWanted(i, default) <=> IsOn(i.authorizationPolicies.defaults, default)
  BY DEF authzDefaultWanted, defaultEnabled, IsOn
<1> QED BY <1>14, <1>15, <1>16, <1>17

\* The default AuthorizationPolicy that a switch is named for.
IsAuthzDefault(x, pkg, istio, default) ==
  /\ x.kind = "AuthorizationPolicy"
  /\ x.name = prependName(istio.prependReleaseName, pkg.name, <<"default", "authz", "allow">> \o Switches.authz[default])

AuthzDefaultsMade(istio, npSpec) == authzEnabled(istio) /\ (npSpec = Nil \/ SideEnabled(npSpec.ingress))

\* The policy of one switch, and the list of both.
AuthzSwitch(pkg, istio, default) ==
  Authz(prependName(istio.prependReleaseName, pkg.name, <<"default", "authz", "allow">> \o Switches.authz[default]),
        NoMetadata, IF default = "denyAll" THEN AllowNothing ELSE Allow(Nil, <<AuthzRule("namespace", pkg.ns, <<>>)>>))
AuthzDefault(pkg, istio, default) ==
  IF authzDefaultWanted(istio, default) THEN <<AuthzSwitch(pkg, istio, default)>> ELSE <<>>

LEMMA AuthzDefaultsAre ==
  ASSUME NEW pkg, NEW istio, NEW npSpec
  PROVE  /\ generateDefaultAuthzPolicies(pkg, istio, npSpec) =
              IF AuthzDefaultsMade(istio, npSpec)
                THEN AuthzDefault(pkg, istio, "denyAll") \o AuthzDefault(pkg, istio, "allowInNamespace") ELSE <<>>
         /\ \A default : IsAuthzDefault(AuthzSwitch(pkg, istio, default), pkg, istio, default)
         /\ \A default : IsList(AuthzDefault(pkg, istio, default))
<1>1. Switches.authz["denyAll"] = <<"nothing">> /\ Switches.authz["allowInNamespace"] = <<"all", "in", "ns">>
  BY DEF Switches
<1>2. /\ AuthzSwitch(pkg, istio, "denyAll") =
           Authz(prependName(istio.prependReleaseName, pkg.name, <<"default", "authz", "allow">> \o <<"nothing">>),
                 NoMetadata, AllowNothing)
      /\ AuthzSwitch(pkg, istio, "allowInNamespace") =
           Authz(prependName(istio.prependReleaseName, pkg.name, <<"default", "authz", "allow">> \o <<"all", "in", "ns">>),
                 NoMetadata, Allow(Nil, <<AuthzRule("namespace", pkg.ns, <<>>)>>))
  BY <1>1 DEF AuthzSwitch
<1>3. generateDefaultAuthzPolicies(pkg, istio, npSpec) =
        IF AuthzDefaultsMade(istio, npSpec)
          THEN AuthzDefault(pkg, istio, "denyAll") \o AuthzDefault(pkg, istio, "allowInNamespace") ELSE <<>>
  BY <1>2 DEF generateDefaultAuthzPolicies, AuthzDefaultsMade, AuthzDefault
<1>4. \A default : IsAuthzDefault(AuthzSwitch(pkg, istio, default), pkg, istio, default)
  BY DEF IsAuthzDefault, AuthzSwitch, Authz, GeneratedObject
<1>5. \A default : IsList(AuthzDefault(pkg, istio, default))
  BY ShortLists DEF AuthzDefault
<1> QED BY <1>3, <1>4, <1>5

AuthzEffect(p, q, i, j, npSpec, default) ==
  IF authzDefaultWanted(i, default) /\ AuthzDefaultsMade(i, npSpec)
    THEN \E x : /\ IsAuthzDefault(x, p, i, default)
                /\ Lacks(generateDefaultAuthzPolicies(p, i, npSpec), generateDefaultAuthzPolicies(q, j, npSpec), x)
    ELSE generateDefaultAuthzPolicies(q, j, npSpec) = generateDefaultAuthzPolicies(p, i, npSpec)

LEMMA AuthzSwitched ==
  ASSUME NEW p, NEW q, SamePackage(p, q), NEW i, NEW j, j.prependReleaseName = i.prependReleaseName,
         authzEnabled(j) = authzEnabled(i), NEW npSpec, NEW default \in AuthzSwitches, ~authzDefaultWanted(j, default),
         \A e \in AuthzSwitches : e # default => (authzDefaultWanted(j, e) <=> authzDefaultWanted(i, e))
  PROVE  AuthzEffect(p, q, i, j, npSpec, default)
<1> SUFFICES IF authzDefaultWanted(i, default) /\ AuthzDefaultsMade(i, npSpec)
               THEN \E x : /\ IsAuthzDefault(x, p, i, default)
                           /\ Lacks(generateDefaultAuthzPolicies(p, i, npSpec), generateDefaultAuthzPolicies(q, j, npSpec), x)
               ELSE generateDefaultAuthzPolicies(q, j, npSpec) = generateDefaultAuthzPolicies(p, i, npSpec)
  BY DEF AuthzEffect
<1> DEFINE One(e) == AuthzDefault(p, i, e)
           Two(e) == AuthzDefault(q, j, e)
           a == One("denyAll")
           b == One("allowInNamespace")
           made == generateDefaultAuthzPolicies(p, i, npSpec)
           less == generateDefaultAuthzPolicies(q, j, npSpec)
<1>1. \A e : AuthzSwitch(q, j, e) = AuthzSwitch(p, i, e)
  BY DEF AuthzSwitch, SamePackage
<1>2. Two(default) = <<>> /\ \A e \in AuthzSwitches : e # default => Two(e) = One(e)
  BY <1>1 DEF AuthzDefault
<1>3. /\ authzDefaultWanted(i, default) => One(default) = <<AuthzSwitch(p, i, default)>>
      /\ ~authzDefaultWanted(i, default) => One(default) = <<>>
  BY DEF AuthzDefault
<1>4. IsList(a) /\ IsList(b)
  BY AuthzDefaultsAre
<1>5. /\ made = IF AuthzDefaultsMade(i, npSpec) THEN a \o b ELSE <<>>
      /\ less = IF AuthzDefaultsMade(i, npSpec) THEN Two("denyAll") \o Two("allowInNamespace") ELSE <<>>
  BY AuthzDefaultsAre DEF AuthzDefaultsMade
<1>6. IsAuthzDefault(AuthzSwitch(p, i, default), p, i, default)
  BY AuthzDefaultsAre
<1> HIDE DEF One, Two, made, less
<1>7. \/ default = "denyAll" /\ One(default) = a /\ (AuthzDefaultsMade(i, npSpec) => less = <<>> \o b)
      \/ default = "allowInNamespace" /\ One(default) = b /\ (AuthzDefaultsMade(i, npSpec) => less = a \o <<>>)
  BY <1>2, <1>5 DEF AuthzSwitches
<1> HIDE DEF a, b
<1>8. CASE authzDefaultWanted(i, default) /\ AuthzDefaultsMade(i, npSpec)
  <2> DEFINE x == AuthzSwitch(p, i, default)
  <2>1. One(default) = <<x>> /\ Lacks(<<x>>, <<>>, x)
    BY <1>3, <1>8, LacksOne
  <2> HIDE DEF x
  <2>2. Lacks(made, less, x)
    BY <1>4, <1>5, <1>7, <1>8, <2>1, LacksLeft, LacksRight
  <2> QED BY <1>6, <1>8, <2>2 DEF x, made, less
<1>9. CASE ~(authzDefaultWanted(i, default) /\ AuthzDefaultsMade(i, npSpec))
  BY <1>3, <1>5, <1>7, <1>9 DEF made, less
<1> QED BY <1>8, <1>9

\* What is missing of a rendering has the kind and the name of the object that its part lacks.
LEMMA TakesOne ==
  ASSUME NEW in, SoundInput(in), Generate(in).ok, NEW in2, SameApartFromDefaults(in, in2),
         NEW n \in {2, 4}, \A k \in {2, 4} : k # n => PartOf(in2, k) = PartOf(in, k),
         PartOf(in2, n).ok, NEW x, Lacks(PartOf(in, n).objs, PartOf(in2, n).objs, x)
  PROVE  \E m \in DOMAIN Generate(in).objs :
           /\ Generate(in).objs[m].kind = x.kind /\ Generate(in).objs[m].name = x.name
           /\ Generate(in2) = Ok(RemoveAt(Generate(in).objs, m))
<1>1. PICK m \in DOMAIN Generate(in).objs :
        Generate(in).objs[m] = LastPass(in, x) /\ Generate(in2) = Ok(RemoveAt(Generate(in).objs, m))
  BY OnePartLacks
<1>2. SoundObject(x)
  <2>1. resolveInboundRoutes(in).ok /\ PartOf(in, n).ok
    BY GenerateMakes
  <2>2. SoundResult(PartOf(in, n))
    BY <2>1, PartSound
  <2> QED BY <2>1, <2>2 DEF Lacks, SoundResult, SoundObjects
<1>3. LastPass(in, x).kind = x.kind /\ LastPass(in, x).name = x.name
  BY <1>2, LastPassKeeps
<1> QED BY <1>1, <1>3

\* The fourth part does not depend on the switches of the NetworkPolicies.
LEMMA AuthzDefaultsSame ==
  ASSUME NEW p, NEW q, SamePackage(p, q), NEW i, NEW s, NEW t, s # Nil, t # Nil,
         SideEnabled(t.ingress) = SideEnabled(s.ingress)
  PROVE  generateDefaultAuthzPolicies(q, i, t) = generateDefaultAuthzPolicies(p, i, s)
<1>1. AuthzDefaultsMade(i, t) <=> AuthzDefaultsMade(i, s)
  BY DEF AuthzDefaultsMade
<1>2. \A e : AuthzDefault(q, i, e) = AuthzDefault(p, i, e)
  BY DEF AuthzDefault, AuthzSwitch, SamePackage
<1> DEFINE Both(a) == AuthzDefault(a, i, "denyAll") \o AuthzDefault(a, i, "allowInNamespace")
<1>3. /\ generateDefaultAuthzPolicies(q, i, t) = IF AuthzDefaultsMade(i, t) THEN Both(q) ELSE <<>>
      /\ generateDefaultAuthzPolicies(p, i, s) = IF AuthzDefaultsMade(i, s) THEN Both(p) ELSE <<>>
  BY AuthzDefaultsAre
<1>4. Both(q) = Both(p)
  BY <1>2
<1> HIDE DEF Both
<1> QED BY <1>1, <1>3, <1>4

\* What a switch that is turned off does to a rendering.
EgressSwitchEffect(in, in2, default) ==
  LET s == in.pkg.spec.networkPolicies
  IN IF IsOn(s.egress.defaults, default) /\ ~(default = "allowIstiod" /\ istioAmbient(in.pkg.spec.istio))
       THEN \E m \in DOMAIN Generate(in).objs :
              /\ IsDefault(Generate(in).objs[m], in.pkg, s, "egress", default)
              /\ Generate(in2) = Ok(RemoveAt(Generate(in).objs, m))
       ELSE Generate(in2) = Generate(in)

LEMMA EgressSwitchedOff ==
  ASSUME NEW in, SoundInput(in), Generate(in).ok,
         in.pkg.spec.networkPolicies # Nil, in.pkg.spec.networkPolicies.enabled, NEW in2,
         NEW default \in EgressSwitches, OnlyEgressOff(in, in2, default)
  PROVE  EgressSwitchEffect(in, in2, default)
<1> DEFINE p == in.pkg
           q == in2.pkg
           s == in.pkg.spec.networkPolicies
           t == in2.pkg.spec.networkPolicies
           i == in.pkg.spec.istio
<1>1. /\ SameApartFromDefaults(in, in2) /\ in2.pkg.spec.istio = i
      /\ t.ingress = s.ingress /\ SwitchedOff(s.egress, t.egress, default, EgressSwitches)
      /\ Wanted(s.egress, default) <=> IsOn(s.egress.defaults, default)
  BY DEF OnlyEgressOff
<1>2. SamePackage(p, q) /\ t # Nil /\ t.prependReleaseName = s.prependReleaseName
  BY <1>1 DEF SameApartFromDefaults, SamePolicies
<1>3. /\ PolicyPartsOf(in)[1] = Ok(defaultEgressPolicies(p, s, i))
      /\ PolicyPartsOf(in)[2] = Ok(defaultIngressPolicies(p, s, i))
      /\ PolicyPartsOf(in2)[1] = Ok(defaultEgressPolicies(q, t, i))
      /\ PolicyPartsOf(in2)[2] = Ok(defaultIngressPolicies(q, t, i))
  BY <1>1 DEF PolicyParts, PolicyPartsOf
<1>4. PartOf(in2, 4) = PartOf(in, 4)
  <2>1. SideEnabled(t.ingress) = SideEnabled(s.ingress)
    BY <1>1 DEF SwitchedOff
  <2>2. generateDefaultAuthzPolicies(q, i, t) = generateDefaultAuthzPolicies(p, i, s)
    BY <1>2, <2>1, AuthzDefaultsSame
  <2>3. /\ PartOf(in, 4) = Ok(generateDefaultAuthzPolicies(p, i, s))
        /\ PartOf(in2, 4) = Ok(generateDefaultAuthzPolicies(q, i, t))
    BY <1>1, PartsAre
  <2> QED BY <2>2, <2>3
<1>5. defaultIngressPolicies(q, t, i) = defaultIngressPolicies(p, s, i)
  <2> HIDE DEF p, q, s, t, i
  <2> QED BY <1>1, <1>2, Unswitched
<1>6. EgressEffect(p, q, s, t, i, i, default)
  <2> HIDE DEF p, q, s, t, i
  <2> QED BY <1>1, <1>2, EgressSwitched
<1>7. /\ PolicyPartsOf(in2)[1] = PolicyPartsOf(in)[1] => PartOf(in2, 2) = PartOf(in, 2)
      /\ \A x : PolicyPartsOf(in2)[1].ok /\ Lacks(PolicyPartsOf(in)[1].objs, PolicyPartsOf(in2)[1].objs, x) =>
           PartOf(in2, 2).ok /\ Lacks(PartOf(in, 2).objs, PartOf(in2, 2).objs, x)
  <2>1. 1 \in 1..2 /\ \A k \in 1..2 : k # 1 => PolicyPartsOf(in2)[k] = PolicyPartsOf(in)[k]
    BY <1>3, <1>5
  <2> QED BY <1>1, <2>1, PolicyPartLacks
<1>8. CASE EgressWanted(s, i, default)
  <2>1. PICK x : /\ IsDefault(x, p, s, "egress", default)
                 /\ Lacks(defaultEgressPolicies(p, s, i), defaultEgressPolicies(q, t, i), x)
    BY <1>6, <1>8 DEF EgressEffect
  <2>2. PartOf(in2, 2).ok /\ Lacks(PartOf(in, 2).objs, PartOf(in2, 2).objs, x)
    <3>1. PolicyPartsOf(in2)[1].ok /\ Lacks(PolicyPartsOf(in)[1].objs, PolicyPartsOf(in2)[1].objs, x)
      BY <1>3, <2>1 DEF Ok
    <3> QED BY <1>7, <3>1
  <2>3. \E m \in DOMAIN Generate(in).objs :
          /\ Generate(in).objs[m].kind = x.kind /\ Generate(in).objs[m].name = x.name
          /\ Generate(in2) = Ok(RemoveAt(Generate(in).objs, m))
    <3>1. 2 \in {2, 4} /\ \A k \in {2, 4} : k # 2 => PartOf(in2, k) = PartOf(in, k)
      BY <1>4
    <3> QED BY <1>1, <2>2, <3>1, TakesOne
  <2>4. IsOn(s.egress.defaults, default) /\ ~(default = "allowIstiod" /\ istioAmbient(i))
    BY <1>1, <1>8 DEF EgressWanted
  <2>5. \E m \in DOMAIN Generate(in).objs :
          /\ IsDefault(Generate(in).objs[m], p, s, "egress", default)
          /\ Generate(in2) = Ok(RemoveAt(Generate(in).objs, m))
    BY <2>1, <2>3 DEF IsDefault
  <2> QED BY <2>4, <2>5 DEF EgressSwitchEffect
<1>9. CASE ~EgressWanted(s, i, default)
  <2>1. PartOf(in2, 2) = PartOf(in, 2)
    <3>1. defaultEgressPolicies(q, t, i) = defaultEgressPolicies(p, s, i)
      BY <1>6, <1>9 DEF EgressEffect
    <3>2. PolicyPartsOf(in2)[1] = PolicyPartsOf(in)[1]
      BY <1>3, <3>1
    <3> QED BY <1>7, <3>2
  <2>2. Generate(in2) = Generate(in)
    BY <1>1, <1>4, <2>1, AllPartsSame
  <2>3. ~(IsOn(s.egress.defaults, default) /\ ~(default = "allowIstiod" /\ istioAmbient(i)))
    BY <1>1, <1>9 DEF EgressWanted
  <2> QED BY <2>2, <2>3 DEF EgressSwitchEffect
<1> QED BY <1>8, <1>9

\* What a switch that is turned off does to a rendering.
IngressSwitchEffect(in, in2, default) ==
  LET s == in.pkg.spec.networkPolicies
  IN IF IsOn(s.ingress.defaults, default) /\ ~(default = "allowPrometheusToIstioSidecar" /\ istioAmbient(in.pkg.spec.istio))
       THEN \E m \in DOMAIN Generate(in).objs :
              /\ IsDefault(Generate(in).objs[m], in.pkg, s, "ingress", default)
              /\ Generate(in2) = Ok(RemoveAt(Generate(in).objs, m))
       ELSE Generate(in2) = Generate(in)

LEMMA IngressSwitchedOff ==
  ASSUME NEW in, SoundInput(in), Generate(in).ok,
         in.pkg.spec.networkPolicies # Nil, in.pkg.spec.networkPolicies.enabled, NEW in2,
         NEW default \in IngressSwitches, OnlyIngressOff(in, in2, default)
  PROVE  IngressSwitchEffect(in, in2, default)
<1> DEFINE p == in.pkg
           q == in2.pkg
           s == in.pkg.spec.networkPolicies
           t == in2.pkg.spec.networkPolicies
           i == in.pkg.spec.istio
<1>1. /\ SameApartFromDefaults(in, in2) /\ in2.pkg.spec.istio = i
      /\ t.egress = s.egress /\ SwitchedOff(s.ingress, t.ingress, default, IngressSwitches)
      /\ Wanted(s.ingress, default) <=> IsOn(s.ingress.defaults, default)
  BY DEF OnlyIngressOff
<1>2. SamePackage(p, q) /\ t # Nil /\ t.prependReleaseName = s.prependReleaseName
  BY <1>1 DEF SameApartFromDefaults, SamePolicies
<1>3. /\ PolicyPartsOf(in)[1] = Ok(defaultEgressPolicies(p, s, i))
      /\ PolicyPartsOf(in)[2] = Ok(defaultIngressPolicies(p, s, i))
      /\ PolicyPartsOf(in2)[1] = Ok(defaultEgressPolicies(q, t, i))
      /\ PolicyPartsOf(in2)[2] = Ok(defaultIngressPolicies(q, t, i))
  BY <1>1 DEF PolicyParts, PolicyPartsOf
<1>4. PartOf(in2, 4) = PartOf(in, 4)
  <2>1. SideEnabled(t.ingress) = SideEnabled(s.ingress)
    BY <1>1 DEF SwitchedOff
  <2>2. generateDefaultAuthzPolicies(q, i, t) = generateDefaultAuthzPolicies(p, i, s)
    BY <1>2, <2>1, AuthzDefaultsSame
  <2>3. /\ PartOf(in, 4) = Ok(generateDefaultAuthzPolicies(p, i, s))
        /\ PartOf(in2, 4) = Ok(generateDefaultAuthzPolicies(q, i, t))
    BY <1>1, PartsAre
  <2> QED BY <2>2, <2>3
<1>5. defaultEgressPolicies(q, t, i) = defaultEgressPolicies(p, s, i)
  <2> HIDE DEF p, q, s, t, i
  <2> QED BY <1>1, <1>2, Unswitched
<1>6. IngressEffect(p, q, s, t, i, i, default)
  <2> HIDE DEF p, q, s, t, i
  <2> QED BY <1>1, <1>2, IngressSwitched
<1>7. /\ PolicyPartsOf(in2)[2] = PolicyPartsOf(in)[2] => PartOf(in2, 2) = PartOf(in, 2)
      /\ \A x : PolicyPartsOf(in2)[2].ok /\ Lacks(PolicyPartsOf(in)[2].objs, PolicyPartsOf(in2)[2].objs, x) =>
           PartOf(in2, 2).ok /\ Lacks(PartOf(in, 2).objs, PartOf(in2, 2).objs, x)
  <2>1. 2 \in 1..2 /\ \A k \in 1..2 : k # 2 => PolicyPartsOf(in2)[k] = PolicyPartsOf(in)[k]
    BY <1>3, <1>5
  <2> QED BY <1>1, <2>1, PolicyPartLacks
<1>8. CASE IngressWanted(s, i, default)
  <2>1. PICK x : /\ IsDefault(x, p, s, "ingress", default)
                 /\ Lacks(defaultIngressPolicies(p, s, i), defaultIngressPolicies(q, t, i), x)
    BY <1>6, <1>8 DEF IngressEffect
  <2>2. PartOf(in2, 2).ok /\ Lacks(PartOf(in, 2).objs, PartOf(in2, 2).objs, x)
    <3>1. PolicyPartsOf(in2)[2].ok /\ Lacks(PolicyPartsOf(in)[2].objs, PolicyPartsOf(in2)[2].objs, x)
      BY <1>3, <2>1 DEF Ok
    <3> QED BY <1>7, <3>1
  <2>3. \E m \in DOMAIN Generate(in).objs :
          /\ Generate(in).objs[m].kind = x.kind /\ Generate(in).objs[m].name = x.name
          /\ Generate(in2) = Ok(RemoveAt(Generate(in).objs, m))
    <3>1. 2 \in {2, 4} /\ \A k \in {2, 4} : k # 2 => PartOf(in2, k) = PartOf(in, k)
      BY <1>4
    <3> QED BY <1>1, <2>2, <3>1, TakesOne
  <2>4. IsOn(s.ingress.defaults, default) /\ ~(default = "allowPrometheusToIstioSidecar" /\ istioAmbient(i))
    BY <1>1, <1>8 DEF IngressWanted
  <2>5. \E m \in DOMAIN Generate(in).objs :
          /\ IsDefault(Generate(in).objs[m], p, s, "ingress", default)
          /\ Generate(in2) = Ok(RemoveAt(Generate(in).objs, m))
    BY <2>1, <2>3 DEF IsDefault
  <2> QED BY <2>4, <2>5 DEF IngressSwitchEffect
<1>9. CASE ~IngressWanted(s, i, default)
  <2>1. PartOf(in2, 2) = PartOf(in, 2)
    <3>1. defaultIngressPolicies(q, t, i) = defaultIngressPolicies(p, s, i)
      BY <1>6, <1>9 DEF IngressEffect
    <3>2. PolicyPartsOf(in2)[2] = PolicyPartsOf(in)[2]
      BY <1>3, <3>1
    <3> QED BY <1>7, <3>2
  <2>2. Generate(in2) = Generate(in)
    BY <1>1, <1>4, <2>1, AllPartsSame
  <2>3. ~(IsOn(s.ingress.defaults, default) /\ ~(default = "allowPrometheusToIstioSidecar" /\ istioAmbient(i)))
    BY <1>1, <1>9 DEF IngressWanted
  <2> QED BY <2>2, <2>3 DEF IngressSwitchEffect
<1> QED BY <1>8, <1>9

AuthzSwitchEffect(in, in2, default) ==
  LET i == in.pkg.spec.istio
  IN IF /\ IsOn(i.authorizationPolicies.defaults, default) /\ authzEnabled(i)
        /\ SideEnabled(in.pkg.spec.networkPolicies.ingress)
       THEN \E m \in DOMAIN Generate(in).objs :
              /\ IsAuthzDefault(Generate(in).objs[m], in.pkg, i, default)
              /\ Generate(in2) = Ok(RemoveAt(Generate(in).objs, m))
       ELSE Generate(in2) = Generate(in)

LEMMA AuthzSwitchedOff ==
  ASSUME NEW in, SoundInput(in), Generate(in).ok,
         in.pkg.spec.networkPolicies # Nil, in.pkg.spec.networkPolicies.enabled, in.pkg.spec.istio # Nil,
         NEW in2, NEW default \in AuthzSwitches, OnlyAuthzOff(in, in2, default)
  PROVE  AuthzSwitchEffect(in, in2, default)
<1> DEFINE p == in.pkg
           q == in2.pkg
           s == in.pkg.spec.networkPolicies
           i == in.pkg.spec.istio
           j == in2.pkg.spec.istio
<1>1. /\ SameApartFromDefaults(in, in2) /\ in2.pkg.spec.networkPolicies = s
      /\ ~authzDefaultWanted(j, default)
      /\ \A e \in AuthzSwitches : e # default => (authzDefaultWanted(j, e) <=> authzDefaultWanted(i, e))
      /\ authzDefaultWanted(i, default) <=> IsOn(i.authorizationPolicies.defaults, default)
  BY DEF OnlyAuthzOff
<1>2. SamePackage(p, q) /\ SameMesh(i, j)
  BY <1>1 DEF SameApartFromDefaults
<1>3. istioAmbient(j) = istioAmbient(i) /\ authzEnabled(j) = authzEnabled(i) /\ j.prependReleaseName = i.prependReleaseName
  BY <1>2, MeshSame DEF SameMesh
<1>4. /\ PartOf(in, 4) = Ok(generateDefaultAuthzPolicies(p, i, s))
      /\ PartOf(in2, 4) = Ok(generateDefaultAuthzPolicies(q, j, s))
  BY <1>1, PartsAre
<1>5. AuthzEffect(p, q, i, j, s, default)
  <2> HIDE DEF p, q, i, j, s
  <2> QED BY <1>1, <1>2, <1>3, AuthzSwitched
<1>6. PartOf(in2, 2) = PartOf(in, 2)
  <2>1. /\ defaultEgressPolicies(q, s, j) = defaultEgressPolicies(p, s, i)
        /\ defaultIngressPolicies(q, s, j) = defaultIngressPolicies(p, s, i)
    <3> HIDE DEF p, q, i, j, s
    <3> QED BY <1>2, <1>3, Unswitched
  <2>2. 1 \in 1..2 /\ \A k \in 1..2 : PolicyPartsOf(in2)[k] = PolicyPartsOf(in)[k]
    BY <1>1, <2>1 DEF PolicyParts, PolicyPartsOf
  <2>3. PolicyPartsOf(in2)[1] = PolicyPartsOf(in)[1] => PartOf(in2, 2) = PartOf(in, 2)
    BY <1>1, <2>2, PolicyPartLacks
  <2> QED BY <2>2, <2>3
<1>7. AuthzDefaultsMade(i, s) <=> authzEnabled(i) /\ SideEnabled(s.ingress)
  BY DEF AuthzDefaultsMade
<1>8. CASE authzDefaultWanted(i, default) /\ AuthzDefaultsMade(i, s)
  <2>1. PICK x : /\ IsAuthzDefault(x, p, i, default)
                 /\ Lacks(generateDefaultAuthzPolicies(p, i, s), generateDefaultAuthzPolicies(q, j, s), x)
    BY <1>5, <1>8 DEF AuthzEffect
  <2>2. PartOf(in2, 4).ok /\ Lacks(PartOf(in, 4).objs, PartOf(in2, 4).objs, x)
    BY <1>4, <2>1 DEF Ok
  <2>3. \E m \in DOMAIN Generate(in).objs :
          /\ Generate(in).objs[m].kind = x.kind /\ Generate(in).objs[m].name = x.name
          /\ Generate(in2) = Ok(RemoveAt(Generate(in).objs, m))
    <3>1. 4 \in {2, 4} /\ \A k \in {2, 4} : k # 4 => PartOf(in2, k) = PartOf(in, k)
      BY <1>6
    <3> QED BY <1>1, <2>2, <3>1, TakesOne
  <2>4. \E m \in DOMAIN Generate(in).objs :
          /\ IsAuthzDefault(Generate(in).objs[m], p, i, default)
          /\ Generate(in2) = Ok(RemoveAt(Generate(in).objs, m))
    BY <2>1, <2>3 DEF IsAuthzDefault
  <2>5. IsOn(i.authorizationPolicies.defaults, default) /\ authzEnabled(i) /\ SideEnabled(s.ingress)
    BY <1>1, <1>7, <1>8
  <2> QED BY <2>4, <2>5 DEF AuthzSwitchEffect
<1>9. CASE ~(authzDefaultWanted(i, default) /\ AuthzDefaultsMade(i, s))
  <2>1. PartOf(in2, 4) = PartOf(in, 4)
    BY <1>4, <1>5, <1>9 DEF AuthzEffect
  <2>2. Generate(in2) = Generate(in)
    BY <1>1, <1>6, <2>1, AllPartsSame
  <2>3. ~(IsOn(i.authorizationPolicies.defaults, default) /\ authzEnabled(i) /\ SideEnabled(s.ingress))
    BY <1>1, <1>7, <1>9
  <2> QED BY <2>2, <2>3 DEF AuthzSwitchEffect
<1> QED BY <1>8, <1>9

-----------------------------------------------------------------------------
\* Every default can be switched off on its own, whatever the Package: of all the
\* objects of all the components, turning a switch off takes away the policy that it
\* is named for, and nothing else (egressDenyAll ... ingressAllowPromToSidecar,
\* authzAllowNothing and authzAllowAllInNS).
THEOREM DefaultsAreIndependent == Spec => []DefaultsSwitchAlone
<1>1. IInv => DefaultsSwitchAlone
  <2> SUFFICES ASSUME IInv, Rendered, NpEnabled PROVE DefaultsSwitchAlone
    BY DEF DefaultsSwitchAlone
  <2> DEFINE np == input.pkg.spec.networkPolicies
             istio == input.pkg.spec.istio
  <2>1. /\ SoundInput(input) /\ output = Generate(input) /\ Generate(input).ok
        /\ np # Nil /\ np.enabled
    BY RenderedFacts DEF NpEnabled
  <2>2. /\ DOMAIN Switches["egress"] = EgressSwitches /\ DOMAIN Switches["ingress"] = IngressSwitches
        /\ DOMAIN Switches.authz = AuthzSwitches
    BY DEF Switches, EgressSwitches, IngressSwitches, AuthzSwitches
  <2>3. ASSUME NEW off, NEW kind, NEW name,
               \E m \in DOMAIN Generate(input).objs :
                 /\ Generate(input).objs[m].kind = kind /\ Generate(input).objs[m].name = name
                 /\ off = Ok(RemoveAt(Generate(input).objs, m))
        PROVE  LacksOnly(off, kind, name)
    BY <2>1, <2>3 DEF LacksOnly
  <2>4. ASSUME np.egress # Nil, np.egress.defaults # Nil, NEW default \in EgressSwitches
        PROVE  LET off == Generate([input EXCEPT !.pkg.spec.networkPolicies["egress"].defaults[default] = FALSE])
                   sidecars == default \in {"allowIstiod", "allowPrometheusToIstioSidecar"}
               IN IF IsOn(np["egress"].defaults, default) /\ ~(sidecars /\ istioAmbient(istio))
                    THEN LacksOnly(off, "NetworkPolicy",
                           prependName(np.prependReleaseName, input.pkg.name,
                                       <<"default", "egress">> \o Switches["egress"][default]))
                    ELSE off = output
    <3> DEFINE in2 == EgressTurnedOff(input, default)
               name == prependName(np.prependReleaseName, input.pkg.name,
                                   <<"default", "egress">> \o Switches["egress"][default])
    <3>1. EgressSwitchEffect(input, in2, default)
      BY <2>1, <2>4, EgressOff, EgressSwitchedOff
    <3>2. in2 = [input EXCEPT !.pkg.spec.networkPolicies["egress"].defaults[default] = FALSE]
      BY DEF EgressTurnedOff
    <3>3. default \in {"allowIstiod", "allowPrometheusToIstioSidecar"} <=> default = "allowIstiod"
      BY DEF EgressSwitches
    <3> HIDE DEF in2
    <3>4. IF IsOn(np.egress.defaults, default) /\ ~(default = "allowIstiod" /\ istioAmbient(istio))
            THEN LacksOnly(Generate(in2), "NetworkPolicy", name) ELSE Generate(in2) = output
      BY <2>1, <2>3, <3>1 DEF EgressSwitchEffect, IsDefault
    <3> QED BY <3>2, <3>3, <3>4
  <2>5. ASSUME np.ingress # Nil, np.ingress.defaults # Nil, NEW default \in IngressSwitches
        PROVE  LET off == Generate([input EXCEPT !.pkg.spec.networkPolicies["ingress"].defaults[default] = FALSE])
                   sidecars == default \in {"allowIstiod", "allowPrometheusToIstioSidecar"}
               IN IF IsOn(np["ingress"].defaults, default) /\ ~(sidecars /\ istioAmbient(istio))
                    THEN LacksOnly(off, "NetworkPolicy",
                           prependName(np.prependReleaseName, input.pkg.name,
                                       <<"default", "ingress">> \o Switches["ingress"][default]))
                    ELSE off = output
    <3> DEFINE in2 == IngressTurnedOff(input, default)
               name == prependName(np.prependReleaseName, input.pkg.name,
                                   <<"default", "ingress">> \o Switches["ingress"][default])
    <3>1. IngressSwitchEffect(input, in2, default)
      BY <2>1, <2>5, IngressOff, IngressSwitchedOff
    <3>2. in2 = [input EXCEPT !.pkg.spec.networkPolicies["ingress"].defaults[default] = FALSE]
      BY DEF IngressTurnedOff
    <3>3. default \in {"allowIstiod", "allowPrometheusToIstioSidecar"} <=> default = "allowPrometheusToIstioSidecar"
      BY DEF IngressSwitches
    <3> HIDE DEF in2
    <3>4. IF IsOn(np.ingress.defaults, default) /\ ~(default = "allowPrometheusToIstioSidecar" /\ istioAmbient(istio))
            THEN LacksOnly(Generate(in2), "NetworkPolicy", name) ELSE Generate(in2) = output
      BY <2>1, <2>3, <3>1 DEF IngressSwitchEffect, IsDefault
    <3> QED BY <3>2, <3>3, <3>4
  <2>6. ASSUME istio # Nil, istio.authorizationPolicies # Nil, istio.authorizationPolicies.defaults # Nil,
               NEW default \in AuthzSwitches
        PROVE  LET off == Generate([input EXCEPT !.pkg.spec.istio.authorizationPolicies.defaults[default] = FALSE])
               IN IF /\ IsOn(istio.authorizationPolicies.defaults, default)
                     /\ authzEnabled(istio) /\ SideEnabled(np.ingress)
                    THEN LacksOnly(off, "AuthorizationPolicy",
                           prependName(istio.prependReleaseName, input.pkg.name,
                                       <<"default", "authz", "allow">> \o Switches.authz[default]))
                    ELSE off = output
    <3> DEFINE in2 == AuthzTurnedOff(input, default)
               name == prependName(istio.prependReleaseName, input.pkg.name,
                                   <<"default", "authz", "allow">> \o Switches.authz[default])
    <3>1. AuthzSwitchEffect(input, in2, default)
      BY <2>1, <2>6, AuthzOff, AuthzSwitchedOff
    <3>2. in2 = [input EXCEPT !.pkg.spec.istio.authorizationPolicies.defaults[default] = FALSE]
      BY DEF AuthzTurnedOff
    <3> HIDE DEF in2
    <3>3. IF IsOn(istio.authorizationPolicies.defaults, default) /\ authzEnabled(istio) /\ SideEnabled(np.ingress)
            THEN LacksOnly(Generate(in2), "AuthorizationPolicy", name) ELSE Generate(in2) = output
      BY <2>1, <2>3, <3>1 DEF AuthzSwitchEffect, IsAuthzDefault
    <3> QED BY <3>2, <3>3
  <2> QED BY <2>2, <2>4, <2>5, <2>6 DEF DefaultsSwitchAlone
<1> QED BY <1>1, RenderingInductive, PTL

-----------------------------------------------------------------------------
(* Two Packages that meet. *)

\* An input as the mirror of another: in the namespace ns, with the one entry `to' of
\* ingress.to in place of its rules.
MirrorOf(in, m, to, ns) ==
  /\ HasFields(m, {"pkg", "kubeAPIPorts", "shared", "sharedErr", "ingressConfig", "ingressConfigErr"})
  /\ m.kubeAPIPorts = in.kubeAPIPorts /\ m.shared = in.shared /\ m.sharedErr = in.sharedErr
  /\ m.ingressConfig = in.ingressConfig /\ m.ingressConfigErr = in.ingressConfigErr
  /\ HasFields(m.pkg, {"name", "ns", "uid", "spec"}) /\ m.pkg.name = in.pkg.name /\ m.pkg.ns = ns
  /\ HasFields(m.pkg.spec, {"istio", "networkPolicies", "routes"})
  /\ m.pkg.spec.istio = in.pkg.spec.istio /\ m.pkg.spec.routes = in.pkg.spec.routes
  /\ LET s == in.pkg.spec.networkPolicies
         t == m.pkg.spec.networkPolicies
     IN /\ HasFields(t, {"enabled", "prependReleaseName", "egress", "ingress", "additionalPolicies",
                         "hbonePortInjection"})
        /\ t.enabled = s.enabled /\ t.prependReleaseName = s.prependReleaseName
        /\ t.additionalPolicies = s.additionalPolicies /\ t.hbonePortInjection = s.hbonePortInjection
        /\ t.egress = Nil /\ t.ingress = [defaults |-> Nil, to |-> <<to>>, definitions |-> NoEntries]

LEMMA MirrorIs ==
  ASSUME NEW in, SoundInput(in), in.pkg.spec.networkPolicies # Nil, NEW entry, NEW rule, NEW remote
  PROVE  MirrorOf(in, Mirror(in, entry, rule, remote), MirrorTo(in, entry, rule, remote), remote.ns)
<1> SUFFICES ASSUME NEW s, s = in.pkg.spec.networkPolicies, s # Nil,
                    NEW ingress, ingress = [defaults |-> Nil, to |-> <<MirrorTo(in, entry, rule, remote)>>,
                                            definitions |-> NoEntries],
                    NEW m, m = [in EXCEPT !.pkg.ns = remote.ns,
                                          !.pkg.spec.networkPolicies.egress = Nil,
                                          !.pkg.spec.networkPolicies.ingress = ingress]
             PROVE  MirrorOf(in, m, MirrorTo(in, entry, rule, remote), remote.ns)
  BY DEF Mirror
<1> DEFINE t == [[s EXCEPT !.egress = Nil] EXCEPT !.ingress = ingress]
           spec == [in.pkg.spec EXCEPT !.networkPolicies = t]
           pkg == [[in.pkg EXCEPT !.ns = remote.ns] EXCEPT !.spec = spec]
<1>1. /\ HasFields(in, {"pkg", "kubeAPIPorts", "shared", "sharedErr", "ingressConfig", "ingressConfigErr"})
      /\ HasFields(in.pkg, {"name", "ns", "uid", "spec"})
      /\ HasFields(in.pkg.spec, {"istio", "networkPolicies", "routes"})
      /\ HasFields(s, {"enabled", "prependReleaseName", "egress", "ingress", "additionalPolicies",
                       "hbonePortInjection"})
  BY DEF SoundInput, SoundPackage, SoundNetworkPolicies
<1>2. m = [in EXCEPT !.pkg = pkg]
  <2> DEFINE m1 == [in EXCEPT !.pkg.ns = remote.ns]
             m2 == [m1 EXCEPT !.pkg.spec.networkPolicies.egress = Nil]
             m3 == [m2 EXCEPT !.pkg.spec.networkPolicies.ingress = ingress]
  <2>1. m = m3
    OBVIOUS
  <2>2. m1.pkg = [in.pkg EXCEPT !.ns = remote.ns] /\ m1.pkg.spec = in.pkg.spec /\ m1 = [in EXCEPT !.pkg = m1.pkg]
    BY <1>1 DEF HasFields
  <2>3. DOMAIN m1 = DOMAIN in /\ DOMAIN m1.pkg = DOMAIN in.pkg
    BY <2>2
  <2> HIDE DEF m1
  <2> DEFINE pkg2 == [m1.pkg EXCEPT !.spec.networkPolicies.egress = Nil]
             pkg3 == [pkg2 EXCEPT !.spec.networkPolicies.ingress = ingress]
  <2>4. m2 = [in EXCEPT !.pkg = pkg2]
    BY <1>1, <2>2, <2>3 DEF HasFields
  <2>5. m2.pkg = pkg2
    BY <1>1, <2>4 DEF HasFields
  <2> HIDE DEF m2, pkg2
  <2>6. m3 = [in EXCEPT !.pkg = pkg3]
    BY <1>1, <2>4, <2>5 DEF HasFields
  <2>7. pkg3 = pkg
    <3> DEFINE spec2 == [in.pkg.spec EXCEPT !.networkPolicies.egress = Nil]
               spec3 == [spec2 EXCEPT !.networkPolicies.ingress = ingress]
    <3>1. pkg2 = [m1.pkg EXCEPT !.spec = spec2] /\ pkg2.spec = spec2
      BY <1>1, <2>2, <2>3 DEF HasFields, pkg2
    <3>2. pkg3 = [m1.pkg EXCEPT !.spec = spec3]
      BY <1>1, <2>2, <2>3, <3>1 DEF HasFields
    <3>3. spec3 = spec
      BY <1>1 DEF HasFields
    <3> HIDE DEF pkg3, spec3
    <3> QED BY <2>2, <3>2, <3>3
  <2> HIDE DEF m3, pkg3
  <2> QED BY <2>1, <2>6, <2>7
<1>3. /\ HasFields(t, {"enabled", "prependReleaseName", "egress", "ingress", "additionalPolicies",
                       "hbonePortInjection"})
      /\ t.egress = Nil /\ t.ingress = ingress
      /\ \A f \in {"enabled", "prependReleaseName", "additionalPolicies", "hbonePortInjection"} : t[f] = s[f]
  BY <1>1 DEF HasFields
<1> HIDE DEF t
<1>4. /\ HasFields(spec, {"istio", "networkPolicies", "routes"})
      /\ spec.networkPolicies = t /\ spec.istio = in.pkg.spec.istio /\ spec.routes = in.pkg.spec.routes
  BY <1>1 DEF HasFields
<1> HIDE DEF spec
<1>5. /\ HasFields(pkg, {"name", "ns", "uid", "spec"})
      /\ pkg.spec = spec /\ pkg.name = in.pkg.name /\ pkg.ns = remote.ns
  BY <1>1 DEF HasFields
<1> HIDE DEF pkg
<1>6. /\ HasFields(m, {"pkg", "kubeAPIPorts", "shared", "sharedErr", "ingressConfig", "ingressConfigErr"})
      /\ m.pkg = pkg /\ m.kubeAPIPorts = in.kubeAPIPorts /\ m.shared = in.shared /\ m.sharedErr = in.sharedErr
      /\ m.ingressConfig = in.ingressConfig /\ m.ingressConfigErr = in.ingressConfigErr
  BY <1>1, <1>2 DEF HasFields
<1> QED BY <1>3, <1>4, <1>5, <1>6 DEF MirrorOf

\* Such an input is one that there can be.
LEMMA MirrorSound ==
  ASSUME NEW in, SoundInput(in), in.pkg.spec.networkPolicies # Nil,
         NEW to, SoundTo(to), NEW ns, IsName(ns), ns # Wildcard, NEW m, MirrorOf(in, m, to, ns)
  PROVE  SoundInput(m)
<1> DEFINE t == m.pkg.spec.networkPolicies
           s == in.pkg.spec.networkPolicies
           ingress == [defaults |-> Nil, to |-> <<to>>, definitions |-> NoEntries]
<1>1. t.ingress = ingress /\ t.egress = Nil
  BY DEF MirrorOf
<1>2. SoundIngress(ingress)
  <2>1. AllOf(<<to>>, SoundTo)
    BY ShortLists DEF AllOf
  <2>2. /\ HasFields(ingress, {"defaults", "to", "definitions"})
        /\ ingress.defaults = Nil /\ ingress.to = <<to>> /\ ingress.definitions = NoEntries
    BY DEF HasFields
  <2> HIDE DEF ingress
  <2>3. SoundDefinitions(NoEntries)
    BY DEF SoundDefinitions, NoEntries
  <2>4. SoundDefaults(ingress.defaults, IngressSwitches) /\ StaysWithDefaults(ingress, IngressSwitches)
    BY <2>2 DEF SoundDefaults, StaysWithDefaults
  <2> QED BY <2>1, <2>2, <2>3, <2>4 DEF SoundIngress
<1>3. SoundNetworkPolicies(t)
  <2>1. ingress.defaults = Nil
    OBVIOUS
  <2> HIDE DEF ingress
  <2>2. StaysWith(t, "egress", EgressSwitches) /\ StaysWith(t, "ingress", IngressSwitches)
    BY <1>1, <2>1 DEF StaysWith
  <2>3. AllOf(s.additionalPolicies, LAMBDA raw : raw.decodes => SoundPolicy(raw.spec))
    BY DEF SoundInput, SoundNetworkPolicies
  <2>4. /\ t.additionalPolicies = s.additionalPolicies
        /\ HasFields(t, {"enabled", "prependReleaseName", "egress", "ingress", "additionalPolicies",
                         "hbonePortInjection"})
    BY DEF MirrorOf
  <2> HIDE DEF s, t
  <2>5. AllOf(t.additionalPolicies, LAMBDA raw : raw.decodes => SoundPolicy(raw.spec))
    BY <2>3, <2>4
  <2> QED BY <1>1, <1>2, <2>2, <2>4, <2>5 DEF SoundNetworkPolicies
<1>4. SoundPackage(m.pkg)
  BY DEF MirrorOf, SoundPackage
<1> HIDE DEF t, s, ingress
<1> QED BY <1>3, <1>4 DEF t, MirrorOf, SoundInput

LEMMA MirrorPlain ==
  ASSUME NEW in, in.pkg.spec.networkPolicies # Nil, PlainSpec(in.pkg.spec),
         NEW to, PlainRules(to), NEW ns, NEW m, MirrorOf(in, m, to, ns)
  PROVE  PlainSpec(m.pkg.spec)
<1> DEFINE t == m.pkg.spec.networkPolicies
           s == in.pkg.spec.networkPolicies
<1>1. PlainPolicies(s)
  BY DEF PlainSpec
<1>2. t.egress = Nil /\ t.ingress.to = <<to>> /\ t.additionalPolicies = s.additionalPolicies
  BY DEF MirrorOf
<1>3. PlainPolicies(t)
  BY <1>1, <1>2, ToSetFacts DEF PlainPolicies
<1> HIDE DEF t, s
<1> QED BY <1>3 DEF t, MirrorOf, PlainSpec

\* The list of what is enabled of one entry, and of none.
LEMMA EnabledShort ==
  ASSUME NEW e
  PROVE  /\ Enabled(<<>>) = <<>>
         /\ \A i \in DOMAIN Enabled(<<e>>) : Enabled(<<e>>)[i].key = e.key
<1>1. IsList(Enabled(<<>>)) /\ ToSet(Enabled(<<>>)) = {}
  BY ShortLists, ToSetFacts, EnabledToSet
<1>2. Enabled(<<>>) = <<>>
  <2> DEFINE none == Enabled(<<>>)
  <2> HIDE DEF none
  <2>1. IsList(none) /\ ToSet(none) = {}
    BY <1>1 DEF none
  <2>2. none = <<>>
    BY <2>1 DEF IsList, ToSet
  <2> QED BY <2>2 DEF none
<1>3. ASSUME NEW i \in DOMAIN Enabled(<<e>>) PROVE Enabled(<<e>>)[i].key = e.key
  <2> DEFINE list == <<e>>
             x == Enabled(<<e>>)[i]
  <2>1. x \in ToSet(Enabled(list))
    BY <1>3, ToSetFacts
  <2>2. IsList(list) /\ ToSet(list) = {e}
    BY ShortLists, ToSetFacts
  <2> HIDE DEF list, x
  <2>3. \E d \in ToSet(list) : x = [key |-> d.key, val |-> Target(d.val)]
    BY <2>1, <2>2, EnabledToSet
  <2>4. x.key = e.key
    BY <2>2, <2>3
  <2> QED BY <2>4 DEF x
<1> QED BY <1>2, <1>3

\* What is in order when each of it is.
LEMMA OkInOrder ==
  ASSUME NEW results, \A i \in DOMAIN results : results[i].ok
  PROVE  InOrder(results).ok
BY DEF InOrder, Ok

\* An entry with one k8s rule that can be read is rendered, at both layers.
OneRule(to, from) ==
  /\ to.val.decodes /\ Source(to.val).peer = [k8s |-> <<from>>, definition |-> <<>>, cidr |-> <<>>, literal |-> <<>>]
  /\ parseIngressLocalKey(to.key) # Nil /\ parseIngressRemoteKey(from.key) # Nil

LEMMA OneRuleRenders ==
  ASSUME NEW to, NEW from, OneRule(to, from), NEW pkg, NEW spec, NEW env, NEW prepend
  PROVE  expandIngressTarget(pkg, spec, env, to).ok /\ authzFromIngressTarget(pkg, prepend, to).ok
<1> DEFINE local == Source(to.val)
           key == parseIngressLocalKey(to.key)
           K8s(e) == LET r == parseIngressRemoteKey(e.key) IN
             FromRule(r # Nil, buildShorthandIngressNetpol(pkg, spec, key, local, e.key, r, e.val), local, e.val)
           Definition(e) == LET def == resolveIngressDefinition(spec, e.key, env) IN
             FromRule(def # Nil, buildIngressDefinitionNetpol(pkg, spec, key, local, e.key, def), local, e.val)
           Cidr(e) == LET r == parseIngressCIDRKey(e.key) IN
             FromRule(r # Nil, buildIngressCIDRNetpol(pkg, spec, key, local, e.key, r), local, e.val)
           Literal(e) ==
             FromRule(~LiteralFails(e), buildIngressLiteralNetpol(pkg, spec, key, local, e), local, e.val)
           AuthzRuleOf(e) == LET r == parseIngressRemoteKey(e.key) IN
             FromRule(r # Nil, buildAuthzFromShorthand(pkg, prepend, key, local, e.key, r), local, e.val)
           AuthzCidrOf(e) == LET r == parseIngressCIDRKey(e.key) IN
             FromRule(r # Nil, buildAuthzFromCIDR(pkg, prepend, key, local, e.key, r), local, e.val)
           k8s == Enabled(<<from>>)
           made == InOrder([i \in DOMAIN k8s |-> K8s(k8s[i])])
           authz == InOrder([i \in DOMAIN k8s |-> AuthzRuleOf(k8s[i])])
           none == InOrder([i \in {} |-> Err])
           peer == local.peer
<1>0. Enabled(<<>>) = <<>> /\ DOMAIN <<>> = {} /\ (\A i \in DOMAIN k8s : k8s[i].key = from.key)
  BY EnabledShort, ShortLists
<1>1. to.val.decodes /\ key # Nil /\ peer.k8s = <<from>> /\ peer.definition = <<>> /\ peer.cidr = <<>> /\ peer.literal = <<>>
  BY DEF OneRule
<1>2. \A i \in DOMAIN k8s : K8s(k8s[i]).ok /\ AuthzRuleOf(k8s[i]).ok
  <2>1. \A i \in DOMAIN k8s : parseIngressRemoteKey(k8s[i].key) # Nil
    BY <1>0 DEF OneRule
  <2> HIDE DEF k8s
  <2>2. ASSUME NEW e, parseIngressRemoteKey(e.key) # Nil
        PROVE  K8s(e).ok /\ AuthzRuleOf(e).ok
    <3>1. \E a, b : K8s(e) = Ok(a) /\ AuthzRuleOf(e) = Ok(b)
      BY <2>2 DEF FromRule
    <3>2. \A list : Ok(list).ok
      BY DEF Ok
    <3> HIDE DEF K8s, AuthzRuleOf
    <3> QED BY <3>1, <3>2
  <2> HIDE DEF K8s, AuthzRuleOf
  <2> QED BY <2>1, <2>2
<1>3. expandIngressTarget(pkg, spec, env, to) =
        IF peer = Nil THEN Ok(<<>>)
        ELSE InOrder(<<InOrder([i \in DOMAIN Enabled(peer.k8s) |-> K8s(Enabled(peer.k8s)[i])]),
                       InOrder([i \in DOMAIN Enabled(peer.definition) |-> Definition(Enabled(peer.definition)[i])]),
                       InOrder([i \in DOMAIN Enabled(peer.cidr) |-> Cidr(Enabled(peer.cidr)[i])]),
                       InOrder([i \in DOMAIN Enabled(peer.literal) |-> Literal(Enabled(peer.literal)[i])])>>)
  BY <1>1 DEF expandIngressTarget, ForEach
<1>4. authzFromIngressTarget(pkg, prepend, to) =
        IF peer = Nil THEN Ok(<<>>)
        ELSE InOrder(<<InOrder([i \in DOMAIN Enabled(peer.k8s) |-> AuthzRuleOf(Enabled(peer.k8s)[i])]),
                       InOrder([i \in DOMAIN Enabled(peer.cidr) |-> AuthzCidrOf(Enabled(peer.cidr)[i])])>>)
  BY <1>1 DEF authzFromIngressTarget, ForEach
<1> HIDE DEF K8s, Definition, Cidr, Literal, AuthzRuleOf, AuthzCidrOf, peer, local, key
<1>5. made.ok /\ authz.ok /\ none.ok
  <2>1. none.ok
    BY OkInOrder
  <2>2. made.ok
    <3> DEFINE f == [i \in DOMAIN k8s |-> K8s(k8s[i])]
    <3>1. \A i \in DOMAIN f : f[i].ok
      BY <1>2
    <3> HIDE DEF f
    <3> QED BY <3>1, OkInOrder DEF f
  <2>3. authz.ok
    <3> DEFINE f == [i \in DOMAIN k8s |-> AuthzRuleOf(k8s[i])]
    <3>1. \A i \in DOMAIN f : f[i].ok
      BY <1>2
    <3> HIDE DEF f
    <3> QED BY <3>1, OkInOrder DEF f
  <2> QED BY <2>1, <2>2, <2>3
<1>6. expandIngressTarget(pkg, spec, env, to) = IF peer = Nil THEN Ok(<<>>) ELSE InOrder(<<made, none, none, none>>)
  <2>1. /\ InOrder([i \in DOMAIN Enabled(peer.definition) |-> Definition(Enabled(peer.definition)[i])]) = none
        /\ InOrder([i \in DOMAIN Enabled(peer.cidr) |-> Cidr(Enabled(peer.cidr)[i])]) = none
        /\ InOrder([i \in DOMAIN Enabled(peer.literal) |-> Literal(Enabled(peer.literal)[i])]) = none
    <3>1. /\ [i \in DOMAIN Enabled(peer.definition) |-> Definition(Enabled(peer.definition)[i])] = [i \in {} |-> Err]
          /\ [i \in DOMAIN Enabled(peer.cidr) |-> Cidr(Enabled(peer.cidr)[i])] = [i \in {} |-> Err]
          /\ [i \in DOMAIN Enabled(peer.literal) |-> Literal(Enabled(peer.literal)[i])] = [i \in {} |-> Err]
      BY <1>0, <1>1
    <3> QED BY <3>1
  <2>2. InOrder([i \in DOMAIN Enabled(peer.k8s) |-> K8s(Enabled(peer.k8s)[i])]) = made
    BY <1>1
  <2> QED BY <1>3, <2>1, <2>2
<1>7. authzFromIngressTarget(pkg, prepend, to) = IF peer = Nil THEN Ok(<<>>) ELSE InOrder(<<authz, none>>)
  <2>1. InOrder([i \in DOMAIN Enabled(peer.cidr) |-> AuthzCidrOf(Enabled(peer.cidr)[i])]) = none
    <3>1. [i \in DOMAIN Enabled(peer.cidr) |-> AuthzCidrOf(Enabled(peer.cidr)[i])] = [i \in {} |-> Err]
      BY <1>0, <1>1
    <3> QED BY <3>1
  <2>2. InOrder([i \in DOMAIN Enabled(peer.k8s) |-> AuthzRuleOf(Enabled(peer.k8s)[i])]) = authz
    BY <1>1
  <2> QED BY <1>4, <2>1, <2>2
<1> HIDE DEF made, authz, none
<1>8. InOrder(<<made, none, none, none>>).ok /\ InOrder(<<authz, none>>).ok
  <2>1. \A i \in DOMAIN <<made, none, none, none>> : <<made, none, none, none>>[i].ok
    BY <1>5
  <2>2. \A i \in DOMAIN <<authz, none>> : <<authz, none>>[i].ok
    BY <1>5
  <2> QED BY <2>1, <2>2, OkInOrder
<1>9. Ok(<<>>).ok
  BY DEF Ok
<1> QED BY <1>6, <1>7, <1>8, <1>9

\* The mirror is rendered when the Package is.
LEMMA MirrorRenders ==
  ASSUME NEW in, SoundInput(in), Generate(in).ok, NetpolsEnabled(in.pkg), NEW to, NEW from, OneRule(to, from),
         NEW ns, NEW m, MirrorOf(in, m, to, ns), m.pkg.spec.networkPolicies # Nil
  PROVE  Generate(m).ok
<1> DEFINE p == in.pkg
           q == m.pkg
           s == in.pkg.spec.networkPolicies
           t == m.pkg.spec.networkPolicies
           istio == in.pkg.spec.istio
           routes == in.pkg.spec.routes
<1>1. /\ q.name = p.name /\ q.spec.istio = istio /\ q.spec.routes = routes
      /\ m.ingressConfig = in.ingressConfig /\ m.ingressConfigErr = in.ingressConfigErr
  BY DEF MirrorOf
<1>2. /\ t.enabled = s.enabled /\ t.prependReleaseName = s.prependReleaseName
      /\ t.additionalPolicies = s.additionalPolicies /\ t.egress = Nil /\ t.ingress.to = <<to>>
  BY DEF MirrorOf
<1>3. resolveInboundRoutes(in).ok /\ \A k \in 1..7 : PartOf(in, k).ok
  BY GenerateMakes
<1>4. resolveInboundRoutes(m) = resolveInboundRoutes(in) /\ Inbound(m) = Inbound(in)
  BY <1>1, InboundSame DEF Inbound
<1>5. NetpolsEnabled(q) = NetpolsEnabled(p) /\ s # Nil /\ s.enabled
  BY <1>2 DEF NetpolsEnabled
<1>6. \A made : Ok(made).ok
  BY DEF Ok
<1> HIDE DEF p, q, s, t, istio, routes
<1>7. PartOf(m, 1).ok
  <2>1. PartOf(m, 1) = PartOf(in, 1)
    <3>1. istio # Nil => generateIstio(q, istio) = generateIstio(p, istio)
      <4>1. SameMesh(istio, istio)
        BY DEF SameMesh, SameAuthorization
      <4> QED BY <1>1, <4>1, IstioSame
    <3> QED BY <1>1, <3>1, PartsAre DEF p, q, istio
  <2> QED BY <1>3, <2>1
<1>8. PartOf(m, 3).ok
  <2>1. generateRoutes(q, routes, Inbound(in)) = generateRoutes(p, routes, Inbound(in))
    BY <1>1, <1>5, RoutesSame
  <2>2. PartOf(m, 3) = PartOf(in, 3)
    BY <1>1, <1>4, <2>1, PartsAre DEF p, q, routes
  <2> QED BY <1>3, <2>2
<1>9. PartOf(m, 4).ok /\ PartOf(m, 6).ok
  BY <1>6, PartsAre
<1>10. PartOf(m, 7).ok
  <2>1. PartOf(m, 7) = PartOf(in, 7)
    BY <1>1, PartsAre DEF p, q, istio
  <2> QED BY <1>3, <2>1
<1>11. \A pkg, spec, env, prepend :
         expandIngressTarget(pkg, spec, env, to).ok /\ authzFromIngressTarget(pkg, prepend, to).ok
  BY OneRuleRenders
<1>12. PartOf(m, 2).ok
  <2> DEFINE raws == s.additionalPolicies
             Policies(a, b, x) == buildAdditionalPolicy(a, b, x)
             ingress == expandShorthandIngress(q, t, Env(m))
             additional == InOrder([i \in DOMAIN raws |-> Policies(q, t, raws[i])])
             parts == <<Ok(defaultEgressPolicies(q, t, istio)), Ok(defaultIngressPolicies(q, t, istio)),
                        Ok(<<>>), IF t.ingress = Nil THEN Ok(<<>>) ELSE ingress, additional>>
  <2>1. PartOf(m, 2) = InOrder(parts)
    <3>1. PartOf(m, 2) = generateNetworkPolicies(q, t, istio, Env(m))
      BY <1>1, <1>2, <1>5, PartsAre DEF q, t
    <3> QED BY <1>2, <3>1 DEF generateNetworkPolicies, ForEach
  <2>2. ingress.ok
    <3> DEFINE f == [i \in DOMAIN <<to>> |-> expandIngressTarget(q, t, Env(m), <<to>>[i])]
    <3>1. ingress = InOrder(f)
      BY <1>2 DEF expandShorthandIngress, ForEach
    <3>2. \A i \in DOMAIN f : f[i].ok
      BY <1>11
    <3> HIDE DEF f, ingress
    <3> QED BY <3>1, <3>2, OkInOrder
  <2>3. additional.ok
    <3>1. \A i \in DOMAIN raws : Policies(p, s, raws[i]).ok
      <4> DEFINE f == [i \in DOMAIN raws |-> Policies(p, s, raws[i])]
      <4>1. PartOf(in, 2) = generateNetworkPolicies(p, s, istio, Env(in))
        BY <1>5, PartsAre DEF p, s, istio
      <4>2. \E a, b, c, d : generateNetworkPolicies(p, s, istio, Env(in)) = InOrder(<<a, b, c, d, InOrder(f)>>)
        BY DEF generateNetworkPolicies, ForEach
      <4> HIDE DEF f
      <4>3. PICK a, b, c, d : PartOf(in, 2) = InOrder(<<a, b, c, d, InOrder(f)>>)
        BY <4>1, <4>2
      <4> DEFINE five == <<a, b, c, d, InOrder(f)>>
      <4>4. 5 \in DOMAIN five /\ five[5] = InOrder(f)
        OBVIOUS
      <4> HIDE DEF five
      <4>5. InOrder(five).ok
        BY <1>3, <4>3 DEF five
      <4>6. InOrder(f).ok
        BY <4>4, <4>5, InOrderOk
      <4>7. \A i \in DOMAIN f : f[i].ok
        BY <4>6, InOrderOk
      <4> QED BY <4>7 DEF f
    <3>2. \A x : Policies(p, s, x).ok => Policies(q, t, x).ok
      <4>1. \A x : Policies(p, s, x) = IF x.decodes THEN Ok(<<AdditionalPolicy(p, s, x)>>) ELSE Err
        BY DEF buildAdditionalPolicy, AdditionalPolicy
      <4>2. \A x : Policies(q, t, x) = IF x.decodes THEN Ok(<<AdditionalPolicy(q, t, x)>>) ELSE Err
        BY DEF buildAdditionalPolicy, AdditionalPolicy
      <4>3. ~Err.ok
        BY DEF Err
      <4> HIDE DEF Policies
      <4> QED BY <1>6, <4>1, <4>2, <4>3
    <3> DEFINE g == [i \in DOMAIN raws |-> Policies(q, t, raws[i])]
    <3> HIDE DEF Policies, raws
    <3>3. \A i \in DOMAIN g : g[i].ok
      BY <3>1, <3>2
    <3> HIDE DEF g
    <3>4. InOrder(g).ok
      BY <3>3, OkInOrder
    <3> QED BY <3>4 DEF g
  <2> HIDE DEF ingress, additional
  <2>4. \A i \in DOMAIN parts : parts[i].ok
    <3> DEFINE either == IF t.ingress = Nil THEN Ok(<<>>) ELSE ingress
    <3>1. either.ok
      BY <1>6, <2>2
    <3> HIDE DEF either
    <3>2. parts = <<Ok(defaultEgressPolicies(q, t, istio)), Ok(defaultIngressPolicies(q, t, istio)),
                    Ok(<<>>), either, additional>>
      BY DEF either
    <3> QED BY <1>6, <2>3, <3>1, <3>2
  <2> HIDE DEF parts
  <2> QED BY <2>1, <2>4, OkInOrder
<1>13. PartOf(m, 5).ok
  <2> DEFINE f == [i \in DOMAIN <<to>> |-> authzFromIngressTarget(q, t.prependReleaseName, <<to>>[i])]
  <2>1. PartOf(m, 5) = IF t = Nil THEN Ok(<<>>) ELSE generateAuthzFromIngressShorthand(q, t, istio)
    BY <1>1, PartsAre DEF q, t
  <2>2. generateAuthzFromIngressShorthand(q, t, istio) \in {Ok(<<>>), InOrder(f)}
    BY <1>2 DEF generateAuthzFromIngressShorthand, ForEach
  <2>3. \A i \in DOMAIN f : f[i].ok
    BY <1>11
  <2> HIDE DEF f
  <2>4. InOrder(f).ok
    BY <2>3, OkInOrder
  <2> QED BY <1>6, <2>1, <2>2, <2>4
<1>14. InOrder(Parts(m, Inbound(m))).ok
  <2> DEFINE parts == Parts(m, Inbound(m))
  <2>1. DOMAIN parts = 1..7 /\ \A k \in 1..7 : parts[k] = PartOf(m, k)
    BY PartsAre DEF PartOf
  <2> HIDE DEF parts
  <2>2. \A k \in 1..7 : PartOf(m, k).ok
    BY <1>7, <1>8, <1>9, <1>10, <1>12, <1>13
  <2>3. InOrder(parts).ok
    BY <2>1, <2>2, OkInOrder
  <2> QED BY <2>3 DEF parts
<1>15. \E made : Generate(m) = Ok(made)
  BY <1>3, <1>4, <1>14, GenerateByParts
<1> QED BY <1>6, <1>15

\* A rule as a policy has it after the last pass, for the pods of a selector: it lets a
\* flow between a pod of the Package and another through.
Lets(in, selector, rule, local, remote, protocol, port) ==
  /\ selector \subseteq local.labels
  /\ \E peer \in ToSet(InMesh(in, rule).peers) : PeerIs(peer, local.ns, remote)
  /\ InMesh(in, rule).ports # <<>> => \E p \in ToSet(InMesh(in, rule).ports) : OnPort(p, protocol, port)

\* What opens a flow is a policy of a k8s or CIDR rule.
LEMMA OpensByRule ==
  ASSUME NEW in, SoundInput(in), Generate(in).ok, PlainSpec(in.pkg.spec), NetpolsEnabled(in.pkg),
         NEW direction, NEW local, NEW remote, NEW protocol, NEW port
  PROVE  Opens(Generate(in).objs, direction, local, remote, protocol, port) <=>
           \E raw : /\ FromEgress(in, raw) \/ FromIngress(in, raw)
                    /\ SoundObject(raw) /\ raw.kind = "NetworkPolicy"
                    /\ local.ns = in.pkg.ns /\ raw.spec.selector \subseteq local.labels
                    /\ \E rule \in ToSet(LastPass(in, raw).spec[direction]) :
                         /\ \E peer \in ToSet(rule.peers) : PeerIs(peer, local.ns, remote)
                         /\ rule.ports # <<>> => \E p \in ToSet(rule.ports) : OnPort(p, protocol, port)
<1> DEFINE By(np) == \E rule \in ToSet(np.spec[direction]) :
             /\ \E peer \in ToSet(rule.peers) : PeerIs(peer, local.ns, remote)
             /\ rule.ports # <<>> => \E p \in ToSet(rule.ports) : OnPort(p, protocol, port)
           Open(np) == /\ np.kind = "NetworkPolicy" /\ "remote_key" \in DOMAIN np.annotations
                       /\ "from_spec_literal" \notin DOMAIN np.annotations
                       /\ local.ns = np.namespace /\ np.spec.selector \subseteq local.labels
                       /\ By(np)
           objs == Generate(in).objs
<1>1. Opens(objs, direction, local, remote, protocol, port) <=> \E np \in ToSet(objs) : Open(np)
  BY ToSetFacts DEF Opens
<1>2. ASSUME NEW np \in ToSet(objs), Open(np)
      PROVE  \E raw : /\ FromEgress(in, raw) \/ FromIngress(in, raw)
                      /\ SoundObject(raw) /\ raw.kind = "NetworkPolicy"
                      /\ local.ns = in.pkg.ns /\ raw.spec.selector \subseteq local.labels
                      /\ By(LastPass(in, raw))
  <2> HIDE DEF By
  <2>1. PICK raw : /\ np = LastPass(in, raw) /\ SoundObject(raw) /\ raw.kind = "NetworkPolicy"
                   /\ FromEgress(in, raw) \/ FromIngress(in, raw)
    BY <1>2, KeyedObjects
  <2>2. LastPass(in, raw).namespace = in.pkg.ns /\ LastPass(in, raw).spec.selector = raw.spec.selector
    BY <2>1, LastPassKeeps
  <2> QED BY <1>2, <2>1, <2>2
<1>3. ASSUME NEW raw, FromEgress(in, raw) \/ FromIngress(in, raw), SoundObject(raw), raw.kind = "NetworkPolicy",
             local.ns = in.pkg.ns, raw.spec.selector \subseteq local.labels, By(LastPass(in, raw))
      PROVE  \E np \in ToSet(objs) : Open(np)
  <2> HIDE DEF By
  <2>1. Raw(in, raw) /\ Keyed(raw)
    BY <1>3, KeyedAreFromRules
  <2>2. LastPass(in, raw) \in ToSet(objs)
    BY <2>1, GenerateMakes
  <2>3. Open(LastPass(in, raw))
    BY <1>3, <2>1, LastPassKeeps DEF Keyed
  <2> QED BY <2>2, <2>3
<1> HIDE DEF Open, objs
<1> QED BY <1>1, <1>2, <1>3 DEF objs

\* A policy with one rule in a direction opens what the rule lets through.
LEMMA OneRuleLets ==
  ASSUME NEW in, NEW raw, SoundObject(raw), raw.kind = "NetworkPolicy", NEW rule,
         NEW local, NEW remote, NEW protocol, NEW port, NEW direction \in {"egress", "ingress"},
         raw.spec[direction] = <<rule>>
  PROVE  /\ raw.spec.selector \subseteq local.labels
         /\ \E r \in ToSet(LastPass(in, raw).spec[direction]) :
              /\ \E peer \in ToSet(r.peers) : PeerIs(peer, local.ns, remote)
              /\ r.ports # <<>> => \E p \in ToSet(r.ports) : OnPort(p, protocol, port)
         <=> Lets(in, raw.spec.selector, rule, local, remote, protocol, port)
<1>1. LastPass(in, raw).spec[direction] = <<InMesh(in, rule)>>
  BY LastPassRule
<1>2. ToSet(LastPass(in, raw).spec[direction]) = {InMesh(in, rule)}
  BY <1>1, ToSetFacts
<1> QED BY <1>2 DEF Lets

\* Of the rules of egress.from, the k8s rules let out to pods.
LEMMA EgressOpens ==
  ASSUME NEW in, SoundInput(in), Generate(in).ok, PlainSpec(in.pkg.spec), NetpolsEnabled(in.pkg),
         in.pkg.spec.networkPolicies.egress # Nil,
         NEW local, local.ns = in.pkg.ns, NEW remote, NEW protocol, NEW port
  PROVE  Opens(Generate(in).objs, "egress", local, remote, protocol, port) <=>
           \E entry \in ToSet(in.pkg.spec.networkPolicies.egress.from) :
             /\ entry.val.peer # Nil
             /\ \E e \in ToSet(Enabled(entry.val.peer.k8s)) :
                  Lets(in, EgressSelectorOf(entry), EgressK8sRule(e), local, remote, protocol, port)
<1> DEFINE np == in.pkg.spec.networkPolicies
           Through(x) == \E r \in ToSet(x) :
              /\ \E peer \in ToSet(r.peers) : PeerIs(peer, local.ns, remote)
              /\ r.ports # <<>> => \E p \in ToSet(r.ports) : OnPort(p, protocol, port)
           By(raw) == /\ FromEgress(in, raw) \/ FromIngress(in, raw)
                      /\ SoundObject(raw) /\ raw.kind = "NetworkPolicy"
                      /\ local.ns = in.pkg.ns /\ raw.spec.selector \subseteq local.labels
                      /\ Through(LastPass(in, raw).spec["egress"])
           Rules(entry, e) == Lets(in, EgressSelectorOf(entry), EgressK8sRule(e), local, remote, protocol, port)
<1>1. Opens(Generate(in).objs, "egress", local, remote, protocol, port) <=> \E raw : By(raw)
  BY OpensByRule
<1>2. ASSUME NEW raw, By(raw)
      PROVE  \E entry \in ToSet(np.egress.from) :
               entry.val.peer # Nil /\ \E e \in ToSet(Enabled(entry.val.peer.k8s)) : Rules(entry, e)
  <2>1. FromEgress(in, raw)
    <3> SUFFICES ASSUME FromIngress(in, raw) PROVE FALSE
      BY <1>2
    <3>1. raw.spec.egress = <<>>
      BY RuleSpecs DEF FromIngress
    <3>2. ToSet(LastPass(in, raw).spec["egress"]) = {}
      BY <1>2, <3>1, LastPassRule, ToSetFacts
    <3> QED BY <1>2, <3>2
  <2>2. PICK entry \in ToSet(np.egress.from) :
          /\ entry.val.peer # Nil
          /\ \/ \E e \in ToSet(Enabled(entry.val.peer.k8s)) : raw = EgressK8s(in.pkg, np, entry, e)
             \/ \E e \in ToSet(Enabled(entry.val.peer.cidr)) : raw = EgressCidr(in.pkg, np, entry, e)
    BY <2>1 DEF FromEgress
  <2>3. ASSUME NEW e \in ToSet(Enabled(entry.val.peer.k8s)), raw = EgressK8s(in.pkg, np, entry, e)
        PROVE  Rules(entry, e)
    <3>1. raw.spec.selector = EgressSelectorOf(entry) /\ raw.spec["egress"] = <<EgressK8sRule(e)>>
      BY <2>3, RuleSpecs
    <3> HIDE DEF Through
    <3>2. raw.spec.selector \subseteq local.labels /\ Through(LastPass(in, raw).spec["egress"])
            <=> Lets(in, raw.spec.selector, EgressK8sRule(e), local, remote, protocol, port)
      BY <1>2, <3>1, OneRuleLets DEF Through
    <3> QED BY <1>2, <3>1, <3>2
  <2>4. ASSUME NEW e \in ToSet(Enabled(entry.val.peer.cidr)), raw = EgressCidr(in.pkg, np, entry, e)
        PROVE  FALSE
    <3> DEFINE block == IPBlock(parseEgressCIDRKey(e.key).cidr,
                          applyExcludeCIDRs(parseEgressCIDRKey(e.key).cidr, excludeCIDRsFor(np)))
               rule == EgressCidrRule(np, e)
    <3>1. raw.spec["egress"] = <<rule>>
      BY <2>4, RuleSpecs
    <3>2. rule.peers = <<block>>
      BY DEF EgressCidrRule, Rule
    <3>3. block.cidr # Nil
      <4>1. SoundFrom(entry) /\ parseEgressCIDRKey(e.key) # Nil
        BY <2>2, <2>4, RulesAreRead
      <4>2. IsList(entry.val.peer.cidr) /\ \A i \in DOMAIN entry.val.peer.cidr : SoundCidr(entry.val.peer.cidr[i])
        BY <2>2, <4>1 DEF SoundFrom, SoundEntry, AllOf
      <4>3. PICK written \in ToSet(entry.val.peer.cidr) : e.key = written.key
        BY <2>4, <4>2, EnabledIsWritten
      <4>4. written.key.cidr \in CIDR
        BY <4>2, <4>3 DEF ToSet, SoundCidr
      <4>5. block.cidr = e.key.cidr
        BY <4>1, ParsedFacts DEF IPBlock
      <4> QED BY <4>3, <4>4, <4>5, CidrAssumption
    <3>4. HasFields(rule, {"peers", "ports"}) /\ IsList(rule.ports)
      <4>1. AllOf(raw.spec["egress"], SoundRule)
        BY <1>2 DEF SoundObject, SoundPolicy
      <4> HIDE DEF rule
      <4>2. SoundRule(rule)
        BY <3>1, <4>1 DEF AllOf
      <4> QED BY <4>2 DEF SoundRule, AllOf
    <3> HIDE DEF rule, block, Through
    <3>5. InMesh(in, rule).peers = <<block>>
      BY <3>2, <3>4, InMeshRule
    <3>6. ToSet(LastPass(in, raw).spec["egress"]) = {InMesh(in, rule)}
      BY <1>2, <3>1, LastPassRule, ToSetFacts
    <3>7. \E peer \in ToSet(InMesh(in, rule).peers) : PeerIs(peer, local.ns, remote)
      BY <1>2, <3>6 DEF Through
    <3>8. PeerIs(block, local.ns, remote)
      BY <3>5, <3>7, ToSetFacts
    <3> QED BY <3>3, <3>8 DEF PeerIs
  <2> HIDE DEF Rules, By, np
  <2> QED BY <2>2, <2>3, <2>4
<1>3. ASSUME NEW entry \in ToSet(np.egress.from), entry.val.peer # Nil,
             NEW e \in ToSet(Enabled(entry.val.peer.k8s)), Rules(entry, e)
      PROVE  \E raw : By(raw)
  <2> DEFINE raw == EgressK8s(in.pkg, np, entry, e)
  <2>1. FromEgress(in, raw)
    BY <1>3 DEF FromEgress
  <2>2. raw.kind = "NetworkPolicy"
    BY RuleKinds
  <2>3. raw.spec.selector = EgressSelectorOf(entry) /\ raw.spec["egress"] = <<EgressK8sRule(e)>>
    BY RuleSpecs
  <2> HIDE DEF raw
  <2>4. SoundObject(raw)
    BY <2>1, KeyedAreFromRules, GenerateMakes
  <2> HIDE DEF Through
  <2>5. raw.spec.selector \subseteq local.labels /\ Through(LastPass(in, raw).spec["egress"])
          <=> Lets(in, raw.spec.selector, EgressK8sRule(e), local, remote, protocol, port)
    BY <2>2, <2>3, <2>4, OneRuleLets DEF Through
  <2> QED BY <1>3, <2>1, <2>2, <2>3, <2>4, <2>5
<1> HIDE DEF By, Rules
<1>4. (\E raw : By(raw)) <=> \E entry \in ToSet(np.egress.from) :
        entry.val.peer # Nil /\ \E e \in ToSet(Enabled(entry.val.peer.k8s)) : Rules(entry, e)
  BY <1>2, <1>3
<1> QED BY <1>1, <1>4 DEF Rules

\* The one rule of a mirror lets in what the mirror opens.
LEMMA MirrorOpens ==
  ASSUME NEW in, SoundInput(in), Generate(in).ok, PlainSpec(in.pkg.spec), NetpolsEnabled(in.pkg),
         NEW to, NEW from, in.pkg.spec.networkPolicies.egress = Nil,
         in.pkg.spec.networkPolicies.ingress # Nil, in.pkg.spec.networkPolicies.ingress.to = <<to>>,
         to.val.peer # Nil, to.val.peer.k8s = <<from>>, to.val.peer.cidr = <<>>,
         NEW local, local.ns = in.pkg.ns, NEW remote, NEW protocol, NEW port
  PROVE  Opens(Generate(in).objs, "ingress", local, remote, protocol, port) <=>
           /\ Target(from.val).enabled
           /\ Lets(in, IngressSelectorOf(to), IngressK8sRule(to, [key |-> from.key, val |-> Target(from.val)]),
                   local, remote, protocol, port)
<1> DEFINE np == in.pkg.spec.networkPolicies
           e == [key |-> from.key, val |-> Target(from.val)]
           raw == IngressK8s(in.pkg, np, to, e)
           Through(x) == \E r \in ToSet(x) :
              /\ \E peer \in ToSet(r.peers) : PeerIs(peer, local.ns, remote)
              /\ r.ports # <<>> => \E p \in ToSet(r.ports) : OnPort(p, protocol, port)
           By(x) == /\ FromEgress(in, x) \/ FromIngress(in, x)
                    /\ SoundObject(x) /\ x.kind = "NetworkPolicy"
                    /\ local.ns = in.pkg.ns /\ x.spec.selector \subseteq local.labels
                    /\ Through(LastPass(in, x).spec["ingress"])
<1>1. Opens(Generate(in).objs, "ingress", local, remote, protocol, port) <=> \E x : By(x)
  BY OpensByRule
<1>2. \A x : x \in ToSet(Enabled(<<from>>)) <=> Target(from.val).enabled /\ x = e
  <2>1. IsList(<<from>>) /\ ToSet(<<from>>) = {from}
    BY ShortLists, ToSetFacts
  <2> QED BY <2>1, EnabledToSet
<1>3. ToSet(Enabled(<<>>)) = {} /\ ToSet(<<to>>) = {to}
  BY EnabledShort, ToSetFacts
<1> HIDE DEF e
<1>4. \A x : FromEgress(in, x) \/ FromIngress(in, x) <=> Target(from.val).enabled /\ x = raw
  <2>1. \A x : ~FromEgress(in, x)
    BY DEF FromEgress
  <2>2. \A x : FromIngress(in, x) <=> \E d \in ToSet(Enabled(<<from>>)) : x = IngressK8s(in.pkg, np, to, d)
    BY <1>3 DEF FromIngress
  <2> QED BY <1>2, <2>1, <2>2
<1>5. raw.kind = "NetworkPolicy"
  BY RuleKinds
<1>6. raw.spec.selector = IngressSelectorOf(to) /\ raw.spec["ingress"] = <<IngressK8sRule(to, e)>>
  BY RuleSpecs
<1> HIDE DEF raw, np
<1>7. Target(from.val).enabled => SoundObject(raw)
  BY <1>4, KeyedAreFromRules, GenerateMakes
<1> HIDE DEF Through
<1>8. ASSUME Target(from.val).enabled
      PROVE  raw.spec.selector \subseteq local.labels /\ Through(LastPass(in, raw).spec["ingress"])
               <=> Lets(in, raw.spec.selector, IngressK8sRule(to, e), local, remote, protocol, port)
  BY <1>5, <1>6, <1>7, <1>8, OneRuleLets DEF Through
<1>9. (\E x : By(x)) <=> /\ Target(from.val).enabled
                         /\ Lets(in, raw.spec.selector, IngressK8sRule(to, e), local, remote, protocol, port)
  BY <1>4, <1>5, <1>7, <1>8
<1> HIDE DEF By
<1> QED BY <1>1, <1>6, <1>9 DEF e

\* The ports of a rule for pods, after the last pass.
MeshPorts(in, ports) ==
  IF /\ hboneEnabled(in.pkg.spec.networkPolicies, in.pkg.spec.istio) /\ ports # <<>>
     /\ \A i \in DOMAIN ports : ~(ports[i].protocol = "TCP" /\ ports[i].port = [int |-> 15008])
    THEN Append(ports, Tcp(15008)) ELSE ports

\* What a rule for pods lets through, selector by selector.
LEMMA LetsPods ==
  ASSUME NEW in, NEW selector, NEW ns, ns # Nil, NEW pod, pod # Nil, NEW ports,
         NEW local, NEW remote, NEW protocol, NEW port
  PROVE  Lets(in, selector, Rule(<<Pods(ns, pod)>>, ports), local, remote, protocol, port) <=>
           /\ selector \subseteq local.labels /\ ns \subseteq remote.nsLabels /\ pod \subseteq remote.labels
           /\ MeshPorts(in, ports) # <<>> =>
                \E p \in ToSet(MeshPorts(in, ports)) : OnPort(p, protocol, port)
<1> DEFINE peer == Pods(ns, pod)
           rule == Rule(<<peer>>, ports)
           hbone == hboneEnabled(in.pkg.spec.networkPolicies, in.pkg.spec.istio)
<1>1. peer.ns = ns /\ peer.pod = pod /\ peer.cidr = Nil
  BY DEF Pods
<1>2. PeerIs(peer, local.ns, remote) <=> ns \subseteq remote.nsLabels /\ pod \subseteq remote.labels
  BY <1>1 DEF PeerIs
<1> HIDE DEF peer
<1>3. rule.peers = <<peer>> /\ rule.ports = ports /\ rule = [peers |-> <<peer>>, ports |-> ports]
  BY DEF Rule
<1>4. peerHasK8sSelector(<<peer>>)
  BY <1>1 DEF peerHasK8sSelector
<1>5. InMesh(in, rule).peers = <<peer>> /\ InMesh(in, rule).ports = MeshPorts(in, ports)
  <2> HIDE DEF rule
  <2>1. needsHBonePort(rule) <=>
          /\ ports # <<>>
          /\ \A i \in DOMAIN ports : ~(ports[i].protocol = "TCP" /\ ports[i].port = [int |-> 15008])
    BY <1>3, <1>4 DEF needsHBonePort
  <2> DEFINE more == Append(ports, Tcp(15008))
  <2>2. Append(rule.ports, Tcp(15008)) = more
    BY <1>3
  <2> HIDE DEF more
  <2>3. [rule EXCEPT !.ports = more].peers = <<peer>> /\ [rule EXCEPT !.ports = more].ports = more
    BY <1>3
  <2>4. InMesh(in, rule) = IF hbone /\ needsHBonePort(rule) THEN [rule EXCEPT !.ports = more] ELSE rule
    BY <2>2 DEF InMesh
  <2>5. MeshPorts(in, ports) = IF hbone /\ needsHBonePort(rule) THEN more ELSE ports
    BY <2>1 DEF MeshPorts, more
  <2> QED BY <1>3, <2>3, <2>4, <2>5
<1> HIDE DEF rule
<1>6. Lets(in, selector, rule, local, remote, protocol, port) <=>
           /\ selector \subseteq local.labels /\ PeerIs(peer, local.ns, remote)
           /\ MeshPorts(in, ports) # <<>> =>
                \E p \in ToSet(MeshPorts(in, ports)) : OnPort(p, protocol, port)
  BY <1>5, ToSetFacts DEF Lets
<1> QED BY <1>2, <1>6 DEF rule, peer

\* What the two sides read of a rule that is mirrored.
MirrorRead(in, entry, rule, remote, to, from) ==
  /\ Source(to.val).podSelector = flattenMatchLabels(rule.val.podSelector)
  /\ Source(to.val).peer = to.val.peer /\ to.val.decodes /\ to.val.metadata = Nil
  /\ to.val.peer = [k8s |-> <<from>>, definition |-> <<>>, cidr |-> <<>>, literal |-> <<>>]
  /\ to.key.matches = rule.key.matches /\ to.key.ports = rule.key.ports /\ to.key.scheme = rule.key.scheme
  /\ to.key.pod = IF rule.key.pod \in {<<>>, Wildcard} THEN remote.name ELSE rule.key.pod
  /\ from.key.matches /\ from.key.ns = in.pkg.ns /\ from.key.pod = entry.key
  /\ Target(from.val).enabled = Target(rule.val).enabled
  /\ Target(from.val).podSelector = flattenMatchLabels(entry.val.podSelector)
  /\ Target(from.val).namespaceSelector = Nil
  /\ Target(rule.val).podSelector = flattenMatchLabels(rule.val.podSelector)
  /\ Target(rule.val).namespaceSelector = flattenMatchLabels(rule.val.namespaceSelector)
  /\ Source(entry.val).podSelector = flattenMatchLabels(entry.val.podSelector)
  /\ HasFields(to.val, {"decodes", "podSelector", "metadata", "peer"})
  /\ HasFields(from.val, {"enabled", "podSelector", "namespaceSelector", "metadata", "spec"})
  /\ from.val.metadata = Nil

LEMMA MirrorReads ==
  ASSUME NEW in, NEW entry, NEW rule, NEW remote, SoundRemote(rule), SoundFrom(entry),
         NEW to, to = MirrorTo(in, entry, rule, remote), NEW from, from = MirrorFrom(in, entry, rule)
  PROVE  MirrorRead(in, entry, rule, remote, to, from)
<1>1. ASSUME NEW val, HasFields(val, {"enabled", "podSelector", "namespaceSelector", "metadata", "spec"})
      PROVE  /\ Target(val).enabled = (val.enabled = Nil \/ val.enabled)
             /\ Target(val).podSelector = flattenMatchLabels(val.podSelector)
             /\ Target(val).namespaceSelector = flattenMatchLabels(val.namespaceSelector)
  BY <1>1 DEF HasFields, Target
<1>2. ASSUME NEW val, HasFields(val, {"decodes", "podSelector", "metadata", "peer"})
      PROVE  Source(val).podSelector = flattenMatchLabels(val.podSelector) /\ Source(val).peer = val.peer
  BY <1>2 DEF HasFields, Source
<1>3. /\ HasFields(from.val, {"enabled", "podSelector", "namespaceSelector", "metadata", "spec"})
      /\ from.val.enabled = rule.val.enabled /\ from.val.podSelector = entry.val.podSelector
      /\ from.val.namespaceSelector = Nil /\ from.val.metadata = Nil
      /\ from.key.matches /\ from.key.ns = in.pkg.ns /\ from.key.pod = entry.key
  BY DEF MirrorFrom, Just, HasFields
<1>4. HasFields(rule.val, {"enabled", "podSelector", "namespaceSelector", "metadata", "spec"})
  BY DEF SoundRemote, SoundWithPorts, SoundTarget
<1>5. HasFields(entry.val, {"decodes", "podSelector", "metadata", "peer"})
  BY DEF SoundFrom, SoundEntry
<1>6. flattenMatchLabels(Nil) = Nil
  BY DEF flattenMatchLabels
<1>7. /\ HasFields(to.val, {"decodes", "podSelector", "metadata", "peer"})
      /\ to.val.decodes /\ to.val.metadata = Nil /\ to.val.podSelector = rule.val.podSelector
      /\ to.val.peer = [k8s |-> <<from>>, definition |-> <<>>, cidr |-> <<>>, literal |-> <<>>]
      /\ to.key.matches = rule.key.matches /\ to.key.ports = rule.key.ports /\ to.key.scheme = rule.key.scheme
      /\ to.key.pod = IF rule.key.pod \in {<<>>, Wildcard} THEN remote.name ELSE rule.key.pod
  BY DEF MirrorTo, HasFields
<1>8. Source(to.val).podSelector = flattenMatchLabels(rule.val.podSelector) /\ Source(to.val).peer = to.val.peer
  BY <1>2, <1>7
<1>9. Source(entry.val).podSelector = flattenMatchLabels(entry.val.podSelector)
  BY <1>2, <1>5
<1>10. /\ Target(from.val).enabled = Target(rule.val).enabled
       /\ Target(from.val).podSelector = flattenMatchLabels(entry.val.podSelector)
       /\ Target(from.val).namespaceSelector = Nil
  BY <1>1, <1>3, <1>4, <1>6
<1>11. /\ Target(rule.val).podSelector = flattenMatchLabels(rule.val.podSelector)
       /\ Target(rule.val).namespaceSelector = flattenMatchLabels(rule.val.namespaceSelector)
  BY <1>1, <1>4
<1> QED BY <1>3, <1>7, <1>8, <1>9, <1>10, <1>11 DEF MirrorRead

\* The entry of a mirror is one that there can be, and has no metadata.
LEMMA MirrorToSound ==
  ASSUME NEW in, NEW entry, NEW rule, NEW remote, SoundRemote(rule), SoundFrom(entry)
  PROVE  SoundTo(MirrorTo(in, entry, rule, remote)) /\ PlainRules(MirrorTo(in, entry, rule, remote))
<1> SUFFICES ASSUME NEW to, to = MirrorTo(in, entry, rule, remote),
                    NEW from, from = MirrorFrom(in, entry, rule)
             PROVE  SoundTo(to) /\ PlainRules(to)
  OBVIOUS
<1>1. /\ to.val.peer = [k8s |-> <<from>>, definition |-> <<>>, cidr |-> <<>>, literal |-> <<>>]
      /\ to.val.metadata = Nil /\ to.key.ports = rule.key.ports
      /\ HasFields(to.val, {"decodes", "podSelector", "metadata", "peer"})
      /\ HasFields(from.val, {"enabled", "podSelector", "namespaceSelector", "metadata", "spec"})
      /\ from.val.metadata = Nil
  <2>1. MirrorRead(in, entry, rule, remote, to, from)
    BY MirrorReads
  <2> QED BY <2>1 DEF MirrorRead
<1>2. /\ to.val.peer.k8s = <<from>> /\ to.val.peer.definition = <<>>
      /\ to.val.peer.cidr = <<>> /\ to.val.peer.literal = <<>>
  BY <1>1
<1>3. SoundTo(to)
  <2>1. SoundKeyPorts(to.key.ports)
    BY <1>1 DEF SoundRemote, SoundWithPorts
  <2>2. SoundTarget(from)
    BY <1>1 DEF SoundTarget
  <2>3. /\ AllOf(to.val.peer.k8s, SoundTarget) /\ AllOf(to.val.peer.definition, SoundTarget)
        /\ AllOf(to.val.peer.cidr, SoundTarget) /\ AllOf(to.val.peer.literal, SoundLiteral)
    BY <1>2, <2>2, ShortLists DEF AllOf
  <2> QED BY <1>1, <2>1, <2>3 DEF SoundTo, SoundEntry
<1>4. PlainRules(to)
  <2>1. PlainEntry(to) /\ PlainEntry(from)
    BY <1>1 DEF PlainEntry
  <2>2. \A kind \in {"k8s", "definition", "cidr", "literal"} : \A e \in ToSet(to.val.peer[kind]) : PlainEntry(e)
    BY <1>2, <2>1, ToSetFacts
  <2> QED BY <2>1, <2>2 DEF PlainRules
<1> QED BY <1>3, <1>4

\* A rule and its mirror let the same flows through, one from the pods of the Package,
\* the other to the pods of the rule, when the rule is about the namespace there.
LEMMA MirrorLets ==
  ASSUME NEW in, IsName(in.pkg.ns), in.pkg.ns # Wildcard, in.pkg.spec.networkPolicies # Nil,
         NEW entry, NEW rule, SoundRemote(rule), SoundFrom(entry), entry.key # <<>>,
         parseEgressRemoteKey(rule.key) # Nil,
         NEW local \in Workloads, local.ns = in.pkg.ns, NEW remote \in Workloads,
         NEW to, to = MirrorTo(in, entry, rule, remote), NEW from, from = MirrorFrom(in, entry, rule),
         parseIngressLocalKey(to.key) # Nil, parseIngressRemoteKey(from.key) # Nil,
         NEW m, MirrorOf(in, m, to, remote.ns), m.pkg.spec.networkPolicies # Nil,
         NEW protocol, NEW port
  PROVE  Lets(in, EgressSelectorOf(entry), EgressK8sRule([key |-> rule.key, val |-> Target(rule.val)]),
              local, remote, protocol, port)
         <=> /\ IsAbout(rule, remote)
             /\ Lets(m, IngressSelectorOf(to), IngressK8sRule(to, [key |-> from.key, val |-> Target(from.val)]),
                     remote, local, protocol, port)
<1>0. MirrorRead(in, entry, rule, remote, to, from)
  BY MirrorReads
<1> DEFINE over == flattenMatchLabels(rule.val.namespaceSelector)
           there == flattenMatchLabels(rule.val.podSelector)
           here == flattenMatchLabels(entry.val.podSelector)
           ports == buildNetpolPorts(Protocol(rule.key.scheme), rule.key.ports.nums, rule.key.ports.range)
           ens == remoteNamespaceSelector(rule.key.ns, over)
           epod == remotePodSelector(rule.key.pod, there)
           esel == EgressSelectorOf(entry)
           ins == remoteNamespaceSelector(in.pkg.ns, Nil)
           ipod == remotePodSelector(entry.key, here)
           isel == IngressSelectorOf(to)
           Ports == MeshPorts(in, ports) # <<>> =>
                      \E p \in ToSet(MeshPorts(in, ports)) : OnPort(p, protocol, port)
<1>1. /\ Source(to.val).podSelector = there
      /\ to.key.ports = rule.key.ports /\ to.key.scheme = rule.key.scheme
      /\ to.key.pod = IF rule.key.pod \in {<<>>, Wildcard} THEN remote.name ELSE rule.key.pod
      /\ from.key.ns = in.pkg.ns /\ from.key.pod = entry.key
      /\ Target(from.val).podSelector = here /\ Target(from.val).namespaceSelector = Nil
      /\ Target(rule.val).podSelector = there /\ Target(rule.val).namespaceSelector = over
      /\ Source(entry.val).podSelector = here
  BY <1>0 DEF MirrorRead
<1>2. MeshPorts(m, ports) = MeshPorts(in, ports)
  <2> HIDE DEF ports
  <2> QED BY DEF MirrorOf, hboneEnabled, MeshPorts
<1>3. EgressK8sRule([key |-> rule.key, val |-> Target(rule.val)]) = Rule(<<Pods(ens, epod)>>, ports)
  BY <1>1, ParsedFacts DEF EgressK8sRule, parsedPorts
<1>4. IngressK8sRule(to, [key |-> from.key, val |-> Target(from.val)]) = Rule(<<Pods(ins, ipod)>>, ports)
  BY <1>1, ParsedFacts DEF IngressK8sRule, parsedPorts
<1>5. esel = ipod
  BY <1>1 DEF EgressSelectorOf, egressSelector, remotePodSelector
<1>6. ens # Nil /\ epod # Nil /\ ins # Nil /\ ipod # Nil
  <2>1. /\ NamespaceIs(rule.key.ns) # Nil /\ NameIs(rule.key.pod) # Nil
        /\ NameIs(entry.key) # Nil /\ NamespaceIs(in.pkg.ns) # Nil
    BY DEF SoundRemote, SoundFrom, IsName
  <2> QED BY <2>1, NilAssumption DEF remoteNamespaceSelector, remotePodSelector, NonEmpty
<1>7. epod \subseteq remote.labels <=> isel \subseteq remote.labels
  <2>1. NameIs(remote.name) \subseteq remote.labels
    BY WorkloadsAssumption
  <2>2. isel = IF NonEmpty(there) THEN there ELSE NameIs(to.key.pod)
    BY <1>1, ParsedFacts DEF IngressSelectorOf, ingressSelector
  <2> HIDE DEF isel, there
  <2> QED BY <1>1, <2>1, <2>2 DEF remotePodSelector
<1>8. ins \subseteq local.nsLabels
  <2>1. ins = NamespaceIs(local.ns)
    BY DEF remoteNamespaceSelector, NonEmpty
  <2>2. {pair \in local.nsLabels : pair[1] = "kubernetes.io/metadata.name"} = NamespaceIs(local.ns)
    BY WorkloadsAssumption
  <2> HIDE DEF ins
  <2> QED BY <2>1, <2>2
<1>9. ens \subseteq remote.nsLabels <=> IsAbout(rule, remote)
  <2>1. {pair \in remote.nsLabels : pair[1] = "kubernetes.io/metadata.name"} = NamespaceIs(remote.ns)
    BY WorkloadsAssumption
  <2>2. NamespaceIs(rule.key.ns) \subseteq remote.nsLabels <=> rule.key.ns = remote.ns
    <3> DEFINE pair == <<"kubernetes.io/metadata.name", rule.key.ns>>
    <3>1. NamespaceIs(rule.key.ns) = {pair}
      BY DEF NamespaceIs
    <3>2. NamespaceIs(remote.ns) \subseteq remote.nsLabels
      BY <2>1
    <3>3. ASSUME pair \in remote.nsLabels PROVE rule.key.ns = remote.ns
      <4>1. pair \in NamespaceIs(remote.ns)
        BY <2>1, <3>3
      <4>2. pair = <<"kubernetes.io/metadata.name", remote.ns>>
        BY <4>1 DEF NamespaceIs
      <4> QED BY <4>2
    <3> HIDE DEF pair
    <3> QED BY <3>1, <3>2, <3>3
  <2> HIDE DEF over
  <2>3. IsAbout(rule, remote) <=> IF NonEmpty(over) THEN over \subseteq remote.nsLabels
                                  ELSE rule.key.ns \in {Wildcard, remote.ns}
    BY DEF IsAbout, over
  <2> QED BY <2>2, <2>3 DEF remoteNamespaceSelector
<1> HIDE DEF ens, epod, esel, ins, ipod, isel, ports
<1>10. Lets(in, esel, Rule(<<Pods(ens, epod)>>, ports), local, remote, protocol, port) <=>
         /\ esel \subseteq local.labels /\ ens \subseteq remote.nsLabels /\ epod \subseteq remote.labels /\ Ports
  BY <1>6, LetsPods
<1>11. Lets(m, isel, Rule(<<Pods(ins, ipod)>>, ports), remote, local, protocol, port) <=>
         /\ isel \subseteq remote.labels /\ ins \subseteq local.nsLabels /\ ipod \subseteq local.labels /\ Ports
  <2>1. Lets(m, isel, Rule(<<Pods(ins, ipod)>>, ports), remote, local, protocol, port) <=>
          /\ isel \subseteq remote.labels /\ ins \subseteq local.nsLabels /\ ipod \subseteq local.labels
          /\ MeshPorts(m, ports) # <<>> =>
               \E p \in ToSet(MeshPorts(m, ports)) : OnPort(p, protocol, port)
    BY <1>6, LetsPods
  <2> QED BY <1>2, <2>1
<1> HIDE DEF Ports
<1>12. Lets(in, esel, Rule(<<Pods(ens, epod)>>, ports), local, remote, protocol, port)
         <=> /\ IsAbout(rule, remote)
             /\ Lets(m, isel, Rule(<<Pods(ins, ipod)>>, ports), remote, local, protocol, port)
  BY <1>5, <1>7, <1>8, <1>9, <1>10, <1>11
<1> QED BY <1>3, <1>4, <1>12 DEF esel, isel

\* The mirror of a rule that is about the namespace opens what the rule lets out, and
\* that of a rule that is switched off opens nothing.
LEMMA MirrorMeets ==
  ASSUME NEW in \in Inputs, Generate(in).ok, PlainSpec(in.pkg.spec), NetpolsEnabled(in.pkg),
         in.pkg.spec.networkPolicies.egress # Nil,
         NEW entry \in ToSet(in.pkg.spec.networkPolicies.egress.from), entry.val.peer # Nil, entry.key # <<>>,
         NEW rule \in ToSet(entry.val.peer.k8s),
         NEW local \in Workloads, local.ns = in.pkg.ns, NEW remote \in Workloads, NEW protocol, NEW port
  PROVE  /\ IsAbout(rule, remote)
         /\ Opens(Generate(Mirror(in, entry, rule, remote)).objs, "ingress", remote, local, protocol, port)
         <=> /\ Target(rule.val).enabled
             /\ Lets(in, EgressSelectorOf(entry), EgressK8sRule([key |-> rule.key, val |-> Target(rule.val)]),
                     local, remote, protocol, port)
<1> DEFINE np == in.pkg.spec.networkPolicies
<1> SUFFICES ASSUME NEW to, to = MirrorTo(in, entry, rule, remote),
                    NEW from, from = MirrorFrom(in, entry, rule),
                    NEW m, m = Mirror(in, entry, rule, remote)
             PROVE  /\ IsAbout(rule, remote)
                    /\ Opens(Generate(m).objs, "ingress", remote, local, protocol, port)
                    <=> /\ Target(rule.val).enabled
                        /\ Lets(in, EgressSelectorOf(entry),
                                EgressK8sRule([key |-> rule.key, val |-> Target(rule.val)]),
                                local, remote, protocol, port)
  OBVIOUS
<1>1. SoundInput(in) /\ np # Nil
  BY InputsAssumption DEF NetpolsEnabled
<1>2. IsName(in.pkg.ns) /\ in.pkg.ns # Wildcard /\ IsName(remote.ns) /\ remote.ns # Wildcard
  BY <1>1, WorkloadsAssumption DEF SoundInput, SoundPackage
<1>3. SoundFrom(entry)
  BY <1>1, RulesAreRead
<1>4. IsList(entry.val.peer.k8s) /\ SoundRemote(rule)
  <2>1. AllOf(entry.val.peer.k8s, SoundRemote)
    BY <1>3 DEF SoundFrom, SoundEntry
  <2> QED BY <2>1 DEF AllOf, ToSet
<1>5. MirrorOf(in, m, to, remote.ns)
  BY <1>1, MirrorIs
<1>6. MirrorRead(in, entry, rule, remote, to, from)
  BY <1>3, <1>4, MirrorReads
<1>7. SoundTo(to) /\ PlainRules(to)
  BY <1>3, <1>4, MirrorToSound
<1>8. SoundInput(m) /\ PlainSpec(m.pkg.spec)
  BY <1>1, <1>2, <1>5, <1>7, MirrorSound, MirrorPlain
<1>9. /\ m.pkg.spec.networkPolicies # Nil /\ m.pkg.spec.networkPolicies.ingress # Nil /\ to.val.peer # Nil
      /\ parseIngressRemoteKey(from.key) # Nil
      /\ to.key.matches /\ parsePortSpec(to.key.ports) # Nil => parseIngressLocalKey(to.key) # Nil
  BY <1>1, MirrorAssumption
<1>10. /\ m.pkg.ns = remote.ns /\ m.pkg.spec.networkPolicies.egress = Nil
       /\ m.pkg.spec.networkPolicies.ingress.to = <<to>> /\ NetpolsEnabled(m.pkg)
  BY <1>5, <1>9 DEF MirrorOf, NetpolsEnabled
<1>11. to.val.peer = [k8s |-> <<from>>, definition |-> <<>>, cidr |-> <<>>, literal |-> <<>>]
  BY <1>6 DEF MirrorRead
<1>12. to.val.peer.k8s = <<from>> /\ to.val.peer.cidr = <<>>
  BY <1>11
<1>13. Target(from.val).enabled = Target(rule.val).enabled
  BY <1>6 DEF MirrorRead
<1> DEFINE Out == Lets(in, EgressSelectorOf(entry), EgressK8sRule([key |-> rule.key, val |-> Target(rule.val)]),
                       local, remote, protocol, port)
           In == Lets(m, IngressSelectorOf(to), IngressK8sRule(to, [key |-> from.key, val |-> Target(from.val)]),
                      remote, local, protocol, port)
<1> HIDE DEF Out, In
<1>14. ASSUME Generate(m).ok
       PROVE  Opens(Generate(m).objs, "ingress", remote, local, protocol, port) <=> Target(rule.val).enabled /\ In
  BY <1>8, <1>9, <1>10, <1>12, <1>13, <1>14, MirrorOpens DEF In
<1>15. CASE Target(rule.val).enabled
  <2>1. parseEgressRemoteKey(rule.key) # Nil
    <3> DEFINE e == [key |-> rule.key, val |-> Target(rule.val)]
    <3>1. e \in ToSet(Enabled(entry.val.peer.k8s))
      BY <1>4, <1>15, EnabledToSet
    <3>2. parseEgressRemoteKey(e.key) # Nil
      <4> HIDE DEF e
      <4> QED BY <1>1, <3>1, RulesAreRead
    <3> QED BY <3>2
  <2>2. rule.key.matches /\ parsePortSpec(rule.key.ports) # Nil
    BY <2>1 DEF parseEgressRemoteKey, ParsedWithPorts
  <2>3. parseIngressLocalKey(to.key) # Nil
    BY <1>6, <1>9, <2>2 DEF MirrorRead
  <2>4. OneRule(to, from)
    BY <1>6, <1>9, <1>11, <2>3 DEF MirrorRead, OneRule
  <2>5. Generate(m).ok
    BY <1>1, <1>5, <1>9, <2>4, MirrorRenders
  <2>6. Out <=> IsAbout(rule, remote) /\ In
    BY <1>1, <1>2, <1>3, <1>4, <1>5, <1>9, <2>1, <2>3, MirrorLets DEF Out, In
  <2> QED BY <1>14, <1>15, <2>5, <2>6 DEF Out
<1>16. CASE ~Target(rule.val).enabled
  <2>1. ~Opens(Generate(m).objs, "ingress", remote, local, protocol, port)
    <3>1. CASE Generate(m).ok
      BY <1>14, <1>16, <3>1
    <3>2. CASE ~Generate(m).ok
      <4>1. Generate(m) = Err
        <5>1. Generate(m) = Err \/ \E made : Generate(m) = Ok(made)
          BY DEF Generate
        <5>2. \A made : Ok(made).ok
          BY DEF Ok
        <5> QED BY <3>2, <5>1, <5>2
      <4>2. DOMAIN Generate(m).objs = {}
        BY <4>1, ShortLists DEF Err
      <4> QED BY <4>2 DEF Opens
    <3> QED BY <3>1, <3>2
  <2> QED BY <1>16, <2>1
<1> QED BY <1>15, <1>16

\* Two Packages meet, whatever their rules are: the k8s egress rules of a Package let
\* out to a workload, pod by pod and port by port, exactly what the same rules written
\* as ingress rules of a Package in the workload's namespace let in.  The selectors,
\* wildcards, overrides, protocols and ports that egressSelector, remotePodSelector,
\* ingressSelector and remoteNamespaceSelector work out on the two sides agree, and so
\* do the ports after injectHBonePorts.
THEOREM RulesMeet == Spec => []MirroredRulesMeet
<1>1. IInv => MirroredRulesMeet
  <2> DEFINE from == input.pkg.spec.networkPolicies.egress.from
             entries == {e \in ToSet(from) : e.val.peer # Nil}
             Mirrors(remote) == UNION {{Generate(Mirror(input, e, rule, remote)).objs :
                                  rule \in {r \in ToSet(e.val.peer.k8s) : IsAbout(r, remote)}} : e \in entries}
  <2> SUFFICES ASSUME IInv, Rendered, NpEnabled, input.pkg.spec.networkPolicies.egress # Nil,
                      PlainSpec(input.pkg.spec), NEW remote \in Workloads, \A e \in entries : e.key # <<>>,
                      NEW local \in {w \in Workloads : w.ns = input.pkg.ns},
                      NEW protocol \in {"TCP", "UDP"}, NEW port \in ProbePorts
               PROVE  Opens(output.objs, "egress", local, remote, protocol, port)
                        <=> \E made \in Mirrors(remote) : Opens(made, "ingress", remote, local, protocol, port)
    BY DEF MirroredRulesMeet
  <2> DEFINE Out(entry, e) == Lets(input, EgressSelectorOf(entry), EgressK8sRule(e), local, remote, protocol, port)
             Decoded(rule) == [key |-> rule.key, val |-> Target(rule.val)]
             In(made) == Opens(made, "ingress", remote, local, protocol, port)
             There(entry, rule) == Generate(Mirror(input, entry, rule, remote)).objs
  <2>1. /\ input \in Inputs /\ SoundInput(input) /\ output = Generate(input) /\ Generate(input).ok
        /\ NetpolsEnabled(input.pkg)
    BY RenderedFacts DEF IInv, NpEnabled, NetpolsEnabled
  <2>2. Opens(output.objs, "egress", local, remote, protocol, port) <=>
          \E entry \in ToSet(from) :
            entry.val.peer # Nil /\ \E e \in ToSet(Enabled(entry.val.peer.k8s)) : Out(entry, e)
    BY <2>1, EgressOpens
  <2>3. ASSUME NEW entry \in entries
        PROVE  (\E e \in ToSet(Enabled(entry.val.peer.k8s)) : Out(entry, e)) <=>
                 \E rule \in ToSet(entry.val.peer.k8s) : Target(rule.val).enabled /\ Out(entry, Decoded(rule))
    <3>1. SoundFrom(entry) /\ entry.val.peer # Nil
      BY <2>1, <2>3, RulesAreRead
    <3>2. IsList(entry.val.peer.k8s)
      BY <3>1 DEF SoundFrom, SoundEntry, AllOf
    <3>3. \A e : e \in ToSet(Enabled(entry.val.peer.k8s)) <=>
                 \E rule \in ToSet(entry.val.peer.k8s) : Target(rule.val).enabled /\ e = Decoded(rule)
      BY <3>2, EnabledToSet
    <3> HIDE DEF Out, Decoded, entries
    <3>4. ASSUME NEW e \in ToSet(Enabled(entry.val.peer.k8s)), Out(entry, e)
          PROVE  \E rule \in ToSet(entry.val.peer.k8s) : Target(rule.val).enabled /\ Out(entry, Decoded(rule))
      BY <3>3, <3>4
    <3>5. ASSUME NEW rule \in ToSet(entry.val.peer.k8s), Target(rule.val).enabled, Out(entry, Decoded(rule))
          PROVE  \E e \in ToSet(Enabled(entry.val.peer.k8s)) : Out(entry, e)
      BY <3>3, <3>5
    <3> QED BY <3>4, <3>5
  <2>4. ASSUME NEW entry \in entries, NEW rule \in ToSet(entry.val.peer.k8s)
        PROVE  IsAbout(rule, remote) /\ In(There(entry, rule))
                 <=> Target(rule.val).enabled /\ Out(entry, Decoded(rule))
    BY <2>1, <2>4, MirrorMeets
  <2> HIDE DEF Out, In, Decoded, There, from
  <2>5. (\E made \in Mirrors(remote) : In(made)) <=>
          \E entry \in entries : \E rule \in ToSet(entry.val.peer.k8s) :
            IsAbout(rule, remote) /\ In(There(entry, rule))
    BY DEF There
  <2>6. Opens(output.objs, "egress", local, remote, protocol, port) <=>
          \E entry \in entries : \E rule \in ToSet(entry.val.peer.k8s) :
            Target(rule.val).enabled /\ Out(entry, Decoded(rule))
    BY <2>2, <2>3
  <2> HIDE DEF entries, Mirrors
  <2>7. Opens(output.objs, "egress", local, remote, protocol, port) <=> \E made \in Mirrors(remote) : In(made)
    BY <2>4, <2>5, <2>6
  <2> QED BY <2>7 DEF In
<1> QED BY <1>1, RenderingInductive, PTL
=============================================================================
