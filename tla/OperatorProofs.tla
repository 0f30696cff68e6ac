--------------------------- MODULE OperatorProofs ---------------------------
(***************************************************************************)
(* What the reconciler takes for granted of the generator, proved of the   *)
(* generator: PackageController has these facts as assumptions on its      *)
(* parameters, and Operator gives it pkg/generator for them.               *)
(***************************************************************************)
EXTENDS Operator, GeneratorProofs

\* UnreadableAssumption of PackageController: a Package that Reconcile renders while
\* the global ConfigMap cannot be read is rendered as it would be with any ConfigMap,
\* a malformed one included.  So a Reconcile that went on blindly and reported Ready
\* left the objects that the ConfigMap asks for.
THEOREM UnreadableIsRefused ==
  GlobalConfig =>
    \A p \in Packages, s \in Specs, ports \in KubeAPIPorts, cm \in ConfigMap :
      LET blind == Rendered(p, s, sharedConfig(FALSE, cm), ports)
      IN blind.ok => Rendered(p, s, sharedConfig(TRUE, cm), ports) = blind
<1> SUFFICES ASSUME GlobalConfig, NEW p \in Packages, NEW s \in Specs, NEW ports \in KubeAPIPorts,
                    NEW cm \in ConfigMap, Rendered(p, s, sharedConfig(FALSE, cm), ports).ok
             PROVE  Rendered(p, s, sharedConfig(TRUE, cm), ports) = Rendered(p, s, sharedConfig(FALSE, cm), ports)
  BY Zenon
<1> DEFINE blind == sharedConfig(FALSE, cm)
           seeing == sharedConfig(TRUE, cm)
           in == InputOf(p, s, blind, ports)
           in2 == InputOf(p, s, seeing, ports)
<1>1. blind \in Inputs
  BY DEF sharedConfig, Inputs
<1>2. blind.definitionsErr /\ blind.routesErr
  BY DEF sharedConfig
<1> HIDE DEF blind, seeing
<1>3. in2.pkg = in.pkg /\ in2.kubeAPIPorts = in.kubeAPIPorts /\ in.sharedErr /\ in.ingressConfigErr
  BY <1>2 DEF InputOf
<1>4. in.pkg.spec.routes # Nil => SoundRoutes(in.pkg.spec.routes)
  <2>1. SoundInput(in)
    BY <1>1, InputOfAssumption
  <2> HIDE DEF in
  <2> QED BY <2>1 DEF SoundInput
<1>5. Generate(in).ok
  BY DEF Rendered, blind
<1> HIDE DEF in, in2
<1>6. Generate(in2) = Generate(in)
  BY <1>3, <1>4, <1>5, GenerateBlind
<1> QED BY <1>6 DEF Rendered, in, in2, blind, seeing

\* kubeAPIPorts of the controller asks for the Service only if the spec refers to it:
\* where it does not ask, no answer would have changed what is rendered, so that the
\* objects in place are right whatever the Service is or becomes.
THEOREM PortsOnlyWhereReferenced ==
  \A p \in Packages, s \in Specs, i \in Inputs, ports \in KubeAPIPorts :
    ~OperatorReferencesKubeAPI[s] /\ Rendered(p, s, i, "nil").ok =>
      Rendered(p, s, i, ports) = Rendered(p, s, i, "nil")
<1> SUFFICES ASSUME NEW p \in Packages, NEW s \in Specs, NEW i \in Inputs, NEW ports \in KubeAPIPorts,
                    ~OperatorReferencesKubeAPI[s], Rendered(p, s, i, "nil").ok
             PROVE  Rendered(p, s, i, ports) = Rendered(p, s, i, "nil")
  OBVIOUS
<1> DEFINE in == InputOf(p, s, i, "nil")
           in2 == InputOf(p, s, i, ports)
<1>1. /\ in2.pkg = in.pkg /\ in2.shared = in.shared /\ in2.sharedErr = in.sharedErr
      /\ in2.ingressConfig = in.ingressConfig /\ in2.ingressConfigErr = in.ingressConfigErr
      /\ in.pkg.spec = SpecOf(p, s)
  BY DEF InputOf
<1>2. SoundInput(in)
  BY InputOfAssumption DEF KubeAPIPorts
<1>3. ~referencesKubeAPI(in.pkg.spec)
  BY <1>1, SpecOfAssumption DEF OperatorReferencesKubeAPI
<1>4. Generate(in).ok
  BY DEF Rendered
<1> HIDE DEF in, in2
<1>5. Generate(in2) = Generate(in)
  BY <1>1, <1>2, <1>3, <1>4, GenerateWithoutPorts
<1> QED BY <1>5 DEF Rendered, in, in2

\* KeysAssumption of PackageController: whatever a Package asks for, every object that
\* applyAll writes is of one of the kinds that pruneStale lists, so that nothing is
\* applied that could never be pruned.
THEOREM RenderedKindsAreListed ==
  \A p \in Packages, s \in Specs, i \in Inputs, ports \in KubeAPIPorts :
    \A n \in DOMAIN Rendered(p, s, i, ports).objs :
      \E kind \in 1..6 : Rendered(p, s, i, ports).objs[n].key[1] = managedListKinds[kind]
<1> SUFFICES ASSUME NEW p \in Packages, NEW s \in Specs, NEW i \in Inputs, NEW ports \in KubeAPIPorts,
                    NEW n \in DOMAIN Rendered(p, s, i, ports).objs
             PROVE  \E kind \in 1..6 : Rendered(p, s, i, ports).objs[n].key[1] = managedListKinds[kind]
  OBVIOUS
<1> DEFINE in == InputOf(p, s, i, ports)
           out == Generate(in)
<1>1. SoundInput(in)
  BY InputOfAssumption
<1>2. n \in DOMAIN out.objs /\ Rendered(p, s, i, ports).objs[n] = Applied(out.objs[n])
  BY DEF Rendered
<1>3. out.ok
  <2>1. out = Err \/ out.ok
    BY DEF Generate, Ok
  <2> HIDE DEF out
  <2> QED BY <1>2, <2>1 DEF Err
<1> HIDE DEF in
<1>4. PICK obj : SoundObject(obj) /\ out.objs[n] =
        stampMetadata(in.pkg, IF hboneEnabled(in.pkg.spec.networkPolicies, in.pkg.spec.istio)
                                THEN injectHBonePorts(obj) ELSE obj)
  BY <1>1, <1>2, <1>3, GenerateFinishes
<1>5. {"kind", "spec"} \subseteq DOMAIN obj
  BY <1>4 DEF SoundObject, HasFields
<1>6. out.objs[n].kind = obj.kind
  BY <1>4, <1>5, Injected, Stamped
<1>7. Rendered(p, s, i, ports).objs[n].key[1] = obj.kind
  BY <1>2, <1>6 DEF Applied
<1>8. obj.kind \in Kinds
  BY <1>4 DEF SoundObject
<1> QED BY <1>7, <1>8 DEF Kinds, managedListKinds
=============================================================================
