------------------------------ MODULE Operator ------------------------------
(***************************************************************************)
(* The operator as a whole: the reconciler of PackageController with the   *)
(* generator of Generator in it.  What the reconciler calls a spec, an     *)
(* entry of the global ConfigMap or the ports of a Service is a name; here *)
(* is what they stand for, and so what the reconciler renders, applies and *)
(* prunes are the objects that pkg/generator makes.                        *)
(***************************************************************************)
EXTENDS PackageController, Generator, InputTypes

CONSTANTS
  SpecOf(_, _),               \* the spec of that name, in that Package
  EgressPool(_),              \* the definitions in an entry of the ConfigMap
  IngressPool(_),
  IngressConfigOf(_),         \* the ingress configuration in an entry
  PortsOf(_)                  \* the target ports of the Service

\* What Reconcile hands to generator.Generate.
InputOf(p, spec, input, ports) ==
  [pkg              |-> [name |-> <<p>>, ns |-> <<"team">>, uid |-> p, spec |-> SpecOf(p, spec)],
   kubeAPIPorts     |-> PortsOf(ports),
   shared           |-> [egress |-> EgressPool(input.egress), ingress |-> IngressPool(input.ingress)],
   sharedErr        |-> input.definitionsErr,
   ingressConfig    |-> IngressConfigOf(input.routes),
   ingressConfigErr |-> input.routesErr]

ASSUME InputOfAssumption ==
  \A p \in Packages, s \in Specs, i \in Inputs, ports \in KubeAPIPorts : SoundInput(InputOf(p, s, i, ports))

\* Whether a spec refers to the API server does not depend on the Package it is in.
ASSUME SpecOfAssumption ==
  \A p \in Packages, s \in Specs :
    referencesKubeAPI(SpecOf(p, s)) = referencesKubeAPI(SpecOf(AnyPackage, s))

\* An object as server-side apply sees it: kind and name, and what it declares.
\* Its label and its owner are those of the Package it is generated for.
Applied(obj) ==
  [key |-> <<obj.kind, obj.name>>,
   val |-> [labels |-> obj.labels, annotations |-> obj.annotations, spec |-> obj.spec]]

Rendered(p, spec, input, ports) ==
  LET out == Generate(InputOf(p, spec, input, ports))
  IN [ok |-> out.ok, objs |-> [i \in DOMAIN out.objs |-> Applied(out.objs[i])]]

\* The generator is a pure function, so this is everything it ever returns (it is
\* the empty function that makes TLC keep the table).
Renderings ==
  [p \in Packages, spec \in Specs, input \in Inputs, ports \in KubeAPIPorts |->
     Rendered(p, spec, input, ports)] @@ <<>>

AllVals ==
  {Drifted} \cup {o.val : o \in UNION {Range(out.objs) : out \in Range(Renderings)}}

\* The constants of PackageController.  The keys are left to the instance, and
\* GenerateAssumption has TLC compare them with what is rendered.  (With the LETs
\* TLC's coverage statistics take them for the constants they are, and do not unfold
\* the generator at every use.)
OperatorGenerateFor == LET table == Renderings IN table
OperatorReferencesKubeAPI ==
  [spec \in Specs |-> referencesKubeAPI(SpecOf(AnyPackage, spec))]
OperatorVals == LET vals == AllVals IN vals
=============================================================================
