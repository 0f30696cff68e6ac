---------------------------- MODULE SampleSpecs ----------------------------
(***************************************************************************)
(* Constructors for the parts of a Package, as a user writes them: one for *)
(* each struct of api/v1alpha1, with the fields that the generator reads.  *)
(***************************************************************************)
EXTENDS Generator

MCLowerCase(part) == IF part = "kubeAPI" THEN "kubeapi" ELSE part

Entry(key, val) == [key |-> key, val |-> val]
On(key) == Entry(key, Just(TRUE))
Off(key) == Entry(key, Just(FALSE))

-----------------------------------------------------------------------------
(* The parts of a Package. *)

app == <<"app">>
apiPod == <<"api">>

PackageWith(istio, networkPolicies, routes) ==
  [name |-> app, ns |-> <<"team">>, uid |-> "uid",
   spec |-> [istio |-> istio, networkPolicies |-> networkPolicies, routes |-> routes]]

Authorization(enabled, fromNetpol) ==
  [enabled |-> enabled, generateFromNetpol |-> fromNetpol, defaults |-> Nil,
   custom |-> <<>>, additionalPolicies |-> <<>>]

Istio(ambient, authorizationPolicies) ==
  [enabled |-> TRUE, ambient |-> ambient, prependReleaseName |-> FALSE, mtls |-> "",
   sidecar |-> Nil, serviceEntries |-> <<>>, authorizationPolicies |-> authorizationPolicies]

Policies(egress, ingress, additional, hbone) ==
  [enabled |-> TRUE, prependReleaseName |-> FALSE, egress |-> egress, ingress |-> ingress,
   additionalPolicies |-> additional, hbonePortInjection |-> hbone]

From(entries, definitions) ==
  [defaults |-> Nil, from |-> entries, definitions |-> definitions, excludeCIDRs |-> Nil]
To(entries, definitions) ==
  [defaults |-> Nil, to |-> entries, definitions |-> definitions]

Peer(k8s, definition, cidr, literal) ==
  [k8s |-> k8s, definition |-> definition, cidr |-> cidr, literal |-> literal]
Rules(selector, peer) ==
  [decodes |-> TRUE, podSelector |-> selector, metadata |-> Nil, peer |-> peer]

-----------------------------------------------------------------------------
(* Definitions and what the global ConfigMap holds. *)

PodDefinition(name) ==
  [decodes |-> TRUE, ports |-> <<Tcp(443)>>,
   peers |-> <<[cidr |-> Nil, except |-> Nil, ns |-> Nil, pod |-> Nested(NameIs(name))]>>]
BrokenDefinition == [decodes |-> FALSE, ports |-> <<>>, peers |-> <<>>]

NoShared == [shared |-> [egress |-> NoEntries, ingress |-> NoEntries], sharedErr |-> FALSE]

NoIngressConfig == [ingressConfig |-> Nil, ingressConfigErr |-> FALSE]

-----------------------------------------------------------------------------
(* Keys and values of shorthand rules. *)

Remote(identity, ns, pod) == [matches |-> TRUE, identity |-> identity, ns |-> ns, pod |-> pod]
Cidr(addr, len) == [matches |-> TRUE, cidr |-> [addr |-> addr, len |-> len]]

Literal(rules) == [Just(TRUE) EXCEPT !.spec = [decodes |-> TRUE, rules |-> rules]]

-----------------------------------------------------------------------------
(* Routes. *)

public == [ns |-> <<"istio", "gateway">>, name |-> <<"public">>, valid |-> TRUE]
edge == [ns |-> <<"edge">>, name |-> <<"public">>, valid |-> TRUE]
malformed == [ns |-> <<>>, name |-> <<"public">>, valid |-> FALSE]

InboundRoute(gateways, containerPort) ==
  [decodes |-> TRUE, enabled |-> TRUE, gateways |-> gateways,
   service |-> [leaf |-> app, domain |-> <<>>], port |-> [int |-> 80], containerPort |-> containerPort,
   selector |-> {}, http |-> <<>>, passthrough |-> Nil, hosts |-> <<<<"app", "dev">>>>,
   resolution |-> "", labels |-> NoEntries, annotations |-> NoEntries]

OutboundRoute(host) ==
  [decodes |-> TRUE, enabled |-> TRUE, hosts |-> <<host>>, location |-> "",
   resolution |-> "", ports |-> <<>>, metadata |-> Nil]

\* `defaults' is defaults.inbound.gateways.
RoutesOf(inbound, defaults) ==
  [defaults |-> defaults, inbound |-> inbound, prependReleaseName |-> FALSE,
   outbound |-> <<Entry(<<"github">>, OutboundRoute(<<"github", "com">>))>>]
=============================================================================
