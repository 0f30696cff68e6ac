----------------------------- MODULE MCOperator -----------------------------
(***************************************************************************)
(* Small instances of Operator.  Most default policies are switched off,   *)
(* so that a Package has two or three objects.                             *)
(***************************************************************************)
EXTENDS Operator, SampleSpecs

Only(switches, denyAll) ==
  [switch \in {"enabled"} \cup switches |->
     CASE switch = "enabled" -> Nil [] switch = "denyAll" -> denyAll [] OTHER -> FALSE]

\* Egress is denied, or left alone, but for the named definitions.
EgressTo(names, denyAll) ==
  [From(IF names = <<>> THEN <<>>
        ELSE <<Entry(Wildcard,
                 Rules(Nil, Peer(<<>>, [i \in DOMAIN names |-> On(names[i])], <<>>, <<>>)))>>,
        NoEntries) EXCEPT !.defaults = Only(EgressSwitches, denyAll)]

\* Ingress to the pod api, from two pods of one namespace.
IngressFromBoth ==
  [To(<<Entry([matches |-> TRUE, scheme |-> "", pod |-> <<"api">>, ports |-> NoPorts],
            Rules(Nil, Peer(<<On(Remote(<<>>, <<"backend">>, <<"api">>)),
                                  On(Remote(<<>>, <<"backend">>, <<"worker">>))>>,
                                <<>>, <<>>, <<>>)))>>,
        NoEntries) EXCEPT !.defaults = Only(IngressSwitches, FALSE)]
NoIngress == [To(<<>>, NoEntries) EXCEPT !.defaults = Only(IngressSwitches, FALSE)]

registry == <<"registry">>

NetworkPoliciesOf(spec) ==
  Policies(CASE spec = "kube"   -> EgressTo(<<kubeAPI>>, TRUE)
             [] spec = "shared" -> EgressTo(<<registry>>, TRUE)
             [] spec = "pooled" -> EgressTo(<<registry>>, FALSE)
             [] OTHER           -> EgressTo(<<>>, TRUE),
           IF spec = "twice" THEN IngressFromBoth ELSE NoIngress, <<>>, FALSE)

\* "small" denies egress and no more, "plain" has an outbound route besides, "kube"
\* refers to the API server; "shared" and "pooled" need a definition of the ConfigMap
\* and "routed" its gateways; "twice" is in the mesh, where its two rules get one
\* policy name.  The Package web shares its namespace, so its objects bear its name.
MCSpecOf(p, spec) ==
  [istio |-> IF spec = "twice" THEN Istio(FALSE, Authorization(TRUE, Nil)) ELSE Nil,
   networkPolicies |-> IF spec = "routed" THEN Nil
                       ELSE [NetworkPoliciesOf(spec) EXCEPT !.prependReleaseName = p = "web"],
   routes |-> CASE spec = "plain"  -> RoutesOf(<<>>, Nil)
                [] spec = "routed" ->
                     [RoutesOf(<<Entry(<<"app">>, InboundRoute(Nil, Nil))>>, Nil)
                        EXCEPT !.outbound = <<>>]
                [] OTHER -> Nil]

MCEgressPool(entry) ==
  IF entry = "pool" THEN registry :> PodDefinition(registry) ELSE NoEntries
MCIngressPool(entry) == NoEntries
MCIngressConfigOf(entry) ==
  IF entry = "pool"
    THEN [defaults |-> <<public>>, gateways |-> NoEntries]
    ELSE [defaults |-> Nil, gateways |-> NoEntries]
MCPortsOf(ports) ==
  CASE ports = "nil" -> <<>> [] ports = "6443" -> <<[int |-> 6443]>> [] OTHER -> <<[named |-> "https"]>>

MCDrifted == [labels |-> NoEntries, annotations |-> NoEntries, spec |-> Nil]

\* The objects these specs come to, by kind and name.
ToAnyPod(what) == <<"allow", "egress", "from", "any", "pod", "to", what>>
FromBackend == <<"allow", "ingress", "to", "api", "any", "port", "from", "ns", "backend">>
NetpolNames(spec) ==
  CASE spec = "kube"   -> {<<"default", "egress", "deny", "all">>, ToAnyPod("kubeapi")}
    [] spec = "shared" -> {<<"default", "egress", "deny", "all">>, ToAnyPod("registry")}
    [] spec = "pooled" -> {ToAnyPod("registry")}
    [] spec = "routed" -> {}
    [] spec = "twice"  -> {<<"default", "egress", "deny", "all">>,
                           FromBackend \o <<"pod", "api">>, FromBackend \o <<"pod", "worker">>}
    [] OTHER           -> {<<"default", "egress", "deny", "all">>}
MeshKeys(spec) ==
  CASE spec = "plain"  -> {<<"ServiceEntry", <<"github", "external">>>>}
    [] spec = "routed" -> {<<"VirtualService", <<"app">>>>, <<"ServiceEntry", <<"app", "internal">>>>}
    [] spec = "twice"  -> {<<"PeerAuthentication", <<"default", "peer", "auth">>>>,
                           <<"AuthorizationPolicy", <<"default", "authz", "allow", "nothing">>>>,
                           <<"AuthorizationPolicy", <<"default", "authz", "allow", "all", "in", "ns">>>>,
                           <<"AuthorizationPolicy", FromBackend>>}
    [] OTHER           -> {}
AllKeys ==
  UNION {{<<"NetworkPolicy", (IF p = "web" THEN <<p>> ELSE <<>>) \o n>> : n \in NetpolNames(spec)}
           \cup MeshKeys(spec) : p \in Packages, spec \in Specs}
MCKeys == AllKeys

-----------------------------------------------------------------------------
\* The ConfigMap is missing, in order, or malformed in all that these specs use.
Pool == [NoConfigMap EXCEPT !.egress = "pool", !.routes = "pool"]
MCConfigMaps == {NoConfigMap, Pool, [Pool EXCEPT !.egress = "malformed", !.routes = "malformed"]}
TwoConfigMaps == {NoConfigMap, Pool}

Never == [d \in Disturbances |-> 0]
EditBudget == [Never EXCEPT !.user = 3]
FaultBudget == [Never EXCEPT !.user = 2, !.crash = 1, !.fault = 1, !.late = 1]
ConfigBudget == [Never EXCEPT !.user = 2, !.config = 2, !.fanout = 1]
DriftBudget == [Never EXCEPT !.user = 1, !.service = 1, !.drift = 1, !.fault = 1, !.late = 1]
ServiceBudget == [Never EXCEPT !.user = 1, !.service = 1]
TwoEdits == [Never EXCEPT !.user = 2]
TwoBudget == [Never EXCEPT !.user = 3, !.config = 1]
OneEdit == [Never EXCEPT !.user = 1]
=============================================================================
