---------------------------- MODULE MCGenerator ----------------------------
(***************************************************************************)
(* Families of Packages for Rendering, small enough to try every member    *)
(* with every content of the global configuration.                         *)
(***************************************************************************)
EXTENDS Rendering, SampleSpecs

-----------------------------------------------------------------------------
(* Definitions: where a name is defined, and whether the pool can be read. *)

MCSharedPools ==
  {[egress |-> NoEntries, ingress |-> NoEntries],
   [egress |-> kubeAPI :> PodDefinition(<<"apiserver">>),
    ingress |-> <<"gateway">> :> PodDefinition(<<"edge">>)],
   [egress |-> kubeAPI :> BrokenDefinition, ingress |-> <<"gateway">> :> BrokenDefinition]}

MCPortLookups == {<<>>, <<[int |-> 6443]>>, <<[named |-> "https"], [int |-> 443]>>}

Locals(name) == {NoEntries, name :> PodDefinition(<<"own">>)}

EgressEntries ==
  {<<Entry(Wildcard, Rules(Nil, Nil))>>,
   <<Entry(Wildcard, Rules(Nil, Peer(<<>>, <<On(kubeAPI)>>, <<>>, <<>>))),
     Entry(app, Rules(Flat({}), Peer(<<>>, <<>>, <<>>, <<>>)))>>,
   <<Entry(app, Rules(Flat({<<"app", kubeAPI>>}), Peer(<<>>, <<Off(kubeAPI)>>, <<>>, <<>>)))>>}
IngressEntries ==
  {<<>>,
   <<Entry([matches |-> TRUE, scheme |-> "", pod |-> app, ports |-> NoPorts],
           Rules(Nil, Peer(<<>>, <<On(<<"gateway">>), Off(<<"monitoring">>)>>, <<>>, <<>>)))>>}

DefinitionInputs ==
  {[pkg |-> PackageWith(Nil, Policies(From(from, local), To(to, local2), <<>>, FALSE), Nil),
    kubeAPIPorts |-> ports, shared |-> pool, sharedErr |-> err] @@ NoIngressConfig :
     from \in EgressEntries, to \in IngressEntries,
     local \in Locals(kubeAPI), local2 \in Locals(<<"gateway">>),
     ports \in MCPortLookups, pool \in MCSharedPools, err \in BOOLEAN}

-----------------------------------------------------------------------------
(* Ingress shorthand: the forms of a key, with and without the mesh. *)

\* A number of 33 bits: the conversion to an int32 leaves n of it.
Wide(n) == n + 2 * MaxInt32 + 2

PortForms ==
  {NoPorts,
   [nums |-> <<80>>, range |-> FALSE, fits |-> TRUE, brackets |-> FALSE],
   [nums |-> <<80, 443>>, range |-> FALSE, fits |-> TRUE, brackets |-> TRUE],
   [nums |-> <<8080, 8083>>, range |-> TRUE, fits |-> TRUE, brackets |-> FALSE],
   [nums |-> <<15008>>, range |-> FALSE, fits |-> TRUE, brackets |-> FALSE],
   [nums |-> <<Wide(15008), 443>>, range |-> FALSE, fits |-> TRUE, brackets |-> TRUE],
   [nums |-> <<Wide(8080), Wide(8083)>>, range |-> TRUE, fits |-> TRUE, brackets |-> FALSE],
   [nums |-> <<99>>, range |-> FALSE, fits |-> FALSE, brackets |-> FALSE]}

LocalKeys == {[matches |-> TRUE, scheme |-> scheme, pod |-> apiPod, ports |-> ports] :
                scheme \in {"", "udp"}, ports \in PortForms}

MCPeers ==
  {Peer(<<On(Remote(<<>>, <<"backend">>, <<"worker">>)), Off(Remote(<<>>, Wildcard, <<>>))>>,
        <<>>, <<On(Cidr(<<0, 0, 0>>, 0)), On(Cidr(<<1, 0, 0>>, 2))>>, <<>>),
   Peer(<<On(Remote(<<"sa">>, <<"backend">>, <<>>)),
          Entry(Remote(<<>>, Wildcard, Wildcard),
                [Just(Nil) EXCEPT !.namespaceSelector = Nested({<<"tier", <<"web">>>>})])>>,
        <<On(<<"monitoring">>)>>, <<>>,
        <<Entry([matches |-> TRUE, name |-> <<"probe">>],
                Literal(<<Rule(<<Pods({}, Nil)>>, <<Udp(15008)>>)>>))>>),
   Peer(<<>>, <<>>, <<On([Cidr(<<1, 0, 0>>, 2) EXCEPT !.matches = FALSE])>>, <<>>)}

Meshes ==
  {Nil, Istio(FALSE, Nil)}
  \cup {Istio(ambient, Authorization(enabled, fromNetpol)) :
          ambient, enabled \in BOOLEAN, fromNetpol \in {Nil, FALSE}}

IngressInputs ==
  {[pkg |-> PackageWith(istio,
              Policies(Nil, To(<<Entry(key, Rules(selector, peer))>>, NoEntries), <<>>, hbone), Nil),
    kubeAPIPorts |-> <<>>] @@ NoShared @@ NoIngressConfig :
     istio \in Meshes, key \in LocalKeys, peer \in MCPeers,
     selector \in {Nil, Nested({<<"app", <<"other">>>>})}, hbone \in BOOLEAN}

-----------------------------------------------------------------------------
(* Egress k8s rules: the forms of a key, overrides on both ends, two rules. *)

team == <<"team">>
backend == <<"backend">>
worker == <<"worker">>
tierWeb == <<"tier", <<"web">>>>

Workload(ns, name, extra) ==
  [ns |-> ns, nsLabels |-> NamespaceIs(ns) \cup (IF ns = backend THEN {tierWeb} ELSE {}),
   name |-> name, labels |-> NameIs(name) \cup extra]

MCWorkloads ==
  {Workload(team, app, {}), Workload(team, worker, {tierWeb}),
   Workload(backend, app, {tierWeb}), Workload(backend, worker, {})}

MCProbePorts == {80, 443, 8080, 8082, 15008}

EgressKeys ==
  {[matches |-> TRUE, scheme |-> scheme, ns |-> ns, pod |-> pod, ports |-> ports] :
     scheme \in {"", "udp"}, ns \in {backend, Wildcard}, pod \in {<<>>, worker, Wildcard},
     ports \in PortForms}

EgressValues ==
  {Just(TRUE), Just(FALSE), [Just(Nil) EXCEPT !.podSelector = Nested({tierWeb})],
   [Just(Nil) EXCEPT !.namespaceSelector = Flat({tierWeb})]}

EgressInputs ==
  {[pkg |-> PackageWith(Nil, Policies(From(
              <<Entry(localKey, Rules(selector, Peer(<<Entry(key, val)>> \o others, <<>>, <<>>, <<>>)))>>,
              NoEntries), Nil, <<>>, hbone), Nil),
    kubeAPIPorts |-> <<>>] @@ NoShared @@ NoIngressConfig :
     localKey \in {app, Wildcard}, selector \in {Nil, Nested({tierWeb})}, key \in EgressKeys,
     val \in EgressValues, hbone \in BOOLEAN,
     others \in {<<>>, <<On([matches |-> TRUE, scheme |-> "", ns |-> team, pod |-> worker, ports |-> NoPorts])>>}}

-----------------------------------------------------------------------------
(* Default policies, some of them switched off. *)

EgressDefaults ==
  {Nil} \cup {[enabled |-> enabled, denyAll |-> denyAll, allowInNamespace |-> inNamespace,
              allowKubeDNS |-> FALSE, allowIstiod |-> Nil] :
               enabled, denyAll, inNamespace \in {Nil, FALSE}}
IngressDefaults ==
  {Nil} \cup {[enabled |-> enabled, denyAll |-> denyAll, allowInNamespace |-> Nil,
              allowPrometheusToIstioSidecar |-> prometheusToo] :
               enabled, denyAll, prometheusToo \in {Nil, FALSE}}
AuthzDefaults ==
  {Nil} \cup {[enabled |-> enabled, denyAll |-> Nil, allowInNamespace |-> inNamespace] :
               enabled, inNamespace \in {Nil, FALSE}}

DefaultInputs ==
  {[pkg |-> PackageWith([Istio(ambient, [Authorization(enabled, Nil) EXCEPT !.defaults = authz])
                           EXCEPT !.prependReleaseName = ambient],
              [Policies([From(<<>>, NoEntries) EXCEPT !.defaults = egress],
                        [To(<<>>, NoEntries) EXCEPT !.defaults = ingress], <<>>, FALSE)
                 EXCEPT !.prependReleaseName = enabled], Nil),
    kubeAPIPorts |-> <<>>] @@ NoShared @@ NoIngressConfig :
     egress \in EgressDefaults, ingress \in IngressDefaults, authz \in AuthzDefaults,
     ambient, enabled \in BOOLEAN}

-----------------------------------------------------------------------------
(* Routes: where the list of gateways comes from, and who they are. *)

GatewayDefinition(selector) ==
  [podSelector |-> selector, selects |-> TRUE, serviceAccountName |-> <<"edge", "sa">>, named |-> TRUE]

RawConfigs ==
  {[decodes |-> TRUE, defaults |-> Nil, gateways |-> NoEntries],
   [decodes |-> TRUE, defaults |-> <<public>>, gateways |-> public :> GatewayDefinition({<<"app", <<"edge">>>>})],
   [decodes |-> TRUE, defaults |-> <<public>>, gateways |-> public :> GatewayDefinition(Nil)]}

Parsed(raw) == [ingressConfig |-> ParseIngressConfig(raw), ingressConfigErr |-> ParseIngressConfig(raw) = Nil]

MCIngressConfigs == {Nil} \cup ({ParseIngressConfig(raw) : raw \in RawConfigs} \ {Nil})

\* A policy that a user wrote: one rule for pods, on UDP 15008 only.
Additional ==
  [decodes |-> TRUE, name |-> <<"own">>, labels |-> NoEntries, annotations |-> NoEntries,
   spec |-> NetworkPolicySpec({}, "egress", <<Rule(<<Pods(Nil, {})>>, <<Udp(15008)>>)>>)]

InboundLists ==
  {<<Entry(app, InboundRoute(gateways, containerPort))>> :
     gateways \in {Nil, <<>>, <<edge>>, <<public, edge>>, <<malformed>>},
     containerPort \in {Nil, [int |-> 8080], [int |-> -1]}}
  \cup
  {<<Entry(apiPod, [InboundRoute(<<public>>, Nil) EXCEPT !.service.leaf = apiPod,
                                                      !.selector = {<<"app", apiPod>>}]),
     Entry(app, [InboundRoute(Nil, [int |-> 8080]) EXCEPT !.enabled = enabled])>> :
     enabled \in BOOLEAN}
  \cup {<<Entry(app, [InboundRoute(<<public>>, Nil) EXCEPT !.enabled = FALSE])>>}

RouteInputs ==
  {[pkg |-> PackageWith(istio, np, RoutesOf(inbound, defaults)), kubeAPIPorts |-> <<>>]
     @@ NoShared @@ Parsed(raw) :
     istio \in {Nil, Istio(FALSE, Authorization(TRUE, FALSE)), Istio(TRUE, Nil)},
     np \in {Nil, Policies(Nil, Nil, <<Additional>>, FALSE), Policies(Nil, Nil, <<>>, TRUE)},
     inbound \in InboundLists, defaults \in {Nil, <<>>, <<edge>>}, raw \in RawConfigs}

-----------------------------------------------------------------------------
(* What the spec spells out, with labels that are the operator's. *)

Taken == [package |-> <<"other">>, managed_by |-> <<"helm">>]

RawMeshObject(name, decodes) ==
  [name |-> name, labels |-> Taken, annotations |-> NoEntries, spec |-> AllowNothing, decodes |-> decodes]

MeshInputs ==
  {[pkg |-> PackageWith(
      [Istio(ambient, [Authorization(FALSE, Nil) EXCEPT
         !.custom = <<RawMeshObject(name, TRUE)>>,
         !.additionalPolicies = <<Entry(<<"audit">>, [enabled |-> enabled] @@ RawMeshObject(<<>>, decodes))>>])
       EXCEPT !.enabled = enabled, !.mtls = "PERMISSIVE", !.sidecar = "ALLOW_ANY",
              !.serviceEntries = <<RawMeshObject(<<"registry">>, TRUE)>>],
      [Policies(Nil, Nil, <<[Additional EXCEPT !.labels = Taken]>>, FALSE) EXCEPT !.enabled = enabled],
      RoutesOf(<<Entry(app, [InboundRoute(<<public>>, Nil) EXCEPT
                   !.labels = Taken, !.http = http, !.passthrough = passthrough])>>, Nil)),
    kubeAPIPorts |-> <<>>] @@ NoShared @@ NoIngressConfig :
     ambient, enabled, decodes \in BOOLEAN, name \in {<<>>, <<"special">>},
     http \in {<<>>, <<[decodes |-> TRUE]>>, <<[decodes |-> FALSE]>>},
     passthrough \in {Nil} \cup [enabled : {TRUE}, gatewayPort : {Nil, 443}]}

-----------------------------------------------------------------------------
(* Egress CIDR rules and exclusions, malformed ones and ones with host bits. *)

EgressTo(cidr) ==
  [matches |-> TRUE, scheme |-> "", cidr |-> cidr, ports |-> NoPorts]

Metadata == [addr |-> <<1, 1, 0>>, len |-> Width]

CidrInputs ==
  {[pkg |-> PackageWith(Nil, Policies([From(<<Entry(Wildcard,
                Rules(Nil, Peer(<<>>, <<>>, <<On(EgressTo(cidr))>>, <<>>)))>>, NoEntries)
              EXCEPT !.excludeCIDRs = exclusions], Nil, <<>>, FALSE), Nil),
    kubeAPIPorts |-> <<>>] @@ NoShared @@ NoIngressConfig :
     cidr \in CIDR, exclusions \in {Nil, <<>>} \cup {<<ex>> : ex \in CIDR}
                                  \cup {<<ex, Metadata>> : ex \in CIDR}}

MCInputs ==
  CidrInputs \cup (DefinitionInputs \cup (IngressInputs \cup (EgressInputs
    \cup (DefaultInputs \cup (RouteInputs \cup MeshInputs)))))

-----------------------------------------------------------------------------
(* Single Packages for what the documentation says. *)

\* An ingress rule: one that refers to a definition, one for a namespace.
OneRule(istio, ports, peer) ==
  {[pkg |-> PackageWith(istio,
              Policies(Nil, To(<<Entry([matches |-> TRUE, scheme |-> "", pod |-> apiPod, ports |-> ports],
                                       Rules(Nil, peer))>>, NoEntries), <<>>, FALSE), Nil),
    kubeAPIPorts |-> <<>>] @@ NoShared @@ NoIngressConfig}

MonitoringRule ==
  OneRule(Istio(FALSE, Authorization(TRUE, Nil)), NoPorts, Peer(<<>>, <<On(<<"monitoring">>)>>, <<>>, <<>>))

NamespaceRule(istio, ports) ==
  OneRule(istio, ports, Peer(<<On(Remote(<<>>, <<"backend">>, <<>>))>>, <<>>, <<>>, <<>>))

DisabledMesh == NamespaceRule([Istio(FALSE, Authorization(TRUE, Nil)) EXCEPT !.enabled = FALSE], NoPorts)

\* ... and one for a port that is no int32.
WidePort ==
  NamespaceRule(Istio(FALSE, Authorization(TRUE, Nil)),
                [nums |-> <<Wide(80)>>, range |-> FALSE, fits |-> TRUE, brackets |-> FALSE])
=============================================================================
