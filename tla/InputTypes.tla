----------------------------- MODULE InputTypes -----------------------------
(***************************************************************************)
(* What the types of api/v1alpha1, of the shorthand and of generator.Input *)
(* promise of an input: a list is a list, and a struct has its fields.  A  *)
(* field that nothing is said of may be anything.                          *)
(***************************************************************************)
EXTENDS AuthorizationPolicies

IsList(list) == list \in Seq(ToSet(list))
HasFields(struct, fields) == struct = [f \in fields |-> struct[f]]
AllOf(list, Sound(_)) == IsList(list) /\ \A i \in DOMAIN list : Sound(list[i])

\* An endPort is not below its port, which is a number: the API server refuses
\* every other policy.
SoundPort(p) == p.end # Nil => {p.port.int, p.end} \subseteq Int /\ p.port.int <= p.end
SoundRule(rule) == HasFields(rule, {"peers", "ports"}) /\ AllOf(rule.ports, SoundPort)
SoundPolicy(spec) ==
  /\ HasFields(spec, {"selector", "types", "egress", "ingress"})
  /\ AllOf(spec.egress, SoundRule) /\ AllOf(spec.ingress, SoundRule)

SoundDefinitions(definitions) ==
  \A name \in DOMAIN definitions : AllOf(definitions[name].ports, SoundPort)

\* The text of a range names its two ends, in order as the policy has them: the API
\* server refuses every other policy.
SoundKeyPorts(ports) ==
  /\ IsList(ports.nums) /\ ToSet(ports.nums) \subseteq Int
  /\ ports.range => Len(ports.nums) = 2 /\ Int32(ports.nums[1]) <= Int32(ports.nums[2])

\* Nil is no CIDR.
ASSUME CidrAssumption == Nil \notin CIDR

\* A name can be selected.
IsName(name) == Nil \notin {NamespaceIs(name), NameIs(name)}

\* One entry of k8s, definition, cidr or literal, and of egress.from or ingress.to.
SoundTarget(e) == HasFields(e.val, {"enabled", "podSelector", "namespaceSelector", "metadata", "spec"})
SoundWithPorts(e) == SoundTarget(e) /\ SoundKeyPorts(e.key.ports)
SoundRemote(e) == SoundWithPorts(e) /\ IsName(e.key.ns) /\ IsName(e.key.pod)
SoundCidr(e) == SoundWithPorts(e) /\ e.key.cidr \in CIDR
SoundLiteral(e) == SoundTarget(e) /\ (e.val.spec # Nil => AllOf(e.val.spec.rules, SoundRule))
SoundEntry(e, K8s(_), Cidr(_)) ==
  /\ HasFields(e.val, {"decodes", "podSelector", "metadata", "peer"})
  /\ e.val.peer # Nil =>
       /\ AllOf(e.val.peer.k8s, K8s) /\ AllOf(e.val.peer.definition, SoundTarget)
       /\ AllOf(e.val.peer.cidr, Cidr) /\ AllOf(e.val.peer.literal, SoundLiteral)
SoundFrom(e) == SoundEntry(e, SoundRemote, SoundCidr) /\ IsName(e.key)
SoundTo(e) == SoundEntry(e, SoundTarget, SoundTarget) /\ SoundKeyPorts(e.key.ports)

\* The defaults of a side: absent, or a switch for all and one for each.  A struct
\* that a switch is turned off in is still there: Nil is no struct.
SoundDefaults(defaults, switches) ==
  defaults # Nil =>
    /\ HasFields(defaults, {"enabled"} \cup switches)
    /\ \A default \in switches : [defaults EXCEPT ![default] = FALSE] # Nil
StaysWithDefaults(struct, switches) ==
  struct.defaults # Nil => \A default \in switches : [struct EXCEPT !.defaults[default] = FALSE] # Nil
StaysWith(struct, field, switches) ==
  struct[field] # Nil /\ struct[field].defaults # Nil =>
    \A default \in switches : [struct EXCEPT ![field].defaults[default] = FALSE] # Nil

EgressSwitches == {"denyAll", "allowInNamespace", "allowKubeDNS", "allowIstiod"}
IngressSwitches == {"denyAll", "allowInNamespace", "allowPrometheusToIstioSidecar"}
AuthzSwitches == {"denyAll", "allowInNamespace"}

SoundAuthorization(authz) ==
  /\ HasFields(authz, {"enabled", "generateFromNetpol", "defaults", "custom", "additionalPolicies"})
  /\ IsList(authz.custom) /\ IsList(authz.additionalPolicies)
  /\ SoundDefaults(authz.defaults, AuthzSwitches) /\ StaysWithDefaults(authz, AuthzSwitches)
SoundIstio(istio) ==
  /\ HasFields(istio, {"enabled", "ambient", "prependReleaseName", "mtls", "sidecar", "serviceEntries",
                       "authorizationPolicies"})
  /\ IsList(istio.serviceEntries)
  /\ istio.authorizationPolicies # Nil => SoundAuthorization(istio.authorizationPolicies)
  /\ StaysWith(istio, "authorizationPolicies", AuthzSwitches)

SoundEgress(egress) ==
  /\ HasFields(egress, {"defaults", "from", "definitions", "excludeCIDRs"})
  /\ AllOf(egress.from, SoundFrom) /\ SoundDefinitions(egress.definitions)
  /\ egress.excludeCIDRs # Nil => egress.excludeCIDRs \in Seq(CIDR)
  /\ SoundDefaults(egress.defaults, EgressSwitches) /\ StaysWithDefaults(egress, EgressSwitches)
SoundIngress(ingress) ==
  /\ HasFields(ingress, {"defaults", "to", "definitions"})
  /\ AllOf(ingress.to, SoundTo) /\ SoundDefinitions(ingress.definitions)
  /\ SoundDefaults(ingress.defaults, IngressSwitches) /\ StaysWithDefaults(ingress, IngressSwitches)
SoundNetworkPolicies(np) ==
  /\ HasFields(np, {"enabled", "prependReleaseName", "egress", "ingress", "additionalPolicies",
                    "hbonePortInjection"})
  /\ np.egress # Nil => SoundEgress(np.egress)
  /\ np.ingress # Nil => SoundIngress(np.ingress)
  /\ AllOf(np.additionalPolicies, LAMBDA raw : raw.decodes => SoundPolicy(raw.spec))
  /\ StaysWith(np, "egress", EgressSwitches) /\ StaysWith(np, "ingress", IngressSwitches)

SoundRoute(e) ==
  /\ HasFields(e.val, {"decodes", "enabled", "gateways", "service", "port", "containerPort", "selector",
                       "http", "passthrough", "hosts", "resolution", "labels", "annotations"})
  /\ e.val.gateways # Nil => IsList(e.val.gateways)
SoundRoutes(routes) ==
  /\ AllOf(routes.inbound, SoundRoute) /\ IsList(routes.outbound)
  /\ routes.defaults # Nil => IsList(routes.defaults)

\* "*" is no name of a namespace.
SoundPackage(pkg) ==
  /\ HasFields(pkg, {"name", "ns", "uid", "spec"}) /\ IsName(pkg.ns) /\ pkg.ns # Wildcard
  /\ HasFields(pkg.spec, {"istio", "networkPolicies", "routes"})

SoundInput(in) ==
  /\ HasFields(in, {"pkg", "kubeAPIPorts", "shared", "sharedErr", "ingressConfig", "ingressConfigErr"})
  /\ SoundPackage(in.pkg)
  /\ IsList(in.kubeAPIPorts)
  /\ SoundDefinitions(in.shared.egress) /\ SoundDefinitions(in.shared.ingress)
  /\ in.ingressConfig # Nil /\ in.ingressConfig.defaults # Nil => IsList(in.ingressConfig.defaults)
  /\ in.pkg.spec.istio # Nil => SoundIstio(in.pkg.spec.istio)
  /\ in.pkg.spec.networkPolicies # Nil => SoundNetworkPolicies(in.pkg.spec.networkPolicies)
  /\ in.pkg.spec.routes # Nil => SoundRoutes(in.pkg.spec.routes)
=============================================================================
