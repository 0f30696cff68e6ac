----------------------------- MODULE Rendering -----------------------------
(***************************************************************************)
(* The Generator, run on one input at a time, and what must hold of its    *)
(* output.                                                                 *)
(***************************************************************************)
EXTENDS Generator, InputTypes

CONSTANTS
  Inputs,           \* the inputs to try
  SharedPools,      \* readable shared definitions: [egress, ingress]
  IngressConfigs,   \* readable ingress configurations, or Nil for none
  PortLookups,      \* what the lookup of the API server's ports may return
  Workloads,        \* the pods of a cluster: [ns, nsLabels, name, labels]
  ProbePorts        \* the ports at which traffic between them is tried

ASSUME InputsAssumption == \A in \in Inputs : SoundInput(in)

\* A namespace has its name for a label, and a workload has its own; "*" is no name of
\* a namespace.
ASSUME WorkloadsAssumption ==
  \A w \in Workloads :
    /\ IsName(w.ns) /\ w.ns # Wildcard
    /\ {pair \in w.nsLabels : pair[1] = "kubernetes.io/metadata.name"} = NamespaceIs(w.ns)
    /\ NameIs(w.name) \subseteq w.labels

VARIABLES input, output

vars == <<input, output>>

Init == input \in Inputs /\ output = Nil

Render == output = Nil /\ output' = Generate(input) /\ UNCHANGED input

Done == output # Nil /\ UNCHANGED vars

Next == Render \/ Done

Spec == Init /\ [][Next]_vars

-----------------------------------------------------------------------------
(* Properties of what is rendered. *)

Rendered == output # Nil /\ output.ok
Objects(kind) == {o \in ToSet(output.objs) : o.kind = kind}

NpEnabled == input.pkg.spec.networkPolicies # Nil /\ input.pkg.spec.networkPolicies.enabled

\* The operator never guesses: a Package that is rendered although the shared
\* definitions or the ingress configuration cannot be read is rendered as it would
\* be with any content they may have (resolveEgressDefinition,
\* resolveIngressDefinition and resolveInboundRoutes refuse everything else).
NeverGuesses ==
  Rendered =>
    /\ input.sharedErr =>
         \A pool \in SharedPools :
           Generate([input EXCEPT !.sharedErr = FALSE, !.shared = pool]) = output
    /\ input.ingressConfigErr =>
         \A config \in IngressConfigs :
           Generate([input EXCEPT !.ingressConfigErr = FALSE, !.ingressConfig = config]) = output

\* The API server's ports are looked up whenever they matter: a rendering that
\* depends on them is one of a spec in which the controller found the reference.
PortsLookedUp ==
  Rendered /\ ~referencesKubeAPI(input.pkg.spec) =>
    \A ports \in PortLookups : Generate([input EXCEPT !.kubeAPIPorts = ports]) = output

\* The port numbers a policy names; a rule without ports has none.
PortNumbers(p) ==
  IF p.port = Nil THEN {}
  ELSE IF "named" \in DOMAIN p.port THEN {}
  ELSE p.port.int .. (IF p.end = Nil THEN p.port.int ELSE p.end)
NetpolNumbers(rule) == UNION {PortNumbers(p) : p \in ToSet(rule.ports)}
TcpNumbers(rule) == UNION {PortNumbers(p) : p \in {p \in ToSet(rule.ports) : p.protocol # "UDP"}}
NumbersAsText(nums) == {ToString(n) : n \in nums}
AuthzNumbers(rule) == UNION {ToSet(rule.to[i]) : i \in DOMAIN rule.to}

\* The rule of an ingress policy and of an AuthorizationPolicy say the same: the
\* same pods and, but for the port of the tunnel, the same ports.
SameTarget(np, ap) ==
  /\ np.spec.selector = ap.spec.selector
  /\ NumbersAsText(NetpolNumbers(np.spec.ingress[1]) \cup {15008})
       = AuthzNumbers(ap.spec.rules[1]) \cup {ToString(15008)}

\* The annotations by which one tells what an object was made from.  A user who
\* writes them makes an object look like another one's.
GeneratedKeys == {"remote_key", "from_spec_literal", "from_namespace", "from_spiffe", "from_cidr"}

Plain(annotations) == DOMAIN annotations \cap GeneratedKeys = {}
PlainEntry(e) == e.val.metadata # Nil => Plain(e.val.metadata.annotations)
PlainRules(entry) ==
  /\ PlainEntry(entry)
  /\ entry.val.peer # Nil =>
       \A kind \in {"k8s", "definition", "cidr", "literal"} :
         \A e \in ToSet(entry.val.peer[kind]) : PlainEntry(e)

PlainPolicies(np) ==
  /\ np.egress # Nil => \A e \in ToSet(np.egress.from) : PlainRules(e)
  /\ np.ingress # Nil => \A e \in ToSet(np.ingress.to) : PlainRules(e)
  /\ \A raw \in ToSet(np.additionalPolicies) : raw.decodes => Plain(raw.annotations)
PlainAuthz(authz) ==
  /\ \A raw \in ToSet(authz.custom) : raw.decodes => Plain(raw.annotations)
  /\ \A e \in ToSet(authz.additionalPolicies) : e.val.decodes => Plain(e.val.annotations)
PlainSpec(spec) ==
  /\ spec.networkPolicies # Nil => PlainPolicies(spec.networkPolicies)
  /\ spec.routes # Nil => \A e \in ToSet(spec.routes.inbound) : e.val.decodes => Plain(e.val.annotations)
  /\ spec.istio # Nil /\ spec.istio.authorizationPolicies # Nil =>
       PlainAuthz(spec.istio.authorizationPolicies)

FromKey(ap) ==
  CASE "from_namespace" \in DOMAIN ap.annotations -> ap.annotations.from_namespace
    [] "from_spiffe" \in DOMAIN ap.annotations -> ap.annotations.from_spiffe
    [] "from_cidr" \in DOMAIN ap.annotations -> ap.annotations.from_cidr
    [] OTHER -> Nil

ByKey == {np \in Objects("NetworkPolicy") :
            np.spec.ingress # <<>> /\ "remote_key" \in DOMAIN np.annotations
              /\ "from_spec_literal" \notin DOMAIN np.annotations}

\* Every number in the local keys of ingress rules is an int32.
AreInt32s(nums) == ToSet(nums) \subseteq -MaxInt32 - 1 .. MaxInt32
LocalPortsFit(np) ==
  np.ingress # Nil => \A entry \in ToSet(np.ingress.to) : AreInt32s(entry.key.ports.nums)

\* Layer 4 and layer 7 agree: a k8s or CIDR ingress rule gives a NetworkPolicy and
\* an AuthorizationPolicy for the same pods and the same ports, ranges included
\* (buildShorthandIngressNetpol, buildIngressCIDRNetpol and their two authz
\* counterparts compute them independently).  Left aside are keys with a number that
\* is no int32: layer 4 keeps its last 32 bits, layer 7 all of it (KeyPortsAreOpened).
CompanionsAgree ==
  Rendered /\ NpEnabled /\ authzEnabled(input.pkg.spec.istio)
           /\ generateFromNetpol(input.pkg.spec.istio) /\ PlainSpec(input.pkg.spec)
           /\ LocalPortsFit(input.pkg.spec.networkPolicies) =>
    /\ \A np \in ByKey : \E ap \in Objects("AuthorizationPolicy") :
         FromKey(ap) = np.annotations.remote_key /\ SameTarget(np, ap)
    /\ \A ap \in Objects("AuthorizationPolicy") : FromKey(ap) # Nil =>
         \E np \in ByKey : FromKey(ap) = np.annotations.remote_key /\ SameTarget(np, ap)

\* In the mesh a rule is reached through the tunnel: when HBONE is on, every rule
\* of every NetworkPolicy that names pods and ports lets TCP 15008 through, those
\* of routes and the user's own policies included (injectHBonePorts is the last
\* pass over the objects).
AmbientReachable ==
  Rendered /\ hboneEnabled(input.pkg.spec.networkPolicies, input.pkg.spec.istio) =>
    \A np \in Objects("NetworkPolicy") :
      \A rule \in ToSet(np.spec.egress) \cup ToSet(np.spec.ingress) :
        peerHasK8sSelector(rule.peers) /\ rule.ports # <<>> => 15008 \in TcpNumbers(rule)

\* Server-side apply leaves, of objects with one kind and name, the last.
LastWrites ==
  {output.objs[i] : i \in {i \in DOMAIN output.objs :
     \A j \in DOMAIN output.objs :
       j > i => <<output.objs[j].kind, output.objs[j].name>> # <<output.objs[i].kind, output.objs[i].name>>}}

Collides == Cardinality(LastWrites) # Len(output.objs)

\* A NetworkPolicy and an AuthorizationPolicy in force that let traffic of a gateway
\* through to the pods of a route, on a port.
LetsIn(selector, gw, port) ==
  /\ NpEnabled => \E np \in LastWrites :
       /\ np.kind = "NetworkPolicy" /\ np.spec.selector = selector
       /\ \E rule \in ToSet(np.spec.ingress) :
            /\ Pods(NamespaceIs(gw.ns), gw.definition.podSelector) \in ToSet(rule.peers)
            /\ port \in NetpolNumbers(rule)
  /\ authzEnabled(input.pkg.spec.istio) => \E ap \in LastWrites :
       /\ ap.kind = "AuthorizationPolicy" /\ ap.spec.selector = selector
       /\ \E rule \in ToSet(ap.spec.rules) :
            /\ rule.from = "principal"
            /\ rule.who = Principal(gw.ns, gw.definition.serviceAccountName)
            /\ rule.to # <<>> => ToString(port) \in AuthzNumbers(rule)

\* The inbound routes, each with the gateways its VirtualService is bound to.
BoundTo(name) ==
  UNION {ToSet(vs.spec.gateways) : vs \in {vs \in Objects("VirtualService") :
    vs.name = prependName(input.pkg.spec.routes.prependReleaseName, input.pkg.name, name)}}

RouteAdmitted(entry) ==
  LET port == IF entry.val.containerPort = Nil THEN entry.val.port ELSE entry.val.containerPort IN
  entry.val.enabled /\ port \in [int : 0 .. MaxInt32] =>
    /\ BoundTo(entry.key) # {}
    /\ \A ref \in BoundTo(entry.key) :
         LetsIn(IF entry.val.selector = {} THEN NameIs(entry.key) ELSE entry.val.selector,
                [ns |-> ref.ns, definition |-> gatewayDefinition(ref, input.ingressConfig)], port.int)

\* A route works end to end: each gateway its VirtualService is bound to, wherever
\* the list came from, is let through to the pods by the policies of both layers,
\* on the port the pods listen on, unless that has a name for a number (it counts as
\* 0 then), is negative (layer 7 reads it without its sign) or two objects got the
\* same name.
RoutesAdmitTheirGateways ==
  Rendered /\ input.pkg.spec.routes # Nil /\ ~Collides =>
    \A entry \in ToSet(input.pkg.spec.routes.inbound) : RouteAdmitted(entry)

-----------------------------------------------------------------------------
(* The default policies that have a switch: where it is, and their names.    *)

Switches ==
  [egress  |-> [denyAll |-> <<"deny", "all">>, allowInNamespace |-> <<"allow", "all", "in", "ns">>,
                allowKubeDNS |-> <<"allow", "kube", "dns">>, allowIstiod |-> <<"allow", "istiod">>],
   ingress |-> [denyAll |-> <<"deny", "all">>, allowInNamespace |-> <<"allow", "all", "in", "ns">>,
                allowPrometheusToIstioSidecar |-> <<"allow", "prometheus", "to", "istio", "sidecar">>],
   authz   |-> [denyAll |-> <<"nothing">>, allowInNamespace |-> <<"all", "in", "ns">>]]

\* Whether a switch is in force: it is on, and so is the one for all of them.
IsOn(defaults, default) == defaults.enabled # FALSE /\ defaults[default] # FALSE

\* `off' is the output without one object, the one of that kind and name.
LacksOnly(off, kind, name) ==
  \E i \in DOMAIN output.objs :
    /\ <<output.objs[i].kind, output.objs[i].name>> = <<kind, name>>
    /\ off = Ok(RemoveAt(output.objs, i))

\* Every default can be switched off on its own: a switch that is on takes away one
\* policy, the one it is named for, and leaves every other object of either direction
\* and layer as it was, whatever the other switches and the mesh are; a switch that is
\* off, or has nothing to do in the mesh, changes nothing (egressDenyAll ...
\* ingressAllowPromToSidecar, authzAllowNothing and authzAllowAllInNS).
DefaultsSwitchAlone ==
  Rendered /\ NpEnabled =>
    LET np == input.pkg.spec.networkPolicies
        istio == input.pkg.spec.istio
    IN /\ \A side \in {"egress", "ingress"} :
            np[side] # Nil /\ np[side].defaults # Nil =>
              \A default \in DOMAIN Switches[side] :
                LET off == Generate([input EXCEPT
                              !.pkg.spec.networkPolicies[side].defaults[default] = FALSE])
                    sidecars == default \in {"allowIstiod", "allowPrometheusToIstioSidecar"}
                IN IF IsOn(np[side].defaults, default) /\ ~(sidecars /\ istioAmbient(istio))
                     THEN LacksOnly(off, "NetworkPolicy",
                            prependName(np.prependReleaseName, input.pkg.name,
                                        <<"default", side>> \o Switches[side][default]))
                     ELSE off = output
       /\ istio # Nil /\ istio.authorizationPolicies # Nil /\ istio.authorizationPolicies.defaults # Nil =>
            \A default \in DOMAIN Switches.authz :
              LET off == Generate([input EXCEPT
                            !.pkg.spec.istio.authorizationPolicies.defaults[default] = FALSE])
              IN IF /\ IsOn(istio.authorizationPolicies.defaults, default)
                    /\ authzEnabled(istio) /\ SideEnabled(np.ingress)
                   THEN LacksOnly(off, "AuthorizationPolicy",
                          prependName(istio.prependReleaseName, input.pkg.name,
                                      <<"default", "authz", "allow">> \o Switches.authz[default]))
                   ELSE off = output

-----------------------------------------------------------------------------
(* What NetworkPolicies mean in a cluster: a flow goes from a pod of the     *)
(* Package, or to one, to or from a remote pod.                              *)

PeerIs(peer, home, remote) ==
  /\ peer.cidr = Nil
  /\ IF peer.ns = Nil THEN remote.ns = home ELSE peer.ns \subseteq remote.nsLabels
  /\ peer.pod # Nil => peer.pod \subseteq remote.labels

OnPort(p, protocol, port) ==
  /\ p.protocol = protocol
  /\ port \in p.port.int .. (IF p.end = Nil THEN p.port.int ELSE p.end)

\* Some policy made from a rule's key (not a literal one) opens the flow.
Opens(made, direction, local, remote, protocol, port) ==
  \E i \in DOMAIN made :
    /\ made[i].kind = "NetworkPolicy" /\ "remote_key" \in DOMAIN made[i].annotations
    /\ "from_spec_literal" \notin DOMAIN made[i].annotations
    /\ local.ns = made[i].namespace /\ made[i].spec.selector \subseteq local.labels
    /\ \E rule \in ToSet(made[i].spec[direction]) :
         /\ \E peer \in ToSet(rule.peers) : PeerIs(peer, local.ns, remote)
         /\ rule.ports # <<>> => \E p \in ToSet(rule.ports) : OnPort(p, protocol, port)

\* Whether a k8s egress rule is about the namespace of a workload.
IsAbout(rule, remote) ==
  LET override == flattenMatchLabels(rule.val.namespaceSelector)
  IN IF NonEmpty(override) THEN override \subseteq remote.nsLabels
     ELSE rule.key.ns \in {Wildcard, remote.ns}

\* The rule seen from the other side: the Package in the namespace of the remote
\* workload that lets in, by an ingress rule, what the egress rule lets out.
MirrorFrom(in, entry, rule) ==
  [key |-> [matches |-> TRUE, identity |-> <<>>, ns |-> in.pkg.ns, pod |-> entry.key],
   val |-> [Just(TRUE) EXCEPT !.enabled = rule.val.enabled, !.podSelector = entry.val.podSelector]]

MirrorTo(in, entry, rule, remote) ==
  [key |-> [matches |-> rule.key.matches, scheme |-> rule.key.scheme, ports |-> rule.key.ports,
            pod |-> IF rule.key.pod \in {<<>>, Wildcard} THEN remote.name ELSE rule.key.pod],
   val |-> [decodes |-> TRUE, podSelector |-> rule.val.podSelector, metadata |-> Nil,
            peer |-> [k8s |-> <<MirrorFrom(in, entry, rule)>>,
                      definition |-> <<>>, cidr |-> <<>>, literal |-> <<>>]]]

Mirror(in, entry, rule, remote) ==
  [in EXCEPT !.pkg.ns = remote.ns,
             !.pkg.spec.networkPolicies.egress = Nil,
             !.pkg.spec.networkPolicies.ingress =
                [defaults |-> Nil, to |-> <<MirrorTo(in, entry, rule, remote)>>, definitions |-> NoEntries]]

\* The structs of such a Package are there, and so is what is read of its keys: Nil is
\* no struct.
ASSUME MirrorAssumption ==
  \A in \in Inputs, remote \in Workloads :
    in.pkg.spec.networkPolicies # Nil /\ in.pkg.spec.networkPolicies.egress # Nil =>
      \A entry \in {e \in ToSet(in.pkg.spec.networkPolicies.egress.from) : e.val.peer # Nil} :
        \A rule \in ToSet(entry.val.peer.k8s) :
          LET np == Mirror(in, entry, rule, remote).pkg.spec.networkPolicies
              to == MirrorTo(in, entry, rule, remote)
          IN /\ Nil \notin {np, np.ingress, to.val.peer, parseIngressRemoteKey(MirrorFrom(in, entry, rule).key)}
             /\ to.key.matches /\ parsePortSpec(to.key.ports) # Nil => parseIngressLocalKey(to.key) # Nil

\* Two Packages can meet: what the k8s egress rules of one let out to a workload,
\* pod by pod and port by port, is what the same rules written as ingress rules of a
\* Package there let in.  Local and remote selectors, wildcards, overrides, protocols
\* and ports are worked out by different functions on the two sides (egressSelector
\* and remotePodSelector, ingressSelector and remoteNamespaceSelector).  A key that is
\* "" is left aside: an entry of egress.from means the pods with an empty name by it,
\* and a k8s rule means all pods.
MirroredRulesMeet ==
  Rendered /\ NpEnabled /\ input.pkg.spec.networkPolicies.egress # Nil /\ PlainSpec(input.pkg.spec) =>
    \A remote \in Workloads :
      LET entries == {e \in ToSet(input.pkg.spec.networkPolicies.egress.from) : e.val.peer # Nil}
          mirrored == UNION {{Generate(Mirror(input, e, rule, remote)).objs :
                                rule \in {r \in ToSet(e.val.peer.k8s) : IsAbout(r, remote)}} : e \in entries}
      IN (\E e \in entries : e.val.peer.k8s # <<>>) /\ (\A e \in entries : e.key # <<>>) =>
           \A local \in {w \in Workloads : w.ns = input.pkg.ns},
              protocol \in {"TCP", "UDP"}, port \in ProbePorts :
             Opens(output.objs, "egress", local, remote, protocol, port)
               <=> \E made \in mirrored : Opens(made, "ingress", remote, local, protocol, port)

SameNetworkOtherText(c, d) == c # d /\ c.len = d.len /\ Network(c) = Network(d)

\* Exactly the addresses of the exclusions inside an egress CIDR rule are taken out
\* of it: no exclusion that lies in the rule is lost, and a broader one, a malformed
\* one or one elsewhere takes nothing out (applyExcludeCIDRs goes by lengths and one
\* address only).  Left aside are exclusions that are the rule's own network written
\* differently, which do empty the rule, and literal rules, which are passed on.
ExclusionsHold ==
  Rendered /\ PlainSpec(input.pkg.spec) => \A np \in Objects("NetworkPolicy") :
    "remote_key" \in DOMAIN np.annotations /\ "from_spec_literal" \notin DOMAIN np.annotations
      /\ np.spec.egress # <<>> =>
      LET peer == np.spec.egress[1].peers[1]
          exclusions == ToSet(excludeCIDRsFor(input.pkg.spec.networkPolicies))
      IN /\ peer.cidr # Nil /\ Parses(peer.cidr)
         /\ \A ex \in exclusions : ~SameNetworkOtherText(peer.cidr, ex)
         => Admitted(peer.cidr, peer.except) =
              Network(peer.cidr) \ UNION {Network(ex) : ex \in
                {ex \in exclusions : Parses(ex) /\ Network(ex) \subseteq Network(peer.cidr)
                                       /\ Network(ex) # Network(peer.cidr)}}

\* What pruneStale of the controller lists, kind by kind, by namespace and label.
managedListKinds ==
  {"NetworkPolicy", "PeerAuthentication", "AuthorizationPolicy", "VirtualService",
   "ServiceEntry", "Sidecar"}

\* Nothing escapes prune and garbage collection: whatever labels the user wrote,
\* every object is of a kind that pruneStale lists, has the label it filters by,
\* in the Package's namespace, and is owned by the Package (stampMetadata).
EveryObjectIsPrunable ==
  Rendered => \A i \in DOMAIN output.objs :
    /\ output.objs[i].kind \in managedListKinds
    /\ output.objs[i].labels.package = input.pkg.name
    /\ output.objs[i].namespace = input.pkg.ns
    /\ output.objs[i].owner = input.pkg.uid

-----------------------------------------------------------------------------
(* What the documentation says, and the code does not quite do. *)

\* "Every ingress shorthand rule emits a companion AP named after its
\* NetworkPolicy."
EveryRuleHasItsCompanion ==
  Rendered /\ NpEnabled /\ authzEnabled(input.pkg.spec.istio)
           /\ generateFromNetpol(input.pkg.spec.istio) =>
    \A np \in Objects("NetworkPolicy") :
      np.spec.ingress # <<>> /\ "local_key" \in DOMAIN np.annotations =>
        \E ap \in Objects("AuthorizationPolicy") :
          ap.spec.selector = np.spec.selector /\ ap.annotations # NoEntries

\* "Ports live on the local (destination) key": a NetworkPolicy of a k8s or CIDR
\* ingress rule lets in, the tunnel aside, only ports that a local key names.
KeyPortsAreOpened ==
  Rendered /\ NpEnabled /\ PlainSpec(input.pkg.spec) =>
    \A np \in ByKey : \E entry \in ToSet(input.pkg.spec.networkPolicies.ingress.to) :
      LET ports == entry.key.ports IN
      NetpolNumbers(np.spec.ingress[1]) \subseteq
        {15008} \cup (IF ports.range THEN ports.nums[1] .. ports.nums[2] ELSE ToSet(ports.nums))

\* "Everything under spec.istio.  Nothing is emitted unless istio.enabled: true."
NothingWithoutIstio ==
  Rendered /\ input.pkg.spec.istio # Nil /\ ~input.pkg.spec.istio.enabled =>
    output = Generate([input EXCEPT !.pkg.spec.istio = Nil])
=============================================================================
