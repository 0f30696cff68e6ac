----------------------- MODULE AuthorizationPolicies -----------------------
(***************************************************************************)
(* The AuthorizationPolicies of a Package                                  *)
(* (pkg/generator/authorizationpolicies.go): the two defaults, those that  *)
(* accompany ingress shorthand rules and inbound routes, and those that    *)
(* the spec spells out.                                                    *)
(***************************************************************************)
EXTENDS Routes

authzEnabled(istio) ==
  /\ istio # Nil
  /\ istio.ambient \/ (istio.authorizationPolicies # Nil /\ istio.authorizationPolicies.enabled)

generateFromNetpol(istio) ==
  istio = Nil \/ istio.authorizationPolicies = Nil
    \/ defaultEnabled(istio.authorizationPolicies.generateFromNetpol)

\* authzAllowNothing, authzAllowAllInNS: the switch of the defaults, then its own.
authzDefaultWanted(istio, default) ==
  \/ istio = Nil \/ istio.authorizationPolicies = Nil
  \/ istio.authorizationPolicies.defaults = Nil
  \/ /\ defaultEnabled(istio.authorizationPolicies.defaults.enabled)
     /\ defaultEnabled(istio.authorizationPolicies.defaults[default])

\* What a policy lets in: the kind of source, the source, and the operations, each
\* with its ports; without an operation it is every port.
AuthzRule(from, who, to) == [from |-> from, who |-> who, to |-> to]
Allow(selector, rules) == [selector |-> selector, action |-> "ALLOW", rules |-> rules]
AllowNothing == Allow(Nil, <<>>)

Authz(name, meta, spec) ==
  GeneratedObject("AuthorizationPolicy", name, meta.labels, meta.annotations, spec)

generateDefaultAuthzPolicies(pkg, istio, npSpec) ==
  LET Default(wanted, what, spec) ==
        IF wanted THEN <<Authz(prependName(istio.prependReleaseName, pkg.name,
                                           <<"default", "authz", "allow">> \o what),
                               NoMetadata, spec)>>
                  ELSE <<>>
  IN IF ~authzEnabled(istio) \/ (npSpec # Nil /\ ~SideEnabled(npSpec.ingress)) THEN <<>>
     ELSE Default(authzDefaultWanted(istio, "denyAll"), <<"nothing">>, AllowNothing)
          \o Default(authzDefaultWanted(istio, "allowInNamespace"), <<"all", "in", "ns">>,
                     Allow(Nil, <<AuthzRule("namespace", pkg.ns, <<>>)>>))

-----------------------------------------------------------------------------
\* A mutant: the last port of a range is left out.
operationPorts_Exclusive(to) ==
  IF to.ports = <<>> THEN <<>>
  ELSE <<Numbers(IF to.range /\ Len(to.ports) = 2
                   THEN [i \in 1 .. to.ports[2] - to.ports[1] |-> to.ports[1] + i - 1]
                   ELSE to.ports)>>

\* rule.To: no operation, or one in which a range is spelt out, port by port.
operationPorts(to) ==
  IF to.ports = <<>> THEN <<>>
  ELSE <<Numbers(IF to.range /\ Len(to.ports) = 2
                   THEN [i \in 1 .. to.ports[2] - to.ports[1] + 1 |-> to.ports[1] + i - 1]
                   ELSE to.ports)>>

Annotations(entries) == [labels |-> NoEntries, annotations |-> entries]

Principal(ns, account) == <<"cluster.local/ns">> \o ns \o <<"/sa/">> \o account

\* The name has the namespace and the identity, but not the pod.
buildAuthzFromShorthand(pkg, prepend, to, local, remoteKey, remote) ==
  LET prefix == ingressPrefix(to) \o protocolAndPorts(to) \o <<"from", "ns">>
      Policy(name, annotations, from, who) ==
        Authz(prependName(prepend, pkg.name, prefix \o name), Annotations(annotations),
              Allow(ingressSelector(to, local), <<AuthzRule(from, who, operationPorts(to))>>))
  IN IF remote.identity # <<>>
       THEN Policy(remote.ns \o <<"with", "identity">> \o remote.identity,
                   [from_spiffe |-> remoteKey, identity |-> remote.identity],
                   "principal", Principal(remote.ns, remote.identity))
     ELSE IF remote.ns = Wildcard
       THEN Policy(<<"any">>, [from_namespace |-> remoteKey], "namespace", remote.ns)
     ELSE Policy(remote.ns,
                 IF remote.pod = <<>> THEN [from_namespace |-> remoteKey]
                 ELSE [from_namespace |-> remoteKey, pod |-> remote.pod],
                 "namespace", remote.ns)

buildAuthzFromCIDR(pkg, prepend, to, local, cidrKey, parsed) ==
  Authz(prependName(prepend, pkg.name, ingressCIDRName(to, parsed.cidr)),
        Annotations([from_cidr |-> cidrKey, cidr |-> parsed.cidr]),
        Allow(ingressSelector(to, local),
              <<AuthzRule("ipBlock", parsed.cidr, operationPorts(to))>>))

authzFromIngressTarget(pkg, prepend, entry) ==
  LET local == Source(entry.val)
      to == parseIngressLocalKey(entry.key)
      K8s(e) == LET r == parseIngressRemoteKey(e.key) IN
        FromRule(r # Nil, buildAuthzFromShorthand(pkg, prepend, to, local, e.key, r), local, e.val)
      Cidr(e) == LET r == parseIngressCIDRKey(e.key) IN
        FromRule(r # Nil, buildAuthzFromCIDR(pkg, prepend, to, local, e.key, r), local, e.val)
  IN IF ~entry.val.decodes THEN Err
     ELSE IF local.peer = Nil THEN Ok(<<>>)
     ELSE IF to = Nil THEN Err
     ELSE InOrder(<<ForEach(Enabled(local.peer.k8s), K8s),
                    ForEach(Enabled(local.peer.cidr), Cidr)>>)

\* It does not matter whether networkPolicies is enabled.
generateAuthzFromIngressShorthand(pkg, npSpec, istio) ==
  IF ~authzEnabled(istio) \/ ~generateFromNetpol(istio) \/ npSpec.ingress = Nil THEN Ok(<<>>)
  ELSE ForEach(npSpec.ingress.to,
               LAMBDA entry : authzFromIngressTarget(pkg, npSpec.prependReleaseName, entry))

-----------------------------------------------------------------------------
\* A port that is not a number is no restriction.
buildAuthzFromRoute(pkg, prepend, route, gw, suffix) ==
  LET n == portNumber(inboundWorkloadPort(route)) IN
  Authz(prependName(prepend, pkg.name,
                    serviceLeaf(route.service) \o suffix \o <<"authz", "policy">>),
        [labels |-> route.labels, annotations |-> route.annotations],
        Allow(route.selector,
              <<AuthzRule("principal", Principal(gw.ns, gw.definition.serviceAccountName),
                          IF n = 0 THEN <<>> ELSE <<<<ToString(n)>>>>)>>))

\* A gateway name that occurs in several namespaces is qualified.
gatewaySuffix(inbound, gw) ==
  LET namespaces == {g.ns : g \in {g \in UNION {ToSet(inbound[i].gateways) : i \in DOMAIN inbound} :
                                     g.name = gw.name}}
  IN IF Cardinality(namespaces) > 1 THEN gw.ns \o gw.name ELSE gw.name

generateAuthzFromRoutes(pkg, routes, istio, inbound) ==
  LET PolicyOf(r) == [i \in DOMAIN r.gateways |->
        buildAuthzFromRoute(pkg, routes.prependReleaseName, r.route, r.gateways[i],
                            gatewaySuffix(inbound, r.gateways[i]))]
  IN IF ~authzEnabled(istio) THEN <<>>
     ELSE FlattenSeq([i \in DOMAIN inbound |-> PolicyOf(inbound[i])])

-----------------------------------------------------------------------------
\* buildRawAuthzPolicy, buildAdditionalAuthzPolicy; with no spec it is the empty one.
RawObject(kind, name, raw) ==
  IF raw.decodes THEN Ok(<<GeneratedObject(kind, name, raw.labels, raw.annotations, raw.spec)>>) ELSE Err

\* Neither list is gated on authorizationPolicies.enabled.
generateCustomAuthzPolicies(istio) ==
  LET Custom(raw) == IF raw.name = <<>> THEN Err
                     ELSE RawObject("AuthorizationPolicy", raw.name, raw)
      Additional(e) == IF ~e.val.enabled THEN Ok(<<>>)
                       ELSE RawObject("AuthorizationPolicy",
                                      IF e.val.name \in {Nil, <<>>} THEN e.key ELSE e.val.name, e.val)
  IN IF istio = Nil \/ ~istio.enabled \/ istio.authorizationPolicies = Nil THEN Ok(<<>>)
     ELSE InOrder(<<ForEach(istio.authorizationPolicies.custom, Custom),
                    ForEach(istio.authorizationPolicies.additionalPolicies, Additional)>>)
=============================================================================
