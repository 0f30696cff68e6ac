------------------------------- MODULE Routes -------------------------------
(***************************************************************************)
(* Inbound and outbound routes (pkg/generator/routes.go) and the ingress   *)
(* part of the global configuration (ingressconfig.go).                    *)
(*                                                                         *)
(* A gateway reference is [ns, name, valid]: valid if it splits into a DNS *)
(* label and a DNS subdomain.  A service is Nil or [leaf, domain].         *)
(***************************************************************************)
EXTENDS NetworkPolicies

splitGateway(ref) == ref.valid

\* ParseIngressConfig: every definition is complete, or there is no configuration.
\* `decodes' says whether both entries are strict YAML, `selects' whether the pod
\* selector is a label selector, `named' whether the service account is a DNS name.
ParseIngressConfig(raw) ==
  IF /\ raw.decodes
     /\ \A ref \in DOMAIN raw.gateways :
          /\ splitGateway(ref)
          /\ raw.gateways[ref].podSelector # Nil
          /\ raw.gateways[ref].selects /\ raw.gateways[ref].named
    THEN [defaults |-> raw.defaults,
          gateways |-> [ref \in DOMAIN raw.gateways |->
            [podSelector |-> raw.gateways[ref].podSelector,
             serviceAccountName |-> raw.gateways[ref].serviceAccountName]]]
    ELSE Nil

\* An explicit list, even an empty one, goes before the Package's defaults, and
\* those before the global ones.
effectiveGateways(route, routes, config) ==
  IF route.gateways # Nil THEN route.gateways
  ELSE IF routes.defaults # Nil THEN routes.defaults
  ELSE IF config # Nil /\ config.defaults # Nil THEN config.defaults
  ELSE <<>>

validateInbound(route) ==
  /\ route.gateways # <<>>
  /\ \A i \in DOMAIN route.gateways : splitGateway(route.gateways[i])
  /\ route.service # Nil
  /\ route.port # Nil

\* The definition of the shared configuration, or the legacy one.
gatewayDefinition(ref, config) ==
  IF config # Nil /\ ref \in DOMAIN config.gateways THEN config.gateways[ref]
  ELSE [podSelector |-> NameIs(ref.name),
        serviceAccountName |-> ref.name \o <<"ingressgateway", "service", "account">>]

resolveInboundRoute(entry, in) ==
  LET routes == in.pkg.spec.routes
      route == [entry.val EXCEPT
                  !.gateways = effectiveGateways(entry.val, routes, in.ingressConfig),
                  !.selector = IF @ = {} THEN NameIs(entry.key) ELSE @]
      Resolved(ref) == [ns |-> ref.ns, name |-> ref.name,
                        definition |-> gatewayDefinition(ref, in.ingressConfig)]
  IN IF ~entry.val.decodes THEN Err
     ELSE IF ~route.enabled THEN Ok(<<>>)
     ELSE IF in.ingressConfigErr \/ ~validateInbound(route) THEN Err
     ELSE Ok(<<[name |-> entry.key, route |-> route,
                gateways |-> [i \in DOMAIN route.gateways |-> Resolved(route.gateways[i])]]>>)

resolveInboundRoutes(in) ==
  IF in.pkg.spec.routes = Nil THEN Ok(<<>>)
  ELSE ForEach(in.pkg.spec.routes.inbound, LAMBDA entry : resolveInboundRoute(entry, in))

-----------------------------------------------------------------------------
\* A named port counts as 0, a negative one as a large number.
portNumber(p) == IF p = Nil THEN 0 ELSE IF "named" \in DOMAIN p THEN 0 ELSE UInt32(p.int)

\* A mutant: the port of the service, which need not be the one of the pod.
inboundWorkloadPort_ServicePort(route) == route.port

inboundWorkloadPort(route) == IF route.containerPort # Nil THEN route.containerPort ELSE route.port

serviceLeaf(service) == service.leaf

RouteObject(pkg, prepend, kind, name, meta, spec) ==
  GeneratedObject(kind, prependName(prepend, pkg.name, name), meta.labels, meta.annotations, spec)

\* Passthrough excludes http; http[] replaces the one default destination.
buildVirtualService(pkg, prepend, resolved) ==
  LET r == resolved.route
      To(port) == [host |-> r.service, port |-> portNumber(port)]
      VS(tls, http) ==
        Ok(<<RouteObject(pkg, prepend, "VirtualService", resolved.name, r,
               [hosts |-> r.hosts, gateways |-> r.gateways, tls |-> tls, http |-> http])>>)
  IN IF r.passthrough # Nil /\ r.passthrough.enabled
       THEN VS(<<[port |-> IF r.passthrough.gatewayPort = Nil THEN 8443 ELSE UInt32(r.passthrough.gatewayPort),
                  sni |-> r.hosts, to |-> To(r.port)]>>, <<>>)
     ELSE IF r.http = <<>> THEN VS(<<>>, <<[to |-> To(inboundWorkloadPort(r))]>>)
     ELSE IF \E i \in DOMAIN r.http : ~r.http[i].decodes THEN Err
     ELSE VS(<<>>, [i \in DOMAIN r.http |-> [raw |-> r.http[i]]])

hasWildcardHost(hosts) == \E i \in DOMAIN hosts : "*" \in ToSet(hosts[i])

parseLocation(s) == IF s = "MESH_INTERNAL" THEN s ELSE "MESH_EXTERNAL"
parseResolution(s) == IF s \in {"STATIC", "DNS_ROUND_ROBIN", "NONE"} THEN s ELSE "DNS"

https == <<[number |-> 443, name |-> "https", protocol |-> "HTTPS"]>>

buildInboundServiceEntry(pkg, prepend, resolved) ==
  LET r == resolved.route IN
  RouteObject(pkg, prepend, "ServiceEntry", resolved.name \o <<"internal">>, r,
    [hosts |-> r.hosts, location |-> "MESH_EXTERNAL", ports |-> https,
     resolution |-> parseResolution(
       IF r.resolution = "" /\ hasWildcardHost(r.hosts) THEN "NONE" ELSE r.resolution)])

buildInboundNetpol(pkg, prepend, r, gw) ==
  LET port == portNumber(inboundWorkloadPort(r)) IN
  RouteObject(pkg, prepend, "NetworkPolicy",
    <<"allow", "ingress", "to">> \o serviceLeaf(r.service) \o <<ToString(port), "from", "ns">>
      \o gw.ns \o <<"pod">> \o gw.name,
    [labels |-> mergeMaps(r.labels, defaultNetpolLabels("ingress")), annotations |-> r.annotations],
    NetworkPolicySpec(r.selector, "ingress",
      <<Rule(<<Pods(NamespaceIs(gw.ns), gw.definition.podSelector)>>, <<Tcp(Int32(port))>>)>>))

buildInboundNetpols(pkg, prepend, resolved) ==
  [i \in DOMAIN resolved.gateways |->
     buildInboundNetpol(pkg, prepend, resolved.route, resolved.gateways[i])]

\* The objects of one inbound route.
inboundObjects(pkg, prepend, netpolsEnabled, resolved) ==
  InOrder(<<buildVirtualService(pkg, prepend, resolved),
            Ok(<<buildInboundServiceEntry(pkg, prepend, resolved)>>),
            Ok(IF netpolsEnabled THEN buildInboundNetpols(pkg, prepend, resolved) ELSE <<>>)>>)

buildOutboundServiceEntry(pkg, prepend, name, r) ==
  LET location == parseLocation(r.location) IN
  RouteObject(pkg, prepend, "ServiceEntry",
    name \o (IF location = "MESH_INTERNAL" THEN <<"internal">> ELSE <<"external">>),
    IF r.metadata = Nil THEN NoMetadata ELSE r.metadata,
    [hosts |-> r.hosts, location |-> location, resolution |-> parseResolution(r.resolution),
     ports |-> IF r.ports = <<>> THEN https ELSE r.ports])

\* decodeOutbound, validateOutbound and the entry itself.
outboundObjects(pkg, prepend, entry) ==
  IF ~entry.val.decodes THEN Err
  ELSE IF ~entry.val.enabled THEN Ok(<<>>)
  ELSE IF entry.val.hosts = <<>> THEN Err
  ELSE Ok(<<buildOutboundServiceEntry(pkg, prepend, entry.key, entry.val)>>)

generateRoutes(pkg, routes, inbound) ==
  LET netpolsEnabled == pkg.spec.networkPolicies # Nil /\ pkg.spec.networkPolicies.enabled
      prepend == routes.prependReleaseName
  IN InOrder(<<
       ForEach(inbound, LAMBDA r : inboundObjects(pkg, prepend, netpolsEnabled, r)),
       ForEach(routes.outbound, LAMBDA e : outboundObjects(pkg, prepend, e))>>)
=============================================================================
