-------------------------- MODULE NetworkPolicies --------------------------
(***************************************************************************)
(* The NetworkPolicies of a Package (pkg/generator/networkpolicies*.go),   *)
(* the definitions its rules refer to (definitions.go) and the port of the *)
(* ambient tunnel (hbone.go).                                              *)
(*                                                                         *)
(* An optional struct of the spec is Nil or a record, an optional bool is  *)
(* Nil, TRUE or FALSE.  Label keys and annotation keys are given by their  *)
(* last segment.                                                           *)
(***************************************************************************)
EXTENDS Shorthand, Cidrs

\* A peer is a pair of selectors or an ipBlock; Nil is a selector not given.
Pods(ns, pod) == [ns |-> ns, pod |-> pod, cidr |-> Nil, except |-> <<>>]
IPBlock(cidr, except) == [ns |-> Nil, pod |-> Nil, cidr |-> cidr, except |-> except]

Rule(peers, ports) == [peers |-> peers, ports |-> ports]

NetworkPolicySpec(selector, direction, rules) ==
  [selector |-> selector, types |-> {direction},
   egress  |-> IF direction = "egress" THEN rules ELSE <<>>,
   ingress |-> IF direction = "ingress" THEN rules ELSE <<>>]

GeneratedObject(kind, name, labels, annotations, spec) ==
  [kind |-> kind, name |-> name, labels |-> labels, annotations |-> annotations, spec |-> spec]

defaultNetpolLabels(direction) ==
  [source |-> <<"bigbang", "operator">>, direction |-> <<direction>>]

\* A policy the operator names and labels itself.
Netpol(pkg, spec, name, annotations, selector, direction, rules) ==
  GeneratedObject("NetworkPolicy", prependName(spec.prependReleaseName, pkg.name, name),
         defaultNetpolLabels(direction), annotations,
         NetworkPolicySpec(selector, direction, rules))

-----------------------------------------------------------------------------
(* Default policies. *)

istioAmbient(istio) == istio # Nil /\ istio.ambient

defaultEnabled(b) == b # FALSE

\* egressSideEnabled, ingressSideEnabled
SideEnabled(side) == side = Nil \/ side.defaults = Nil \/ defaultEnabled(side.defaults.enabled)

\* A mutant: without the deny-all policy there are no holes to punch in it.
Wanted_GatedByDenyAll(side, default) ==
  /\ SideEnabled(side)
  /\ side = Nil \/ side.defaults = Nil
     \/ (defaultEnabled(side.defaults.denyAll) /\ defaultEnabled(side.defaults[default]))

\* egressDenyAll ... ingressAllowPromToSidecar: the side's switch, then its own.
Wanted(side, default) ==
  SideEnabled(side) /\ (side = Nil \/ side.defaults = Nil \/ defaultEnabled(side.defaults[default]))

Tcp(port) == NetpolPort("TCP", port, Nil)
Udp(port) == NetpolPort("UDP", port, Nil)

kubeDNS == Pods(NamespaceIs(<<"kube", "system">>), {<<"k8s-app", <<"kube", "dns">>>>})
istiod == Pods(NamespaceIs(<<"istio", "system">>), {<<"app", <<"istiod">>>>})
prometheus == Pods(NamespaceIs(<<"monitoring">>), NameIs(<<"prometheus">>))
kubelet == IPBlock([node |-> "169.254.7.127/32"], <<>>)

DefaultNetpol(pkg, spec, direction, what, rules) ==
  <<Netpol(pkg, spec, <<"default", direction>> \o what, NoEntries, {}, direction, rules)>>

defaultEgressPolicies(pkg, spec, istio) ==
  LET Default(wanted, what, rules) ==
        IF wanted THEN DefaultNetpol(pkg, spec, "egress", what, rules) ELSE <<>>
  IN Default(Wanted(spec.egress, "denyAll"), <<"deny", "all">>, <<>>)
     \o Default(Wanted(spec.egress, "allowInNamespace"), <<"allow", "all", "in", "ns">>,
                <<Rule(<<Pods(Nil, {})>>, <<>>)>>)
     \o Default(Wanted(spec.egress, "allowKubeDNS"), <<"allow", "kube", "dns">>,
                <<Rule(<<kubeDNS>>, <<Udp(53), Tcp(53)>>)>>)
     \o Default(Wanted(spec.egress, "allowIstiod") /\ ~istioAmbient(istio),
                <<"allow", "istiod">>, <<Rule(<<istiod>>, <<Tcp(15012)>>)>>)

defaultIngressPolicies(pkg, spec, istio) ==
  LET Default(wanted, what, rules) ==
        IF wanted THEN DefaultNetpol(pkg, spec, "ingress", what, rules) ELSE <<>>
  IN Default(Wanted(spec.ingress, "denyAll"), <<"deny", "all">>, <<>>)
     \o Default(Wanted(spec.ingress, "allowInNamespace"), <<"allow", "all", "in", "ns">>,
                <<Rule(<<Pods(Nil, {})>>, <<>>)>>)
     \o Default(Wanted(spec.ingress, "allowPrometheusToIstioSidecar") /\ ~istioAmbient(istio),
                <<"allow", "prometheus", "to", "istio", "sidecar">>,
                <<Rule(<<prometheus>>, <<Tcp(15020)>>)>>)
     \o Default(istioAmbient(istio) /\ SideEnabled(spec.ingress),
                <<"allow", "ambient", "kubelet">>, <<Rule(<<kubelet>>, <<>>)>>)

-----------------------------------------------------------------------------
(* Definitions.  As written, a definition has peers with raw selectors, and *)
(* ports; `decodes' says whether its selectors are sound JSON.              *)

\* typedPeer and buildDefinition: a selector that is written and empty stays.
buildDefinition(raw) ==
  LET Peer(p) ==
        [ns     |-> flattenMatchLabels(p.ns), pod |-> flattenMatchLabels(p.pod),
         cidr   |-> IF p.cidr = Nil /\ p.except # Nil THEN [text |-> ""] ELSE p.cidr,
         except |-> IF p.except = Nil THEN <<>> ELSE p.except]
  IN Rule([i \in DOMAIN raw.peers |-> Peer(raw.peers[i])], raw.ports)

\* parseEgressDefinition, parseIngressDefinition
ParsedDefinition(raw) == IF raw.decodes THEN buildDefinition(raw) ELSE Nil

kubeAPI == <<"kubeAPI">>

builtInEgressDefinitions(kubeAPIPorts) ==
  [name \in {kubeAPI} |->
     Rule([i \in 1..3 |-> IPBlock([private |-> <<"10.0.0.0/8", "172.16.0.0/12", "192.168.0.0/16">>[i]], <<>>)],
          [i \in DOMAIN kubeAPIPorts |-> [protocol |-> "TCP", port |-> kubeAPIPorts[i], end |-> Nil]])]

builtInIngressDefinitions ==
  [name \in {<<"gateway">>, <<"monitoring">>} |->
     Rule(<<IF name = <<"monitoring">> THEN prometheus
            ELSE Pods(NamespaceIs(<<"istio", "gateway">>), {<<"istio", <<"ingressgateway">>>>})>>, <<>>)]

\* A mutant: the layers below are consulted although the shared one is unreadable.
resolve_Guesses(local, shared, sharedErr, builtIn, name) ==
  IF name \in DOMAIN local THEN ParsedDefinition(local[name])
  ELSE IF ~sharedErr /\ name \in DOMAIN shared THEN ParsedDefinition(shared[name])
  ELSE IF name \in DOMAIN builtIn THEN builtIn[name]
  ELSE Nil

\* resolveEgressDefinition, resolveIngressDefinition: package-local, then shared,
\* then built-in; Nil is an error.
resolve(local, shared, sharedErr, builtIn, name) ==
  IF name \in DOMAIN local THEN ParsedDefinition(local[name])
  ELSE IF sharedErr THEN Nil
  ELSE IF name \in DOMAIN shared THEN ParsedDefinition(shared[name])
  ELSE IF name \in DOMAIN builtIn THEN builtIn[name]
  ELSE Nil

resolveEgressDefinition(spec, name, env) ==
  resolve(spec.egress.definitions, env.sharedEgress, env.sharedErr,
          builtInEgressDefinitions(env.kubeAPIPorts), name)

resolveIngressDefinition(spec, name, env) ==
  resolve(spec.ingress.definitions, env.sharedIngress, env.sharedErr,
          builtInIngressDefinitions, name)

-----------------------------------------------------------------------------
(* Shorthand.  An entry of egress.from or ingress.to has a podSelector,      *)
(* metadata and, unless it is Nil, a peer with the four kinds of rules.      *)

\* shorthandSource.UnmarshalJSON
Source(val) == [val EXCEPT !.podSelector = flattenMatchLabels(@)]

Annotated(localKey, remoteKey) == [local_key |-> localKey, remote_key |-> remoteKey]

egressSelector(localKey, local) ==
  IF NonEmpty(local.podSelector) THEN local.podSelector
  ELSE IF localKey = Wildcard THEN {} ELSE NameIs(localKey)

egressPrefix(localKey) ==
  <<"allow", "egress", "from">> \o (IF localKey = Wildcard THEN <<"any", "pod">> ELSE localKey)

\* The remote end of a k8s rule, in a name.
remoteName(ns, pod) ==
  (IF ns = Wildcard THEN <<"any", "ns">> ELSE <<"ns">> \o ns)
  \o (IF pod \in {<<>>, Wildcard} THEN <<"any", "pod">> ELSE <<"pod">> \o pod)

protocolAndPorts(parsed) ==
  (IF parsed.ports # <<>> THEN ProtocolPart(parsed.protocol) ELSE <<>>)
  \o namePortSuffix(parsed.ports, parsed.range)

parsedPorts(parsed) == buildNetpolPorts(parsed.protocol, parsed.ports, parsed.range)

buildShorthandEgressNetpol(pkg, spec, localKey, local, remoteKey, remote, target) ==
  Netpol(pkg, spec,
         egressPrefix(localKey) \o <<"to">> \o remoteName(remote.ns, remote.pod)
           \o protocolAndPorts(remote),
         Annotated(localKey, remoteKey), egressSelector(localKey, local), "egress",
         <<Rule(<<Pods(remoteNamespaceSelector(remote.ns, target.namespaceSelector),
                       remotePodSelector(remote.pod, target.podSelector))>>,
                parsedPorts(remote))>>)

buildEgressDefinitionNetpol(pkg, spec, localKey, local, defName, def) ==
  Netpol(pkg, spec, egressPrefix(localKey) \o <<"to">> \o Lower(defName),
         [local_key |-> localKey, from_definition |-> defName],
         egressSelector(localKey, local), "egress", <<def>>)

\* excludeCIDRsFor: the metadata service unless the spec says otherwise.
cidrAnywhere == [addr |-> [i \in 1..Width |-> 0], len |-> 0]
defaultEgressExcludeCIDRs ==
  <<[addr |-> [i \in 1..Width |-> IF i = Width THEN 0 ELSE 1], len |-> Width]>>

excludeCIDRsFor(spec) ==
  IF spec.egress = Nil \/ spec.egress.excludeCIDRs = Nil
    THEN defaultEgressExcludeCIDRs ELSE spec.egress.excludeCIDRs

cidrNameSegment(cidr) == <<ToString(cidr.addr), ToString(cidr.len)>>

cidrName(cidr) == IF cidr = cidrAnywhere THEN <<"anywhere">> ELSE <<"cidr">> \o cidrNameSegment(cidr)

buildEgressCIDRNetpol(pkg, spec, localKey, local, cidrKey, parsed) ==
  Netpol(pkg, spec,
         egressPrefix(localKey) \o <<"to">> \o cidrName(parsed.cidr) \o protocolAndPorts(parsed),
         Annotated(localKey, cidrKey), egressSelector(localKey, local), "egress",
         <<Rule(<<IPBlock(parsed.cidr, applyExcludeCIDRs(parsed.cidr, excludeCIDRsFor(spec)))>>,
                parsedPorts(parsed))>>)

\* buildEgressLiteralNetpol, buildIngressLiteralNetpol: what may be in the spec
\* of a literal rule is passed on; no spec, or one that is no rule list, is an error.
LiteralFails(rule) ==
  ~LiteralKeyMatches(rule.key) \/ rule.val.spec = Nil \/ ~rule.val.spec.decodes

LiteralAnnotations(localKey, rule) ==
  mergeMaps(Annotated(localKey, rule.key.name), [from_spec_literal |-> rule.val.spec.rules])

buildEgressLiteralNetpol(pkg, spec, localKey, local, rule) ==
  Netpol(pkg, spec, egressPrefix(localKey) \o <<"to">> \o Lower(rule.key.name),
         LiteralAnnotations(localKey, rule),
         egressSelector(localKey, local), "egress", rule.val.spec.rules)

\* One object of a rule, with its metadata, unless the rule cannot be read.
FromRule(readable, obj, local, val) ==
  IF readable
    THEN Ok(<<applyShorthandMetadata(obj, mergeShorthandMetadata(local.metadata, val.metadata))>>)
    ELSE Err

expandEgressSource(pkg, spec, env, entry) ==
  LET local == Source(entry.val)
      K8s(e) == LET r == parseEgressRemoteKey(e.key) IN
        FromRule(r # Nil, buildShorthandEgressNetpol(pkg, spec, entry.key, local, e.key, r, e.val), local, e.val)
      Definition(e) == LET def == resolveEgressDefinition(spec, e.key, env) IN
        FromRule(def # Nil, buildEgressDefinitionNetpol(pkg, spec, entry.key, local, e.key, def), local, e.val)
      Cidr(e) == LET r == parseEgressCIDRKey(e.key) IN
        FromRule(r # Nil, buildEgressCIDRNetpol(pkg, spec, entry.key, local, e.key, r), local, e.val)
      Literal(e) ==
        FromRule(~LiteralFails(e), buildEgressLiteralNetpol(pkg, spec, entry.key, local, e), local, e.val)
  IN IF ~entry.val.decodes THEN Err
     ELSE IF local.peer = Nil THEN Ok(<<>>)
     ELSE InOrder(<<ForEach(Enabled(local.peer.k8s), K8s),
                    ForEach(Enabled(local.peer.definition), Definition),
                    ForEach(Enabled(local.peer.cidr), Cidr),
                    ForEach(Enabled(local.peer.literal), Literal)>>)

expandShorthandEgress(pkg, spec, env) ==
  ForEach(spec.egress.from, LAMBDA entry : expandEgressSource(pkg, spec, env, entry))

-----------------------------------------------------------------------------
ingressSelector(parsedLocal, local) ==
  IF NonEmpty(local.podSelector) THEN local.podSelector ELSE NameIs(parsedLocal.pod)

ingressPrefix(parsedLocal) ==
  <<"allow", "ingress", "to">> \o parsedLocal.pod
  \o (IF parsedLocal.protocol # "TCP" THEN ProtocolPart(parsedLocal.protocol) ELSE <<>>)

\* The names of k8s rules have a part for the ports in any case, those of CIDR
\* and definition rules only if there are ports.
ingressPrefixPorts(parsedLocal) ==
  ingressPrefix(parsedLocal)
  \o (IF parsedLocal.ports = <<>> THEN <<>> ELSE protocolAndPorts(parsedLocal))

buildShorthandIngressNetpol(pkg, spec, parsedLocal, local, remoteKey, remote, target) ==
  Netpol(pkg, spec,
         ingressPrefix(parsedLocal) \o protocolAndPorts(parsedLocal)
           \o <<"from">> \o remoteName(remote.ns, remote.pod),
         Annotated(parsedLocal.pod, remoteKey), ingressSelector(parsedLocal, local), "ingress",
         <<Rule(<<Pods(remoteNamespaceSelector(remote.ns, target.namespaceSelector),
                       remotePodSelector(remote.pod, target.podSelector))>>,
                parsedPorts(parsedLocal))>>)

\* The ports of the local key go before those of the definition.
buildIngressDefinitionNetpol(pkg, spec, parsedLocal, local, defName, def) ==
  Netpol(pkg, spec, ingressPrefixPorts(parsedLocal) \o <<"from">> \o Lower(defName),
         [local_key |-> parsedLocal.pod, from_definition |-> defName],
         ingressSelector(parsedLocal, local), "ingress",
         <<IF parsedLocal.ports = <<>> THEN def ELSE Rule(def.peers, parsedPorts(parsedLocal))>>)

ingressCIDRName(parsedLocal, cidr) ==
  ingressPrefixPorts(parsedLocal) \o <<"from">> \o cidrName(cidr)

buildIngressCIDRNetpol(pkg, spec, parsedLocal, local, cidrKey, parsed) ==
  Netpol(pkg, spec, ingressCIDRName(parsedLocal, parsed.cidr),
         Annotated(parsedLocal.pod, cidrKey), ingressSelector(parsedLocal, local), "ingress",
         <<Rule(<<IPBlock(parsed.cidr, <<>>)>>, parsedPorts(parsedLocal))>>)

buildIngressLiteralNetpol(pkg, spec, parsedLocal, local, rule) ==
  Netpol(pkg, spec, ingressPrefix(parsedLocal) \o <<"from">> \o Lower(rule.key.name),
         LiteralAnnotations(parsedLocal.pod, rule),
         ingressSelector(parsedLocal, local), "ingress", rule.val.spec.rules)

expandIngressTarget(pkg, spec, env, entry) ==
  LET local == Source(entry.val)
      to == parseIngressLocalKey(entry.key)
      K8s(e) == LET r == parseIngressRemoteKey(e.key) IN
        FromRule(r # Nil, buildShorthandIngressNetpol(pkg, spec, to, local, e.key, r, e.val), local, e.val)
      Definition(e) == LET def == resolveIngressDefinition(spec, e.key, env) IN
        FromRule(def # Nil, buildIngressDefinitionNetpol(pkg, spec, to, local, e.key, def), local, e.val)
      Cidr(e) == LET r == parseIngressCIDRKey(e.key) IN
        FromRule(r # Nil, buildIngressCIDRNetpol(pkg, spec, to, local, e.key, r), local, e.val)
      Literal(e) ==
        FromRule(~LiteralFails(e), buildIngressLiteralNetpol(pkg, spec, to, local, e), local, e.val)
  IN IF ~entry.val.decodes THEN Err
     ELSE IF local.peer = Nil THEN Ok(<<>>)
     ELSE IF to = Nil THEN Err
     ELSE InOrder(<<ForEach(Enabled(local.peer.k8s), K8s),
                    ForEach(Enabled(local.peer.definition), Definition),
                    ForEach(Enabled(local.peer.cidr), Cidr),
                    ForEach(Enabled(local.peer.literal), Literal)>>)

expandShorthandIngress(pkg, spec, env) ==
  ForEach(spec.ingress.to, LAMBDA entry : expandIngressTarget(pkg, spec, env, entry))

-----------------------------------------------------------------------------
buildAdditionalPolicy(pkg, spec, raw) ==
  IF raw.decodes
    THEN Ok(<<GeneratedObject("NetworkPolicy", prependName(spec.prependReleaseName, pkg.name, raw.name),
                     raw.labels, raw.annotations, raw.spec)>>)
    ELSE Err

\* additionalPolicies stands for itself and its alias `additional', in that order.
generateNetworkPolicies(pkg, spec, istio, env) ==
  InOrder(<<Ok(defaultEgressPolicies(pkg, spec, istio)),
            Ok(defaultIngressPolicies(pkg, spec, istio)),
            IF spec.egress = Nil THEN Ok(<<>>) ELSE expandShorthandEgress(pkg, spec, env),
            IF spec.ingress = Nil THEN Ok(<<>>) ELSE expandShorthandIngress(pkg, spec, env),
            ForEach(spec.additionalPolicies, LAMBDA raw : buildAdditionalPolicy(pkg, spec, raw))>>)

-----------------------------------------------------------------------------
(* HBONE. *)

hboneEnabled(spec, istio) == istioAmbient(istio) \/ (spec # Nil /\ spec.hbonePortInjection)

peerHasK8sSelector(peers) == \E i \in DOMAIN peers : peers[i].ns # Nil \/ peers[i].pod # Nil

\* A rule without ports is left alone, and so is one that has the port.
needsHBonePort(rule) ==
  /\ peerHasK8sSelector(rule.peers)
  /\ rule.ports # <<>>
  /\ \A i \in DOMAIN rule.ports :
       ~(rule.ports[i].protocol = "TCP" /\ rule.ports[i].port = [int |-> 15008])

injectHBonePorts(obj) ==
  LET Needs(rules) == \E i \in DOMAIN rules : needsHBonePort(rules[i])
      Inject(rules) == [i \in DOMAIN rules |->
        IF needsHBonePort(rules[i])
          THEN [rules[i] EXCEPT !.ports = Append(@, Tcp(15008))] ELSE rules[i]]
  IN IF obj.kind = "NetworkPolicy" /\ (Needs(obj.spec.egress) \/ Needs(obj.spec.ingress))
       THEN [obj EXCEPT !.spec.egress = Inject(@), !.spec.ingress = Inject(@),
                        !.labels = mergeMaps(@, [hbone_injected |-> <<"true">>])]
       ELSE obj
=============================================================================
