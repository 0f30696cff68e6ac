----------------------------- MODULE Generator -----------------------------
(***************************************************************************)
(* generator.Generate (pkg/generator/generator.go, istio.go, metadata.go): *)
(* the objects of a Package, in order, as a function of the Package and of *)
(* what the controller read for it.                                        *)
(*                                                                         *)
(* An input has the Package [name, ns, uid, spec], the target ports of the *)
(* API server, the shared definitions and whether they could be read, and  *)
(* the ingress configuration and whether it could be read.                 *)
(***************************************************************************)
EXTENDS AuthorizationPolicies

\* An upper-case mode; what is none of the four counts as STRICT.
mTLSMode(spec) == IF spec.mtls \in {"PERMISSIVE", "DISABLE", "UNSET"} THEN spec.mtls ELSE "STRICT"

sidecarResource(pkg, spec) ==
  IF spec.sidecar = Nil \/ spec.ambient THEN <<>>
  ELSE <<GeneratedObject("Sidecar", prependName(spec.prependReleaseName, pkg.name, <<"sidecar">>),
                NoEntries, NoEntries,
                [mode |-> IF spec.sidecar = "ALLOW_ANY" THEN "ALLOW_ANY" ELSE "REGISTRY_ONLY"])>>

generateCustomServiceEntries(spec) ==
  ForEach(spec.serviceEntries,
          LAMBDA raw : IF raw.name = <<>> THEN Err ELSE RawObject("ServiceEntry", raw.name, raw))

generateIstio(pkg, spec) ==
  InOrder(<<Ok(<<GeneratedObject("PeerAuthentication",
                        prependName(spec.prependReleaseName, pkg.name, <<"default", "peer", "auth">>),
                        NoEntries, NoEntries, [mtls |-> mTLSMode(spec)])>>),
            Ok(sidecarResource(pkg, spec)),
            generateCustomServiceEntries(spec)>>)

\* A mutant: no label of the user's is overwritten.
stampMetadata_KeepsUserLabels(pkg, obj) ==
  mergeMaps(obj,
    [labels |-> mergeMaps([managed_by |-> <<"bigbang", "operator">>, package |-> pkg.name], obj.labels),
     namespace |-> pkg.ns, owner |-> pkg.uid])

\* The label that prune goes by is the operator's whatever the user wrote; no
\* object has a namespace or an owner of its own.
stampMetadata(pkg, obj) ==
  mergeMaps(obj,
    [labels |-> mergeMaps(mergeMaps([managed_by |-> <<"bigbang", "operator">>], obj.labels),
                          [package |-> pkg.name]),
     namespace |-> pkg.ns, owner |-> pkg.uid])

Env(in) == [kubeAPIPorts |-> in.kubeAPIPorts, sharedEgress |-> in.shared.egress,
            sharedIngress |-> in.shared.ingress, sharedErr |-> in.sharedErr]

\* What is generated, part by part, in the order of the slice.
Parts(in, inbound) ==
  LET pkg == in.pkg
      spec == in.pkg.spec
  IN <<IF spec.istio = Nil \/ ~spec.istio.enabled THEN Ok(<<>>)
         ELSE generateIstio(pkg, spec.istio),
       IF spec.networkPolicies = Nil \/ ~spec.networkPolicies.enabled THEN Ok(<<>>)
         ELSE generateNetworkPolicies(pkg, spec.networkPolicies, spec.istio, Env(in)),
       IF spec.routes = Nil THEN Ok(<<>>) ELSE generateRoutes(pkg, spec.routes, inbound),
       Ok(generateDefaultAuthzPolicies(pkg, spec.istio, spec.networkPolicies)),
       IF spec.networkPolicies = Nil THEN Ok(<<>>)
         ELSE generateAuthzFromIngressShorthand(pkg, spec.networkPolicies, spec.istio),
       IF spec.routes = Nil THEN Ok(<<>>)
         ELSE Ok(generateAuthzFromRoutes(pkg, spec.routes, spec.istio, inbound)),
       generateCustomAuthzPolicies(spec.istio)>>

\* The last pass over the objects: injection, then metadata.
Finished(in, inject, made) ==
  [i \in DOMAIN made |->
     stampMetadata(in.pkg, IF inject THEN injectHBonePorts(made[i]) ELSE made[i])]

\* A mutant: the ports are injected before the routes are generated.
Generate_InjectsBeforeRoutes(in) ==
  LET inbound == resolveInboundRoutes(in)
      parts == Parts(in, inbound.objs)
      hbone == hboneEnabled(in.pkg.spec.networkPolicies, in.pkg.spec.istio)
  IN IF inbound.ok /\ InOrder(parts).ok
       THEN Ok(Finished(in, hbone, InOrder(SubSeq(parts, 1, 2)).objs)
               \o Finished(in, FALSE, InOrder(SubSeq(parts, 3, 7)).objs))
       ELSE Err

Generate(in) ==
  LET inbound == resolveInboundRoutes(in)
      out == InOrder(Parts(in, inbound.objs))
  IN IF inbound.ok /\ out.ok
       THEN Ok(Finished(in, hboneEnabled(in.pkg.spec.networkPolicies, in.pkg.spec.istio), out.objs))
       ELSE Err

\* The names that stand in quotes in the text of an egress entry.
Quoted(val) ==
  (UNION {{pair[2] : pair \in labels} : labels \in {flattenMatchLabels(val.podSelector)} \ {Nil}})
  \cup (IF val.peer = Nil THEN {}
        ELSE {e.key : e \in ToSet(val.peer.definition)} \cup {e.key.name : e \in ToSet(val.peer.literal)})

\* A mutant: the last entry decides (a missing break).
referencesKubeAPI_LastEntry(spec) ==
  LET np == spec.networkPolicies IN
  /\ np # Nil /\ np.enabled /\ np.egress # Nil
  /\ np.egress.from # <<>> /\ kubeAPI \in Quoted(Last(np.egress.from).val)

\* What kubeAPIPorts of the controller looks for before it asks for the ports:
\* "kubeAPI", in quotes, anywhere in the text of an egress entry.
referencesKubeAPI(spec) ==
  LET np == spec.networkPolicies IN
  /\ np # Nil /\ np.enabled /\ np.egress # Nil
  /\ \E i \in DOMAIN np.egress.from : kubeAPI \in Quoted(np.egress.from[i].val)
=============================================================================
