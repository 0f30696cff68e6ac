------------------------- MODULE PackageController -------------------------
(***************************************************************************)
(* The Package reconciler of internal/controller and the machinery it runs *)
(* in: the API server, the informer caches that lag behind it, the work    *)
(* queue, the Kubernetes garbage collector, and the people who edit        *)
(* Packages, the global ConfigMap and the generated objects.               *)
(*                                                                         *)
(* Every API call of Reconcile is a step of its own, so that anything can  *)
(* happen between two of them.  The generator is a parameter: GenerateFor  *)
(* stands for generator.Generate, a pure function of its input.            *)
(***************************************************************************)
EXTENDS PackageStatus, Sequences

CONSTANTS
  Packages,                \* names of Packages, all in one namespace
  Specs,                   \* values of .spec
  Vals,                    \* contents of a generated object
  Drifted,                 \* the content an object has after a manual edit
  Entries,                 \* well-formed entries of the global ConfigMap
  ConfigMaps,              \* values of the global ConfigMap
  ServicePorts,            \* target ports the Service default/kubernetes may have
  ReferencesKubeAPI,       \* of a spec: does it refer to the kubeAPI definition?
  GenerateFor,             \* generator.Generate, of package, spec, input and ports
  GlobalConfig,            \* is --global-config-namespace set?
  Budget                   \* how often each disturbance may happen

Disturbances == {"user", "config", "service", "drift", "crash", "fault", "late", "fanout"}

\* "" is an entry that is not set, "malformed" one that does not parse.
ConfigMap == [egress  : Entries \cup {"", "malformed"},
              ingress : Entries \cup {"", "malformed"},
              routes  : Entries \cup {"", "malformed"}]
NoConfigMap == [egress |-> "", ingress |-> "", routes |-> ""]

Inputs == [egress : Entries \cup {""}, ingress : Entries \cup {""},
           routes : Entries \cup {""},
           definitionsErr : BOOLEAN, routesErr : BOOLEAN]

\* What kubeAPIPorts can return; nil means every port.
KubeAPIPorts == ServicePorts \cup {"nil"}

Emitted == [key : Keys, val : Vals]
Rendering == [ok : BOOLEAN, objs : Seq(Emitted)]

ASSUME PackagesAssumption == Packages # {}
ASSUME SpecsAssumption == Specs # {}
ASSUME ServicePortsAssumption == ServicePorts # {}
ASSUME ValsAssumption == Drifted \in Vals
ASSUME ConfigMapsAssumption == ConfigMaps \subseteq ConfigMap
ASSUME GlobalConfigAssumption == GlobalConfig \in BOOLEAN
ASSUME BudgetAssumption == Budget \in [Disturbances -> Nat]
ASSUME ReferencesAssumption == \A s \in Specs : ReferencesKubeAPI[s] \in BOOLEAN
ASSUME GenerateAssumption ==
  \A p \in Packages, s \in Specs, i \in Inputs, ports \in KubeAPIPorts :
     GenerateFor[<<p, s, i, ports>>] \in Rendering

\* The kinds that prune lists, in order.  A key is a pair <<kind, name>>.
managedListKinds == <<"NetworkPolicy", "PeerAuthentication", "AuthorizationPolicy",
                      "VirtualService", "ServiceEntry", "Sidecar">>

ASSUME KeysAssumption == \A k \in Keys : \E i \in 1..6 : k[1] = managedListKinds[i]

AnyPackage == CHOOSE p \in Packages : TRUE
AnySpec == CHOOSE s \in Specs : TRUE

\* A Package at the API server.  uid 0 stands for "there is none".
Package == [uid : Nat, rv : Nat, gen : Nat, spec : Specs, deleting : BOOLEAN,
            st : Status]
NoPackage == [uid |-> 0, rv |-> 0, gen |-> 0, spec |-> AnySpec,
              deleting |-> FALSE, st |-> NoStatus]

\* A generated object, with the Package its label and its owner reference name.
Object == [uid : Nat, pkg : Packages, val : Vals]
NoObject == [uid |-> 0, pkg |-> AnyPackage, val |-> Drifted]

PCs == {"idle", "mark", "render", "apply", "list", "delete", "ready", "failed"}

\* The one worker (MaxConcurrentReconciles is left at 1): the local variables
\* of Reconcile, applyAll and pruneStale.
Worker == [pc : PCs, pkg : Packages, snap : Package, desired : Seq(Emitted),
           next : Nat, kinds : SUBSET (1..6), stale : SUBSET Keys,
           reason : Reasons]
Idle == [pc |-> "idle", pkg |-> AnyPackage, snap |-> NoPackage, desired |-> <<>>,
         next |-> 0, kinds |-> {}, stale |-> {}, reason |-> ""]

VARIABLES
  pkgs,     \* Packages at the API server
  rev,      \* last resourceVersion given out for a Package of that name
  objs,     \* generated objects at the API server
  cfg,      \* the global ConfigMap at the API server
  svc,      \* target ports of the Service default/kubernetes, which has no informer
  cPkgs,    \* the informer caches of the other three
  cObjs,
  cCfg,
  pend,     \* owners named by the undelivered watch events of an object
  queue,    \* the work queue, which never holds a request twice
  w,        \* the worker
  late,     \* calls whose caller has given up or died, as the worker it was
  left      \* how often each disturbance may still happen

api == <<pkgs, rev, objs, cfg, svc>>
caches == <<cPkgs, cObjs, cCfg>>
vars == <<pkgs, rev, objs, cfg, svc, cPkgs, cObjs, cCfg, pend, queue, w, late, left>>

Exists(p) == pkgs[p].uid # 0
Present(k) == objs[k].uid # 0

Init ==
  /\ pkgs = [p \in Packages |-> NoPackage]
  /\ rev = [p \in Packages |-> 0]
  /\ objs = [k \in Keys |-> NoObject]
  /\ cfg = NoConfigMap
  /\ svc \in ServicePorts
  /\ cPkgs = pkgs /\ cObjs = objs /\ cCfg = cfg
  /\ pend = [k \in Keys |-> {}]
  /\ queue = {}
  /\ w = Idle
  /\ late = {}
  /\ left = Budget

Spend(d) == left[d] > 0 /\ left' = [left EXCEPT ![d] = @ - 1]

-----------------------------------------------------------------------------
(* The API server. *)

Owners(o) == IF o.uid = 0 THEN {} ELSE {o.pkg}

\* Create, change or delete an object.  A write that changes nothing makes no
\* event; any other will be delivered to the old and to the new owner.
WriteObject(k, o) ==
  /\ objs' = [objs EXCEPT ![k] = o]
  /\ pend' = IF o = objs[k] THEN pend
             ELSE [pend EXCEPT ![k] = @ \cup Owners(objs[k]) \cup Owners(o)]

\* Every write of a Package takes a new resourceVersion.
WritePackage(p, new) ==
  /\ rev' = [rev EXCEPT ![p] = @ + 1]
  /\ pkgs' = [pkgs EXCEPT ![p] = [new EXCEPT !.rv = rev[p] + 1]]

\* A mutant: the update does not carry the resourceVersion.
Accepted_UidOnly(x) == pkgs[x.pkg].uid = x.snap.uid

\* Status().Update of worker x's copy is refused unless the copy is of the
\* version that is there: conflict, or not found.
Accepted(x) == pkgs[x.pkg].uid = x.snap.uid /\ pkgs[x.pkg].rv = x.snap.rv

\* A mutant: the first object of the rendering is not kept.
Keep_OffByOne(x) == {x.desired[i].key : i \in DOMAIN x.desired \ {1}}

\* The objects of x's rendering: what prune keeps and the status lists.
Keep(x) == {x.desired[i].key : i \in DOMAIN x.desired}

\* The status that x writes next, made from its copy.
NewStatus(x) ==
  CASE x.pc = "mark"   -> markReconciling(x.snap.st, x.snap.gen)
    [] x.pc = "ready"  -> markReady(x.snap.st, x.snap.gen, Keep(x))
    [] x.pc = "failed" -> markFailed(x.snap.st, x.snap.gen, x.reason)

WriteStatus(x) ==
  /\ Accepted(x)
  /\ IF NewStatus(x) = x.snap.st
       THEN UNCHANGED <<pkgs, rev>>
       ELSE WritePackage(x.pkg, [pkgs[x.pkg] EXCEPT !.st = NewStatus(x)])

\* Server-side apply of the next object of x's rendering, with force; the label
\* and the owner reference are those of x's copy of the Package.
ApplyNext(x) ==
  LET o == x.desired[x.next]
  IN WriteObject(o.key, [uid |-> x.snap.uid, pkg |-> x.pkg, val |-> o.val])

\* The worker's call may still reach the API server after the worker has given
\* it up: its connection broke, or its process died.
Abandon ==
  late' = IF w.pc \in {"mark", "apply", "delete", "ready", "failed"} /\ left["late"] > 0
            THEN late \cup {w} ELSE late

-----------------------------------------------------------------------------
(* Reconcile, one step per API call. *)

\* A mutant: the deletion timestamp is not looked at.
Start_IgnoresDeletion(p) ==
  /\ w.pc = "idle"
  /\ p \in queue
  /\ queue' = queue \ {p}
  /\ IF cPkgs[p].uid = 0
       THEN w' = w
       ELSE w' = [Idle EXCEPT !.pkg = p, !.snap = cPkgs[p],
                    !.pc = IF cPkgs[p].gen # cPkgs[p].st.observed
                             THEN "mark" ELSE "render"]
  /\ UNCHANGED <<api, caches, pend, late, left>>

\* The worker takes a request and Gets the Package from the cache.  A Package
\* that is gone or being deleted is left to the garbage collector.
Start(p) ==
  /\ w.pc = "idle"
  /\ p \in queue
  /\ queue' = queue \ {p}
  /\ IF cPkgs[p].uid = 0 \/ cPkgs[p].deleting
       THEN w' = w
       ELSE w' = [Idle EXCEPT !.pkg = p, !.snap = cPkgs[p],
                    !.pc = IF cPkgs[p].gen # cPkgs[p].st.observed
                             THEN "mark" ELSE "render"]
  /\ UNCHANGED <<api, caches, pend, late, left>>

\* A mutant: the error is logged and not returned.
Retry_Swallowed == w' = Idle /\ queue' = queue

\* An error returned from Reconcile: the request is queued again, after a
\* back-off that is not modelled.
Retry == w' = Idle /\ queue' = queue \cup {w.pkg}

\* The status update is refused, or it fails on the way there or back, or
\* arrives later.
StatusUpdateFails ==
  \/ ~Accepted(w) /\ UNCHANGED <<pkgs, rev, late, left>>
  \/ /\ Spend("fault")
     /\ \/ UNCHANGED <<pkgs, rev>> /\ Abandon
        \/ WriteStatus(w) /\ late' = late

MarkReconciling ==
  /\ w.pc = "mark"
  /\ \/ /\ WriteStatus(w)
        /\ w' = [w EXCEPT !.pc = "render", !.snap = pkgs'[w.pkg]]
        /\ UNCHANGED <<queue, late, left>>
     \/ StatusUpdateFails /\ Retry
  /\ UNCHANGED <<objs, cfg, svc, caches, pend>>

\* sharedConfig: what the generator is told of the global ConfigMap: nothing if
\* the operator runs without one.  A missing ConfigMap is one with nothing set;
\* the ingress definitions are not parsed when the egress definitions are malformed.
Parsed(entry) == IF entry = "malformed" THEN "" ELSE entry

sharedConfig(readable, cm) ==
  IF ~GlobalConfig
    THEN [egress |-> "", ingress |-> "", routes |-> "",
          definitionsErr |-> FALSE, routesErr |-> FALSE]
  ELSE IF ~readable
    THEN [egress |-> "", ingress |-> "", routes |-> "",
          definitionsErr |-> TRUE, routesErr |-> TRUE]
    ELSE [egress  |-> Parsed(cm.egress),
          ingress |-> IF cm.egress = "malformed" THEN "" ELSE Parsed(cm.ingress),
          routes  |-> Parsed(cm.routes),
          definitionsErr |-> "malformed" \in {cm.egress, cm.ingress},
          routesErr      |-> cm.routes = "malformed"]

\* A Package that is rendered although the ConfigMap cannot be read is rendered as
\* it would be with any ConfigMap: the generator refuses what it would have to
\* guess (NeverGuesses in Rendering).
ASSUME UnreadableAssumption ==
  GlobalConfig =>
    \A p \in Packages, s \in Specs, ports \in KubeAPIPorts, cm \in ConfigMap :
      LET blind == GenerateFor[<<p, s, sharedConfig(FALSE, cm), ports>>]
      IN blind.ok => GenerateFor[<<p, s, sharedConfig(TRUE, cm), ports>>] = blind

\* kubeAPIPorts: looked up only if the spec asks for it; a failed lookup is
\* not an error.
kubeAPIPorts(spec, reachable) ==
  IF ReferencesKubeAPI[spec] /\ reachable THEN svc ELSE "nil"

\* What remains to be listed by prune; kinds of which the instance has no key
\* are passed over.
KindsToList == {i \in 1..6 : \E k \in Keys : k[1] = managedListKinds[i]}

AfterApply == IF KindsToList = {} THEN "ready" ELSE "list"

\* sharedConfig, kubeAPIPorts and Generate.  Either read may fail.
Render ==
  /\ w.pc = "render"
  /\ \E readable, reachable \in BOOLEAN :
       /\ readable \/ GlobalConfig
       /\ reachable \/ ReferencesKubeAPI[w.snap.spec]
       /\ IF readable /\ reachable THEN left' = left ELSE Spend("fault")
       /\ LET out == GenerateFor[<<w.pkg, w.snap.spec, sharedConfig(readable, cCfg),
                                kubeAPIPorts(w.snap.spec, reachable)>>]
          IN w' = IF ~out.ok
                    THEN [w EXCEPT !.pc = "failed", !.reason = "GenerationFailed"]
                    ELSE [w EXCEPT !.desired = out.objs, !.next = 1,
                            !.kinds = KindsToList,
                            !.pc = IF out.objs = <<>> THEN AfterApply ELSE "apply"]
  /\ UNCHANGED <<api, caches, pend, queue, late>>

Fail(reason) == w' = [w EXCEPT !.pc = "failed", !.reason = reason]

\* A mutant: an object that cannot be applied is skipped.
Apply_GoesOnAfterError ==
  /\ w.pc = "apply"
  /\ \/ ApplyNext(w) /\ left' = left
     \/ Spend("fault") /\ UNCHANGED <<objs, pend>>
  /\ w' = [w EXCEPT !.next = @ + 1,
             !.pc = IF w.next = Len(w.desired) THEN AfterApply ELSE "apply"]
  /\ UNCHANGED <<pkgs, rev, cfg, svc, caches, queue, late>>

\* applyAll: the next object; the first error ends it.
Apply ==
  /\ w.pc = "apply"
  /\ \/ /\ ApplyNext(w)
        /\ w' = [w EXCEPT !.next = @ + 1,
                   !.pc = IF w.next = Len(w.desired) THEN AfterApply ELSE "apply"]
        /\ UNCHANGED <<late, left>>
     \/ /\ Spend("fault")
        /\ \/ ApplyNext(w) /\ late' = late
           \/ UNCHANGED <<objs, pend>> /\ Abandon
        /\ Fail("ApplyFailed")
  /\ UNCHANGED <<pkgs, rev, cfg, svc, caches, queue>>

\* Where pruneStale goes on, with those kinds to list and those objects to delete.
PruneNext(kinds, stale) ==
  w' = [w EXCEPT !.kinds = kinds, !.stale = stale,
          !.pc = IF stale # {} THEN "delete" ELSE IF kinds # {} THEN "list" ELSE "ready"]

\* Mutants: the list runs past its end, or ignores the label.
List_PastTheEnd ==
  /\ w.pc = "list"
  /\ LET i == CHOOSE i \in w.kinds : \A j \in w.kinds : i <= j
     IN PruneNext((w.kinds \ {i}) \cup {i + 4}, {})
  /\ UNCHANGED <<api, caches, pend, queue, late, left>>

List_IgnoresLabel ==
  /\ w.pc = "list"
  /\ LET i == CHOOSE i \in w.kinds : \A j \in w.kinds : i <= j
     IN PruneNext(w.kinds \ {i},
                  {k \in Keys \ Keep(w) : k[1] = managedListKinds[i] /\ cObjs[k].uid # 0})
  /\ UNCHANGED <<api, caches, pend, queue, late, left>>

\* pruneStale lists the next kind, by label, from the cache.
List ==
  /\ w.pc = "list"
  /\ LET i == CHOOSE i \in w.kinds : \A j \in w.kinds : i <= j
     IN \/ /\ PruneNext(w.kinds \ {i},
                        {k \in Keys \ Keep(w) : /\ k[1] = managedListKinds[i]
                                             /\ cObjs[k].uid # 0
                                             /\ cObjs[k].pkg = w.pkg})
           /\ left' = left
        \/ Spend("fault") /\ Fail("PruneFailed")
  /\ UNCHANGED <<api, caches, pend, queue, late>>

\* pruneStale deletes an object it listed, without preconditions; that it is
\* no longer there is no error.
Delete ==
  /\ w.pc = "delete"
  /\ \E k \in w.stale :
       \/ /\ WriteObject(k, NoObject)
          /\ PruneNext(w.kinds, w.stale \ {k})
          /\ UNCHANGED <<late, left>>
       \/ /\ Spend("fault")
          /\ \/ WriteObject(k, NoObject) /\ late' = late
             \/ UNCHANGED <<objs, pend>> /\ Abandon
          /\ Fail("PruneFailed")
  /\ UNCHANGED <<pkgs, rev, cfg, svc, caches, queue>>

\* A mutant: the verdict is stamped with the generation found when it is written.
MarkReady_StampsLiveGeneration ==
  /\ w.pc = "ready"
  /\ LET st == markReady(w.snap.st, pkgs[w.pkg].gen, Keep(w)) IN
     IF pkgs[w.pkg].uid = w.snap.uid
       THEN /\ WritePackage(w.pkg, [pkgs[w.pkg] EXCEPT !.st = st])
            /\ w' = Idle /\ queue' = queue
       ELSE Retry /\ UNCHANGED <<pkgs, rev>>
  /\ UNCHANGED <<objs, cfg, svc, caches, pend, late, left>>

MarkReady ==
  /\ w.pc = "ready"
  /\ \/ WriteStatus(w) /\ w' = Idle /\ UNCHANGED <<queue, late, left>>
     \/ StatusUpdateFails /\ Retry
  /\ UNCHANGED <<objs, cfg, svc, caches, pend>>

\* markFailed hands the original error back, so the request is always retried.
MarkFailed ==
  /\ w.pc = "failed"
  /\ \/ WriteStatus(w) /\ UNCHANGED <<late, left>>
     \/ StatusUpdateFails
  /\ Retry
  /\ UNCHANGED <<objs, cfg, svc, caches, pend>>

WorkerStep == MarkReconciling \/ Render \/ Apply \/ List \/ Delete \/ MarkReady \/ MarkFailed

-----------------------------------------------------------------------------
(* Watch events (SetupWithManager).  A delivery brings the cache up to the  *)
(* version that is now at the API server.                                   *)

DeliverPackage(p) ==
  /\ cPkgs[p] # pkgs[p]
  /\ cPkgs' = [cPkgs EXCEPT ![p] = pkgs[p]]
  /\ queue' = queue \cup {p}
  /\ UNCHANGED <<api, cObjs, cCfg, pend, w, late, left>>

\* A mutant: the controller does not own what it generates.
DeliverObject_NotOwned(k) ==
  /\ pend[k] # {}
  /\ cObjs' = [cObjs EXCEPT ![k] = objs[k]]
  /\ pend' = [pend EXCEPT ![k] = {}]
  /\ UNCHANGED <<api, cPkgs, cCfg, queue, w, late, left>>

DeliverObject(k) ==
  /\ pend[k] # {}
  /\ cObjs' = [cObjs EXCEPT ![k] = objs[k]]
  /\ queue' = queue \cup pend[k]
  /\ pend' = [pend EXCEPT ![k] = {}]
  /\ UNCHANGED <<api, cPkgs, cCfg, w, late, left>>

\* A mutant: Packages that are Ready are thought to need nothing.
packagesForGlobalConfig_SkipsReady ==
  /\ queue' = queue \cup {p \in Packages : cPkgs[p].uid # 0 /\ ~Holds(cPkgs[p].st, "Ready")}
  /\ left' = left

\* packagesForGlobalConfig: every Package the cache knows, or none at all when
\* listing them fails.
packagesForGlobalConfig ==
  \/ queue' = queue \cup {p \in Packages : cPkgs[p].uid # 0} /\ left' = left
  \/ Spend("fanout") /\ queue' = queue

DeliverConfig ==
  /\ GlobalConfig
  /\ cCfg # cfg
  /\ cCfg' = cfg
  /\ packagesForGlobalConfig
  /\ UNCHANGED <<api, cPkgs, cObjs, pend, w, late>>

-----------------------------------------------------------------------------
(* Everybody else. *)

CreatePackage(p, s) ==
  /\ ~Exists(p)
  /\ Spend("user")
  /\ WritePackage(p, [NoPackage EXCEPT !.uid = rev[p] + 1, !.gen = 1, !.spec = s])
  /\ UNCHANGED <<objs, cfg, svc, caches, pend, queue, w, late>>

EditSpec(p, s) ==
  /\ Exists(p) /\ ~pkgs[p].deleting
  /\ s # pkgs[p].spec
  /\ Spend("user")
  /\ WritePackage(p, [pkgs[p] EXCEPT !.gen = @ + 1, !.spec = s])
  /\ UNCHANGED <<objs, cfg, svc, caches, pend, queue, w, late>>

\* There is no finalizer: the Package goes at once, unless the deletion is a
\* foreground one, which waits for the objects to go first.
DeletePackage(p) ==
  /\ Exists(p) /\ ~pkgs[p].deleting
  /\ Spend("user")
  /\ \/ WritePackage(p, [pkgs[p] EXCEPT !.deleting = TRUE, !.gen = @ + 1])
     \/ pkgs' = [pkgs EXCEPT ![p] = NoPackage] /\ UNCHANGED rev
  /\ UNCHANGED <<objs, cfg, svc, caches, pend, queue, w, late>>

\* The garbage collector ends a foreground deletion...
FinishDeletion(p) ==
  /\ pkgs[p].deleting
  /\ \A k \in Keys : Present(k) => ~(objs[k].pkg = p /\ objs[k].uid = pkgs[p].uid)
  /\ pkgs' = [pkgs EXCEPT ![p] = NoPackage]
  /\ UNCHANGED <<rev, objs, cfg, svc, caches, pend, queue, w, late, left>>

\* ... and deletes the objects whose owner is going or gone.
Collect(k) ==
  /\ Present(k)
  /\ LET owner == pkgs[objs[k].pkg] IN owner.uid # objs[k].uid \/ owner.deleting
  /\ WriteObject(k, NoObject)
  /\ UNCHANGED <<pkgs, rev, cfg, svc, caches, queue, w, late, left>>

EditConfig(c) ==
  /\ c # cfg
  /\ Spend("config")
  /\ cfg' = c
  /\ UNCHANGED <<pkgs, rev, objs, svc, caches, pend, queue, w, late>>

\* The API server's Service changes.  Nobody watches it.
EditService(ports) ==
  /\ ports # svc
  /\ Spend("service")
  /\ svc' = ports
  /\ UNCHANGED <<pkgs, rev, objs, cfg, caches, pend, queue, w, late>>

\* Somebody deletes or edits a generated object.
Drift(k) ==
  /\ Present(k)
  /\ Spend("drift")
  /\ WriteObject(k, NoObject) \/ WriteObject(k, [objs[k] EXCEPT !.val = Drifted])
  /\ UNCHANGED <<pkgs, rev, cfg, svc, caches, queue, w, late>>

\* The process dies and starts anew: the caches are filled from the API server
\* before the worker runs, and every Package and object found there is an event.
Crash ==
  /\ Spend("crash")
  /\ Abandon
  /\ w' = Idle
  /\ cPkgs' = pkgs /\ cObjs' = objs /\ cCfg' = cfg
  /\ pend' = [k \in Keys |-> {}]
  /\ queue' = {p \in Packages : Exists(p)} \cup UNION {Owners(objs[k]) : k \in Keys}
  /\ UNCHANGED api

\* A call that nobody waits for takes effect after all: the status update unless
\* it is refused, the apply and the delete whatever has happened since.
Land(x) ==
  /\ Spend("late")
  /\ late' = late \ {x}
  /\ \/ /\ x.pc \in {"mark", "ready", "failed"}
        /\ WriteStatus(x)
        /\ UNCHANGED <<objs, pend>>
     \/ /\ x.pc = "apply" /\ ApplyNext(x)
        /\ UNCHANGED <<pkgs, rev>>
     \/ /\ x.pc = "delete" /\ \E k \in x.stale : WriteObject(k, NoObject)
        /\ UNCHANGED <<pkgs, rev>>
  /\ UNCHANGED <<cfg, svc, caches, queue, w>>

Next ==
  \/ WorkerStep
  \/ \E p \in Packages : Start(p) \/ DeliverPackage(p) \/ DeletePackage(p) \/ FinishDeletion(p)
  \/ \E p \in Packages, s \in Specs : CreatePackage(p, s) \/ EditSpec(p, s)
  \/ \E k \in Keys : DeliverObject(k) \/ Collect(k) \/ Drift(k)
  \/ DeliverConfig
  \/ \E c \in ConfigMaps : EditConfig(c)
  \/ \E ports \in ServicePorts : EditService(ports)
  \/ Crash
  \/ \E x \in late : Land(x)

Spec == Init /\ [][Next]_vars

\* The worker, the informers and the garbage collector keep going, and the
\* first-in first-out work queue starves no request.
Fairness ==
  /\ WF_vars(WorkerStep)
  /\ \A p \in Packages : SF_vars(Start(p)) /\ WF_vars(DeliverPackage(p))
                         /\ WF_vars(FinishDeletion(p))
  /\ \A k \in Keys : WF_vars(DeliverObject(k)) /\ WF_vars(Collect(k))
  /\ WF_vars(DeliverConfig)

FairSpec == Spec /\ Fairness
-----------------------------------------------------------------------------
(* Properties. *)

\* Every variable has its type.
TypeOK ==
  /\ pkgs \in [Packages -> Package] /\ cPkgs \in [Packages -> Package]
  /\ rev \in [Packages -> Nat]
  /\ objs \in [Keys -> Object] /\ cObjs \in [Keys -> Object]
  /\ cfg \in ConfigMap /\ cCfg \in ConfigMap
  /\ svc \in ServicePorts
  /\ pend \in [Keys -> SUBSET Packages]
  /\ queue \in SUBSET Packages
  /\ w \in Worker
  /\ late \in SUBSET Worker
  /\ left \in [Disturbances -> Nat]

EmittedKeys(out) == {out.objs[i].key : i \in DOMAIN out.objs}

\* No later element of that rendering is the same object once more (two rules may
\* come to one name, and then the last one applied is the one that stays).
LastOf(seq, i) == \A j \in DOMAIN seq : seq[j].key = seq[i].key => j <= i

Consistent(gen, st) ==
  /\ Holds(st, "Stalled") <=> st.conds["Ready"].status = "False"
  /\ Holds(st, "Stalled") => st.conds["Stalled"].reason = st.conds["Ready"].reason
  /\ Holds(st, "Reconciling") => st.observed < gen
  /\ st.conds["Ready"].observed = st.observed
  /\ st.observed <= gen

\* The three conditions never contradict each other, whatever order of edits,
\* crashes, refused and lost status updates led there: Stalled goes with
\* Ready=False and with its reason, Reconciling is there only while a newer
\* generation than the observed one waits for its verdict, and the verdict is
\* about the observed generation (markReconciling, markFailed, markReady).
StatusConsistent == \A p \in Packages : Consistent(pkgs[p].gen, pkgs[p].st)

\* A verdict on the live generation was reached from the live spec: what a Ready
\* Package lists as applied is a rendering of the spec it now has, and a Package
\* failed for GenerationFailed has a spec that some configuration cannot render.
\* An edit that lands while Reconcile is at work on the previous spec must not
\* be reported as done (Reconcile's use of one copy, and its resourceVersion).
VerdictReflectsSpec ==
  \A p \in Packages :
    LET Out(i, ports) == GenerateFor[<<p, pkgs[p].spec, i, ports>>]
        phase == KStatus(pkgs[p].gen, pkgs[p].deleting, pkgs[p].st)
    IN /\ phase = "Current" =>
            \E i \in Inputs, ports \in KubeAPIPorts :
              Out(i, ports).ok /\ pkgs[p].st.applied = EmittedKeys(Out(i, ports))
       /\ phase = "Failed" /\ pkgs[p].st.conds["Ready"].reason = "GenerationFailed" =>
            \E i \in Inputs, ports \in KubeAPIPorts : ~Out(i, ports).ok

\* Nobody has touched a generated object by hand.
NoDrift == left["drift"] = Budget["drift"]

\* No call took effect after its caller had given it up.
NoneLate == left["late"] = Budget["late"]

\* Pruning starts when everything desired is in place: from the first List on,
\* every object of the rendering is there with the content rendered last, unless the
\* Package was deleted meanwhile, somebody drifted the object or a call landed late
\* (applyAll comes before pruneStale and stops at the first error).
MakeBeforeBreak ==
  w.pc \in {"list", "delete", "ready"} /\ NoDrift /\ NoneLate
    /\ pkgs[w.pkg].uid = w.snap.uid /\ ~pkgs[w.pkg].deleting
  => \A i \in DOMAIN w.desired : LastOf(w.desired, i) =>
       objs[w.desired[i].key] = [uid |-> w.snap.uid, pkg |-> w.pkg, val |-> w.desired[i].val]

\* Some rendering of p does without the object k.
Optional(p, k) ==
  \E s \in Specs, i \in Inputs, ports \in KubeAPIPorts :
     LET out == GenerateFor[<<p, s, i, ports>>] IN out.ok /\ k \notin EmittedKeys(out)

\* Some rendering of another Package contains it too: the two share a name.
Contested(p, k) ==
  \E q \in Packages \ {p}, s \in Specs, i \in Inputs, ports \in KubeAPIPorts :
     LET out == GenerateFor[<<q, s, i, ports>>] IN out.ok /\ k \in EmittedKeys(out)

\* Once a Package has been Ready, the objects every rendering contains (the
\* default-deny policies) are never missing again while it lives: not during an
\* edit, a failed rendering, a failed apply, a prune or a restart, not by what is done
\* for the other Packages (which share no name with it), and not by a call that lands
\* late, unless it is an apply for a Package that had the name before.
BaselineStays ==
  NoDrift => \A p \in Packages :
    Exists(p) /\ ~pkgs[p].deleting /\ pkgs[p].st.applied # {} /\ (pkgs[p].uid = 1 \/ NoneLate)
      => \A k \in Keys : \/ objs[k].uid = pkgs[p].uid /\ objs[k].pkg = p
                         \/ Optional(p, k) \/ Contested(p, k)

\* The objects of p are what that rendering asks for.
ObjectsMatch(p, out) ==
  /\ \A i \in DOMAIN out.objs : LastOf(out.objs, i) =>
       objs[out.objs[i].key] = [uid |-> pkgs[p].uid, pkg |-> p, val |-> out.objs[i].val]
  /\ \A k \in Keys \ EmittedKeys(out) : ~(Present(k) /\ objs[k].pkg = p)

Correct(p) ==
  /\ KStatus(pkgs[p].gen, pkgs[p].deleting, pkgs[p].st) = "Current"
  /\ \E ports \in KubeAPIPorts :
       LET out == GenerateFor[<<p, pkgs[p].spec, sharedConfig(TRUE, cfg), ports>>]
       IN out.ok /\ ObjectsMatch(p, out)

\* Nothing about p is queued, being worked on or on its way to the caches.
Settled(p) ==
  /\ w.pc = "idle" /\ p \notin queue
  /\ cPkgs[p] = pkgs[p] /\ (GlobalConfig => cCfg = cfg)
  /\ \A k \in Keys : p \notin pend[k]

\* The operator never stops short: when nothing is left to do for a Package, its
\* objects are exactly those its spec and the ConfigMap ask for and its status
\* says so.  No edit, drift, fault, refused or late call, stale cache or restart can
\* leave it with work undone and no event to wake it (except the ConfigMap event
\* that packagesForGlobalConfig drops when it cannot list the Packages).
SettledMeansCorrect ==
  left["fanout"] = Budget["fanout"] =>
    \A p \in Packages :
      Exists(p) /\ ~pkgs[p].deleting /\ Settled(p) => Correct(p)

\* The observed generation of one Package never goes back (a status computed from
\* a stale copy never overwrites a newer one).
ObservedNeverGoesBack ==
  [][\A p \in Packages : Exists(p) /\ pkgs[p].uid = pkgs'[p].uid
        => pkgs'[p].st.observed >= pkgs[p].st.observed]_pkgs

-----------------------------------------------------------------------------
(* Liveness, under FairSpec: the disturbances end, since each is budgeted.  *)

\* Every Package ends up as it should be for good: correct if it can be
\* rendered; reported as failed, again and again, if it cannot; and a deleted
\* one is gone with all its objects (unless packagesForGlobalConfig dropped the
\* event of the ConfigMap it should have been rendered with).
Converges ==
  \A p \in Packages :
    <>[](IF ~Exists(p)
           THEN \A k \in Keys : Present(k) => objs[k].pkg # p
         ELSE left["fanout"] = Budget["fanout"] =>
           IF \A ports \in KubeAPIPorts :
                GenerateFor[<<p, pkgs[p].spec, sharedConfig(TRUE, cfg), ports>>].ok
             THEN Correct(p)
             ELSE KStatus(pkgs[p].gen, pkgs[p].deleting, pkgs[p].st) = "Failed")

\* The operator comes to rest: its own status and object writes wake it up again
\* (no predicate filters them), but only a finite number of times.
Quiesces == <>[](w.pc = "idle" /\ queue = {})

-----------------------------------------------------------------------------
(* What the documentation says, and the code does not quite do.            *)

\* "The Ready condition is set True when desired resources are applied and
\* pruned": a Package that is Ready for its live generation has no object left
\* beside those it lists.
ReadyMeansPruned ==
  \A p \in Packages :
    KStatus(pkgs[p].gen, pkgs[p].deleting, pkgs[p].st) = "Current"
      => \A k \in Keys : objs[k].uid = pkgs[p].uid /\ objs[k].pkg = p
                           => k \in pkgs[p].st.applied

\* "Stays current if the Service changes": a Package that refers to the kubeAPI
\* definition ends up with the ports the Service default/kubernetes has.
KubeAPIPortsStayCurrent ==
  \A p \in Packages :
    <>[](Exists(p) /\ ReferencesKubeAPI[pkgs[p].spec]
           => ObjectsMatch(p, GenerateFor[<<p, pkgs[p].spec, sharedConfig(TRUE, cfg), svc>>]))

-----------------------------------------------------------------------------
(* Refinement: what the status of a Package promises. *)

Verdict(st) == CASE st.conds["Ready"].status = "True"  -> "Ready"
                 [] st.conds["Ready"].status = "False" -> "Failed"
                 [] OTHER -> "none"

LifeOf(c) ==
  [stage   |-> IF c.uid = 0 THEN "absent" ELSE IF c.deleting THEN "terminating" ELSE "live",
   gen     |-> c.gen, judged |-> c.st.observed, verdict |-> Verdict(c.st)]

Lifecycle == INSTANCE PackageLifecycle WITH life <- [p \in Packages |-> LifeOf(pkgs[p])]

\* Every status the controller writes is a verdict on the generation that is live
\* at that moment, none is written on a Package being deleted, and a generation
\* that stays gets its verdict (Reconcile with markReconciling, markFailed and
\* markReady implements PackageLifecycle).
ImplementsLifecycle == Lifecycle!FairSpec
=============================================================================
