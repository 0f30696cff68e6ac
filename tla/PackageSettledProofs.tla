----------------------- MODULE PackageSettledProofs -----------------------
(***************************************************************************)
(* The operator never stops short: the proof of SettledMeansCorrect, for   *)
(* every number of Packages, objects and disturbances.                     *)
(*                                                                         *)
(* The argument goes backwards from rest.  A Package about which nothing   *)
(* is queued or on its way can only have come there by a pass of Reconcile *)
(* that changed nothing: whatever the pass, or anybody else, changes makes *)
(* an event, and the event queues the Package once more.  Such a pass is   *)
(* proof that everything was in place already.                             *)
(***************************************************************************)
EXTENDS PackageObjectsProofs

\* Nothing about p is queued or on its way to the caches, and no event of the
\* ConfigMap was dropped.  The worker may be at work on p.
Calm(p) ==
  /\ Exists(p) /\ ~pkgs[p].deleting
  /\ p \notin queue /\ cPkgs[p] = pkgs[p]
  /\ \A k \in Keys : p \notin pend[k]
  /\ left["fanout"] = Budget["fanout"]

\* What sharedConfig makes of the ConfigMap in the cache.
Seen == sharedConfig(TRUE, cCfg)

\* p is as the ConfigMap in the cache wants it.
Done(p) ==
  /\ KStatus(pkgs[p].gen, pkgs[p].deleting, pkgs[p].st) = "Current"
  /\ \E ports \in KubeAPIPorts :
       LET out == GenerateFor[<<p, pkgs[p].spec, Seen, ports>>]
       IN out.ok /\ ObjectsMatch(p, out)

Busy(p) == w.pc # "idle" /\ w.pkg = p

\* What the worker has found to be in place so far: its rendering is one for the
\* ConfigMap in the cache, ...
RenderedAsSeen(x) ==
  \E ports \in KubeAPIPorts :
    LET out == GenerateFor[<<x.pkg, x.snap.spec, Seen, ports>>]
    IN out.ok /\ x.desired = out.objs

\* ... what it has applied is there, ...
InPlace(x) ==
  \A i \in DOMAIN x.desired : i < x.next => objs[x.desired[i].key] = Record(x, i)

\* ... and an object of the Package that does not belong there is still to be
\* listed or to be deleted.
ToBePruned(x) ==
  \A k \in Keys \ Keep(x) : Present(k) /\ objs[k].pkg = x.pkg
    => k \in x.stale \/ \E i \in x.kinds : k[1] = managedListKinds[i]

FoundInPlace == RenderedAsSeen(w) /\ InPlace(w) /\ ToBePruned(w)

\* The inductive invariant.
AtRest == \A p \in Packages : Calm(p) /\ ~Busy(p) => Done(p)
AtWork == Engaged(w) /\ Calm(w.pkg) => FoundInPlace

SInv == IInv /\ Events /\ WithinBudget /\ Stages /\ AtRest /\ AtWork

-----------------------------------------------------------------------------
(* Rest can be reached only by a step that leaves everything about p alone. *)

Owned(p, k) == p \in Owners(objs[k])

\* Nothing that p is made of has changed.
Same(p) ==
  /\ pkgs'[p] = pkgs[p] /\ cCfg' = cCfg
  /\ \A k \in Keys : objs'[k] = objs[k] \/ ~(Owned(p, k) \/ Owned(p, k)')

\* A write of p leaves its cache behind, and a delivery queues it; so does one of
\* the ConfigMap, unless the event is dropped.
LEMMA CalmPackage ==
  ASSUME IInv, WithinBudget, [Next]_vars, NEW p \in Packages, Calm(p)'
  PROVE  pkgs'[p] = pkgs[p] /\ cPkgs'[p] = cPkgs[p] /\ cCfg' = cCfg
<1> USE DEF api, caches
<1>t. /\ TypeOK /\ Versions /\ rev[p] \in Nat /\ cPkgs[p] \in Package /\ cPkgs[p].rv \in Nat
      /\ cPkgs[p].rv <= rev[p]
  BY DEF IInv, TypeInv, TypeOK, Versions, Package
<1>1. /\ pkgs'[p].uid # 0 /\ p \notin queue' /\ cPkgs'[p] = pkgs'[p]
      /\ left'["fanout"] = Budget["fanout"]
  BY DEF Calm, Exists
<1>2. Untouched(p) \/ Removed(p) \/ Reborn(p) \/ Updated(p)
  BY <1>t, NextIsPackageStep, PackageIdentity
<1>3. cPkgs'[p] = cPkgs[p]
  BY <1>1, <1>t, CacheStep DEF Exists
<1>4. pkgs'[p] = pkgs[p]
  <2>1. pkgs'[p].rv # rev[p] + 1
    BY <1>1, <1>3, <1>t
  <2>2. ~Removed(p)
    BY <1>1 DEF Removed, NoPackage
  <2> QED BY <1>2, <2>1, <2>2 DEF Untouched, Reborn, Updated
<1>5. cCfg' = cCfg
  <2>1. CASE DeliverConfig
    <3>1. "fanout" \in Disturbances /\ Budget["fanout"] \in Nat
      BY BudgetAssumption DEF Disturbances
    <3>2. ~Spend("fanout")
      BY <1>1, <1>t, <3>1, SpendStep DEF WithinBudget
    <3>3. p \in queue'
      BY <1>1, <1>3, <2>1, <3>2 DEF DeliverConfig, packagesForGlobalConfig
    <3> QED BY <1>1, <3>3
  <2>2. CASE Crash
    <3>1. p \in queue'
      BY <1>1, <1>4, <2>2 DEF Crash, Exists
    <3> QED BY <1>1, <3>1
  <2>3. CASE WorkerStep
    BY <2>3 DEF WorkerStep, MarkReconciling, Render, Apply, List, Delete, MarkReady, MarkFailed
  <2> QED
    BY <2>1, <2>2, <2>3
    DEF Next, vars, Start, DeliverPackage, DeletePackage, FinishDeletion, CreatePackage, EditSpec,
        DeliverObject, Collect, Drift, EditConfig, EditService, Land
<1> QED BY <1>3, <1>4, <1>5

\* A request leaves the queue only when the worker takes it.
LEMMA QueueStep ==
  ASSUME TypeOK, [Next]_vars, NEW p \in Packages, p \in queue, p \notin queue', Exists(p)
  PROVE  Start(p)
<1> USE DEF api, caches
<1>1. ASSUME NEW q \in Packages, Start(q) PROVE Start(p)
  <2>1. p = q
    BY <1>1 DEF Start
  <2> QED BY <1>1, <2>1
<1>2. CASE WorkerStep
  BY <1>2 DEF WorkerStep, MarkReconciling, Render, Apply, List, Delete, MarkReady, MarkFailed, Retry
<1>3. ASSUME NEW q \in Packages, DeliverPackage(q) PROVE FALSE
  BY <1>3 DEF DeliverPackage
<1>4. ASSUME NEW k \in Keys, DeliverObject(k) PROVE FALSE
  BY <1>4 DEF DeliverObject
<1>5. CASE DeliverConfig
  BY <1>5 DEF DeliverConfig, packagesForGlobalConfig
<1>6. CASE Crash
  BY <1>6 DEF Crash
<1>7. CASE UNCHANGED queue
  BY <1>7
<1> QED
  BY <1>1, <1>2, <1>3, <1>4, <1>5, <1>6, <1>7
  DEF Next, vars, DeletePackage, FinishDeletion, CreatePackage, EditSpec,
      Collect, Drift, EditConfig, EditService, Land

\* p comes to rest only by a step that leaves everything about it alone, from rest
\* or from the queue.
LEMMA CalmStep ==
  ASSUME IInv, WithinBudget, WithinBudget', [Next]_vars, NEW p \in Packages, Calm(p)'
  PROVE  Same(p) /\ (Calm(p) \/ Start(p))
<1>t. TypeInv /\ TypeOK /\ "fanout" \in Disturbances
  BY DEF IInv, TypeInv, Disturbances
<1>1. pkgs'[p] = pkgs[p] /\ cPkgs'[p] = cPkgs[p] /\ cCfg' = cCfg
  BY CalmPackage
<1>2. /\ Exists(p) /\ ~pkgs[p].deleting /\ cPkgs[p] = pkgs[p] /\ p \notin queue'
      /\ \A k \in Keys : p \notin pend'[k]
  BY <1>1 DEF Calm, Exists
<1>3. left["fanout"] = Budget["fanout"]
  <2>1. /\ left'["fanout"] = Budget["fanout"] /\ left'["fanout"] <= left["fanout"]
        /\ left["fanout"] <= Budget["fanout"]
    BY <1>t, BudgetStep DEF Calm, WithinBudget
  <2>2. left["fanout"] \in Nat /\ Budget["fanout"] \in Nat
    BY <1>t, BudgetAssumption DEF TypeOK
  <2> QED BY <2>1, <2>2
<1>4. ASSUME NEW k \in Keys
      PROVE  /\ p \notin pend[k]
             /\ objs'[k] = objs[k] \/ ~(Owned(p, k) \/ Owned(p, k)')
  <2>1. ObjectStep(k)
    BY <1>t, NextIsObjectStep
  <2>2. CASE Kept(k)
    BY <1>2, <2>2 DEF Kept
  <2>3. CASE Delivered(k)
    BY <1>2, <2>3 DEF Delivered
  <2>4. CASE Changed(k)
    BY <1>2, <2>4 DEF Changed, Owned, Owners
  <2> QED BY <2>1, <2>2, <2>3, <2>4 DEF ObjectStep
<1>5. Same(p)
  BY <1>1, <1>4 DEF Same
<1>6. CASE p \in queue
  BY <1>t, <1>2, <1>5, <1>6, QueueStep
<1>7. CASE p \notin queue
  BY <1>2, <1>3, <1>4, <1>5, <1>7 DEF Calm
<1> QED BY <1>6, <1>7

-----------------------------------------------------------------------------
(* At rest everything stays as it should be. *)

\* What the generator returns is a rendering.
LEMMA SeenRendering ==
  ASSUME TypeOK, NEW p \in Packages, NEW s \in Specs, NEW ports \in KubeAPIPorts
  PROVE  /\ GenerateFor[<<p, s, Seen, ports>>] \in Rendering
         /\ cCfg' = cCfg => Seen' = Seen
<1>1. Seen \in Inputs
  BY SharedConfigType DEF Seen, TypeOK
<1>2. GenerateFor[<<p, s, Seen, ports>>] \in Rendering
  BY <1>1, GenerateAssumption
<1>3. ASSUME cCfg' = cCfg PROVE Seen' = Seen
  BY <1>3 DEF Seen, sharedConfig, Parsed
<1> QED BY <1>2, <1>3

LEMMA MatchStays ==
  ASSUME TypeOK, NEW p \in Packages, Exists(p), Same(p), NEW out \in Rendering,
         ObjectsMatch(p, out)
  PROVE  ObjectsMatch(p, out)'
<1>t. pkgs'[p].uid = pkgs[p].uid /\ pkgs[p].uid # 0 /\ out.objs \in Seq(Emitted)
  BY DEF Same, Exists, Rendering
<1>1. ASSUME NEW i \in DOMAIN out.objs, LastOf(out.objs, i)
      PROVE  objs'[out.objs[i].key] = [uid |-> pkgs'[p].uid, pkg |-> p, val |-> out.objs[i].val]
  <2> DEFINE k == out.objs[i].key
  <2>1. objs[k] = [uid |-> pkgs[p].uid, pkg |-> p, val |-> out.objs[i].val]
    BY <1>1 DEF ObjectsMatch
  <2>2. Owned(p, k) /\ k \in Keys
    BY <1>t, <2>1, EmittedElements DEF Owned, Owners
  <2> QED BY <1>t, <2>1, <2>2 DEF Same
<1>2. ASSUME NEW k \in Keys \ EmittedKeys(out), objs'[k].uid # 0, objs'[k].pkg = p
      PROVE  FALSE
  <2>1. Owned(p, k)'
    BY <1>2 DEF Owned, Owners
  <2>2. objs'[k] = objs[k]
    BY <2>1 DEF Same
  <2> QED BY <1>2, <2>2 DEF ObjectsMatch, Present
<1> QED BY <1>1, <1>2 DEF ObjectsMatch, Present, EmittedKeys, LastOf

\* A Package that nobody works on.
LEMMA DoneStays ==
  ASSUME TypeOK, NEW p \in Packages, Exists(p), Same(p), Done(p)
  PROVE  Done(p)'
<1>1. PICK ports \in KubeAPIPorts :
        LET out == GenerateFor[<<p, pkgs[p].spec, Seen, ports>>]
        IN out.ok /\ ObjectsMatch(p, out)
  BY DEF Done
<1>t. pkgs[p] \in Package /\ pkgs[p].spec \in Specs /\ pkgs'[p] = pkgs[p] /\ cCfg' = cCfg
  BY DEF TypeOK, Package, Same
<1>2. PICK out \in Rendering : out = GenerateFor[<<p, pkgs[p].spec, Seen, ports>>]
  BY <1>t, SeenRendering
<1>3. out.ok /\ ObjectsMatch(p, out)
  BY <1>1, <1>2
<1>4. ObjectsMatch(p, out)'
  BY <1>3, MatchStays
<1>5. out = GenerateFor[<<p, pkgs'[p].spec, Seen', ports>>]
  BY <1>t, <1>2, SeenRendering
<1>6. KStatus(pkgs'[p].gen, pkgs'[p].deleting, pkgs'[p].st) = "Current"
  BY <1>t DEF Done
<1> QED BY <1>3, <1>4, <1>5, <1>6 DEF Done

\* markReady changes nothing only where the status says Ready already.
LEMMA ReadyAlready ==
  ASSUME NEW st \in Status, NEW gen \in Nat, NEW emitted, markReady(st, gen, emitted) = st
  PROVE  KStatus(gen, FALSE, st) = "Current"
<1>t. /\ st.conds \in [ConditionTypes -> Condition]
      /\ "Ready" \in ConditionTypes /\ "Stalled" \in ConditionTypes
      /\ "Reconciling" \in ConditionTypes
  BY DEF Status, ConditionTypes
<1> DEFINE new == markReady(st, gen, emitted)
<1>1. /\ new.observed = gen /\ new.conds["Ready"].status = "True"
      /\ new.conds["Stalled"].status = "absent" /\ new.conds["Reconciling"].status = "absent"
  BY <1>t DEF markReady, setCondition, removeCondition, NoCondition
<1> QED BY <1>1 DEF KStatus, Holds

\* A pass that ends without a write has found everything in place.
LEMMA NothingToDo ==
  ASSUME IInv, Stages, AtWork, [Next]_vars, MarkReady, ~Retry, Calm(w.pkg), Same(w.pkg)
  PROVE  Done(w.pkg)
<1> DEFINE p == w.pkg
<1>t. /\ TypeOK /\ Versions /\ w \in Worker /\ w \in Calls /\ p \in Packages
      /\ pkgs[p] \in Package /\ rev[p] \in Nat /\ pkgs[p].rv \in Nat /\ pkgs[p].rv <= rev[p]
      /\ pkgs[p].st \in Status /\ pkgs[p].gen \in Nat /\ pkgs[p].spec \in Specs
      /\ w.desired \in Seq(Emitted)
  BY DEF IInv, TypeInv, TypeOK, Worker, Calls, Package, Versions
<1>1. w.pc = "ready" /\ WriteStatus(w)
  BY DEF MarkReady
<1>2. w.snap = pkgs[p]
  BY <1>1, <1>t, WriteStatusStep
<1>3. NewStatus(w) = pkgs[p].st
  <2>1. CASE WritePackage(p, [pkgs[p] EXCEPT !.st = NewStatus(w)])
    <3>1. pkgs'[p].rv = rev[p] + 1
      BY <1>t, <2>1 DEF WritePackage, TypeOK, Package
    <3> QED BY <3>1, <1>t DEF Same
  <2> QED BY <1>1, <1>2, <2>1 DEF WriteStatus
<1>4. KStatus(pkgs[p].gen, pkgs[p].deleting, pkgs[p].st) = "Current"
  <2>1. markReady(pkgs[p].st, pkgs[p].gen, Keep(w)) = pkgs[p].st
    BY <1>1, <1>2, <1>3 DEF NewStatus
  <2>2. pkgs[p].deleting = FALSE
    BY <1>t DEF Calm, Package
  <2> QED BY <1>t, <2>1, <2>2, ReadyAlready
<1>5. FoundInPlace /\ Staged(w)
  BY <1>1, <1>t DEF AtWork, Engaged, Stages
<1>6. PICK ports \in KubeAPIPorts :
        LET out == GenerateFor[<<p, w.snap.spec, Seen, ports>>]
        IN out.ok /\ w.desired = out.objs
  BY <1>5 DEF FoundInPlace, RenderedAsSeen
<1> DEFINE out == GenerateFor[<<p, pkgs[p].spec, Seen, ports>>]
<1>7. out.ok /\ w.desired = out.objs
  BY <1>2, <1>6
<1> HIDE DEF out
<1>8. \A i \in DOMAIN out.objs :
        objs[out.objs[i].key] = [uid |-> pkgs[p].uid, pkg |-> p, val |-> out.objs[i].val]
  <2>1. \A i \in DOMAIN w.desired : i < w.next => objs[w.desired[i].key] = Record(w, i)
    BY <1>5 DEF FoundInPlace, InPlace
  <2>2. w.next = Len(w.desired) + 1
    BY <1>1, <1>5 DEF Staged
  <2>3. \A i \in DOMAIN w.desired : i < w.next
    BY <1>t, <2>2
  <2>4. \A i \in DOMAIN w.desired :
          Record(w, i) = [uid |-> pkgs[p].uid, pkg |-> p, val |-> w.desired[i].val]
    BY <1>2 DEF Record
  <2> QED BY <1>7, <2>1, <2>3, <2>4
<1>9. \A k \in Keys \ EmittedKeys(out) : ~(Present(k) /\ objs[k].pkg = p)
  <2>1. Keep(w) = EmittedKeys(out)
    BY <1>7 DEF Keep, EmittedKeys
  <2> QED BY <1>1, <1>5, <2>1 DEF FoundInPlace, ToBePruned, Staged
<1>10. out.ok /\ ObjectsMatch(p, out)
  BY <1>7, <1>8, <1>9 DEF ObjectsMatch
<1> QED BY <1>4, <1>10 DEF Done, out

\* The worker lets go of a Package by finishing with it or by queueing it again.
LEMMA LetGo ==
  ASSUME TypeOK, [Next]_vars, NEW p \in Packages, Busy(p), ~Busy(p)'
  PROVE  (MarkReady /\ ~Retry) \/ p \in queue' \/ Crash
<1> USE DEF api, caches
<1>t. w \in Worker
  BY DEF TypeOK
<1>1. CASE UNCHANGED w
  BY <1>1 DEF Busy
<1>2. CASE Retry
  BY <1>2 DEF Retry, Busy
<1>3. CASE Render \/ Apply \/ List \/ Delete
  <2>1. w'.pkg = w.pkg /\ w'.pc # "idle"
    BY <1>3, <1>t DEF Render, Apply, List, Delete, Fail, PruneNext, AfterApply, Worker
  <2> QED BY <2>1 DEF Busy
<1>4. CASE MarkReconciling
  <2>1. Retry \/ (w'.pkg = w.pkg /\ w'.pc # "idle")
    BY <1>4, <1>t DEF MarkReconciling, Worker
  <2> QED BY <1>2, <2>1 DEF Busy
<1>5. CASE MarkReady \/ MarkFailed
  BY <1>2, <1>5 DEF MarkFailed
<1>6. CASE WorkerStep
  BY <1>3, <1>4, <1>5, <1>6 DEF WorkerStep
<1>7. ASSUME NEW q \in Packages, Start(q) PROVE FALSE
  BY <1>7 DEF Start, Busy
<1> QED
  BY <1>1, <1>6, <1>7
  DEF Next, vars, DeliverPackage, DeletePackage, FinishDeletion, CreatePackage, EditSpec,
      DeliverObject, Collect, Drift, DeliverConfig, EditConfig, EditService, Land

LEMMA AtRestStep ==
  ASSUME SInv, WithinBudget', [Next]_vars
  PROVE  AtRest'
<1>t. IInv /\ TypeOK /\ WithinBudget /\ Stages /\ AtRest /\ AtWork
  BY DEF SInv, IInv, TypeInv
<1>1. ASSUME NEW p \in Packages, Calm(p)', ~Busy(p)'
      PROVE  Done(p)'
  <2>1. Same(p) /\ (Calm(p) \/ Start(p))
    BY <1>1, <1>t, CalmStep
  <2>2. /\ Exists(p) /\ ~pkgs[p].deleting /\ p \notin queue' /\ pkgs'[p] = pkgs[p]
    BY <1>1, <2>1 DEF Same, Calm, Exists
  <2>3. ~Start(p)
    <3>1. ASSUME Start(p) PROVE FALSE
      <4>1. cPkgs[p] = pkgs[p]
        BY <1>1, <1>t, <2>2, CalmPackage DEF Calm
      <4>2. w' = [Idle EXCEPT !.pkg = p, !.snap = cPkgs[p],
                    !.pc = IF cPkgs[p].gen # cPkgs[p].st.observed THEN "mark" ELSE "render"]
        BY <2>2, <3>1, <4>1 DEF Start, Exists
      <4> QED BY <1>1, <4>2 DEF Busy, Idle
    <3> QED BY <3>1
  <2>4. Done(p)
    <3>1. CASE ~Busy(p)
      BY <1>t, <2>1, <2>3, <3>1 DEF AtRest
    <3>2. CASE Busy(p)
      <4>1. ~Crash
        BY <2>2 DEF Crash, Exists
      <4>2. MarkReady /\ ~Retry /\ w.pkg = p
        BY <1>1, <1>t, <2>2, <3>2, <4>1, LetGo DEF Busy
      <4> QED BY <1>t, <2>1, <2>3, <4>2, NothingToDo
    <3> QED BY <3>1, <3>2
  <2> QED BY <1>t, <2>1, <2>2, <2>4, DoneStays
<1> QED BY <1>1 DEF AtRest

-----------------------------------------------------------------------------
(* What the worker has found in place stays in place. *)

\* The rendering stays one for the ConfigMap in the cache.
LEMMA RenderedStays ==
  ASSUME RenderedAsSeen(w), cCfg' = cCfg,
         w'.pkg = w.pkg, w'.snap = w.snap, w'.desired = w.desired
  PROVE  RenderedAsSeen(w)'
<1>1. Seen' = Seen
  BY DEF Seen, sharedConfig, Parsed
<1> QED BY <1>1 DEF RenderedAsSeen

\* What was applied stays there: it belongs to the Package.
LEMMA InPlaceStays ==
  ASSUME TypeOK, InPlace(w), Same(w.pkg), w.snap.uid # 0,
         w'.pkg = w.pkg, w'.snap = w.snap, w'.desired = w.desired,
         \A i \in DOMAIN w.desired :
           i < w'.next /\ ~(i < w.next) => objs'[w.desired[i].key] = Record(w, i)
  PROVE  InPlace(w)'
<1>1. ASSUME NEW i \in DOMAIN w.desired, i < w'.next
      PROVE  objs'[w.desired[i].key] = Record(w, i)
  <2>1. CASE i < w.next
    <3>1. objs[w.desired[i].key] = Record(w, i)
      BY <2>1 DEF InPlace
    <3>2. w.desired[i].key \in Keys
      BY <1>1, EmittedElements DEF TypeOK, Worker
    <3>3. Owned(w.pkg, w.desired[i].key)
      BY <3>1 DEF Owned, Owners, Record
    <3> QED BY <3>1, <3>2, <3>3 DEF Same
  <2> QED BY <1>1, <2>1
<1>2. \A i : Record(w', i) = Record(w, i)
  BY DEF Record
<1> QED BY <1>1, <1>2 DEF InPlace

\* An object of the Package that is there now was there before.
LEMMA StillThere ==
  ASSUME NEW p \in Packages, NEW k \in Keys, Same(p), objs'[k].uid # 0, objs'[k].pkg = p
  PROVE  objs'[k] = objs[k] /\ Present(k) /\ objs[k].pkg = p
<1>1. Owned(p, k)'
  BY DEF Owned, Owners
<1> QED BY <1>1 DEF Same, Present

\* Render starts with nothing in place and everything to be pruned.  That the
\* ConfigMap could not be read makes no difference to a rendering.
LEMMA RenderFinds ==
  ASSUME TypeInv, Stages, Render, w'.pc \in {"apply", "list", "delete", "ready"}
  PROVE  FoundInPlace'
<1> USE DEF api, caches
<1>t. /\ TypeOK /\ w \in Worker /\ w.pkg \in Packages /\ w.snap.spec \in Specs
      /\ cCfg \in ConfigMap /\ cCfg' = cCfg
  BY DEF TypeInv, TypeOK, Worker, Package, Render
<1>1. PICK readable, reachable \in BOOLEAN :
        /\ readable \/ GlobalConfig
        /\ LET out == GenerateFor[<<w.pkg, w.snap.spec, sharedConfig(readable, cCfg),
                                  kubeAPIPorts(w.snap.spec, reachable)>>]
           IN w' = IF ~out.ok
                     THEN [w EXCEPT !.pc = "failed", !.reason = "GenerationFailed"]
                     ELSE [w EXCEPT !.desired = out.objs, !.next = 1,
                             !.kinds = KindsToList,
                             !.pc = IF out.objs = <<>> THEN AfterApply ELSE "apply"]
  BY DEF Render
<1>2. PICK ports \in KubeAPIPorts : ports = kubeAPIPorts(w.snap.spec, reachable)
  BY <1>t DEF kubeAPIPorts, KubeAPIPorts, TypeOK
<1> DEFINE out == GenerateFor[<<w.pkg, w.snap.spec, sharedConfig(readable, cCfg), ports>>]
<1>3. /\ out.ok /\ w'.pkg = w.pkg /\ w'.snap = w.snap /\ w'.desired = out.objs
      /\ w'.next = 1 /\ w'.kinds = KindsToList
  <2>1. w' = IF ~out.ok
               THEN [w EXCEPT !.pc = "failed", !.reason = "GenerationFailed"]
               ELSE [w EXCEPT !.desired = out.objs, !.next = 1, !.kinds = KindsToList,
                       !.pc = IF out.objs = <<>> THEN AfterApply ELSE "apply"]
    BY <1>1, <1>2
  <2> HIDE DEF out
  <2>2. out.ok
    BY <2>1, <1>t DEF Worker
  <2> QED BY <2>1, <2>2, <1>t DEF Worker
<1>4. out = GenerateFor[<<w.pkg, w.snap.spec, Seen, ports>>]
  <2>1. CASE readable
    BY <2>1 DEF Seen
  <2>2. CASE ~readable
    <3>1. GlobalConfig /\ readable = FALSE
      BY <1>1, <2>2
    <3> QED BY <3>1, <1>3, <1>t, UnreadableAssumption DEF Seen
  <2> QED BY <2>1, <2>2
<1>5. Seen' = Seen
  BY <1>t DEF Seen, sharedConfig, Parsed
<1>6. RenderedAsSeen(w)'
  BY <1>3, <1>4, <1>5 DEF RenderedAsSeen
<1>7. InPlace(w)'
  <2>1. out.objs \in Seq(Emitted)
    <3>1. sharedConfig(readable, cCfg) \in Inputs
      BY <1>t, SharedConfigType
    <3>2. out \in Rendering
      BY <3>1, <1>t, GenerateAssumption
    <3> QED BY <3>2 DEF Rendering
  <2>2. \A i \in DOMAIN w'.desired : ~(i < w'.next)
    BY <1>3, <2>1
  <2> QED BY <2>2 DEF InPlace
<1>8. ToBePruned(w)'
  <2>1. \A k \in Keys : \E i \in w'.kinds : k[1] = managedListKinds[i]
    BY <1>3, KeysAssumption DEF KindsToList
  <2> QED BY <2>1 DEF ToBePruned
<1> QED BY <1>6, <1>7, <1>8 DEF FoundInPlace

\* A step of somebody else, or a Package the worker left alone.
LEMMA FoundStays ==
  ASSUME TypeInv, FoundInPlace, Same(w.pkg), w.snap.uid # 0, UNCHANGED w
  PROVE  FoundInPlace'
<1>t. TypeOK /\ w.pkg \in Packages
  BY DEF TypeInv, TypeOK, Worker
<1>1. RenderedAsSeen(w)'
  BY RenderedStays DEF FoundInPlace, Same
<1>2. InPlace(w)'
  BY <1>t, InPlaceStays DEF FoundInPlace
<1>3. ToBePruned(w)'
  <2>1. ASSUME NEW k \in Keys \ Keep(w), objs'[k].uid # 0, objs'[k].pkg = w.pkg
        PROVE  k \in w.stale \/ \E i \in w.kinds : k[1] = managedListKinds[i]
    BY <1>t, <2>1, StillThere DEF FoundInPlace, ToBePruned
  <2>2. Keep(w)' = Keep(w)
    BY DEF Keep
  <2> QED BY <2>1, <2>2 DEF ToBePruned, Present
<1> QED BY <1>1, <1>2, <1>3 DEF FoundInPlace

\* An apply that changes nothing has found its object in place.
LEMMA ApplyFinds ==
  ASSUME TypeInv, Stages, FoundInPlace, Same(w.pkg), w.snap.uid # 0, Apply, w'.pc # "failed"
  PROVE  FoundInPlace'
<1>t. /\ TypeOK /\ w \in Worker /\ w.pkg \in Packages /\ w.desired \in Seq(Emitted)
      /\ w.next \in Nat
  BY DEF TypeInv, TypeOK, Worker
<1>0. w.next \in 1..Len(w.desired) /\ w.next \in DOMAIN w.desired
  BY <1>t DEF Apply, TypeInv, InRange, Within
<1>1. /\ ApplyNext(w)
      /\ w' = [w EXCEPT !.next = @ + 1,
                 !.pc = IF w.next = Len(w.desired) THEN AfterApply ELSE "apply"]
  BY <1>t DEF Apply, Fail, Worker
<1>2. /\ w'.pkg = w.pkg /\ w'.snap = w.snap /\ w'.desired = w.desired /\ w'.next = w.next + 1
      /\ w'.kinds = w.kinds /\ w'.stale = w.stale
  BY <1>1, <1>t DEF Worker
<1>3. RenderedAsSeen(w)'
  BY <1>2, RenderedStays DEF FoundInPlace, Same
<1>4. InPlace(w)'
  <2>1. w.desired[w.next].key \in Keys
    BY <1>t, <1>0, EmittedElements
  <2>2. objs'[w.desired[w.next].key] = Record(w, w.next)
    BY <1>1, <1>t, <2>1 DEF ApplyNext, WriteObject, Record, TypeOK
  <2>3. \A i \in DOMAIN w.desired : i < w'.next /\ ~(i < w.next) => i = w.next
    BY <1>t, <1>2
  <2> QED BY <1>t, <1>2, <2>2, <2>3, InPlaceStays DEF FoundInPlace
<1>5. ToBePruned(w)'
  <2>1. ASSUME NEW k \in Keys \ Keep(w), objs'[k].uid # 0, objs'[k].pkg = w.pkg
        PROVE  k \in w.stale \/ \E i \in w.kinds : k[1] = managedListKinds[i]
    BY <1>t, <2>1, StillThere DEF FoundInPlace, ToBePruned
  <2>2. Keep(w)' = Keep(w)
    BY <1>2 DEF Keep
  <2> QED BY <1>2, <2>1, <2>2 DEF ToBePruned, Present
<1> QED BY <1>3, <1>4, <1>5 DEF FoundInPlace

\* A list reads the cache, which at rest is up to date about the Package's objects.
LEMMA ListFinds ==
  ASSUME TypeInv, Stages, Events, FoundInPlace, Calm(w.pkg), Same(w.pkg), w.snap.uid # 0, List,
         w'.pc # "failed"
  PROVE  FoundInPlace'
<1>t. TypeOK /\ w \in Worker /\ w.pkg \in Packages /\ Staged(w) /\ w.pc = "list"
  BY DEF TypeInv, TypeOK, Worker, Stages, Calls, List
<1> DEFINE i == CHOOSE i \in w.kinds : \A j \in w.kinds : i <= j
           stale == {k \in Keys \ Keep(w) : /\ k[1] = managedListKinds[i]
                                            /\ cObjs[k].uid # 0
                                            /\ cObjs[k].pkg = w.pkg}
<1>1. PruneNext(w.kinds \ {i}, stale)
  BY <1>t DEF List, Fail, Worker
<1> HIDE DEF i
<1>2. /\ w'.pkg = w.pkg /\ w'.snap = w.snap /\ w'.desired = w.desired /\ w'.next = w.next
      /\ w'.kinds = w.kinds \ {i} /\ w'.stale = stale
  BY <1>1, <1>t DEF PruneNext, Worker
<1>3. RenderedAsSeen(w)'
  BY <1>2, RenderedStays DEF FoundInPlace, Same
<1>4. InPlace(w)'
  BY <1>t, <1>2, InPlaceStays DEF FoundInPlace
<1>5. ToBePruned(w)'
  <2>1. ASSUME NEW k \in Keys \ Keep(w), objs'[k].uid # 0, objs'[k].pkg = w.pkg
        PROVE  k \in stale \/ \E j \in w.kinds \ {i} : k[1] = managedListKinds[j]
    <3>1. Present(k) /\ objs[k].pkg = w.pkg
      BY <1>t, <2>1, StillThere
    <3>2. PICK j \in w.kinds : k[1] = managedListKinds[j]
      BY <1>t, <2>1, <3>1 DEF FoundInPlace, ToBePruned, Staged
    <3>3. cObjs[k] = objs[k]
      BY <2>1, <3>1 DEF Events, Owners, Present, Calm
    <3>4. CASE j = i
      BY <2>1, <3>1, <3>2, <3>3, <3>4 DEF Present
    <3> QED BY <3>2, <3>4
  <2>2. Keep(w)' = Keep(w)
    BY <1>2 DEF Keep
  <2> QED BY <1>2, <2>1, <2>2 DEF ToBePruned, Present
<1> QED BY <1>3, <1>4, <1>5 DEF FoundInPlace

\* A delete takes an object off the list and away.
LEMMA DeleteFinds ==
  ASSUME TypeInv, FoundInPlace, Same(w.pkg), w.snap.uid # 0, Delete, w'.pc # "failed"
  PROVE  FoundInPlace'
<1>t. TypeOK /\ w \in Worker /\ w.pkg \in Packages /\ w.stale \in SUBSET Keys
  BY DEF TypeInv, TypeOK, Worker
<1>1. PICK d \in w.stale : WriteObject(d, NoObject) /\ PruneNext(w.kinds, w.stale \ {d})
  BY <1>t DEF Delete, Fail, Worker
<1>2. /\ w'.pkg = w.pkg /\ w'.snap = w.snap /\ w'.desired = w.desired /\ w'.next = w.next
      /\ w'.kinds = w.kinds /\ w'.stale = w.stale \ {d}
  BY <1>1, <1>t DEF PruneNext, Worker
<1>3. RenderedAsSeen(w)'
  BY <1>2, RenderedStays DEF FoundInPlace, Same
<1>4. InPlace(w)'
  BY <1>t, <1>2, InPlaceStays DEF FoundInPlace
<1>5. ToBePruned(w)'
  <2>0. objs'[d].uid = 0
    BY <1>1, <1>t DEF WriteObject, NoObject, TypeOK
  <2>1. ASSUME NEW k \in Keys \ Keep(w), objs'[k].uid # 0, objs'[k].pkg = w.pkg
        PROVE  k \in w.stale \ {d} \/ \E j \in w.kinds : k[1] = managedListKinds[j]
    BY <1>t, <2>0, <2>1, StillThere DEF FoundInPlace, ToBePruned
  <2>2. Keep(w)' = Keep(w)
    BY <1>2 DEF Keep
  <2> QED BY <1>2, <2>1, <2>2 DEF ToBePruned, Present
<1> QED BY <1>3, <1>4, <1>5 DEF FoundInPlace

LEMMA AtWorkStep ==
  ASSUME SInv, WithinBudget', [Next]_vars
  PROVE  AtWork'
<1> USE DEF api, caches
<1>t. /\ IInv /\ TypeInv /\ TypeOK /\ WithinBudget /\ Stages /\ Events /\ AtWork
      /\ w \in Worker /\ w \in Calls /\ w.pkg \in Packages
  BY DEF SInv, IInv, TypeInv, TypeOK, Worker, Calls
<1> SUFFICES ASSUME Engaged(w)', Calm(w.pkg)'
             PROVE  FoundInPlace'
  BY DEF AtWork
<1>e. w'.pc \in {"apply", "list", "delete", "ready"}
  BY DEF Engaged
<1>k. \A p \in Packages : p = w'.pkg => Same(p) /\ (Calm(p) \/ Start(p))
  <2> SUFFICES ASSUME NEW p \in Packages, p = w'.pkg
               PROVE  Same(p) /\ (Calm(p) \/ Start(p))
    OBVIOUS
  <2>1. Calm(p)'
    BY DEF Calm, Exists
  <2> QED BY <1>t, <2>1, CalmStep
<1>s. \A p \in Packages : ~Start(p)
  BY <1>t, <1>e DEF Start, Idle
<1>1. ASSUME Engaged(w), w'.pkg = w.pkg
      PROVE  Same(w.pkg) /\ Calm(w.pkg) /\ FoundInPlace /\ w.snap.uid # 0
  <2>1. w.snap.uid # 0
    BY <1>1, <1>t DEF IInv, Versions, Engaged
  <2> QED BY <1>1, <1>t, <1>k, <1>s, <2>1 DEF AtWork
<1>2. CASE UNCHANGED w
  <2>1. Engaged(w) /\ w'.pkg = w.pkg
    BY <1>2, <1>e DEF Engaged
  <2> QED BY <1>1, <1>2, <1>t, <2>1, FoundStays
<1>3. CASE Render
  BY <1>3, <1>e, <1>t, RenderFinds
<1>4. CASE Apply
  <2>1. Engaged(w) /\ w'.pkg = w.pkg
    BY <1>4, <1>e, <1>t DEF Engaged, Apply, Fail, Worker
  <2> QED BY <1>1, <1>4, <1>e, <1>t, <2>1, ApplyFinds
<1>5. CASE List
  <2>1. Engaged(w) /\ w'.pkg = w.pkg
    BY <1>5, <1>e, <1>t DEF Engaged, List, Fail, PruneNext, Worker
  <2> QED BY <1>1, <1>5, <1>e, <1>t, <2>1, ListFinds
<1>6. CASE Delete
  <2>1. Engaged(w) /\ w'.pkg = w.pkg
    BY <1>6, <1>e, <1>t DEF Engaged, Delete, Fail, PruneNext, Worker
  <2> QED BY <1>1, <1>6, <1>e, <1>t, <2>1, DeleteFinds
<1>7. CASE Retry \/ w' = Idle
  <2>1. w' = Idle
    BY <1>7 DEF Retry
  <2>2. w'.pc = "idle"
    BY <2>1 DEF Idle
  <2> QED BY <1>e, <2>2
<1>8. CASE MarkReconciling \/ MarkReady \/ MarkFailed
  <2>1. Retry \/ w' = Idle \/ w'.pc = "render"
    BY <1>8, <1>t DEF MarkReconciling, MarkReady, MarkFailed, Worker
  <2> QED BY <1>7, <1>e, <2>1
<1>9. CASE WorkerStep
  BY <1>3, <1>4, <1>5, <1>6, <1>8, <1>9 DEF WorkerStep
<1> QED
  BY <1>s, <1>2, <1>7, <1>9
  DEF Next, vars, DeliverPackage, DeletePackage, FinishDeletion, CreatePackage, EditSpec,
      DeliverObject, Collect, Drift, DeliverConfig, EditConfig, EditService, Crash, Land

-----------------------------------------------------------------------------
(* The theorem. *)

\* When nothing is queued for a live Package, being worked on or on its way to the
\* caches, its objects are exactly those its spec and the ConfigMap ask for and its
\* status says Current (SettledMeansCorrect), whatever edits, drift, faults, late
\* calls and restarts led there.
THEOREM NeverStopsShort == Spec => []SettledMeansCorrect
<1>1. ASSUME Init, IInv PROVE SInv
  <2>1. Events
    BY <1>1 DEF Init, Events
  <2>2. WithinBudget
    BY <1>1, BudgetAssumption DEF Init, WithinBudget
  <2>3. Calls = {w} /\ w.pc = "idle" /\ w.stale = {}
    BY <1>1 DEF Init, Idle, Calls
  <2>4. \A p \in Packages : ~Exists(p)
    BY <1>1 DEF Init, Exists, NoPackage
  <2> QED BY <1>1, <2>1, <2>2, <2>3, <2>4
      DEF SInv, Stages, Staged, AtRest, AtWork, Engaged, Calm
<1>2. ASSUME SInv, IInv', [Next]_vars PROVE SInv'
  <2>1. TypeInv /\ TypeInv' /\ Events /\ WithinBudget /\ Stages
    BY <1>2 DEF SInv, IInv
  <2>2. WithinBudget'
    BY <1>2, <2>1, WithinBudgetStep
  <2> QED BY <1>2, <2>1, <2>2, EventsStep, StagesStep, AtRestStep, AtWorkStep DEF SInv
<1>3. SInv => SettledMeansCorrect
  <2> SUFFICES ASSUME SInv, left["fanout"] = Budget["fanout"], NEW p \in Packages,
                      Exists(p), ~pkgs[p].deleting, Settled(p)
               PROVE  Correct(p)
    BY DEF SettledMeansCorrect
  <2>1. Calm(p) /\ ~Busy(p)
    BY DEF Settled, Calm, Busy
  <2>2. Done(p)
    BY <2>1 DEF SInv, AtRest
  <2>3. Seen = sharedConfig(TRUE, cfg)
    BY GlobalConfigAssumption DEF Settled, Seen, sharedConfig
  <2> QED BY <2>2, <2>3 DEF Done, Correct
<1> QED
  BY <1>1, <1>2, <1>3, Invariance, PTL DEF Spec
=============================================================================
