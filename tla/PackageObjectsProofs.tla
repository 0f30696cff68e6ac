----------------------- MODULE PackageObjectsProofs -----------------------
(***************************************************************************)
(* What one step of PackageController can do to one generated object, to   *)
(* the identity of a Package and to the local variables of Reconcile: the  *)
(* lemmas on which the theorems about the generated objects rest.          *)
(***************************************************************************)
EXTENDS PackageControllerProofs

-----------------------------------------------------------------------------
(* What one step can do to the identity of a Package. *)

\* The Package of that name is a new one, with a uid nobody has had before.
Reborn(p) ==
  /\ ~Exists(p) /\ rev'[p] = rev[p] + 1
  /\ pkgs'[p].rv = rev[p] + 1 /\ pkgs'[p].uid = rev[p] + 1 /\ pkgs'[p].st = NoStatus

\* It is the one it was, in a new version.
Updated(p) ==
  /\ Exists(p) /\ ~pkgs[p].deleting /\ rev'[p] = rev[p] + 1
  /\ pkgs'[p].rv = rev[p] + 1 /\ pkgs'[p].uid = pkgs[p].uid

LEMMA PackageIdentity ==
  ASSUME TypeOK, NEW p \in Packages, PackageStep(p)
  PROVE  Untouched(p) \/ Removed(p) \/ Reborn(p) \/ Updated(p)
<1>t. pkgs[p] \in Package /\ rev[p] \in Nat
  BY DEF TypeOK
<1>1. ASSUME Created(p) PROVE Reborn(p)
  BY <1>1 DEF Created, Written, NoPackage, Reborn
<1>2. ASSUME Edited(p) \/ Terminated(p) PROVE Updated(p)
  BY <1>2, <1>t DEF Edited, Terminated, Written, Package, Updated
<1>3. ASSUME NEW x, NEW st, StatusWritten(p, x, st) PROVE Updated(p)
  BY <1>3, <1>t DEF StatusWritten, Written, Package, Updated
<1> QED BY <1>1, <1>2, <1>3 DEF PackageStep, Marked, JudgedReady, JudgedFailed

\* A step leaves the cache of a Package alone, or brings it up to date.
LEMMA CacheStep ==
  ASSUME TypeOK, [Next]_vars, NEW p \in Packages
  PROVE  \/ cPkgs'[p] = cPkgs[p]
         \/ cPkgs'[p] = pkgs[p] /\ pkgs'[p] = pkgs[p] /\ (Exists(p) => p \in queue')
<1> USE DEF api, caches
<1>1. CASE UNCHANGED cPkgs
  BY <1>1
<1>2. CASE Crash
  BY <1>2 DEF Crash
<1>3. ASSUME NEW q \in Packages, DeliverPackage(q)
      PROVE  \/ cPkgs'[p] = cPkgs[p]
             \/ cPkgs'[p] = pkgs[p] /\ pkgs'[p] = pkgs[p] /\ p \in queue'
  BY <1>3 DEF DeliverPackage, TypeOK
<1>4. CASE WorkerStep
  BY <1>1, <1>4 DEF WorkerStep, MarkReconciling, Render, Apply, List, Delete, MarkReady, MarkFailed
<1> QED
  BY <1>1, <1>2, <1>3, <1>4
  DEF Next, vars, Start, DeletePackage, FinishDeletion, CreatePackage, EditSpec, DeliverObject,
      Collect, Drift, DeliverConfig, EditConfig, EditService, Land

-----------------------------------------------------------------------------
(* What one step can do to one object. *)

\* What call x makes of the i-th object of its rendering.
Record(x, i) == [uid |-> x.snap.uid, pkg |-> x.pkg, val |-> x.desired[i].val]

Kept(k) == objs'[k] = objs[k] /\ cObjs'[k] = cObjs[k] /\ pend'[k] = pend[k]

\* The cache learns of the object, and the Packages its events name are queued.
Delivered(k) ==
  /\ objs'[k] = objs[k] /\ cObjs'[k] = objs[k] /\ pend'[k] = {}
  /\ \A p \in pend[k] : Exists(p) => p \in queue'

\* The object changes, and the event names its old and its new owner.
Changed(k) ==
  /\ objs'[k] # objs[k] /\ cObjs'[k] = cObjs[k]
  /\ pend'[k] = pend[k] \cup Owners(objs[k]) \cup Owners(objs'[k])

\* The calls that take effect in time are the worker's own.
InTime(x) == (x = w /\ WorkerStep) \/ left'["late"] < left["late"]

AppliedBy(k, x) ==
  x.pc = "apply" /\ InTime(x) /\ k = x.desired[x.next].key /\ objs'[k] = Record(x, x.next)
DeletedBy(k, x) == x.pc = "delete" /\ InTime(x) /\ k \in x.stale /\ objs'[k] = NoObject
Collected(k) ==
  /\ pkgs[objs[k].pkg].uid # objs[k].uid \/ pkgs[objs[k].pkg].deleting
  /\ objs'[k] = NoObject
Touched(k) ==
  /\ left'["drift"] < left["drift"]
  /\ objs'[k].uid # 0 => Present(k) /\ objs'[k].pkg = objs[k].pkg

ObjectStep(k) ==
  \/ Kept(k)
  \/ Delivered(k)
  \/ Changed(k) /\ (Collected(k) \/ Touched(k) \/ \E x \in Calls : AppliedBy(k, x) \/ DeletedBy(k, x))

\* A write concerns one object only, and makes no event if it changes nothing.
LEMMA WriteObjectStep ==
  ASSUME TypeOK, NEW k \in Keys, NEW o, WriteObject(k, o), UNCHANGED cObjs, NEW q \in Keys
  PROVE  \/ Kept(q)
         \/ q = k /\ objs'[q] = o /\ Changed(q)
BY DEF WriteObject, Kept, Changed, TypeOK

\* Spending from the budget leaves less of one disturbance and as much of the others.
LEMMA SpendStep ==
  ASSUME TypeOK, NEW d \in Disturbances, Spend(d), NEW e \in Disturbances
  PROVE  /\ left[d] \in Nat /\ left'[d] = left[d] - 1 /\ left'[d] < left[d]
         /\ e # d => left'[e] = left[e]
<1>1. left[d] \in Nat /\ left[d] > 0 /\ left' = [left EXCEPT ![d] = left[d] - 1]
  BY DEF Spend, TypeOK
<1>2. left'[d] = left[d] - 1
  BY <1>1 DEF TypeOK
<1>3. left[d] - 1 < left[d]
  BY <1>1
<1> QED BY <1>1, <1>2, <1>3 DEF TypeOK

\* An apply of the worker or of a late call is one for the objects.
LEMMA ApplyIsObjectStep ==
  ASSUME TypeInv, NEW x \in Calls, x.pc = "apply", InTime(x), ApplyNext(x), UNCHANGED cObjs,
         NEW k \in Keys
  PROVE  ObjectStep(k)
<1> DEFINE o == x.desired[x.next]
<1>1. x.next \in 1..Len(x.desired) /\ x.desired \in Seq(Emitted)
  BY DEF TypeInv, TypeOK, Calls, InRange, LateInRange, Within, Worker
<1>2. x.next \in DOMAIN x.desired
  BY <1>1
<1>3. o.key \in Keys
  BY <1>1, <1>2, EmittedElements
<1>4. WriteObject(o.key, Record(x, x.next))
  BY DEF ApplyNext, Record
<1>5. Kept(k) \/ (k = o.key /\ objs'[k] = Record(x, x.next) /\ Changed(k))
  BY <1>3, <1>4, WriteObjectStep DEF TypeInv
<1> QED BY <1>5 DEF ObjectStep, AppliedBy

\* So is a delete.
LEMMA DeleteIsObjectStep ==
  ASSUME TypeInv, NEW x \in Calls, x.pc = "delete", InTime(x), NEW s \in x.stale,
         WriteObject(s, NoObject), UNCHANGED cObjs, NEW k \in Keys
  PROVE  ObjectStep(k)
<1>1. s \in Keys
  BY DEF TypeInv, TypeOK, Calls, Worker
<1>2. Kept(k) \/ (k = s /\ objs'[k] = NoObject /\ Changed(k))
  BY <1>1, WriteObjectStep DEF TypeInv
<1> QED BY <1>2 DEF ObjectStep, DeletedBy

\* Whatever happens, each object is left alone, delivered to the cache, applied or
\* deleted by a call, collected or touched by somebody.
LEMMA NextIsObjectStep ==
  ASSUME TypeInv, [Next]_vars, NEW k \in Keys
  PROVE  ObjectStep(k)
<1> USE DEF api, caches
<1> TypeOK /\ w \in Calls
  BY DEF TypeInv, Calls
<1>d. {"late", "drift", "fault"} \subseteq Disturbances
  BY DEF Disturbances
<1>0. CASE UNCHANGED <<objs, cObjs, pend>>
  BY <1>0 DEF Kept, ObjectStep
<1>1. CASE Apply
  <2>1. /\ w.pc = "apply" /\ UNCHANGED cObjs
        /\ ApplyNext(w) \/ UNCHANGED <<objs, cObjs, pend>>
    BY <1>1 DEF Apply
  <2> QED BY <1>0, <1>1, <2>1, ApplyIsObjectStep DEF InTime, WorkerStep
<1>2. CASE Delete
  <2>1. /\ w.pc = "delete" /\ UNCHANGED cObjs
        /\ \/ \E s \in w.stale : WriteObject(s, NoObject)
           \/ UNCHANGED <<objs, cObjs, pend>>
    BY <1>2 DEF Delete
  <2> QED BY <1>0, <1>2, <2>1, DeleteIsObjectStep DEF InTime, WorkerStep
<1>3. ASSUME NEW x \in late, Land(x) PROVE ObjectStep(k)
  <2>1. x \in Calls /\ InTime(x) /\ UNCHANGED cObjs
    BY <1>3, <1>d, SpendStep DEF Land, Calls, InTime
  <2>2. \/ UNCHANGED <<objs, cObjs, pend>>
        \/ x.pc = "apply" /\ ApplyNext(x)
        \/ x.pc = "delete" /\ \E s \in x.stale : WriteObject(s, NoObject)
    BY <1>3 DEF Land
  <2> QED BY <1>0, <2>1, <2>2, ApplyIsObjectStep, DeleteIsObjectStep
<1>4. ASSUME NEW q \in Keys, Collect(q) PROVE ObjectStep(k)
  <2>1. WriteObject(q, NoObject) /\ UNCHANGED cObjs
    BY <1>4 DEF Collect
  <2>2. Kept(k) \/ (k = q /\ objs'[k] = NoObject /\ Changed(k))
    BY <2>1, WriteObjectStep
  <2> QED BY <1>4, <2>2 DEF Collect, Collected, ObjectStep
<1>5. ASSUME NEW q \in Keys, Drift(q) PROVE ObjectStep(k)
  <2>1. PICK o : /\ WriteObject(q, o) /\ UNCHANGED cObjs
                 /\ o = NoObject \/ o = [objs[q] EXCEPT !.val = Drifted]
    BY <1>5 DEF Drift
  <2>2. Kept(k) \/ (k = q /\ objs'[k] = o /\ Changed(k))
    BY <2>1, WriteObjectStep
  <2>3. o.uid # 0 => Present(q) /\ o.pkg = objs[q].pkg
    BY <1>5, <2>1 DEF Drift, NoObject, TypeOK, Object
  <2>4. left'["drift"] < left["drift"]
    BY <1>5, <1>d, SpendStep DEF Drift
  <2> QED BY <2>2, <2>3, <2>4 DEF ObjectStep, Touched
<1>6. ASSUME NEW q \in Keys, DeliverObject(q) PROVE ObjectStep(k)
  <2>1. CASE q = k
    BY <1>6, <2>1 DEF DeliverObject, Delivered, ObjectStep, TypeOK
  <2>2. CASE q # k
    BY <1>6, <2>2 DEF DeliverObject, Kept, ObjectStep, TypeOK
  <2> QED BY <2>1, <2>2
<1>7. CASE Crash
  <2>1. \A p \in pend[k] : Exists(p) => p \in queue'
    BY <1>7 DEF Crash, TypeOK
  <2> QED BY <1>7, <2>1 DEF Crash, Delivered, ObjectStep
<1>8. CASE MarkReconciling \/ Render \/ List \/ MarkReady \/ MarkFailed
  BY <1>0, <1>8 DEF MarkReconciling, Render, List, MarkReady, MarkFailed
<1>9. CASE WorkerStep
  BY <1>1, <1>2, <1>8, <1>9 DEF WorkerStep
<1> QED
  BY <1>0, <1>3, <1>4, <1>5, <1>6, <1>7, <1>9
  DEF Next, vars, Start, DeliverPackage, DeletePackage, FinishDeletion, CreatePackage, EditSpec,
      DeliverConfig, EditConfig, EditService

-----------------------------------------------------------------------------
(* No change of an object goes unnoticed: while the cache is behind, an event *)
(* that names the object's owner is on its way.                               *)

Events == \A k \in Keys : cObjs[k] # objs[k] => Owners(objs[k]) \subseteq pend[k]

LEMMA EventsStep ==
  ASSUME TypeInv, Events, [Next]_vars
  PROVE  Events'
<1>1. ASSUME NEW k \in Keys, cObjs'[k] # objs'[k]
      PROVE  Owners(objs'[k]) \subseteq pend'[k]
  <2>1. CASE Kept(k)
    BY <1>1, <2>1 DEF Kept, Events
  <2>2. CASE Changed(k)
    BY <2>2 DEF Changed
  <2> QED BY <1>1, <2>1, <2>2, NextIsObjectStep DEF ObjectStep, Delivered
<1> QED BY <1>1 DEF Events, Owners

-----------------------------------------------------------------------------
(* What has been spent of a budget stays spent. *)

WithinBudget == \A d \in Disturbances : left[d] <= Budget[d]

LEMMA BudgetStep ==
  ASSUME TypeOK, [Next]_vars, NEW d \in Disturbances
  PROVE  left'[d] <= left[d]
<1> USE DEF api, caches
<1>0. left[d] \in Nat /\ Disturbances = {"user", "config", "service", "drift", "crash", "fault",
                                        "late", "fanout"}
  BY DEF TypeOK, Disturbances
<1>1. CASE UNCHANGED left
  BY <1>0, <1>1
<1>2. CASE \E e \in Disturbances : Spend(e)
  <2>1. PICK e \in Disturbances : Spend(e)
    BY <1>2
  <2>2. left[e] \in Nat /\ left'[e] = left[e] - 1 /\ (d # e => left'[d] = left[d])
    BY <2>1, SpendStep
  <2> QED BY <1>0, <2>2
<1>3. CASE WorkerStep
  <2>1. UNCHANGED left \/ Spend("fault")
    BY <1>3 DEF WorkerStep, MarkReconciling, Render, Apply, List, Delete, MarkReady, MarkFailed,
                StatusUpdateFails
  <2> QED BY <1>0, <1>1, <1>2, <2>1
<1>4. CASE DeliverConfig
  <2>1. UNCHANGED left \/ Spend("fanout")
    BY <1>4 DEF DeliverConfig, packagesForGlobalConfig
  <2> QED BY <1>0, <1>1, <1>2, <2>1
<1>6. CASE Crash \/ \E x \in late : Land(x)
  BY <1>0, <1>2, <1>6 DEF Crash, Land
<1> QED
  BY <1>0, <1>1, <1>2, <1>3, <1>4, <1>6
  DEF Next, vars, Start, DeliverPackage, DeletePackage, FinishDeletion, CreatePackage, EditSpec,
      DeliverObject, Collect, Drift, EditConfig, EditService

LEMMA WithinBudgetStep ==
  ASSUME TypeInv, TypeInv', WithinBudget, [Next]_vars
  PROVE  WithinBudget'
<1>1. \A d \in Disturbances : left[d] \in Nat /\ left'[d] \in Nat /\ Budget[d] \in Nat
  BY BudgetAssumption DEF TypeInv, TypeOK
<1>2. \A d \in Disturbances : left'[d] <= left[d]
  BY BudgetStep DEF TypeInv
<1> QED BY <1>1, <1>2 DEF WithinBudget

-----------------------------------------------------------------------------
(* What the local variables of Reconcile hold at each of its stages. *)

Staged(x) ==
  /\ x.pc \in {"idle", "mark", "render", "apply", "list"} => x.stale = {}
  /\ x.pc = "apply" => x.kinds = KindsToList
  /\ x.pc \in {"list", "delete", "ready"} => x.next = Len(x.desired) + 1
  /\ x.pc = "ready" => x.kinds = {} /\ x.stale = {}
  /\ x.stale \cap Keep(x) = {}

Stages == \A x \in Calls : Staged(x)

\* The worker has a rendering and has not given up on it.
Engaged(x) == x.pc \in {"apply", "list", "delete", "ready"}

LEMMA StagesStep ==
  ASSUME TypeInv, Stages, [Next]_vars
  PROVE  Stages'
<1> SUFFICES Staged(w')
  BY LateStep DEF Stages, Calls
<1> USE DEF api, caches
<1>s. Staged(w)
  BY DEF Stages, Calls
<1>t. TypeOK /\ w \in Worker /\ w.desired \in Seq(Emitted) /\ w.next \in Nat
  BY DEF TypeInv, TypeOK, Worker
<1>0. ASSUME w'.pc \in {"idle", "mark", "render"}, w'.stale = {} PROVE Staged(w')
  BY <1>0 DEF Staged
<1>1. CASE UNCHANGED w
  BY <1>1, <1>s
<1>2. CASE Retry \/ w' = Idle
  <2>1. w' = Idle
    BY <1>2 DEF Retry
  <2> QED BY <1>0, <2>1 DEF Idle
<1>3. ASSUME NEW p \in Packages, Start(p) PROVE Staged(w')
  <2>1. w' = w \/ (w'.pc \in {"mark", "render"} /\ w'.stale = {})
    BY <1>3 DEF Start, Idle
  <2> QED BY <1>0, <1>1, <2>1
<1>4. CASE MarkReconciling
  <2>1. (w'.pc = "render" /\ w'.stale = w.stale /\ w.pc = "mark") \/ Retry
    BY <1>4, <1>t DEF MarkReconciling, Worker
  <2> QED BY <1>0, <1>2, <1>s, <2>1 DEF Staged
<1>5. CASE MarkReady \/ MarkFailed
  BY <1>2, <1>5 DEF MarkReady, MarkFailed
<1>6. ASSUME NEW r \in Reasons, Fail(r) PROVE Staged(w')
  <2>1. w'.pc = "failed" /\ w'.stale = w.stale /\ w'.desired = w.desired
    BY <1>6, <1>t DEF Fail, Worker
  <2> QED BY <2>1, <1>s DEF Staged, Keep
<1>r. {"ApplyFailed", "PruneFailed", "GenerationFailed"} \subseteq Reasons
  BY DEF Reasons
<1>7. CASE Render
  <2>1. PICK out :
          w' = IF ~out.ok
                 THEN [w EXCEPT !.pc = "failed", !.reason = "GenerationFailed"]
                 ELSE [w EXCEPT !.desired = out.objs, !.next = 1, !.kinds = KindsToList,
                         !.pc = IF out.objs = <<>> THEN AfterApply ELSE "apply"]
    BY <1>7 DEF Render
  <2>2. w.stale = {}
    BY <1>7, <1>s DEF Render, Staged
  <2>3. CASE ~out.ok
    BY <2>1, <2>3, <1>6, <1>r DEF Fail
  <2>4. CASE out.ok
    <3>1. /\ w'.stale = {} /\ w'.kinds = KindsToList /\ w'.next = 1 /\ w'.desired = out.objs
          /\ w'.pc = IF out.objs = <<>> THEN AfterApply ELSE "apply"
      BY <2>1, <2>2, <2>4, <1>t DEF Worker
    <3> QED BY <3>1 DEF Staged, AfterApply
  <2> QED BY <2>3, <2>4
<1>8. CASE Apply
  <2>1. CASE w' = [w EXCEPT !.next = @ + 1,
                     !.pc = IF w.next = Len(w.desired) THEN AfterApply ELSE "apply"]
    <3>1. /\ w'.stale = {} /\ w'.kinds = KindsToList /\ w'.next = w.next + 1
          /\ w'.desired = w.desired
          /\ w'.pc = IF w.next = Len(w.desired) THEN AfterApply ELSE "apply"
      BY <1>8, <2>1, <1>s, <1>t DEF Apply, Staged, Worker
    <3> QED BY <3>1 DEF Staged, AfterApply
  <2> QED BY <1>8, <2>1, <1>6, <1>r DEF Apply
<1>9. ASSUME NEW kinds, NEW stale, PruneNext(kinds, stale), stale \cap Keep(w) = {},
             w.pc \in {"list", "delete"}
      PROVE  Staged(w')
  <2>1. /\ w'.kinds = kinds /\ w'.stale = stale /\ w'.next = w.next /\ w'.desired = w.desired
        /\ w'.pc = IF stale # {} THEN "delete" ELSE IF kinds # {} THEN "list" ELSE "ready"
    BY <1>9, <1>t DEF PruneNext, Worker
  <2>2. w.next = Len(w.desired) + 1
    BY <1>9, <1>s DEF Staged
  <2> QED BY <1>9, <2>1, <2>2 DEF Staged, Keep
<1>10. CASE List
  <2>1. PICK kinds, stale : /\ PruneNext(kinds, stale) \/ Fail("PruneFailed")
                            /\ stale \subseteq Keys \ Keep(w)
    BY <1>10 DEF List
  <2> QED BY <1>10, <2>1, <1>6, <1>9, <1>r DEF List
<1>11. CASE Delete
  <2>1. PICK k \in w.stale : PruneNext(w.kinds, w.stale \ {k}) \/ Fail("PruneFailed")
    BY <1>11 DEF Delete
  <2>2. (w.stale \ {k}) \cap Keep(w) = {}
    BY <1>s DEF Staged
  <2> QED BY <1>11, <2>1, <2>2, <1>6, <1>9, <1>r DEF Delete
<1>12. CASE WorkerStep
  BY <1>4, <1>5, <1>7, <1>8, <1>10, <1>11, <1>12 DEF WorkerStep
<1> QED
  BY <1>1, <1>2, <1>3, <1>12
  DEF Next, vars, DeliverPackage, DeletePackage, FinishDeletion, CreatePackage, EditSpec,
      DeliverObject, Collect, Drift, DeliverConfig, EditConfig, EditService, Crash, Land
=============================================================================
