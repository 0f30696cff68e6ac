----------------------- MODULE PackageInPlaceProofs -----------------------
(***************************************************************************)
(* Theorems about the objects of a Package at work: nothing is pruned      *)
(* before everything desired is in place (MakeBeforeBreak), and what every *)
(* rendering contains is never missing again (BaselineStays).              *)
(***************************************************************************)
EXTENDS PackageObjectsProofs

-----------------------------------------------------------------------------
(* A uid is never used again: no copy is of a later Package than the live one. *)

OldEnough(p, uid) == uid <= rev[p] /\ (Exists(p) => uid <= pkgs[p].uid)

Uids ==
  /\ \A p \in Packages : OldEnough(p, pkgs[p].uid) /\ OldEnough(p, cPkgs[p].uid)
  /\ \A x \in Calls : x.pc # "idle" => OldEnough(x.pkg, x.snap.uid)

\* The worker goes on with the Package it has, or takes one from the cache.
LEMMA WorkerSnap ==
  ASSUME IInv, [Next]_vars, w'.pc # "idle"
  PROVE  \/ w.pc # "idle" /\ w'.pkg = w.pkg /\ w'.snap.uid = w.snap.uid
         \/ /\ w'.pkg \in Packages /\ w'.snap = cPkgs[w'.pkg]
            /\ w'.pc \in {"mark", "render"} /\ w'.stale = {}
<1> USE DEF api, caches
<1>t. TypeOK /\ Versions /\ w \in Worker /\ w \in Calls /\ w.pkg \in Packages
  BY DEF IInv, TypeInv, TypeOK, Worker, Calls
<1>1. CASE UNCHANGED w
  BY <1>1
<1>2. CASE Retry \/ w' = Idle
  <2>1. w' = Idle
    BY <1>2 DEF Retry
  <2> QED BY <2>1 DEF Idle
<1>3. ASSUME NEW p \in Packages, Start(p), w' # w
      PROVE  /\ w'.pkg = p /\ w'.snap = cPkgs[p]
             /\ w'.pc \in {"mark", "render"} /\ w'.stale = {}
  BY <1>3 DEF Start, Idle
<1>4. ASSUME MarkReconciling, ~Retry
      PROVE  w.pc # "idle" /\ w'.pkg = w.pkg /\ w'.snap.uid = w.snap.uid
  <2>1. /\ w.pc = "mark" /\ WriteStatus(w)
        /\ w' = [w EXCEPT !.pc = "render", !.snap = pkgs'[w.pkg]]
    BY <1>4 DEF MarkReconciling
  <2>2. w.snap = pkgs[w.pkg] /\ (Untouched(w.pkg) \/ StatusWritten(w.pkg, w, NewStatus(w)))
    BY <2>1, <1>t, WriteStatusStep
  <2>3. pkgs'[w.pkg].uid = w.snap.uid
    <3>1. pkgs[w.pkg] \in Package
      BY <1>t DEF TypeOK
    <3> QED BY <2>2, <3>1 DEF Untouched, StatusWritten, Written, Package
  <2> QED BY <2>1, <2>3, <1>t DEF Worker
<1>5. CASE Render \/ Apply \/ List \/ Delete
  BY <1>5, <1>t DEF Render, Apply, List, Delete, Fail, PruneNext, Worker
<1>6. CASE MarkReady \/ MarkFailed
  BY <1>2, <1>6 DEF MarkReady, MarkFailed
<1>7. CASE WorkerStep
  BY <1>2, <1>4, <1>5, <1>6, <1>7 DEF WorkerStep
<1> QED
  BY <1>1, <1>2, <1>3, <1>7
  DEF Next, vars, DeliverPackage, DeletePackage, FinishDeletion, CreatePackage, EditSpec,
      DeliverObject, Collect, Drift, DeliverConfig, EditConfig, EditService, Crash, Land

LEMMA OldEnoughStays ==
  ASSUME IInv, Uids, [Next]_vars, NEW p \in Packages, NEW uid \in Nat, OldEnough(p, uid)
  PROVE  OldEnough(p, uid)' /\ OldEnough(p, pkgs[p].uid)' /\ ~(Reborn(p) /\ uid = pkgs'[p].uid)
<1>t. /\ TypeOK /\ Versions /\ rev[p] \in Nat /\ pkgs[p] \in Package /\ pkgs[p].uid \in Nat
  BY DEF IInv, TypeInv, TypeOK, Package
<1>0. Untouched(p) \/ Removed(p) \/ Reborn(p) \/ Updated(p)
  BY <1>t, NextIsPackageStep, PackageIdentity
<1>u. pkgs[p].uid <= rev[p]
  BY DEF Uids, OldEnough
<1>1. CASE Untouched(p)
  BY <1>1, <1>t, <1>u DEF Untouched, OldEnough, Exists, Reborn
<1>2. CASE Removed(p)
  BY <1>2, <1>t DEF Removed, OldEnough, Exists, NoPackage, Reborn
<1>3. CASE Reborn(p)
  BY <1>3, <1>t DEF Reborn, OldEnough, Exists
<1>4. CASE Updated(p)
  BY <1>4, <1>t, <1>u DEF Updated, OldEnough, Exists, Reborn
<1> QED BY <1>0, <1>1, <1>2, <1>3, <1>4

LEMMA UidsStep ==
  ASSUME IInv, Uids, [Next]_vars
  PROVE  Uids'
<1>t. /\ TypeOK
      /\ \A p \in Packages : pkgs[p].uid \in Nat /\ cPkgs[p].uid \in Nat
      /\ \A x \in Calls : x.pkg \in Packages /\ x.snap.uid \in Nat
      /\ w \in Calls
  BY DEF IInv, TypeInv, TypeOK, Package, Worker, Calls
<1>1. \A p \in Packages : OldEnough(p, pkgs[p].uid) /\ OldEnough(p, cPkgs[p].uid)
  BY DEF Uids
<1>2. ASSUME NEW p \in Packages
      PROVE  OldEnough(p, pkgs[p].uid)' /\ OldEnough(p, cPkgs[p].uid)'
  <2>1. PICK u \in Nat : u = cPkgs[p].uid
    BY <1>t
  <2>2. PICK v \in Nat : v = pkgs[p].uid
    BY <1>t
  <2>3. OldEnough(p, u)' /\ OldEnough(p, v)' /\ OldEnough(p, pkgs[p].uid)'
    BY <1>1, <2>1, <2>2, OldEnoughStays
  <2>4. cPkgs'[p].uid = u \/ cPkgs'[p].uid = v
    BY <1>t, <2>1, <2>2, CacheStep
  <2> QED BY <2>3, <2>4 DEF OldEnough, Exists
<1>3. ASSUME NEW x \in Calls', x.pc # "idle"
      PROVE  OldEnough(x.pkg, x.snap.uid)'
  <2>1. CASE x \in Calls
    <3>1. PICK u \in Nat, p \in Packages : u = x.snap.uid /\ p = x.pkg
      BY <1>t, <2>1
    <3>2. OldEnough(p, u)'
      BY <1>3, <2>1, <3>1, OldEnoughStays DEF Uids
    <3> QED BY <3>1, <3>2 DEF OldEnough, Exists
  <2>2. CASE x = w'
    <3>1. CASE w.pc # "idle" /\ w'.pkg = w.pkg /\ w'.snap.uid = w.snap.uid
      <4>1. PICK u \in Nat, p \in Packages : u = w.snap.uid /\ p = w.pkg
        BY <1>t
      <4>2. OldEnough(p, u)'
        BY <1>t, <3>1, <4>1, OldEnoughStays DEF Uids
      <4> QED BY <2>2, <3>1, <4>1, <4>2 DEF OldEnough, Exists
    <3>2. CASE w'.pkg \in Packages /\ w'.snap = cPkgs[w'.pkg]
      <4>1. PICK p \in Packages : p = w'.pkg
        BY <3>2
      <4>2. PICK u \in Nat : u = cPkgs[p].uid
        BY <1>t
      <4>3. OldEnough(p, u)'
        BY <1>1, <4>2, OldEnoughStays
      <4> QED BY <2>2, <3>2, <4>1, <4>2, <4>3 DEF OldEnough, Exists
    <3> QED BY <1>3, <2>2, <3>1, <3>2, WorkerSnap
  <2> QED BY <2>1, <2>2, LateStep DEF Calls
<1> QED BY <1>2, <1>3 DEF Uids, OldEnough, Exists

-----------------------------------------------------------------------------
(* Make before break. *)

\* The Package that x works on is still there.
Live(x) == pkgs[x.pkg].uid = x.snap.uid /\ ~pkgs[x.pkg].deleting

\* No element before the n-th is the same object as the i-th and comes after it.
LastBelow(seq, n, i) == \A j \in DOMAIN seq : j < n /\ seq[j].key = seq[i].key => j <= i

\* MakeBeforeBreak is about the stages after applyAll; this is about all of them.
AppliedSoFar ==
  Engaged(w) /\ NoDrift /\ NoneLate /\ Live(w) =>
    \A i \in DOMAIN w.desired : i < w.next /\ LastBelow(w.desired, w.next, i)
      => objs[w.desired[i].key] = Record(w, i)

\* The live Package was live before, under the same uid.
LEMMA LiveBefore ==
  ASSUME IInv, Uids, [Next]_vars, NEW p \in Packages, NEW uid \in Nat,
         OldEnough(p, uid), uid # 0, pkgs'[p].uid = uid
  PROVE  pkgs[p].uid = uid /\ (~pkgs'[p].deleting => ~pkgs[p].deleting)
<1>t. TypeOK /\ Versions
  BY DEF IInv, TypeInv
<1>1. Untouched(p) \/ Removed(p) \/ Reborn(p) \/ Updated(p)
  BY <1>t, NextIsPackageStep, PackageIdentity
<1>2. ~Reborn(p)
  BY OldEnoughStays
<1>3. ~Removed(p)
  BY DEF Removed, NoPackage
<1> QED BY <1>1, <1>2, <1>3 DEF Untouched, Updated

\* How a worker comes to have a rendering, and what it does with it.
LEMMA EngagedStep ==
  ASSUME TypeInv, [Next]_vars, Engaged(w')
  PROVE  \/ Render /\ w'.next = 1
         \/ /\ Engaged(w) /\ w'.pkg = w.pkg /\ w'.snap = w.snap /\ w'.desired = w.desired
            /\ \/ w.pc = "apply" /\ ApplyNext(w) /\ w'.next = w.next + 1
               \/ ~(WorkerStep /\ w.pc = "apply") /\ w'.next = w.next
<1> USE DEF api, caches
<1>t. TypeOK /\ w \in Worker /\ w'.pc \in {"apply", "list", "delete", "ready"}
  BY DEF TypeInv, TypeOK, Engaged
<1>1. CASE UNCHANGED w /\ ~WorkerStep
  BY <1>1, <1>t DEF Engaged
<1>2. CASE Retry \/ w' = Idle
  <2>1. w' = Idle
    BY <1>2 DEF Retry
  <2>2. w'.pc = "idle"
    BY <2>1 DEF Idle
  <2> QED BY <1>t, <2>2
<1>3. ASSUME NEW p \in Packages, Start(p) PROVE FALSE
  BY <1>3, <1>t DEF Start, Idle
<1>4. CASE MarkReconciling \/ MarkReady \/ MarkFailed
  <2>1. Retry \/ w' = Idle \/ w'.pc = "render"
    BY <1>4, <1>t DEF MarkReconciling, MarkReady, MarkFailed, Worker
  <2> QED BY <1>2, <1>t, <2>1
<1>5. CASE Render
  <2>1. w'.next = 1
    BY <1>5, <1>t DEF Render, Worker
  <2> QED BY <1>5, <2>1
<1>6. CASE Apply
  <2>1. /\ w.pc = "apply" /\ ApplyNext(w)
        /\ w' = [w EXCEPT !.next = @ + 1,
                   !.pc = IF w.next = Len(w.desired) THEN AfterApply ELSE "apply"]
    BY <1>6, <1>t DEF Apply, Fail, Worker
  <2>2. /\ w'.pkg = w.pkg /\ w'.snap = w.snap /\ w'.desired = w.desired
        /\ w'.next = w.next + 1
    BY <2>1, <1>t DEF Worker
  <2> QED BY <2>1, <2>2 DEF Engaged
<1>7. CASE List \/ Delete
  <2>1. /\ w.pc \in {"list", "delete"} /\ w'.pkg = w.pkg /\ w'.snap = w.snap
        /\ w'.desired = w.desired /\ w'.next = w.next
    BY <1>7, <1>t DEF List, Delete, Fail, PruneNext, Worker
  <2> QED BY <2>1 DEF Engaged
<1>8. CASE WorkerStep
  BY <1>4, <1>5, <1>6, <1>7, <1>8 DEF WorkerStep
<1> QED
  BY <1>1, <1>2, <1>3, <1>8
  DEF Next, vars, DeliverPackage, DeletePackage, FinishDeletion, CreatePackage, EditSpec,
      DeliverObject, Collect, Drift, DeliverConfig, EditConfig, EditService, Crash, Land

\* A budget that is whole now was whole before, and nothing was spent from it.
LEMMA Unspent ==
  ASSUME TypeInv, WithinBudget, [Next]_vars, NEW d \in Disturbances, left'[d] = Budget[d]
  PROVE  left[d] = Budget[d] /\ ~(left'[d] < left[d])
<1>1. left[d] \in Nat /\ Budget[d] \in Nat
  BY BudgetAssumption DEF TypeInv, TypeOK
<1>2. left'[d] <= left[d] /\ left[d] <= Budget[d]
  BY BudgetStep DEF TypeInv, WithinBudget
<1> QED BY <1>1, <1>2

LEMMA AppliedSoFarStep ==
  ASSUME IInv, Uids, WithinBudget, Stages, AppliedSoFar, [Next]_vars
  PROVE  AppliedSoFar'
<1>t. /\ TypeInv /\ TypeOK /\ w \in Worker /\ w \in Calls /\ w.pkg \in Packages
      /\ w.desired \in Seq(Emitted) /\ w.next \in Nat /\ w.snap.uid \in Nat
      /\ "drift" \in Disturbances /\ "late" \in Disturbances
  BY DEF IInv, TypeInv, TypeOK, Worker, Package, Calls, Disturbances
<1> SUFFICES ASSUME Engaged(w'), NoDrift', NoneLate', Live(w)',
                    NEW i \in DOMAIN w'.desired, i < w'.next, LastBelow(w'.desired, w'.next, i)
             PROVE  objs'[w'.desired[i].key] = Record(w', i)
  BY DEF AppliedSoFar, Engaged, LastBelow, Record
<1>1. CASE Render /\ w'.next = 1
  <2>1. w' \in Worker
    BY <1>1, <1>t, WorkerStepType DEF WorkerStep, TypeInv, TypeOK
  <2>2. w'.desired \in Seq(Emitted)
    BY <2>1 DEF Worker
  <2>3. ~(i < 1)
    BY <2>2
  <2> QED BY <1>1, <2>3
<1>2. CASE /\ Engaged(w) /\ w'.pkg = w.pkg /\ w'.snap = w.snap /\ w'.desired = w.desired
           /\ \/ w.pc = "apply" /\ ApplyNext(w) /\ w'.next = w.next + 1
              \/ ~(WorkerStep /\ w.pc = "apply") /\ w'.next = w.next
  <2> DEFINE k == w.desired[i].key
  <2>0. k \in Keys /\ i \in DOMAIN w.desired /\ i \in Nat
    BY <1>2, <1>t, EmittedElements
  <2>r. Record(w', i) = Record(w, i)
    BY <1>2 DEF Record
  <2>1. CASE ApplyNext(w) /\ k = w.desired[w.next].key /\ w'.next = w.next + 1
             /\ w.pc = "apply"
    <3>1. w.next \in DOMAIN w.desired
      BY <1>t, <2>1 DEF TypeInv, InRange, Within
    <3>2. w.next <= i
      BY <1>2, <1>t, <2>1, <3>1 DEF LastBelow
    <3>3. i = w.next
      BY <1>2, <1>t, <2>0, <2>1, <3>2
    <3>4. objs'[k] = Record(w, w.next)
      BY <1>t, <2>0, <2>1 DEF ApplyNext, WriteObject, Record, TypeOK
    <3> QED BY <1>2, <2>r, <3>3, <3>4
  <2>2. CASE ~(ApplyNext(w) /\ k = w.desired[w.next].key /\ w'.next = w.next + 1
               /\ w.pc = "apply")
    <3>1. w.snap.uid # 0 /\ OldEnough(w.pkg, w.snap.uid)
      BY <1>2, <1>t DEF Engaged, IInv, Versions, Uids
    <3>2. Live(w)
      BY <1>2, <1>t, <3>1, LiveBefore DEF Live
    <3>3. NoDrift /\ NoneLate /\ ~Touched(k) /\ ~(left'["late"] < left["late"])
      BY <1>t, Unspent DEF NoDrift, NoneLate, Touched
    <3>4. i < w.next
      <4>1. CASE w'.next = w.next
        BY <4>1
      <4>2. CASE w.pc = "apply" /\ ApplyNext(w) /\ w'.next = w.next + 1
        <5>1. i # w.next
          BY <2>2, <4>2
        <5> QED BY <1>t, <2>0, <4>2, <5>1
      <4> QED BY <1>2, <4>1, <4>2
    <3>5. LastBelow(w.desired, w.next, i)
      BY <1>2, <1>t DEF LastBelow
    <3>6. objs[k] = Record(w, i)
      BY <1>2, <2>0, <3>2, <3>3, <3>4, <3>5 DEF AppliedSoFar
    <3>7. objs'[k] = objs[k]
      <4>1. ~Collected(k)
        BY <3>2, <3>6 DEF Collected, Live, Record
      <4>2. ASSUME NEW x \in Calls, AppliedBy(k, x) PROVE FALSE
        BY <1>2, <2>2, <3>3, <4>2 DEF AppliedBy, InTime
      <4>3. ASSUME NEW x \in Calls, DeletedBy(k, x) PROVE FALSE
        <5>1. x = w /\ k \in w.stale
          BY <3>3, <4>3 DEF DeletedBy, InTime
        <5>2. k \in Keep(w)
          BY <2>0 DEF Keep
        <5> QED BY <1>t, <5>1, <5>2 DEF Stages, Staged
      <4> QED BY <1>t, <2>0, <3>3, <4>1, <4>2, <4>3, NextIsObjectStep
          DEF ObjectStep, Kept, Delivered
    <3> QED BY <1>2, <2>r, <3>6, <3>7
  <2> QED BY <2>1, <2>2
<1> QED BY <1>1, <1>2, <1>t, EngagedStep

MInv == IInv /\ Uids /\ WithinBudget /\ Stages /\ AppliedSoFar

\* What the theorems below start from.
LEMMA InitialFacts ==
  ASSUME Init, IInv
  PROVE  /\ Uids /\ WithinBudget /\ Stages
         /\ Calls = {w} /\ w.pc = "idle" /\ w.stale = {}
         /\ \A p \in Packages : ~Exists(p)
         /\ \A k \in Keys : objs[k].uid = 0 /\ cObjs[k].uid = 0
<1>1. \A p \in Packages : pkgs[p].uid = 0 /\ cPkgs[p].uid = 0 /\ rev[p] = 0
  BY DEF Init, NoPackage
<1>2. WithinBudget
  BY BudgetAssumption DEF Init, WithinBudget
<1>3. Calls = {w} /\ w.pc = "idle" /\ w.stale = {}
  BY DEF Init, Idle, Calls
<1>4. \A k \in Keys : objs[k].uid = 0 /\ cObjs[k].uid = 0
  BY DEF Init, NoObject
<1> QED BY <1>1, <1>2, <1>3, <1>4 DEF Uids, OldEnough, Exists, Stages, Staged

\* From the first List on, every object of the rendering is in place
\* (MakeBeforeBreak): pruneStale never runs ahead of applyAll, whatever else
\* happens between two calls.
THEOREM PruneComesLast == Spec => []MakeBeforeBreak
<1>1. ASSUME Init, IInv PROVE MInv
  BY <1>1, InitialFacts DEF MInv, AppliedSoFar, Engaged
<1>2. ASSUME MInv, IInv', [Next]_vars PROVE MInv'
  <2>1. /\ IInv /\ TypeInv /\ TypeInv' /\ Uids /\ WithinBudget /\ Stages /\ AppliedSoFar
    BY <1>2 DEF MInv, IInv
  <2> QED BY <1>2, <2>1, UidsStep, WithinBudgetStep, StagesStep, AppliedSoFarStep DEF MInv
<1>3. MInv => MakeBeforeBreak
  <2> SUFFICES ASSUME MInv, w.pc \in {"list", "delete", "ready"}, NoDrift, NoneLate, Live(w),
                      NEW i \in DOMAIN w.desired, LastOf(w.desired, i)
               PROVE  objs[w.desired[i].key] = Record(w, i)
    BY DEF MakeBeforeBreak, Live, Record
  <2>t. w.desired \in Seq(Emitted) /\ w \in Calls
    BY DEF MInv, IInv, TypeInv, TypeOK, Worker, Calls
  <2>1. w.next = Len(w.desired) + 1
    BY <2>t DEF MInv, Stages, Staged
  <2>2. i < w.next
    BY <2>t, <2>1
  <2>3. LastBelow(w.desired, w.next, i)
    BY DEF LastBelow, LastOf
  <2> QED BY <2>2, <2>3 DEF MInv, AppliedSoFar, Engaged
<1> QED
  BY <1>1, <1>2, <1>3, Invariance, PTL DEF Spec

-----------------------------------------------------------------------------
(* What every rendering contains. *)

\* Some rendering of p contains k.
Makes(p, k) ==
  \E s \in Specs, i \in Inputs, ports \in KubeAPIPorts :
     LET out == GenerateFor[<<p, s, i, ports>>] IN out.ok /\ k \in EmittedKeys(out)

\* An object bears the name of a Package that makes it, and only such are pruned.
Labelled ==
  /\ \A k \in Keys : /\ Present(k) => Makes(objs[k].pkg, k)
                     /\ cObjs[k].uid # 0 => Makes(cObjs[k].pkg, k)
  /\ \A x \in Calls : \A k \in x.stale : Makes(x.pkg, k)

\* Somebody has worked or works on the live Package p.
Met(p) == \/ pkgs[p].st.applied # {}
          \/ \E x \in Calls : x.pc # "idle" /\ x.pkg = p /\ x.snap.uid = pkgs[p].uid

\* Then the cache and the worker have left behind any former Package of that name.
Known == \A p \in Packages : Exists(p) /\ Met(p) =>
           /\ cPkgs[p].uid = pkgs[p].uid
           /\ w.pc # "idle" /\ w.pkg = p => w.snap.uid = pkgs[p].uid

\* Call x has put k in place, as far as it got.
Has(x, k) == \/ x.pc \in {"list", "delete", "ready"}
             \/ x.pc = "apply" /\ \E i \in DOMAIN x.desired : i < x.next /\ x.desired[i].key = k

\* p has been Ready, or a call on its behalf has put k in place.
Due(p, k) == \/ pkgs[p].st.applied # {}
             \/ \E x \in Calls : x.pkg = p /\ x.snap.uid = pkgs[p].uid /\ Has(x, k)

Baseline(p, k) == ~Optional(p, k) /\ ~Contested(p, k)

BaselineKept ==
  NoDrift => \A p \in Packages, k \in Keys :
    Exists(p) /\ ~pkgs[p].deleting /\ (pkgs[p].uid = 1 \/ NoneLate) /\ Baseline(p, k) /\ Due(p, k)
      => objs[k].uid = pkgs[p].uid /\ objs[k].pkg = p

\* A call's rendering is one of its Package's.
LEMMA CallMakes ==
  ASSUME IInv, WorkFromSpec, NEW x \in Calls, Engaged(x)
  PROVE  /\ \A k \in Keep(x) : Makes(x.pkg, k)
         /\ \A k : k \in Keep(x) \/ Optional(x.pkg, k)
<1>1. Renders(x.pkg, x.snap.spec, Keep(x)) /\ x.snap.spec \in Specs
  BY DEF WorkFromSpec, FromSpec, Engaged, IInv, TypeInv, TypeOK, Worker, Package, Calls
<1>2. PICK i \in Inputs, ports \in KubeAPIPorts :
        LET out == GenerateFor[<<x.pkg, x.snap.spec, i, ports>>]
        IN out.ok /\ Keep(x) = EmittedKeys(out)
  BY <1>1 DEF Renders
<1> QED BY <1>1, <1>2 DEF Makes, Optional

\* What pruneStale means to delete it has found under the Package's label.
LEMMA StaleStep ==
  ASSUME IInv, [Next]_vars, NEW k \in w'.stale, Stages'
  PROVE  /\ w'.pkg = w.pkg
         /\ k \in w.stale \/ (k \in Keys /\ cObjs[k].uid # 0 /\ cObjs[k].pkg = w.pkg)
<1> USE DEF api, caches
<1>t. TypeOK /\ w \in Worker
  BY DEF IInv, TypeInv, TypeOK
<1>0. w'.pc \notin {"idle", "mark", "render", "apply", "list"}
  BY DEF Stages, Staged, Calls
<1>1. CASE UNCHANGED w
  BY <1>1
<1>2. CASE Retry \/ w' = Idle
  <2>1. w' = Idle
    BY <1>2 DEF Retry
  <2> QED BY <2>1 DEF Idle
<1>3. ASSUME NEW p \in Packages, Start(p) PROVE w' = w
  BY <1>0, <1>3 DEF Start, Idle
<1>4. CASE MarkReconciling \/ MarkReady \/ MarkFailed
  <2>1. Retry \/ w' = Idle \/ w'.pc = "render"
    BY <1>4, <1>t DEF MarkReconciling, MarkReady, MarkFailed, Worker
  <2> QED BY <1>0, <1>2, <2>1
<1>5. CASE Render \/ Apply
  BY <1>5, <1>t DEF Render, Apply, Fail, Worker
<1>6. CASE List
  <2>1. PICK kinds, stale : /\ PruneNext(kinds, stale) \/ Fail("PruneFailed")
                            /\ \A s \in stale : s \in Keys /\ cObjs[s].uid # 0 /\ cObjs[s].pkg = w.pkg
    BY <1>6 DEF List
  <2> QED BY <1>t, <2>1 DEF PruneNext, Fail, Worker
<1>7. CASE Delete
  <2>1. PICK s \in w.stale : PruneNext(w.kinds, w.stale \ {s}) \/ Fail("PruneFailed")
    BY <1>7 DEF Delete
  <2>2. w'.pkg = w.pkg /\ w'.stale \subseteq w.stale
    <3>1. CASE PruneNext(w.kinds, w.stale \ {s})
      <4>1. w'.pkg = w.pkg /\ w'.stale = w.stale \ {s}
        BY <1>t, <3>1 DEF PruneNext, Worker
      <4> QED BY <4>1
    <3>2. CASE Fail("PruneFailed")
      BY <1>t, <3>2 DEF Fail, Worker
    <3> QED BY <2>1, <3>1, <3>2
  <2> QED BY <2>2
<1>8. CASE WorkerStep
  BY <1>4, <1>5, <1>6, <1>7, <1>8 DEF WorkerStep
<1> QED
  BY <1>1, <1>2, <1>3, <1>8
  DEF Next, vars, DeliverPackage, DeletePackage, FinishDeletion, CreatePackage, EditSpec,
      DeliverObject, Collect, Drift, DeliverConfig, EditConfig, EditService, Crash, Land

\* The key that call x applies next is one of its rendering.
LEMMA NextIsKept ==
  ASSUME TypeInv, NEW x \in Calls, x.pc = "apply"
  PROVE  x.desired[x.next].key \in Keep(x)
<1>1. x.next \in 1..Len(x.desired) /\ x.desired \in Seq(Emitted)
  BY DEF TypeInv, TypeOK, Calls, InRange, LateInRange, Within, Worker
<1>2. x.next \in DOMAIN x.desired
  BY <1>1
<1> QED BY <1>2 DEF Keep

LEMMA LabelledStep ==
  ASSUME IInv, WorkFromSpec, Stages', Labelled, [Next]_vars
  PROVE  Labelled'
<1>t. TypeInv /\ w \in Calls
  BY DEF IInv, Calls
<1>1. ASSUME NEW k \in Keys
      PROVE  /\ objs'[k].uid # 0 => Makes(objs'[k].pkg, k)
             /\ cObjs'[k].uid # 0 => Makes(cObjs'[k].pkg, k)
  <2>0. ObjectStep(k)
    BY <1>t, NextIsObjectStep
  <2>1. /\ objs[k].uid # 0 => Makes(objs[k].pkg, k)
        /\ cObjs[k].uid # 0 => Makes(cObjs[k].pkg, k)
    BY DEF Labelled, Present
  <2>2. CASE Kept(k) \/ Delivered(k)
    BY <2>1, <2>2 DEF Kept, Delivered
  <2>3. CASE Changed(k) /\ (Collected(k) \/ Touched(k))
    BY <2>1, <2>3 DEF Changed, Collected, Touched, NoObject, Present
  <2>4. ASSUME Changed(k), NEW x \in Calls, AppliedBy(k, x)
        PROVE  objs'[k].uid # 0 => Makes(objs'[k].pkg, k)
    <3>1. Engaged(x) /\ k \in Keep(x) /\ objs'[k].pkg = x.pkg
      BY <1>t, <2>4, NextIsKept DEF AppliedBy, Engaged, Record
    <3> QED BY <3>1, CallMakes
  <2>5. ASSUME NEW x \in Calls, DeletedBy(k, x)
        PROVE  objs'[k].uid = 0
    BY <2>5 DEF DeletedBy, NoObject
  <2> QED BY <2>0, <2>1, <2>2, <2>3, <2>4, <2>5 DEF ObjectStep, Changed
<1>2. ASSUME NEW k \in w'.stale PROVE Makes(w'.pkg, k)
  BY <1>t, <1>2, StaleStep DEF Labelled
<1>3. \A x \in Calls' : \A k \in x.stale : Makes(x.pkg, k)
  BY <1>2, LateStep DEF Labelled, Calls
<1> QED BY <1>1, <1>3 DEF Labelled, Present, Makes, EmittedKeys

\* A Package lists applied resources only after a call on its behalf got through.
LEMMA AppliedFirst ==
  ASSUME IInv, NEW p \in Packages, PackageStep(p), pkgs'[p].st.applied # {}
  PROVE  \/ pkgs[p].st.applied # {}
         \/ \E x \in Calls : x.pc = "ready" /\ x.pkg = p /\ x.snap = pkgs[p]
<1>t. pkgs[p] \in Package /\ pkgs[p].st \in Status
  BY DEF IInv, TypeInv, TypeOK, Package
<1>1. CASE Untouched(p)
  BY <1>1 DEF Untouched
<1>2. CASE Removed(p)
  BY <1>2 DEF Removed, NoPackage, NoStatus
<1>3. CASE Created(p)
  <2>1. pkgs'[p].st = NoStatus
    BY <1>3 DEF Created, Written, NoPackage
  <2> QED BY <2>1 DEF NoStatus
<1>4. CASE Edited(p) \/ Terminated(p)
  <2>1. pkgs'[p].st = pkgs[p].st
    BY <1>4, <1>t DEF Edited, Terminated, Written, Package
  <2> QED BY <2>1
<1>e. ASSUME NEW x, NEW st, StatusWritten(p, x, st) PROVE pkgs'[p].st = st
  BY <1>e, <1>t DEF StatusWritten, Written, Package
<1>5. CASE Marked(p)
  <2>1. pkgs'[p].st = markReconciling(pkgs[p].st, pkgs[p].gen)
    BY <1>5, <1>e DEF Marked
  <2>2. markReconciling(pkgs[p].st, pkgs[p].gen).applied = pkgs[p].st.applied
    BY <1>t DEF markReconciling, Status
  <2> QED BY <2>1, <2>2
<1>6. CASE JudgedReady(p)
  BY <1>6 DEF JudgedReady, StatusWritten
<1>7. CASE JudgedFailed(p)
  <2>1. PICK x \in Calls : pkgs'[p].st = markFailed(pkgs[p].st, pkgs[p].gen, x.reason)
    BY <1>7, <1>e DEF JudgedFailed
  <2>2. markFailed(pkgs[p].st, pkgs[p].gen, x.reason).applied = pkgs[p].st.applied
    BY <1>t DEF markFailed, Status
  <2> QED BY <2>1, <2>2
<1> QED BY <1>1, <1>2, <1>3, <1>4, <1>5, <1>6, <1>7 DEF PackageStep

\* Nobody has worked on a Package that is new.
LEMMA RebornUnmet ==
  ASSUME IInv, Uids, [Next]_vars, NEW p \in Packages, Reborn(p)
  PROVE  /\ pkgs'[p].st.applied = {}
         /\ \A x \in Calls' : x.pc # "idle" /\ x.pkg = p => x.snap.uid # pkgs'[p].uid
<1>t. /\ \A q \in Packages : cPkgs[q].uid \in Nat
      /\ \A x \in Calls : x.snap.uid \in Nat
      /\ w \in Calls
  BY DEF IInv, TypeInv, TypeOK, Package, Worker, Calls
<1>1. pkgs'[p].st.applied = {}
  BY DEF Reborn, NoStatus
<1>2. ASSUME NEW x \in Calls, x.pc # "idle", x.pkg = p PROVE x.snap.uid # pkgs'[p].uid
  BY <1>2, <1>t, OldEnoughStays DEF Uids
<1>3. ASSUME w'.pc # "idle", w'.pkg = p PROVE w'.snap.uid # pkgs'[p].uid
  <2>1. CASE w.pc # "idle" /\ w'.pkg = w.pkg /\ w'.snap.uid = w.snap.uid
    BY <1>2, <1>3, <1>t, <2>1
  <2>2. CASE w'.snap = cPkgs[w'.pkg]
    BY <1>3, <1>t, <2>2, OldEnoughStays DEF Uids
  <2> QED BY <1>3, <2>1, <2>2, WorkerSnap
<1> QED BY <1>1, <1>2, <1>3, LateStep DEF Calls

\* A live Package that is not new is the one that was live before.
LEMMA NotReborn ==
  ASSUME IInv, [Next]_vars, NEW p \in Packages, Exists(p)', ~Reborn(p)
  PROVE  /\ PackageStep(p) /\ Exists(p) /\ pkgs'[p].uid = pkgs[p].uid
         /\ ~pkgs'[p].deleting => ~pkgs[p].deleting
<1>t. TypeOK /\ Versions
  BY DEF IInv, TypeInv
<1>1. PackageStep(p)
  BY <1>t, NextIsPackageStep
<1>2. Untouched(p) \/ Removed(p) \/ Updated(p)
  BY <1>t, <1>1, PackageIdentity
<1>3. ~Removed(p)
  BY DEF Removed, NoPackage, Exists
<1> QED BY <1>1, <1>2, <1>3 DEF Untouched, Updated, Exists

LEMMA KnownStep ==
  ASSUME IInv, Uids, Known, [Next]_vars
  PROVE  Known'
<1>t. TypeOK /\ w \in Calls
  BY DEF IInv, TypeInv, Calls
<1>1. ASSUME NEW p \in Packages, Exists(p)', Met(p)'
      PROVE  /\ cPkgs'[p].uid = pkgs'[p].uid
             /\ w'.pc # "idle" /\ w'.pkg = p => w'.snap.uid = pkgs'[p].uid
  <2>0. ~Reborn(p)
    BY <1>1, RebornUnmet DEF Met
  <2>1. PackageStep(p) /\ Exists(p) /\ pkgs'[p].uid = pkgs[p].uid
    BY <1>1, <2>0, NotReborn
  <2>2. CASE cPkgs[p].uid = pkgs[p].uid /\ (w.pc # "idle" /\ w.pkg = p => w.snap.uid = pkgs[p].uid)
    BY <1>t, <2>1, <2>2, WorkerSnap, CacheStep
  <2>3. CASE Met(p)
    BY <2>1, <2>2, <2>3 DEF Known
  <2>4. ASSUME w'.pc # "idle", w'.pkg = p, w'.snap = cPkgs[p], w'.snap.uid = pkgs'[p].uid
        PROVE  cPkgs'[p].uid = pkgs'[p].uid
    BY <1>t, <2>1, <2>4, CacheStep
  <2>5. CASE pkgs'[p].st.applied # {}
    <3>1. Met(p)
      BY <2>1, <2>5, AppliedFirst DEF Met
    <3> QED BY <2>3, <3>1
  <2>6. CASE \E x \in Calls : x.pc # "idle" /\ x.pkg = p /\ x.snap.uid = pkgs'[p].uid
    BY <2>1, <2>3, <2>6 DEF Met
  <2>7. CASE w'.pc # "idle" /\ w'.pkg = p /\ w'.snap.uid = pkgs'[p].uid
    <3>1. CASE w.pc # "idle" /\ w'.pkg = w.pkg /\ w'.snap.uid = w.snap.uid
      BY <1>t, <2>6, <2>7, <3>1
    <3>2. CASE w'.snap = cPkgs[w'.pkg]
      BY <2>4, <2>7, <3>2
    <3> QED BY <2>7, <3>1, <3>2, WorkerSnap
  <2> QED BY <1>1, <2>5, <2>6, <2>7, LateStep DEF Met, Calls
<1> QED BY <1>1 DEF Known, Exists, Met, Calls

\* What a call has put in place is an object it has applied: pruneStale starts when
\* nothing is left to apply.
LEMMA HasApplied ==
  ASSUME IInv, WorkFromSpec, Stages, NEW x \in Calls, NEW k, ~Optional(x.pkg, k)
  PROVE  Has(x, k) <=> /\ Engaged(x)
                       /\ \E i \in DOMAIN x.desired : i < x.next /\ x.desired[i].key = k
<1>t. x.desired \in Seq(Emitted) /\ Staged(x)
  BY DEF IInv, TypeInv, TypeOK, Worker, Calls, Stages
<1>1. ASSUME x.pc \in {"list", "delete", "ready"}
      PROVE  \E i \in DOMAIN x.desired : i < x.next /\ x.desired[i].key = k
  <2>1. k \in Keep(x)
    BY <1>1, CallMakes DEF Engaged
  <2>2. PICK i \in DOMAIN x.desired : x.desired[i].key = k
    BY <2>1 DEF Keep
  <2>3. i < x.next
    BY <1>1, <1>t, <2>2 DEF Staged
  <2> QED BY <2>2, <2>3
<1> QED BY <1>1 DEF Has, Engaged

BInv == IInv /\ WorkFromSpec /\ Uids /\ WithinBudget /\ Stages /\ Labelled /\ Known /\ BaselineKept

\* Nothing takes an object of the baseline away once it is in place.
LEMMA BaselineSafe ==
  ASSUME BInv, [Next]_vars, NoDrift', NEW p \in Packages, NEW k \in Keys,
         Exists(p), ~pkgs[p].deleting, pkgs[p].uid = 1 \/ NoneLate', Baseline(p, k), Met(p),
         objs[k].uid = pkgs[p].uid, objs[k].pkg = p
  PROVE  objs'[k].uid = pkgs[p].uid /\ objs'[k].pkg = p
<1>t. /\ IInv /\ TypeInv /\ WorkFromSpec /\ Uids /\ WithinBudget /\ Stages /\ Labelled /\ Known
      /\ "drift" \in Disturbances /\ "late" \in Disturbances
      /\ \A x \in Calls : x.snap.uid \in Nat /\ x.pkg \in Packages
  BY DEF BInv, IInv, TypeInv, TypeOK, Worker, Package, Calls, Disturbances
<1>1. ObjectStep(k)
  BY <1>t, NextIsObjectStep
<1>2. ~Collected(k)
  BY DEF Collected
<1>3. ~Touched(k)
  BY <1>t, Unspent DEF NoDrift, Touched
<1>4. ASSUME NEW x \in Calls, Makes(x.pkg, k) PROVE x.pkg = p
  <2>1. CASE x.pkg # p
    BY <1>4, <1>t, <2>1 DEF Makes, Baseline, Contested
  <2> QED BY <2>1
<1>5. ASSUME NEW x \in Calls, AppliedBy(k, x)
      PROVE  objs'[k].uid = pkgs[p].uid /\ objs'[k].pkg = p
  <2>1. x.pc = "apply" /\ Engaged(x) /\ k \in Keep(x)
    BY <1>5, <1>t, NextIsKept DEF AppliedBy, Engaged
  <2>2. x.pkg = p
    BY <1>4, <1>t, <2>1, CallMakes
  <2>3. x.snap.uid = pkgs[p].uid
    <3>1. CASE pkgs[p].uid = 1
      <4>1. x.snap.uid # 0
        BY <1>t, <2>1 DEF IInv, Versions
      <4>2. x.snap.uid <= pkgs[p].uid
        BY <1>t, <2>1, <2>2 DEF Uids, OldEnough
      <4> QED BY <1>t, <3>1, <4>1, <4>2
    <3>2. CASE NoneLate'
      <4>1. x = w
        BY <1>5, <1>t, <3>2, Unspent DEF NoneLate, AppliedBy, InTime
      <4> QED BY <1>t, <2>1, <2>2, <4>1 DEF Known
    <3> QED BY <3>1, <3>2
  <2> QED BY <1>5, <2>2, <2>3 DEF AppliedBy, Record
<1>6. ASSUME NEW x \in Calls, DeletedBy(k, x) PROVE FALSE
  <2>1. k \in x.stale /\ Engaged(x)
    BY <1>6 DEF DeletedBy, Engaged
  <2>2. x.pkg = p
    BY <1>4, <1>t, <2>1 DEF Labelled
  <2>3. k \in Keep(x)
    BY <1>t, <2>1, <2>2, CallMakes DEF Baseline
  <2> QED BY <1>t, <2>1, <2>3 DEF Stages, Staged
<1> QED BY <1>1, <1>2, <1>3, <1>5, <1>6 DEF ObjectStep, Kept, Delivered

LEMMA BaselineStep ==
  ASSUME BInv, IInv', WorkFromSpec', Stages', [Next]_vars
  PROVE  BaselineKept'
<1>t. /\ IInv /\ TypeInv /\ TypeOK /\ WorkFromSpec /\ Uids /\ WithinBudget /\ Stages /\ BaselineKept
      /\ w \in Calls /\ w \in Worker /\ w.desired \in Seq(Emitted) /\ w.next \in Nat
      /\ w' \in Worker /\ w'.desired \in Seq(Emitted) /\ w' \in Calls'
      /\ "drift" \in Disturbances /\ "late" \in Disturbances
  BY DEF BInv, IInv, TypeInv, TypeOK, Worker, Calls, Disturbances
<1> SUFFICES ASSUME NoDrift', NEW p \in Packages, NEW k \in Keys, Exists(p)', ~pkgs'[p].deleting,
                    pkgs'[p].uid = 1 \/ NoneLate', Baseline(p, k), Due(p, k)'
             PROVE  objs'[k].uid = pkgs'[p].uid /\ objs'[k].pkg = p
  BY DEF BaselineKept, Exists, Baseline, Optional, Contested, EmittedKeys
<1>o. ~Optional(p, k)
  BY DEF Baseline
<1>0. ~Reborn(p)
  <2>1. ASSUME Reborn(p) PROVE FALSE
    <3>1. PICK x \in Calls' : x.pkg = p /\ x.snap.uid = pkgs'[p].uid /\ Has(x, k)
      BY <1>t, <2>1, RebornUnmet DEF Due, Has
    <3>2. x.pc # "idle"
      BY <3>1 DEF Has
    <3> QED BY <1>t, <2>1, <3>1, <3>2, RebornUnmet
  <2> QED BY <2>1
<1>1. PackageStep(p) /\ Exists(p) /\ pkgs'[p].uid = pkgs[p].uid /\ ~pkgs[p].deleting
  BY <1>t, <1>0, NotReborn
<1>2. ASSUME Due(p, k) PROVE objs'[k].uid = pkgs'[p].uid /\ objs'[k].pkg = p
  <2>1. NoDrift /\ (pkgs[p].uid = 1 \/ NoneLate)
    BY <1>t, <1>1, Unspent DEF NoDrift, NoneLate
  <2>2. objs[k].uid = pkgs[p].uid /\ objs[k].pkg = p
    BY <1>t, <1>1, <1>2, <2>1 DEF BaselineKept
  <2>3. Met(p)
    BY <1>2 DEF Due, Met, Has
  <2> QED BY <1>1, <2>2, <2>3, BaselineSafe
<1>3. CASE pkgs'[p].st.applied # {}
  <2>1. Due(p, k)
    BY <1>t, <1>1, <1>3, AppliedFirst DEF Due, Has
  <2> QED BY <1>2, <2>1
<1>4. CASE \E x \in Calls : x.pkg = p /\ x.snap.uid = pkgs'[p].uid /\ Has(x, k)
  BY <1>1, <1>2, <1>4 DEF Due
<1>5. CASE w'.pkg = p /\ w'.snap.uid = pkgs'[p].uid /\ Has(w', k)
  <2>1. PICK i \in DOMAIN w'.desired : Engaged(w') /\ i < w'.next /\ w'.desired[i].key = k
    <3>1. ASSUME w'.pc \in {"list", "delete", "ready"}
          PROVE  \E i \in DOMAIN w'.desired : i < w'.next /\ w'.desired[i].key = k
      <4>1. Renders(p, w'.snap.spec, Keep(w')) /\ w'.snap.spec \in Specs
        BY <1>5, <1>t, <3>1 DEF WorkFromSpec, FromSpec, Worker, Package
      <4>2. k \in Keep(w')
        BY <1>o, <4>1 DEF Renders, Optional
      <4>3. PICK i \in DOMAIN w'.desired : w'.desired[i].key = k
        BY <4>2 DEF Keep
      <4>4. w'.next = Len(w'.desired) + 1
        BY <1>t, <3>1 DEF Stages, Staged
      <4>5. i < w'.next
        BY <1>t, <4>3, <4>4
      <4> QED BY <4>3, <4>5
    <3> QED BY <1>5, <3>1 DEF Has, Engaged
  <2>2. CASE Render /\ w'.next = 1
    BY <1>t, <2>1, <2>2
  <2>3. CASE /\ Engaged(w) /\ w'.pkg = w.pkg /\ w'.snap = w.snap /\ w'.desired = w.desired
             /\ \/ w.pc = "apply" /\ ApplyNext(w) /\ w'.next = w.next + 1
                \/ w'.next = w.next
    <3>1. CASE i < w.next
      <4>1. Has(w, k)
        BY <1>o, <1>5, <1>t, <2>1, <2>3, <3>1, HasApplied
      <4> QED BY <1>4, <1>5, <1>t, <2>3, <4>1
    <3>2. CASE ~(i < w.next)
      <4>1. i = w.next /\ ApplyNext(w)
        BY <1>t, <2>1, <2>3, <3>2
      <4>2. objs'[k] = Record(w, i)
        BY <1>t, <2>1, <2>3, <4>1 DEF ApplyNext, WriteObject, Record, TypeOK
      <4> QED BY <1>5, <2>3, <4>2 DEF Record
    <3> QED BY <3>1, <3>2
  <2> QED BY <1>t, <2>1, <2>2, <2>3, EngagedStep
<1> QED BY <1>3, <1>4, <1>5, LateStep DEF Due, Calls

\* Once a Package has been Ready, the objects that every rendering of it and no
\* rendering of another Package contains are never missing again while it lives
\* (BaselineStays).
THEOREM BaselineIsKept == Spec => []BaselineStays
<1>1. ASSUME Init, IInv PROVE BInv
  <2>1. WorkFromSpec /\ Labelled
    BY <1>1, InitialFacts DEF WorkFromSpec, FromSpec, Labelled, Present
  <2>2. Known /\ BaselineKept
    BY <1>1, InitialFacts DEF Known, BaselineKept
  <2> QED BY <1>1, <2>1, <2>2, InitialFacts DEF BInv
<1>2. ASSUME BInv, IInv', [Next]_vars PROVE BInv'
  <2>1. /\ IInv /\ TypeInv /\ TypeInv' /\ WorkFromSpec /\ Uids /\ WithinBudget /\ Stages
        /\ Labelled /\ Known
    BY <1>2 DEF BInv, IInv
  <2>2. WorkFromSpec' /\ Uids' /\ WithinBudget' /\ Stages'
    BY <1>2, <2>1, WorkFromSpecStep, UidsStep, WithinBudgetStep, StagesStep
  <2>3. Labelled' /\ Known' /\ BaselineKept'
    BY <1>2, <2>1, <2>2, LabelledStep, KnownStep, BaselineStep
  <2> QED BY <1>2, <2>2, <2>3 DEF BInv
<1>3. BInv => BaselineStays
  BY DEF BInv, BaselineKept, BaselineStays, Baseline, Due
<1> QED
  BY <1>1, <1>2, <1>3, Invariance, PTL DEF Spec
=============================================================================
