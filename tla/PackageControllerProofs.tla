---------------------- MODULE PackageControllerProofs ----------------------
(***************************************************************************)
(* Theorems about PackageController, for every value of its constants.     *)
(***************************************************************************)
EXTENDS PackageController, TLAPS

-----------------------------------------------------------------------------
(* The functions of status.go return a status. *)

\* setCondition keeps a set of conditions a set of conditions.
LEMMA SetConditionType ==
  ASSUME NEW conds \in [ConditionTypes -> Condition], NEW type \in ConditionTypes,
         NEW status \in {"True", "False"}, NEW reason \in Reasons, NEW gen \in Nat
  PROVE  setCondition(conds, type, status, reason, gen) \in [ConditionTypes -> Condition]
<1>1. conds[type].since \in {0, 1} /\ Now(conds[type]) \in {0, 1}
  BY DEF Condition, Now
<1> QED
  BY <1>1 DEF setCondition, Condition

\* removeCondition keeps a set of conditions a set of conditions.
LEMMA RemoveConditionType ==
  ASSUME NEW conds \in [ConditionTypes -> Condition], NEW type \in ConditionTypes
  PROVE  removeCondition(conds, type) \in [ConditionTypes -> Condition]
BY DEF removeCondition, NoCondition, Condition, Reasons

\* markReconciling, markFailed and markReady keep a status a status.
LEMMA StatusTypes ==
  ASSUME NEW st \in Status, NEW gen \in Nat
  PROVE  /\ markReconciling(st, gen) \in Status
         /\ \A reason \in Reasons : markFailed(st, gen, reason) \in Status
         /\ \A emitted \in SUBSET Keys : markReady(st, gen, emitted) \in Status
<1> DEFINE CC == [ConditionTypes -> Condition]
<1>0. st.conds \in CC /\ st.observed \in Nat /\ st.applied \in SUBSET Keys
  BY DEF Status
<1>t. {"Ready", "Stalled", "Reconciling"} \subseteq ConditionTypes
  BY DEF ConditionTypes
<1>r. {"Progressing", "ResourcesApplied"} \subseteq Reasons
  BY DEF Reasons
<1>1. markReconciling(st, gen) \in Status
  <2>1. setCondition(st.conds, "Reconciling", "True", "Progressing", gen) \in CC
    BY <1>0, <1>t, <1>r, SetConditionType
  <2> QED BY <1>0, <2>1 DEF markReconciling, Status
<1>2. ASSUME NEW reason \in Reasons PROVE markFailed(st, gen, reason) \in Status
  <2> DEFINE c1 == setCondition(st.conds, "Ready", "False", reason, gen)
             c2 == setCondition(c1, "Stalled", "True", reason, gen)
  <2>1. c1 \in CC
    BY <1>0, <1>t, SetConditionType
  <2>2. c2 \in CC
    BY <2>1, <1>t, SetConditionType
  <2>3. removeCondition(c2, "Reconciling") \in CC
    BY <2>2, <1>t, RemoveConditionType
  <2> QED BY <1>0, <2>3 DEF markFailed, Status
<1>3. ASSUME NEW emitted \in SUBSET Keys PROVE markReady(st, gen, emitted) \in Status
  <2> DEFINE c1 == setCondition(st.conds, "Ready", "True", "ResourcesApplied", gen)
             c2 == removeCondition(c1, "Stalled")
  <2>1. c1 \in CC
    BY <1>0, <1>t, <1>r, SetConditionType
  <2>2. c2 \in CC
    BY <2>1, <1>t, RemoveConditionType
  <2>3. removeCondition(c2, "Reconciling") \in CC
    BY <2>2, <1>t, RemoveConditionType
  <2> QED BY <2>3 DEF markReady, Status
<1> QED BY <1>1, <1>2, <1>3

-----------------------------------------------------------------------------
(* The values that stand for "nothing". *)

\* The absent Package, the absent object and the idle worker have their types.
LEMMA DefaultTypes ==
  /\ NoStatus \in Status /\ NoPackage \in Package /\ NoObject \in Object /\ Idle \in Worker
  /\ NoConfigMap \in ConfigMap
<1>1. NoStatus \in Status
  BY DEF NoStatus, Status, NoCondition, Condition, Reasons
<1>2. AnyPackage \in Packages /\ AnySpec \in Specs
  BY PackagesAssumption, SpecsAssumption DEF AnyPackage, AnySpec
<1>3. NoPackage \in Package
  BY <1>1, <1>2 DEF NoPackage, Package
<1>4. NoObject \in Object
  BY <1>2, ValsAssumption DEF NoObject, Object
<1>5. Idle \in Worker
  BY <1>2, <1>3 DEF Idle, Worker, PCs, Reasons
<1>6. NoConfigMap \in ConfigMap
  BY DEF NoConfigMap, ConfigMap
<1> QED BY <1>1, <1>3, <1>4, <1>5, <1>6

-----------------------------------------------------------------------------
(* Types of what the steps write. *)

\* The elements of a rendering are objects of the generator.
LEMMA EmittedElements ==
  ASSUME NEW seq \in Seq(Emitted), NEW i \in DOMAIN seq
  PROVE  seq[i].key \in Keys /\ seq[i].val \in Vals
<1>1. seq[i] \in Emitted
  OBVIOUS
<1> QED BY <1>1 DEF Emitted

LEMMA InputType ==
  ASSUME NEW e \in Entries \cup {""}, NEW i \in Entries \cup {""},
         NEW r \in Entries \cup {""}, NEW de \in BOOLEAN, NEW re \in BOOLEAN
  PROVE  [egress |-> e, ingress |-> i, routes |-> r,
          definitionsErr |-> de, routesErr |-> re] \in Inputs
BY DEF Inputs

\* What sharedConfig tells the generator is an input of the generator.
LEMMA SharedConfigType ==
  ASSUME NEW cm \in ConfigMap, NEW readable \in BOOLEAN
  PROVE  sharedConfig(readable, cm) \in Inputs
<1>1. /\ Parsed(cm.egress) \in Entries \cup {""}
      /\ (IF cm.egress = "malformed" THEN "" ELSE Parsed(cm.ingress)) \in Entries \cup {""}
      /\ Parsed(cm.routes) \in Entries \cup {""}
  BY DEF Parsed, ConfigMap
<1>2. /\ ("malformed" \in {cm.egress, cm.ingress}) \in BOOLEAN
      /\ (cm.routes = "malformed") \in BOOLEAN
  OBVIOUS
<1>3. CASE ~GlobalConfig
  BY <1>3, InputType DEF sharedConfig
<1>4. CASE GlobalConfig /\ ~readable
  BY <1>4, InputType DEF sharedConfig
<1>5. CASE GlobalConfig /\ readable
  BY <1>5, <1>1, <1>2, InputType, Zenon DEF sharedConfig
<1> QED BY <1>3, <1>4, <1>5, GlobalConfigAssumption

\* Writing an object keeps the objects and the pending events well typed.
LEMMA WriteObjectType ==
  ASSUME TypeOK, NEW k \in Keys, NEW o \in Object, WriteObject(k, o)
  PROVE  objs' \in [Keys -> Object] /\ pend' \in [Keys -> SUBSET Packages]
<1>1. Owners(o) \subseteq Packages /\ Owners(objs[k]) \subseteq Packages
  BY DEF Owners, TypeOK, Object
<1> QED BY <1>1 DEF WriteObject, TypeOK

\* The changes users make to a Package leave a Package.
LEMMA EditedPackageType ==
  ASSUME NEW c \in Package, NEW uid \in Nat, NEW s \in Specs
  PROVE  /\ [c EXCEPT !.deleting = TRUE, !.gen = @ + 1] \in Package
         /\ [c EXCEPT !.gen = @ + 1, !.spec = s] \in Package
         /\ [c EXCEPT !.uid = uid, !.gen = 1, !.spec = s] \in Package
<1>1. c.gen + 1 \in Nat
  BY DEF Package
<1> QED BY <1>1 DEF Package

\* Writing a Package keeps the Packages and their revisions well typed.
LEMMA WritePackageType ==
  ASSUME TypeOK, NEW p \in Packages, NEW new \in Package, WritePackage(p, new)
  PROVE  pkgs' \in [Packages -> Package] /\ rev' \in [Packages -> Nat]
<1>1. rev[p] + 1 \in Nat
  BY DEF TypeOK
<1>2. [new EXCEPT !.rv = rev[p] + 1] \in Package
  BY <1>1 DEF Package
<1> QED BY <1>1, <1>2 DEF WritePackage, TypeOK

\* The objects of a rendering, and the status a worker writes, have their types.
LEMMA NewStatusType ==
  ASSUME NEW x \in Worker
  PROVE  /\ Keep(x) \in SUBSET Keys
         /\ x.pc \in {"mark", "ready", "failed"} => NewStatus(x) \in Status
<1>1. /\ x.snap.st \in Status /\ x.snap.gen \in Nat /\ x.reason \in Reasons
      /\ x.desired \in Seq(Emitted)
  BY DEF Worker, Package
<1>2. Keep(x) \in SUBSET Keys
  BY <1>1, EmittedElements DEF Keep
<1>3. CASE x.pc = "mark"
  BY <1>1, <1>2, <1>3, StatusTypes DEF NewStatus
<1>4. CASE x.pc = "ready"
  BY <1>1, <1>2, <1>4, StatusTypes DEF NewStatus
<1>5. CASE x.pc = "failed"
  BY <1>1, <1>2, <1>5, StatusTypes DEF NewStatus
<1> QED BY <1>2, <1>3, <1>4, <1>5

\* So does a status update.
LEMMA WriteStatusType ==
  ASSUME TypeOK, NEW x \in Worker, x.pc \in {"mark", "ready", "failed"}, WriteStatus(x)
  PROVE  pkgs' \in [Packages -> Package] /\ rev' \in [Packages -> Nat]
<1>1. x.pkg \in Packages /\ pkgs[x.pkg] \in Package
  BY DEF TypeOK, Worker
<1>2. NewStatus(x) \in Status
  BY NewStatusType
<1>3. [pkgs[x.pkg] EXCEPT !.st = NewStatus(x)] \in Package
  BY <1>1, <1>2 DEF Package
<1> QED BY <1>1, <1>3, WritePackageType DEF WriteStatus, TypeOK

\* An apply within the rendering keeps the objects and the events well typed.
LEMMA ApplyNextType ==
  ASSUME TypeOK, NEW x \in Worker, x.next \in 1..Len(x.desired), ApplyNext(x)
  PROVE  objs' \in [Keys -> Object] /\ pend' \in [Keys -> SUBSET Packages]
<1> DEFINE o == x.desired[x.next]
           new == [uid |-> x.snap.uid, pkg |-> x.pkg, val |-> o.val]
<1>1. /\ x.desired \in Seq(Emitted) /\ x.snap.uid \in Nat /\ x.pkg \in Packages
      /\ x.next \in DOMAIN x.desired
  BY DEF Worker, Package
<1>2. o.key \in Keys /\ o.val \in Vals
  BY <1>1, EmittedElements
<1>3. new \in Object
  BY <1>1, <1>2 DEF Object
<1>4. WriteObject(o.key, new)
  BY DEF ApplyNext
<1> QED BY <1>2, <1>3, <1>4, WriteObjectType

\* Spending from the budget leaves a budget.
LEMMA SpendType ==
  ASSUME TypeOK, NEW d \in Disturbances, Spend(d)
  PROVE  left' \in [Disturbances -> Nat]
BY DEF Spend, TypeOK

LEMMA StatusUpdateFailsType ==
  ASSUME TypeOK, w.pc \in {"mark", "ready", "failed"}, StatusUpdateFails
  PROVE  /\ pkgs' \in [Packages -> Package] /\ rev' \in [Packages -> Nat]
         /\ left' \in [Disturbances -> Nat]
<1>1. "fault" \in Disturbances /\ w \in Worker
  BY DEF Disturbances, TypeOK
<1> QED BY <1>1, WriteStatusType, SpendType DEF StatusUpdateFails, TypeOK

LEMMA RetryType ==
  ASSUME TypeOK, Retry
  PROVE  w' \in Worker /\ queue' \in SUBSET Packages
BY DefaultTypes DEF Retry, TypeOK, Worker

\* The local variables of pruneStale keep their types.
LEMMA PruneNextType ==
  ASSUME TypeOK, NEW kinds \in SUBSET (1..6), NEW stale \in SUBSET Keys,
         PruneNext(kinds, stale)
  PROVE  w' \in Worker
BY DEF PruneNext, TypeOK, Worker, PCs

LEMMA FailType ==
  ASSUME TypeOK, NEW reason \in Reasons, Fail(reason)
  PROVE  w' \in Worker
BY DEF Fail, TypeOK, Worker, PCs

-----------------------------------------------------------------------------
(* The type invariant. *)

\* TypeOK is not inductive as it stands: applyAll must also be within the slice,
\* and so must have been the calls that are still on their way.
Within(x) == x.pc = "apply" => x.next \in 1..Len(x.desired)

InRange == Within(w)
LateInRange == \A x \in late : Within(x)
TypeInv == TypeOK /\ InRange /\ LateInRange

\* A call that is on its way is one the worker has made.
LEMMA LateStep ==
  ASSUME [Next]_vars
  PROVE  late' \subseteq late \cup {w}
<1> USE DEF api, caches
<1>1. CASE UNCHANGED late
  BY <1>1
<1>2. CASE Abandon
  BY <1>2 DEF Abandon
<1>3. CASE StatusUpdateFails
  BY <1>1, <1>2, <1>3 DEF StatusUpdateFails
<1>4. CASE WorkerStep
  BY <1>1, <1>2, <1>3, <1>4
  DEF WorkerStep, MarkReconciling, Render, Apply, List, Delete, MarkReady, MarkFailed
<1>5. CASE Crash
  BY <1>2, <1>5 DEF Crash
<1>6. ASSUME NEW x \in late, Land(x) PROVE late' \subseteq late \cup {w}
  BY <1>6 DEF Land
<1> QED
  BY <1>1, <1>4, <1>5, <1>6
  DEF Next, vars, Start, DeliverPackage, DeletePackage, FinishDeletion, CreatePackage, EditSpec,
      DeliverObject, Collect, Drift, DeliverConfig, EditConfig, EditService

\* Such a call has its type, and is within the slice.
LEMMA LateType ==
  ASSUME TypeInv, [Next]_vars
  PROVE  late' \in SUBSET Worker /\ LateInRange'
BY LateStep DEF TypeInv, TypeOK, InRange, LateInRange, Within

\* Every step of the worker keeps the types.
LEMMA WorkerStepType ==
  ASSUME TypeInv, WorkerStep
  PROVE  TypeInv'
<1> USE DEF api, caches
<1> TypeOK /\ w \in Worker
  BY DEF TypeInv, TypeOK
<1> late' \in SUBSET Worker /\ LateInRange'
  BY LateType DEF Next
<1>w. /\ w.pkg \in Packages /\ w.snap \in Package /\ w.snap.st \in Status
      /\ w.snap.gen \in Nat /\ w.reason \in Reasons /\ w.snap.uid \in Nat
      /\ w.snap.spec \in Specs /\ w.desired \in Seq(Emitted) /\ w.next \in Nat
  BY DEF TypeOK, Worker, Package
<1>d. {"fault", "fanout"} \subseteq Disturbances
  BY DEF Disturbances
<1>r. {"ApplyFailed", "PruneFailed", "GenerationFailed"} \subseteq Reasons
  BY DEF Reasons
<1>a. AfterApply \in {"list", "ready"} /\ AfterApply \in PCs
  BY DEF AfterApply, PCs
<1>1. CASE MarkReconciling
  <2>1. w.pc = "mark"
    BY <1>1 DEF MarkReconciling
  <2>2. CASE /\ WriteStatus(w)
             /\ w' = [w EXCEPT !.pc = "render", !.snap = pkgs'[w.pkg]]
             /\ UNCHANGED <<queue, late, left>>
    <3>1. pkgs' \in [Packages -> Package] /\ rev' \in [Packages -> Nat]
      BY <2>1, <2>2, WriteStatusType
    <3>2. w' \in Worker /\ InRange'
      BY <3>1, <2>2, <1>w DEF TypeOK, Worker, PCs, InRange, Within
    <3> QED BY <1>1, <2>2, <3>1, <3>2 DEF MarkReconciling, TypeOK, TypeInv
  <2>3. CASE StatusUpdateFails /\ Retry
    <3>1. w' \in Worker /\ queue' \in SUBSET Packages
      BY <2>3, RetryType
    <3>2. InRange'
      BY <2>3 DEF Retry, Idle, InRange, Within
    <3>3. /\ pkgs' \in [Packages -> Package] /\ rev' \in [Packages -> Nat]
          /\ left' \in [Disturbances -> Nat]
      BY <2>1, <2>3, StatusUpdateFailsType
    <3> QED BY <1>1, <3>1, <3>2, <3>3 DEF MarkReconciling, TypeOK, TypeInv
  <2> QED BY <1>1, <2>2, <2>3 DEF MarkReconciling
<1>2. CASE Render
  <2>1. PICK readable \in BOOLEAN, reachable \in BOOLEAN :
          /\ IF readable /\ reachable THEN left' = left ELSE Spend("fault")
          /\ LET out == GenerateFor[<<w.pkg, w.snap.spec, sharedConfig(readable, cCfg),
                                   kubeAPIPorts(w.snap.spec, reachable)>>]
             IN w' = IF ~out.ok
                       THEN [w EXCEPT !.pc = "failed", !.reason = "GenerationFailed"]
                       ELSE [w EXCEPT !.desired = out.objs, !.next = 1,
                               !.kinds = KindsToList,
                               !.pc = IF out.objs = <<>> THEN AfterApply ELSE "apply"]
    BY <1>2 DEF Render
  <2>2. left' \in [Disturbances -> Nat]
    BY <2>1, <1>d, SpendType DEF TypeOK
  <2> DEFINE out == GenerateFor[<<w.pkg, w.snap.spec, sharedConfig(readable, cCfg),
                               kubeAPIPorts(w.snap.spec, reachable)>>]
  <2>3. out \in Rendering
    <3>1. sharedConfig(readable, cCfg) \in Inputs
      BY SharedConfigType DEF TypeOK
    <3>2. kubeAPIPorts(w.snap.spec, reachable) \in KubeAPIPorts
      BY DEF kubeAPIPorts, KubeAPIPorts, TypeOK
    <3> QED BY <3>1, <3>2, <1>w, GenerateAssumption
  <2>4. out.objs \in Seq(Emitted) /\ (out.objs # <<>> => 1 \in 1..Len(out.objs))
    BY <2>3 DEF Rendering
  <2>5. KindsToList \in SUBSET (1..6)
    BY DEF KindsToList
  <2>6. w' \in Worker /\ InRange'
    <3>1. CASE ~out.ok
      BY <3>1, <2>1, <1>r DEF TypeOK, Worker, PCs, InRange, Within
    <3>2. CASE out.ok
      BY <3>2, <2>1, <2>4, <2>5, <1>a DEF TypeOK, Worker, PCs, InRange, Within
    <3> QED BY <3>1, <3>2
  <2> QED BY <1>2, <2>2, <2>6 DEF Render, TypeOK, TypeInv
<1>3. CASE Apply
  <2>1. w.next \in 1..Len(w.desired)
    BY <1>3 DEF Apply, InRange, Within, TypeInv
  <2>4. /\ objs' \in [Keys -> Object] /\ pend' \in [Keys -> SUBSET Packages]
        /\ left' \in [Disturbances -> Nat]
    BY <1>3, <1>d, <2>1, ApplyNextType, SpendType DEF Apply, TypeOK
  <2>5. CASE w' = [w EXCEPT !.next = @ + 1,
                     !.pc = IF w.next = Len(w.desired) THEN AfterApply ELSE "apply"]
    <3>0. /\ w.next + 1 \in Nat
          /\ (IF w.next = Len(w.desired) THEN AfterApply ELSE "apply") \in PCs
      BY <1>a, <1>w DEF PCs
    <3>1. w' \in Worker
      BY <2>5, <3>0 DEF TypeOK, Worker
    <3>2. InRange'
      BY <2>5, <2>1, <1>a, <1>w DEF InRange, Within, TypeOK, Worker
    <3> QED BY <1>3, <2>4, <3>1, <3>2 DEF Apply, TypeOK, TypeInv
  <2>6. CASE Fail("ApplyFailed")
    <3>1. w' \in Worker /\ InRange'
      BY <2>6, <1>r, FailType DEF Fail, InRange, Within, TypeOK, Worker
    <3> QED BY <1>3, <2>4, <3>1 DEF Apply, TypeOK, TypeInv
  <2> QED BY <1>3, <2>5, <2>6 DEF Apply
<1>4. CASE List
  <2> DEFINE i == CHOOSE i \in w.kinds : \A j \in w.kinds : i <= j
             stale == {k \in Keys \ Keep(w) : /\ k[1] = managedListKinds[i]
                                              /\ cObjs[k].uid # 0
                                              /\ cObjs[k].pkg = w.pkg}
  <2>1. w.kinds \ {i} \in SUBSET (1..6) /\ stale \in SUBSET Keys
    BY DEF TypeOK, Worker
  <2>2. left' \in [Disturbances -> Nat]
    BY <1>4, <1>d, SpendType DEF List, TypeOK
  <2>3. CASE PruneNext(w.kinds \ {i}, stale)
    <3>1. w' \in Worker
      BY <2>1, <2>3, PruneNextType
    <3>2. InRange'
      BY <2>3 DEF PruneNext, InRange, Within, TypeOK, Worker
    <3> QED BY <1>4, <2>2, <3>1, <3>2 DEF List, TypeOK, TypeInv
  <2>4. CASE Fail("PruneFailed")
    <3>1. w' \in Worker /\ InRange'
      BY <2>4, <1>r, FailType DEF Fail, InRange, Within, TypeOK, Worker
    <3> QED BY <1>4, <2>2, <3>1 DEF List, TypeOK, TypeInv
  <2> QED BY <1>4, <2>3, <2>4 DEF List
<1>5. CASE Delete
  <2>1. PICK k \in w.stale :
          \/ WriteObject(k, NoObject) /\ PruneNext(w.kinds, w.stale \ {k}) /\ left' = left
          \/ /\ Spend("fault")
             /\ WriteObject(k, NoObject) \/ UNCHANGED <<objs, pend>>
             /\ Fail("PruneFailed")
    BY <1>5 DEF Delete
  <2>2. k \in Keys /\ w.stale \ {k} \in SUBSET Keys /\ w.kinds \in SUBSET (1..6)
    BY DEF TypeOK, Worker
  <2>3. /\ objs' \in [Keys -> Object] /\ pend' \in [Keys -> SUBSET Packages]
        /\ left' \in [Disturbances -> Nat]
    BY <1>d, <2>1, <2>2, DefaultTypes, WriteObjectType, SpendType DEF TypeOK
  <2>4. CASE PruneNext(w.kinds, w.stale \ {k})
    <3>1. w' \in Worker
      BY <2>2, <2>4, PruneNextType
    <3>2. InRange'
      BY <2>4 DEF PruneNext, InRange, Within, TypeOK, Worker
    <3> QED BY <1>5, <2>3, <3>1, <3>2 DEF Delete, TypeOK, TypeInv
  <2>5. CASE Fail("PruneFailed")
    <3>1. w' \in Worker /\ InRange'
      BY <2>5, <1>r, FailType DEF Fail, InRange, Within, TypeOK, Worker
    <3> QED BY <1>5, <2>3, <3>1 DEF Delete, TypeOK, TypeInv
  <2> QED BY <2>1, <2>4, <2>5
<1>6. CASE MarkReady
  <2>1. w.pc = "ready"
    BY <1>6 DEF MarkReady
  <2>2. w' \in Worker /\ InRange' /\ queue' \in SUBSET Packages
    <3>1. CASE w' = Idle /\ queue' = queue
      BY <3>1, DefaultTypes DEF Idle, InRange, Within, TypeOK
    <3>2. CASE Retry
      BY <3>2, RetryType DEF Retry, Idle, InRange, Within
    <3> QED BY <1>6, <3>1, <3>2 DEF MarkReady
  <2>3. /\ pkgs' \in [Packages -> Package] /\ rev' \in [Packages -> Nat]
        /\ left' \in [Disturbances -> Nat]
    BY <1>6, <2>1, WriteStatusType, StatusUpdateFailsType DEF MarkReady, TypeOK
  <2> QED BY <1>6, <2>2, <2>3 DEF MarkReady, TypeOK, TypeInv
<1>7. CASE MarkFailed
  <2>1. w.pc = "failed"
    BY <1>7 DEF MarkFailed
  <2>2. w' \in Worker /\ InRange' /\ queue' \in SUBSET Packages
    BY <1>7, RetryType DEF MarkFailed, Retry, Idle, InRange, Within
  <2>3. /\ pkgs' \in [Packages -> Package] /\ rev' \in [Packages -> Nat]
        /\ left' \in [Disturbances -> Nat]
    BY <1>7, <2>1, WriteStatusType, StatusUpdateFailsType DEF MarkFailed, TypeOK
  <2> QED BY <1>7, <2>2, <2>3 DEF MarkFailed, TypeOK, TypeInv
<1> QED
  BY <1>1, <1>2, <1>3, <1>4, <1>5, <1>6, <1>7 DEF WorkerStep

\* Every other step keeps the types.
LEMMA OtherStepType ==
  ASSUME TypeInv, Next, ~WorkerStep
  PROVE  TypeInv'
<1> USE DEF api, caches
<1> TypeOK
  BY DEF TypeInv
<1> late' \in SUBSET Worker /\ LateInRange'
  BY LateType
<1>d. {"user", "config", "service", "drift", "crash", "late", "fanout"} \subseteq Disturbances
  BY DEF Disturbances
<1>o. \A k \in Keys : Owners(objs[k]) \subseteq Packages
  BY DEF Owners, TypeOK, Object
<1>1. ASSUME NEW p \in Packages, Start(p) PROVE TypeInv'
  <2>1. w' \in Worker
    <3>1. CASE w' = w
      BY <3>1 DEF TypeOK
    <3>2. CASE w' = [Idle EXCEPT !.pkg = p, !.snap = cPkgs[p],
                       !.pc = IF cPkgs[p].gen # cPkgs[p].st.observed
                                THEN "mark" ELSE "render"]
      BY <3>2, DefaultTypes DEF TypeOK, Worker, PCs
    <3> QED BY <1>1, <3>1, <3>2 DEF Start
  <2>2. InRange'
    BY <1>1, DefaultTypes DEF Start, InRange, Within, Worker, TypeInv
  <2> QED BY <1>1, <2>1, <2>2 DEF Start, TypeOK, TypeInv
<1>2. ASSUME NEW p \in Packages, DeliverPackage(p) PROVE TypeInv'
  BY <1>2 DEF DeliverPackage, TypeOK, TypeInv, InRange
<1>3. ASSUME NEW p \in Packages, DeletePackage(p) PROVE TypeInv'
  <2>1. [pkgs[p] EXCEPT !.deleting = TRUE, !.gen = @ + 1] \in Package
    <3> pkgs[p] \in Package /\ AnySpec \in Specs
      BY SpecsAssumption DEF TypeOK, AnySpec
    <3> QED BY EditedPackageType
  <2>2. pkgs' \in [Packages -> Package] /\ rev' \in [Packages -> Nat]
    BY <1>3, <2>1, WritePackageType, DefaultTypes DEF DeletePackage, TypeOK
  <2>3. left' \in [Disturbances -> Nat]
    BY <1>3, <1>d, SpendType DEF DeletePackage
  <2> QED BY <1>3, <2>2, <2>3 DEF DeletePackage, TypeOK, TypeInv, InRange
<1>4. ASSUME NEW p \in Packages, FinishDeletion(p) PROVE TypeInv'
  BY <1>4, DefaultTypes DEF FinishDeletion, TypeOK, TypeInv, InRange
<1>5. ASSUME NEW p \in Packages, NEW s \in Specs, CreatePackage(p, s) PROVE TypeInv'
  <2>1. [NoPackage EXCEPT !.uid = rev[p] + 1, !.gen = 1, !.spec = s] \in Package
    <3> NoPackage \in Package /\ rev[p] + 1 \in Nat
      BY DefaultTypes DEF TypeOK
    <3> QED BY EditedPackageType
  <2>2. pkgs' \in [Packages -> Package] /\ rev' \in [Packages -> Nat]
    BY <1>5, <2>1, WritePackageType DEF CreatePackage
  <2>3. left' \in [Disturbances -> Nat]
    BY <1>5, <1>d, SpendType DEF CreatePackage
  <2> QED BY <1>5, <2>2, <2>3 DEF CreatePackage, TypeOK, TypeInv, InRange
<1>6. ASSUME NEW p \in Packages, NEW s \in Specs, EditSpec(p, s) PROVE TypeInv'
  <2>1. [pkgs[p] EXCEPT !.gen = @ + 1, !.spec = s] \in Package
    <3> pkgs[p] \in Package
      BY DEF TypeOK
    <3> QED BY EditedPackageType
  <2>2. pkgs' \in [Packages -> Package] /\ rev' \in [Packages -> Nat]
    BY <1>6, <2>1, WritePackageType DEF EditSpec
  <2>3. left' \in [Disturbances -> Nat]
    BY <1>6, <1>d, SpendType DEF EditSpec
  <2> QED BY <1>6, <2>2, <2>3 DEF EditSpec, TypeOK, TypeInv, InRange
<1>7. ASSUME NEW k \in Keys, DeliverObject(k) PROVE TypeInv'
  BY <1>7 DEF DeliverObject, TypeOK, TypeInv, InRange
<1>8. ASSUME NEW k \in Keys, Collect(k) PROVE TypeInv'
  <2>1. objs' \in [Keys -> Object] /\ pend' \in [Keys -> SUBSET Packages]
    BY <1>8, DefaultTypes, WriteObjectType DEF Collect
  <2> QED BY <1>8, <2>1 DEF Collect, TypeOK, TypeInv, InRange
<1>9. ASSUME NEW k \in Keys, Drift(k) PROVE TypeInv'
  <2>1. [objs[k] EXCEPT !.val = Drifted] \in Object
    BY ValsAssumption DEF TypeOK, Object
  <2>2. objs' \in [Keys -> Object] /\ pend' \in [Keys -> SUBSET Packages]
    BY <1>9, <2>1, DefaultTypes, WriteObjectType DEF Drift
  <2>3. left' \in [Disturbances -> Nat]
    BY <1>9, <1>d, SpendType DEF Drift
  <2> QED BY <1>9, <2>2, <2>3 DEF Drift, TypeOK, TypeInv, InRange
<1>10. CASE DeliverConfig
  <2>1. left' \in [Disturbances -> Nat] /\ queue' \in SUBSET Packages
    BY <1>10, <1>d, SpendType DEF DeliverConfig, packagesForGlobalConfig, TypeOK
  <2> QED BY <1>10, <2>1 DEF DeliverConfig, TypeOK, TypeInv, InRange
<1>11. ASSUME NEW c \in ConfigMaps, EditConfig(c) PROVE TypeInv'
  <2>1. left' \in [Disturbances -> Nat] /\ c \in ConfigMap
    BY <1>11, <1>d, SpendType, ConfigMapsAssumption DEF EditConfig
  <2> QED BY <1>11, <2>1 DEF EditConfig, TypeOK, TypeInv, InRange
<1>12. ASSUME NEW ports \in ServicePorts, EditService(ports) PROVE TypeInv'
  <2>1. left' \in [Disturbances -> Nat]
    BY <1>12, <1>d, SpendType DEF EditService
  <2> QED BY <1>12, <2>1 DEF EditService, TypeOK, TypeInv, InRange
<1>13. CASE Crash
  <2>1. left' \in [Disturbances -> Nat]
    BY <1>13, <1>d, SpendType DEF Crash
  <2>2. queue' \in SUBSET Packages
    BY <1>13, <1>o DEF Crash
  <2>3. w' \in Worker /\ InRange'
    BY <1>13, DefaultTypes DEF Crash, Idle, InRange, Within
  <2>4. pend' \in [Keys -> SUBSET Packages]
    BY <1>13 DEF Crash
  <2> QED BY <1>13, <2>1, <2>2, <2>3, <2>4 DEF Crash, TypeOK, TypeInv
<1>14. ASSUME NEW x \in late, Land(x) PROVE TypeInv'
  <2>1. left' \in [Disturbances -> Nat]
    BY <1>14, <1>d, SpendType DEF Land
  <2>2. x \in Worker /\ Within(x) /\ x.stale \subseteq Keys
    BY DEF TypeInv, TypeOK, LateInRange, Worker
  <2>3. pkgs' \in [Packages -> Package] /\ rev' \in [Packages -> Nat]
    BY <1>14, <2>2, WriteStatusType DEF Land, TypeOK
  <2>4. objs' \in [Keys -> Object] /\ pend' \in [Keys -> SUBSET Packages]
    BY <1>14, <2>2, ApplyNextType, WriteObjectType, DefaultTypes DEF Land, TypeOK, Within
  <2> QED BY <1>14, <2>1, <2>3, <2>4 DEF Land, TypeOK, TypeInv, InRange
<1> QED
  BY <1>1, <1>2, <1>3, <1>4, <1>5, <1>6, <1>7, <1>8, <1>9, <1>10, <1>11, <1>12, <1>13, <1>14
  DEF Next

\* Type correctness: every reachable state of the controller, its caches and the
\* API server is well typed, and applyAll never reads past the rendering.
THEOREM TypeCorrect == Spec => [](TypeOK /\ InRange /\ LateInRange)
<1>1. ASSUME Init PROVE TypeInv
  <2>1. w \in Worker /\ InRange
    BY <1>1, DefaultTypes DEF Init, InRange, Within, Idle
  <2>2. /\ pkgs \in [Packages -> Package] /\ cPkgs \in [Packages -> Package]
        /\ rev \in [Packages -> Nat]
    BY <1>1, DefaultTypes DEF Init
  <2>3. objs \in [Keys -> Object] /\ cObjs \in [Keys -> Object]
    BY <1>1, DefaultTypes DEF Init
  <2>4. pend \in [Keys -> SUBSET Packages] /\ queue \in SUBSET Packages
    BY <1>1 DEF Init
  <2> QED BY <1>1, <2>1, <2>2, <2>3, <2>4, DefaultTypes, BudgetAssumption
      DEF Init, TypeOK, TypeInv, LateInRange
<1>2. TypeInv /\ [Next]_vars => TypeInv'
  <2>1. ASSUME TypeInv, UNCHANGED vars PROVE TypeInv'
    BY <2>1 DEF TypeInv, TypeOK, InRange, LateInRange, vars
  <2> QED BY <2>1, WorkerStepType, OtherStepType
<1>3. Spec => []TypeInv
  BY <1>1, <1>2, PTL DEF Spec
<1> QED
  BY <1>3, PTL DEF TypeInv

-----------------------------------------------------------------------------
(* A resourceVersion identifies a version: the cache and the worker may hold *)
(* old copies, but a copy that bears the live resourceVersion is the live    *)
(* Package.  This is what an accepted status update rests on, a late one too. *)

Calls == late \cup {w}

SameVersion(copy, live) == copy.uid = live.uid /\ copy.rv = live.rv => copy = live

Versions ==
  /\ \A p \in Packages :
       /\ pkgs[p].rv <= rev[p] /\ cPkgs[p].rv <= rev[p]
       /\ pkgs[p].uid = 0 => pkgs[p] = NoPackage
       /\ cPkgs[p].uid # 0 => SameVersion(cPkgs[p], pkgs[p])
  /\ \A x \in Calls :
       /\ x.pc # "idle" =>
            /\ x.snap.uid # 0 /\ ~x.snap.deleting /\ x.snap.rv <= rev[x.pkg]
            /\ SameVersion(x.snap, pkgs[x.pkg])
       /\ x.pc = "mark" => x.snap.gen # x.snap.st.observed

(* What one step can do to one Package. *)

Written(p, c) == rev'[p] = rev[p] + 1 /\ pkgs'[p] = [c EXCEPT !.rv = rev[p] + 1]

Untouched(p) == rev'[p] = rev[p] /\ pkgs'[p] = pkgs[p]

Removed(p) == Exists(p) /\ rev'[p] = rev[p] /\ pkgs'[p] = NoPackage

Created(p) == ~Exists(p) /\ \E s \in Specs :
                Written(p, [NoPackage EXCEPT !.uid = rev[p] + 1, !.gen = 1, !.spec = s])

Edited(p) == Exists(p) /\ ~pkgs[p].deleting /\ \E s \in Specs :
               Written(p, [pkgs[p] EXCEPT !.gen = @ + 1, !.spec = s])

Terminated(p) == Exists(p) /\ ~pkgs[p].deleting
                 /\ Written(p, [pkgs[p] EXCEPT !.deleting = TRUE, !.gen = @ + 1])

\* The copy behind call x is the live Package, and its status is replaced.
StatusWritten(p, x, st) == /\ Exists(p) /\ ~pkgs[p].deleting
                           /\ x.snap = pkgs[p] /\ x.pkg = p
                           /\ Written(p, [pkgs[p] EXCEPT !.st = st])

Marked(p) == \E x \in Calls :
  x.pc = "mark" /\ StatusWritten(p, x, markReconciling(pkgs[p].st, pkgs[p].gen))

JudgedReady(p) == \E x \in Calls :
  x.pc = "ready" /\ StatusWritten(p, x, markReady(pkgs[p].st, pkgs[p].gen, Keep(x)))

JudgedFailed(p) == \E x \in Calls :
  x.pc = "failed" /\ StatusWritten(p, x, markFailed(pkgs[p].st, pkgs[p].gen, x.reason))

PackageStep(p) == Untouched(p) \/ Removed(p) \/ Created(p) \/ Edited(p) \/ Terminated(p)
                  \/ Marked(p) \/ JudgedReady(p) \/ JudgedFailed(p)

\* A write concerns one Package only.
LEMMA WritePackageStep ==
  ASSUME TypeOK, NEW p \in Packages, NEW c, WritePackage(p, c), NEW q \in Packages
  PROVE  IF q = p THEN Written(p, c) ELSE Untouched(q)
BY DEF WritePackage, Written, Untouched, TypeOK

\* An accepted status update finds the copy it was made from up to date.
LEMMA WriteStatusStep ==
  ASSUME TypeOK, Versions, NEW x \in Calls, x.pc # "idle", WriteStatus(x), NEW p \in Packages
  PROVE  /\ x.snap = pkgs[x.pkg]
         /\ Untouched(p) \/ StatusWritten(p, x, NewStatus(x))
<1>0. x.pkg \in Packages
  BY DEF TypeOK, Worker, Calls
<1>1. x.snap = pkgs[x.pkg]
  BY DEF WriteStatus, Accepted, Versions, SameVersion
<1>2. Exists(x.pkg) /\ ~pkgs[x.pkg].deleting
  BY <1>1 DEF Versions, Exists
<1>3. CASE UNCHANGED <<pkgs, rev>>
  BY <1>1, <1>3 DEF Untouched
<1>4. CASE WritePackage(x.pkg, [pkgs[x.pkg] EXCEPT !.st = NewStatus(x)])
  <2>1. IF p = x.pkg THEN Written(x.pkg, [pkgs[x.pkg] EXCEPT !.st = NewStatus(x)])
                     ELSE Untouched(p)
    BY <1>0, <1>4, WritePackageStep
  <2> QED BY <1>1, <1>2, <2>1 DEF StatusWritten
<1> QED BY <1>3, <1>4 DEF WriteStatus

\* It marks the Package or judges it, if it changes anything.
LEMMA StatusIsPackageStep ==
  ASSUME TypeOK, Versions, NEW x \in Calls, x.pc \in {"mark", "ready", "failed"},
         WriteStatus(x), NEW p \in Packages
  PROVE  PackageStep(p)
<1>1. Untouched(p) \/ StatusWritten(p, x, NewStatus(x))
  BY WriteStatusStep
<1>2. CASE Untouched(p)
  BY <1>2 DEF PackageStep
<1>3. CASE StatusWritten(p, x, NewStatus(x))
  <2>1. x.snap = pkgs[p]
    BY <1>3 DEF StatusWritten
  <2>2. CASE x.pc = "mark"
    BY <1>3, <2>1, <2>2 DEF NewStatus, Marked, PackageStep
  <2>3. CASE x.pc = "ready"
    BY <1>3, <2>1, <2>3 DEF NewStatus, JudgedReady, PackageStep
  <2>4. CASE x.pc = "failed"
    BY <1>3, <2>1, <2>4 DEF NewStatus, JudgedFailed, PackageStep
  <2> QED BY <2>2, <2>3, <2>4
<1> QED BY <1>1, <1>2, <1>3

\* Whatever happens, each Package is created, edited, marked, judged, terminated,
\* removed or left alone.
LEMMA NextIsPackageStep ==
  ASSUME TypeOK, Versions, [Next]_vars, NEW p \in Packages
  PROVE  PackageStep(p)
<1> USE DEF api, caches
<1>0. CASE UNCHANGED <<pkgs, rev>>
  BY <1>0 DEF Untouched, PackageStep
<1>1. CASE MarkReconciling \/ MarkReady \/ MarkFailed
  <2>1. /\ w.pc \in {"mark", "ready", "failed"} /\ w \in Calls
        /\ WriteStatus(w) \/ UNCHANGED <<pkgs, rev>>
    BY <1>1 DEF MarkReconciling, MarkReady, MarkFailed, StatusUpdateFails, Calls
  <2> QED BY <1>0, <2>1, StatusIsPackageStep
<1>2. ASSUME NEW x \in late, Land(x) PROVE PackageStep(p)
  <2>1. /\ x \in Calls
        /\ \/ x.pc \in {"mark", "ready", "failed"} /\ WriteStatus(x)
           \/ UNCHANGED <<pkgs, rev>>
    BY <1>2 DEF Land, Calls
  <2> QED BY <1>0, <2>1, StatusIsPackageStep
<1>4. ASSUME NEW q \in Packages, NEW s \in Specs, CreatePackage(q, s) PROVE PackageStep(p)
  BY <1>4, WritePackageStep DEF CreatePackage, PackageStep, Created
<1>5. ASSUME NEW q \in Packages, NEW s \in Specs, EditSpec(q, s) PROVE PackageStep(p)
  BY <1>5, WritePackageStep DEF EditSpec, PackageStep, Edited
<1>6. ASSUME NEW q \in Packages, DeletePackage(q) PROVE PackageStep(p)
  <2>1. CASE WritePackage(q, [pkgs[q] EXCEPT !.deleting = TRUE, !.gen = @ + 1])
    BY <1>6, <2>1, WritePackageStep DEF DeletePackage, PackageStep, Terminated
  <2>2. CASE pkgs' = [pkgs EXCEPT ![q] = NoPackage] /\ UNCHANGED rev
    BY <1>6, <2>2 DEF DeletePackage, PackageStep, Removed, Untouched, TypeOK
  <2> QED BY <1>6, <2>1, <2>2 DEF DeletePackage
<1>7. ASSUME NEW q \in Packages, FinishDeletion(q) PROVE PackageStep(p)
  <2>1. Exists(q)
    BY <1>7 DEF FinishDeletion, Exists, Versions, NoPackage
  <2> QED BY <1>7, <2>1 DEF FinishDeletion, PackageStep, Removed, Untouched, TypeOK
<1>8. CASE UNCHANGED vars
  BY <1>0, <1>8 DEF vars
<1>9. CASE Next
  <2>1. CASE Render \/ Apply \/ List \/ Delete
    BY <1>0, <2>1 DEF Render, Apply, List, Delete
  <2>2. ASSUME NEW q \in Packages, Start(q) \/ DeliverPackage(q) PROVE PackageStep(p)
    BY <1>0, <2>2 DEF Start, DeliverPackage
  <2>3. ASSUME NEW k \in Keys, DeliverObject(k) \/ Collect(k) \/ Drift(k) PROVE PackageStep(p)
    BY <1>0, <2>3 DEF DeliverObject, Collect, Drift
  <2>4. CASE DeliverConfig \/ Crash
    BY <1>0, <2>4 DEF DeliverConfig, Crash
  <2>5. ASSUME NEW c \in ConfigMaps, EditConfig(c) PROVE PackageStep(p)
    BY <1>0, <2>5 DEF EditConfig
  <2>6. ASSUME NEW ports \in ServicePorts, EditService(ports) PROVE PackageStep(p)
    BY <1>0, <2>6 DEF EditService
  <2> QED BY <1>9, <1>1, <1>2, <1>4, <1>5, <1>6, <1>7,
             <2>1, <2>2, <2>3, <2>4, <2>5, <2>6 DEF Next, WorkerStep
<1> QED BY <1>8, <1>9

\* After any such step the live Package has a resourceVersion that was given out,
\* and a copy that was a version before is one still.
LEMMA CopySurvives ==
  ASSUME TypeInv, TypeInv', Versions, NEW p \in Packages, PackageStep(p)
  PROVE  /\ pkgs'[p].rv <= rev'[p] /\ rev[p] <= rev'[p]
         /\ pkgs'[p].uid = 0 => pkgs'[p] = NoPackage
         /\ \A copy \in Package : copy.uid # 0 /\ copy.rv <= rev[p] /\ SameVersion(copy, pkgs[p])
              => copy.rv <= rev'[p] /\ SameVersion(copy, pkgs'[p])
<1>t. /\ rev[p] \in Nat /\ pkgs[p] \in Package /\ pkgs[p].rv \in Nat /\ pkgs[p].rv <= rev[p]
      /\ rev'[p] \in Nat /\ pkgs'[p] \in Package
      /\ \A copy \in Package : copy.rv \in Nat
  BY DEF TypeInv, TypeOK, Package, Versions
<1>1. CASE Untouched(p)
  BY <1>1, <1>t DEF Untouched, Versions
<1>2. CASE Removed(p)
  BY <1>2, <1>t DEF Removed, SameVersion, NoPackage
<1>3. ASSUME NEW c \in Package, c.uid # 0, Written(p, c)
      PROVE  /\ pkgs'[p].rv = rev[p] + 1 /\ rev'[p] = rev[p] + 1
             /\ pkgs'[p].uid # 0
  BY <1>3 DEF Written, Package
<1>4. CASE \E c \in Package : c.uid # 0 /\ Written(p, c)
  BY <1>3, <1>4, <1>t DEF SameVersion
<1>5. CASE Created(p)
  <2>1. PICK s \in Specs :
          Written(p, [NoPackage EXCEPT !.uid = rev[p] + 1, !.gen = 1, !.spec = s])
    BY <1>5 DEF Created
  <2> DEFINE c == [NoPackage EXCEPT !.uid = rev[p] + 1, !.gen = 1, !.spec = s]
  <2>2. rev[p] + 1 \in Nat /\ rev[p] + 1 # 0
    BY <1>t
  <2>3. c \in Package /\ c.uid # 0
    BY <2>2, DefaultTypes, EditedPackageType DEF NoPackage
  <2> QED BY <2>1, <2>3, <1>4
<1>6. CASE Edited(p)
  <2>1. PICK s \in Specs : Written(p, [pkgs[p] EXCEPT !.gen = @ + 1, !.spec = s])
    BY <1>6 DEF Edited
  <2> DEFINE c == [pkgs[p] EXCEPT !.gen = @ + 1, !.spec = s]
  <2>2. c \in Package
    BY <1>t, EditedPackageType
  <2>3. c.uid # 0
    BY <1>6, <1>t DEF Edited, Exists, Package
  <2> QED BY <2>1, <2>2, <2>3, <1>4
<1>7. CASE Terminated(p)
  <2> DEFINE c == [pkgs[p] EXCEPT !.deleting = TRUE, !.gen = @ + 1]
  <2>1. c \in Package
    <3> AnySpec \in Specs
      BY SpecsAssumption DEF AnySpec
    <3> QED BY <1>t, EditedPackageType
  <2>2. c.uid # 0
    BY <1>7, <1>t DEF Terminated, Exists, Package
  <2> QED BY <1>7, <2>1, <2>2, <1>4 DEF Terminated
<1>8. ASSUME NEW x, NEW st, StatusWritten(p, x, st)
      PROVE  /\ pkgs'[p].rv = rev[p] + 1 /\ rev'[p] = rev[p] + 1 /\ pkgs'[p].uid # 0
  BY <1>8, <1>t DEF StatusWritten, Written, Exists, Package
<1>9. CASE \E x, st : StatusWritten(p, x, st)
  BY <1>8, <1>9, <1>t DEF SameVersion
<1> QED
  BY <1>1, <1>2, <1>5, <1>6, <1>7, <1>9
  DEF PackageStep, Marked, JudgedReady, JudgedFailed

\* Every step keeps Versions.
LEMMA VersionsStep ==
  ASSUME TypeInv, TypeInv', Versions, [Next]_vars
  PROVE  Versions'
<1> USE DEF api, caches
<1> TypeOK
  BY DEF TypeInv
<1>a. \A p \in Packages : PackageStep(p)
  BY NextIsPackageStep
<1>b. \A p \in Packages :
        /\ pkgs'[p].rv <= rev'[p] /\ rev[p] <= rev'[p]
        /\ pkgs'[p].uid = 0 => pkgs'[p] = NoPackage
        /\ \A copy \in Package : copy.uid # 0 /\ copy.rv <= rev[p] /\ SameVersion(copy, pkgs[p])
             => copy.rv <= rev'[p] /\ SameVersion(copy, pkgs'[p])
  BY <1>a, CopySurvives
<1>t. /\ \A p \in Packages : /\ rev[p] \in Nat /\ rev'[p] \in Nat
                             /\ pkgs[p] \in Package /\ cPkgs[p] \in Package
                             /\ pkgs[p].rv \in Nat /\ cPkgs[p].rv \in Nat
      /\ \A x \in Calls : x.pkg \in Packages /\ x.snap \in Package
      /\ w \in Calls
  BY DEF TypeInv, TypeOK, Worker, Package, Calls
<1>c. \A p \in Packages : /\ cPkgs'[p].rv <= rev'[p]
                          /\ cPkgs'[p].uid # 0 => SameVersion(cPkgs'[p], pkgs'[p])
  <2>1. ASSUME NEW p \in Packages, cPkgs'[p] = cPkgs[p]
        PROVE  /\ cPkgs'[p].rv <= rev'[p]
               /\ cPkgs'[p].uid # 0 => SameVersion(cPkgs'[p], pkgs'[p])
    BY <2>1, <1>b, <1>t DEF Versions
  <2>2. ASSUME NEW p \in Packages, cPkgs'[p] = pkgs[p], pkgs'[p] = pkgs[p]
        PROVE  /\ cPkgs'[p].rv <= rev'[p]
               /\ cPkgs'[p].uid # 0 => SameVersion(cPkgs'[p], pkgs'[p])
    BY <2>2, <1>b DEF SameVersion
  <2>3. \A p \in Packages : cPkgs'[p] = cPkgs[p] \/ (cPkgs'[p] = pkgs[p] /\ pkgs'[p] = pkgs[p])
    <3>1. CASE UNCHANGED cPkgs
      BY <3>1
    <3>2. CASE Crash
      BY <3>2 DEF Crash
    <3>3. ASSUME NEW q \in Packages, DeliverPackage(q)
          PROVE  \A p \in Packages :
                   cPkgs'[p] = cPkgs[p] \/ (cPkgs'[p] = pkgs[p] /\ pkgs'[p] = pkgs[p])
      BY <3>3 DEF DeliverPackage, TypeOK
    <3>4. CASE UNCHANGED vars
      BY <3>1, <3>4 DEF vars
    <3>5. CASE WorkerStep
      BY <3>1, <3>5 DEF WorkerStep, MarkReconciling, Render, Apply, List, Delete, MarkReady, MarkFailed
    <3> QED
      BY <3>1, <3>2, <3>3, <3>4, <3>5
      DEF Next, Start, DeletePackage, FinishDeletion, CreatePackage, EditSpec, DeliverObject,
          Collect, Drift, DeliverConfig, EditConfig, EditService, Land
  <2> QED BY <2>1, <2>2, <2>3
<1>d. /\ w'.pc # "idle" =>
           /\ w'.snap.uid # 0 /\ ~w'.snap.deleting /\ w'.snap.rv <= rev'[w'.pkg]
           /\ SameVersion(w'.snap, pkgs'[w'.pkg])
      /\ w'.pc = "mark" => w'.snap.gen # w'.snap.st.observed
  <2>1. CASE w'.pc = "idle"
    BY <2>1
  <2>2. CASE /\ w.pc # "idle" /\ w'.snap = w.snap /\ w'.pkg = w.pkg
             /\ w'.pc = "mark" => w.pc = "mark"
    BY <2>2, <1>b, <1>t DEF Versions
  <2>3. ASSUME NEW p \in Packages, Start(p), w' # w
        PROVE  <1>d!1 /\ <1>d!2
    <3>1. /\ w' = [Idle EXCEPT !.pkg = p, !.snap = cPkgs[p],
                     !.pc = IF cPkgs[p].gen # cPkgs[p].st.observed THEN "mark" ELSE "render"]
          /\ cPkgs[p].uid # 0 /\ ~cPkgs[p].deleting
      BY <2>3 DEF Start
    <3>2. /\ w'.pkg = p /\ w'.snap = cPkgs[p]
          /\ w'.pc = "mark" => cPkgs[p].gen # cPkgs[p].st.observed
      BY <3>1 DEF Idle
    <3> QED BY <3>1, <3>2, <1>b, <1>t DEF Versions
  <2>4. ASSUME MarkReconciling, ~Retry
        PROVE  <1>d!1 /\ <1>d!2
    <3>1. /\ w.pc = "mark" /\ WriteStatus(w)
          /\ w' = [w EXCEPT !.pc = "render", !.snap = pkgs'[w.pkg]]
      BY <2>4 DEF MarkReconciling
    <3>2. w.snap = pkgs[w.pkg] /\ (Untouched(w.pkg) \/ StatusWritten(w.pkg, w, NewStatus(w)))
      BY <3>1, <1>t, WriteStatusStep
    <3>3. pkgs'[w.pkg].uid # 0 /\ ~pkgs'[w.pkg].deleting
      BY <3>1, <3>2, <1>t DEF Untouched, StatusWritten, Written, Versions, Exists, Package
    <3>4. w'.pc = "render" /\ w'.pkg = w.pkg /\ w'.snap = pkgs'[w.pkg]
      BY <3>1 DEF TypeOK, Worker
    <3> QED BY <3>3, <3>4, <1>b, <1>t DEF SameVersion
  <2>5. CASE Retry \/ w' = Idle
    <3>1. w' = Idle
      BY <2>5 DEF Retry
    <3>2. w'.pc = "idle"
      BY <3>1 DEF Idle
    <3> QED BY <2>1, <3>2
  <2>6. CASE UNCHANGED w
    BY <2>1, <2>2, <2>6
  <2>7. CASE Render \/ Apply \/ List \/ Delete
    <3>1. w.pc \in {"render", "apply", "list", "delete"} /\ w'.snap = w.snap /\ w'.pkg = w.pkg
      BY <2>7 DEF Render, Apply, List, Delete, Fail, PruneNext, TypeOK, Worker
    <3>2. w'.pc # "mark"
      BY <2>7 DEF Render, Apply, List, Delete, Fail, PruneNext, AfterApply, TypeOK, Worker
    <3> QED BY <2>2, <3>1, <3>2
  <2>8. CASE MarkReady \/ MarkFailed
    BY <2>5, <2>8 DEF MarkReady, MarkFailed
  <2>9. CASE WorkerStep
    BY <2>4, <2>5, <2>7, <2>8, <2>9 DEF WorkerStep
  <2> QED
    BY <2>3, <2>5, <2>6, <2>9
    DEF Next, vars, DeliverPackage, DeletePackage, FinishDeletion, CreatePackage, EditSpec,
        DeliverObject, Collect, Drift, DeliverConfig, EditConfig, EditService, Crash, Land
<1>e. ASSUME NEW x \in Calls
      PROVE  /\ x.pc # "idle" =>
                  /\ x.snap.uid # 0 /\ ~x.snap.deleting /\ x.snap.rv <= rev'[x.pkg]
                  /\ SameVersion(x.snap, pkgs'[x.pkg])
             /\ x.pc = "mark" => x.snap.gen # x.snap.st.observed
  BY <1>b, <1>t DEF Versions
<1>f. Calls' \subseteq Calls \cup {w'}
  BY LateStep DEF Calls
<1> QED
  BY <1>b, <1>c, <1>d, <1>e, <1>f DEF Versions

-----------------------------------------------------------------------------
(* The conditions of a Package. *)

\* The status of a Package that has just been created.
LEMMA NoStatusConsistent == \A gen \in Nat : Consistent(gen, NoStatus)
<1>1. \A t \in ConditionTypes : NoStatus.conds[t] = NoCondition
  BY DEF NoStatus
<1>2. /\ NoStatus.observed = 0 /\ NoCondition.status = "absent" /\ NoCondition.observed = 0
      /\ "Ready" \in ConditionTypes /\ "Stalled" \in ConditionTypes
      /\ "Reconciling" \in ConditionTypes
  BY DEF NoStatus, NoCondition, ConditionTypes
<1> QED BY <1>1, <1>2 DEF Consistent, Holds

\* markReconciling, markFailed and markReady make a consistent status of a
\* consistent one.
LEMMA MarksConsistent ==
  ASSUME NEW gen \in Nat, NEW st \in Status, Consistent(gen, st)
  PROVE  /\ gen # st.observed => Consistent(gen, markReconciling(st, gen))
         /\ \A reason \in Reasons : Consistent(gen, markFailed(st, gen, reason))
         /\ \A emitted \in SUBSET Keys : Consistent(gen, markReady(st, gen, emitted))
<1>t. /\ st.observed \in Nat /\ st.conds \in [ConditionTypes -> Condition]
      /\ "Ready" \in ConditionTypes /\ "Stalled" \in ConditionTypes
      /\ "Reconciling" \in ConditionTypes
  BY DEF Status, ConditionTypes
<1>1. ASSUME gen # st.observed
      PROVE  Consistent(gen, markReconciling(st, gen))
  <2> DEFINE new == markReconciling(st, gen)
  <2>2. /\ new.observed = st.observed
        /\ new.conds["Ready"] = st.conds["Ready"]
        /\ new.conds["Stalled"] = st.conds["Stalled"]
    BY <1>t DEF markReconciling, setCondition, Status
  <2>3. st.observed < gen
    BY <1>1, <1>t DEF Consistent
  <2> QED BY <1>t, <2>2, <2>3 DEF Consistent, Holds
<1>2. ASSUME NEW reason \in Reasons
      PROVE  Consistent(gen, markFailed(st, gen, reason))
  <2> DEFINE new == markFailed(st, gen, reason)
  <2>2. new.observed = gen
    BY <1>t DEF markFailed, Status
  <2>3. /\ new.conds["Ready"].status = "False" /\ new.conds["Ready"].reason = reason
        /\ new.conds["Ready"].observed = gen
        /\ new.conds["Stalled"].status = "True" /\ new.conds["Stalled"].reason = reason
        /\ new.conds["Reconciling"].status = "absent"
    BY <1>t DEF markFailed, Status, setCondition, removeCondition, NoCondition
  <2> QED BY <2>2, <2>3 DEF Consistent, Holds
<1>3. ASSUME NEW emitted \in SUBSET Keys
      PROVE  Consistent(gen, markReady(st, gen, emitted))
  <2> DEFINE new == markReady(st, gen, emitted)
  <2>2. new.observed = gen
    BY DEF markReady
  <2>3. /\ new.conds["Ready"].status = "True" /\ new.conds["Ready"].observed = gen
        /\ new.conds["Stalled"].status = "absent" /\ new.conds["Reconciling"].status = "absent"
    BY <1>t DEF markReady, setCondition, removeCondition, NoCondition
  <2> QED BY <2>2, <2>3 DEF Consistent, Holds
<1> QED BY <1>1, <1>2, <1>3

IInv == TypeInv /\ Versions /\ StatusConsistent

LEMMA ConsistentStep ==
  ASSUME TypeInv, Versions, StatusConsistent, NEW p \in Packages, PackageStep(p)
  PROVE  Consistent(pkgs'[p].gen, pkgs'[p].st)
<1>t. /\ pkgs[p] \in Package /\ pkgs[p].gen \in Nat /\ rev[p] \in Nat
      /\ pkgs[p].st \in Status
      /\ \A x \in Calls : x \in Worker /\ x.reason \in Reasons
  BY DEF TypeInv, TypeOK, Package, Worker, Calls
<1>c. Consistent(pkgs[p].gen, pkgs[p].st)
  BY DEF StatusConsistent
<1>o. pkgs[p].st.observed \in Nat
  BY <1>t DEF Status
<1>k. \A x \in Calls : Keep(x) \in SUBSET Keys
  BY <1>t, NewStatusType
<1>0. NoPackage.st = NoStatus /\ NoPackage.gen = 0
  BY DEF NoPackage
<1>1. CASE Untouched(p)
  BY <1>1, <1>c DEF Untouched
<1>2. CASE Removed(p)
  BY <1>0, <1>2, NoStatusConsistent DEF Removed
<1>3. CASE Created(p)
  <2>1. pkgs'[p].gen = 1 /\ pkgs'[p].st = NoStatus
    BY <1>3 DEF Created, Written, NoPackage
  <2> QED BY <2>1, NoStatusConsistent
<1>4. CASE Edited(p) \/ Terminated(p)
  <2>1. pkgs'[p].gen = pkgs[p].gen + 1 /\ pkgs'[p].st = pkgs[p].st
    BY <1>4, <1>t DEF Edited, Terminated, Written, Package
  <2> QED BY <2>1, <1>t, <1>c, <1>o DEF Consistent
<1>e. ASSUME NEW x, NEW st, StatusWritten(p, x, st)
      PROVE  pkgs'[p].gen = pkgs[p].gen /\ pkgs'[p].st = st
  BY <1>e, <1>t DEF StatusWritten, Written, Package
<1>6. CASE Marked(p)
  <2>2. pkgs[p].gen # pkgs[p].st.observed
    BY <1>6 DEF Marked, StatusWritten, Versions
  <2> QED BY <1>6, <1>e, <1>t, <1>c, <2>2, MarksConsistent DEF Marked
<1>7. CASE JudgedReady(p)
  BY <1>7, <1>e, <1>t, <1>c, <1>k, MarksConsistent DEF JudgedReady
<1>8. CASE JudgedFailed(p)
  BY <1>8, <1>e, <1>t, <1>c, MarksConsistent DEF JudgedFailed
<1> QED BY <1>1, <1>2, <1>3, <1>4, <1>6, <1>7, <1>8 DEF PackageStep

\* The inductive invariant.
THEOREM Invariance == Spec => []IInv
<1>1. ASSUME Init PROVE Versions /\ StatusConsistent
  <2>1. \A p \in Packages : pkgs[p] = NoPackage /\ cPkgs[p] = NoPackage /\ rev[p] = 0
    BY <1>1 DEF Init
  <2>2. /\ NoPackage.rv = 0 /\ NoPackage.uid = 0
        /\ Consistent(NoPackage.gen, NoPackage.st)
    BY NoStatusConsistent DEF NoPackage
  <2>3. Calls = {w} /\ w.pc = "idle"
    BY <1>1 DEF Init, Idle, Calls
  <2> QED BY <2>1, <2>2, <2>3 DEF Versions, StatusConsistent
<1>2. ASSUME TypeInv, TypeInv', Versions, StatusConsistent, [Next]_vars
      PROVE  Versions' /\ StatusConsistent'
  <2>1. \A p \in Packages : Consistent(pkgs'[p].gen, pkgs'[p].st)
    BY <1>2, NextIsPackageStep, ConsistentStep DEF TypeInv
  <2> QED BY <1>2, <2>1, VersionsStep DEF StatusConsistent, Consistent
<1>3. Spec => []TypeInv
  BY TypeCorrect DEF TypeInv
<1> QED
  BY <1>1, <1>2, <1>3, PTL DEF Spec, IInv

\* The conditions of every Package agree with each other, with the observed
\* generation and with the live one, at every moment (StatusConsistent).
THEOREM StatusIsConsistent == Spec => []StatusConsistent
BY Invariance, PTL DEF IInv

-----------------------------------------------------------------------------
(* What a step may never do. *)

\* What the marks do to the observed generation.
LEMMA MarksObserved ==
  ASSUME NEW gen \in Nat, NEW st \in Status
  PROVE  /\ markReconciling(st, gen).observed = st.observed
         /\ \A reason \in Reasons : markFailed(st, gen, reason).observed = gen
         /\ \A emitted \in SUBSET Keys : markReady(st, gen, emitted).observed = gen
BY DEF markReconciling, markFailed, markReady, Status

\* The observed generation of a Package never goes back (ObservedNeverGoesBack):
\* a status is only ever written over the version it was computed from, and a
\* verdict is on a generation at least as new as the last one.
THEOREM ObservedIsMonotonic == Spec => ObservedNeverGoesBack
<1>1. ASSUME IInv, [Next]_vars, NEW p \in Packages, Exists(p), pkgs[p].uid = pkgs'[p].uid
      PROVE  pkgs'[p].st.observed >= pkgs[p].st.observed
  <2>t. /\ TypeInv /\ TypeOK /\ Versions /\ StatusConsistent
        /\ pkgs[p] \in Package /\ pkgs[p].gen \in Nat /\ pkgs[p].st \in Status
        /\ \A x \in Calls : x \in Worker /\ x.reason \in Reasons
    BY <1>1 DEF IInv, TypeInv, TypeOK, Package, Worker, Calls
  <2>o. pkgs[p].st.observed \in Nat /\ pkgs[p].st.observed <= pkgs[p].gen
    BY <2>t DEF Status, StatusConsistent, Consistent
  <2>k. \A x \in Calls : Keep(x) \in SUBSET Keys
    BY <2>t, NewStatusType
  <2>0. PackageStep(p)
    BY <1>1, <2>t, NextIsPackageStep
  <2>1. CASE Untouched(p)
    BY <2>1, <2>o DEF Untouched
  <2>2. CASE Removed(p)
    BY <1>1, <2>2 DEF Removed, Exists, NoPackage
  <2>3. CASE Edited(p) \/ Terminated(p)
    <3>1. pkgs'[p].st = pkgs[p].st
      BY <2>3, <2>t DEF Edited, Terminated, Written, Package
    <3> QED BY <3>1, <2>o
  <2>e. ASSUME NEW x, NEW st, StatusWritten(p, x, st) PROVE pkgs'[p].st = st
    BY <2>e, <2>t DEF StatusWritten, Written, Package
  <2>4. CASE Marked(p)
    BY <2>4, <2>e, <2>t, <2>o, MarksObserved DEF Marked
  <2>5. CASE JudgedReady(p)
    BY <2>5, <2>e, <2>t, <2>o, <2>k, MarksObserved DEF JudgedReady
  <2>6. CASE JudgedFailed(p)
    BY <2>6, <2>e, <2>t, <2>o, MarksObserved DEF JudgedFailed
  <2> QED BY <1>1, <2>0, <2>1, <2>2, <2>3, <2>4, <2>5, <2>6 DEF PackageStep, Created
<1>2. IInv /\ [Next]_vars
        => [\A p \in Packages : Exists(p) /\ pkgs[p].uid = pkgs'[p].uid
              => pkgs'[p].st.observed >= pkgs[p].st.observed]_pkgs
  BY <1>1
<1> QED
  BY <1>2, Invariance, PTL DEF Spec, ObservedNeverGoesBack

-----------------------------------------------------------------------------
(* Refinement: the safety part of what PackageLifecycle promises. *)

\* A step writes at most one Package.
LEMMA OnePackage ==
  ASSUME TypeOK, [Next]_vars
  PROVE  \E p \in Packages : \A q \in Packages \ {p} : pkgs'[q] = pkgs[q]
<1> USE DEF api, caches
<1>a. AnyPackage \in Packages /\ w.pkg \in Packages
  BY PackagesAssumption DEF AnyPackage, TypeOK, Worker
<1>1. CASE UNCHANGED pkgs
  BY <1>1, <1>a
<1>w. ASSUME NEW p \in Packages, NEW c, WritePackage(p, c)
      PROVE  \A q \in Packages \ {p} : pkgs'[q] = pkgs[q]
  BY <1>w DEF WritePackage, TypeOK
<1>s. ASSUME NEW x \in Worker, WriteStatus(x)
      PROVE  \E p \in Packages : \A q \in Packages \ {p} : pkgs'[q] = pkgs[q]
  <2>1. UNCHANGED pkgs \/ WritePackage(x.pkg, [pkgs[x.pkg] EXCEPT !.st = NewStatus(x)])
    BY <1>s DEF WriteStatus
  <2>2. x.pkg \in Packages
    BY DEF Worker
  <2> QED BY <2>1, <2>2, <1>1, <1>w
<1>2. CASE MarkReconciling \/ MarkReady \/ MarkFailed
  <2>1. w \in Worker /\ (WriteStatus(w) \/ UNCHANGED pkgs)
    BY <1>2 DEF MarkReconciling, MarkReady, MarkFailed, StatusUpdateFails, TypeOK
  <2> QED BY <2>1, <1>s, <1>1
<1>3. ASSUME NEW x \in late, Land(x)
      PROVE  \E p \in Packages : \A q \in Packages \ {p} : pkgs'[q] = pkgs[q]
  <2>1. x \in Worker /\ (WriteStatus(x) \/ UNCHANGED pkgs)
    BY <1>3 DEF Land, TypeOK
  <2> QED BY <2>1, <1>s, <1>1
<1>5. CASE Render \/ Apply \/ List \/ Delete
  <2>1. UNCHANGED pkgs
    BY <1>5 DEF Render, Apply, List, Delete
  <2> QED BY <1>1, <2>1
<1>6. CASE WorkerStep
  BY <1>2, <1>5, <1>6 DEF WorkerStep
<1>7. ASSUME NEW p \in Packages, NEW s \in Specs, CreatePackage(p, s) \/ EditSpec(p, s)
      PROVE  \A q \in Packages \ {p} : pkgs'[q] = pkgs[q]
  BY <1>7, <1>w DEF CreatePackage, EditSpec
<1>8. ASSUME NEW p \in Packages, DeletePackage(p) \/ FinishDeletion(p)
      PROVE  \A q \in Packages \ {p} : pkgs'[q] = pkgs[q]
  BY <1>8, <1>w DEF DeletePackage, FinishDeletion, TypeOK
<1> QED
  BY <1>1, <1>3, <1>6, <1>7, <1>8
  DEF Next, vars, Start, DeliverPackage, DeliverObject, Collect, Drift, DeliverConfig,
      EditConfig, EditService, Crash

LifeRecord(stage, gen, judged, verdict) ==
  [stage |-> stage, gen |-> gen, judged |-> judged, verdict |-> verdict]

\* What a step does to the life of a Package.
LEMMA LifeCases ==
  ASSUME TypeInv, Versions, NEW p \in Packages, PackageStep(p)
  PROVE  LET old == LifeOf(pkgs[p])
             new == LifeOf(pkgs'[p])
         IN \/ new = old
            \/ old.stage # "absent" /\ new = LifeRecord("absent", 0, 0, "none")
            \/ old.stage = "absent" /\ new = LifeRecord("live", 1, 0, "none")
            \/ /\ old.stage = "live"
               /\ \/ new = LifeRecord("live", old.gen + 1, old.judged, old.verdict)
                  \/ new = LifeRecord("terminating", old.gen + 1, old.judged, old.verdict)
                  \/ new = LifeRecord("live", old.gen, old.gen, "Ready")
                  \/ new = LifeRecord("live", old.gen, old.gen, "Failed")
<1> DEFINE old == LifeOf(pkgs[p])
           new == LifeOf(pkgs'[p])
<1>t. /\ pkgs[p] \in Package /\ pkgs[p].gen \in Nat /\ pkgs[p].st \in Status
      /\ rev[p] \in Nat
  BY DEF TypeInv, TypeOK, Package, Worker
<1>f. /\ old.gen = pkgs[p].gen /\ old.judged = pkgs[p].st.observed
      /\ old.verdict = Verdict(pkgs[p].st)
  BY DEF LifeOf
<1>l. old.stage = "live" <=> Exists(p) /\ ~pkgs[p].deleting
  BY DEF LifeOf, Exists
<1>a. old.stage = "absent" <=> ~Exists(p)
  BY DEF LifeOf, Exists
<1>n. NoStatus.observed = 0 /\ Verdict(NoStatus) = "none"
  <2>1. \A t \in ConditionTypes : NoStatus.conds[t] = NoCondition
    BY DEF NoStatus
  <2>2. "Ready" \in ConditionTypes /\ NoCondition.status = "absent" /\ NoStatus.observed = 0
    BY DEF NoCondition, ConditionTypes, NoStatus
  <2> QED BY <2>1, <2>2 DEF Verdict
<1>1. CASE Untouched(p)
  BY <1>1 DEF Untouched
<1>2. CASE Removed(p)
  <2>1. new = LifeRecord("absent", 0, 0, "none")
    BY <1>2, <1>n DEF Removed, LifeOf, NoPackage, LifeRecord
  <2> QED BY <1>2, <1>a, <2>1 DEF Removed
<1>3. CASE Created(p)
  <2>0. /\ pkgs'[p].uid = rev[p] + 1 /\ pkgs'[p].gen = 1 /\ pkgs'[p].st = NoStatus
        /\ ~pkgs'[p].deleting
    BY <1>3 DEF Created, Written, NoPackage
  <2>1. pkgs'[p].uid # 0
    BY <2>0, <1>t
  <2>2. new = LifeRecord("live", 1, 0, "none")
    BY <2>0, <2>1, <1>n DEF LifeOf, LifeRecord
  <2> QED BY <1>3, <1>a, <2>2 DEF Created
<1>4. CASE Edited(p)
  <2>1. /\ pkgs'[p].uid = pkgs[p].uid /\ pkgs'[p].gen = pkgs[p].gen + 1
        /\ pkgs'[p].st = pkgs[p].st /\ ~pkgs'[p].deleting
    BY <1>4, <1>t DEF Edited, Written, Package
  <2>2. new = LifeRecord("live", old.gen + 1, old.judged, old.verdict)
    BY <1>4, <1>f, <2>1 DEF Edited, Exists, LifeOf, LifeRecord
  <2> QED BY <1>4, <1>l, <2>2 DEF Edited
<1>5. CASE Terminated(p)
  <2>1. /\ pkgs'[p].uid = pkgs[p].uid /\ pkgs'[p].gen = pkgs[p].gen + 1
        /\ pkgs'[p].st = pkgs[p].st /\ pkgs'[p].deleting
    BY <1>5, <1>t DEF Terminated, Written, Package
  <2>2. new = LifeRecord("terminating", old.gen + 1, old.judged, old.verdict)
    BY <1>5, <1>f, <2>1 DEF Terminated, Exists, LifeOf, LifeRecord
  <2> QED BY <1>5, <1>l, <2>2 DEF Terminated
<1>e. ASSUME NEW x, NEW st, StatusWritten(p, x, st)
      PROVE  old.stage = "live" /\ new = LifeRecord("live", old.gen, st.observed, Verdict(st))
  <2>1. /\ pkgs'[p].uid = pkgs[p].uid /\ pkgs'[p].gen = pkgs[p].gen
        /\ pkgs'[p].st = st /\ ~pkgs'[p].deleting
    BY <1>e, <1>t DEF StatusWritten, Written, Package
  <2>2. new = LifeRecord("live", old.gen, st.observed, Verdict(st))
    BY <1>e, <1>f, <2>1 DEF StatusWritten, Exists, LifeOf, LifeRecord
  <2> QED BY <1>e, <1>l, <2>2 DEF StatusWritten
<1>6. CASE Marked(p)
  <2> DEFINE st == markReconciling(pkgs[p].st, pkgs[p].gen)
  <2>1. st.observed = pkgs[p].st.observed /\ st.conds["Ready"] = pkgs[p].st.conds["Ready"]
    BY <1>t DEF markReconciling, setCondition, Status, ConditionTypes
  <2>2. Verdict(st) = Verdict(pkgs[p].st)
    BY <2>1 DEF Verdict
  <2>3. old.stage = "live" /\ new = LifeRecord("live", old.gen, st.observed, Verdict(st))
    BY <1>6, <1>e DEF Marked
  <2>4. new = LifeRecord(old.stage, old.gen, old.judged, old.verdict)
    BY <1>f, <2>1, <2>2, <2>3
  <2>5. old = LifeRecord(old.stage, old.gen, old.judged, old.verdict)
    BY DEF LifeOf, LifeRecord
  <2> QED BY <2>4, <2>5
<1>7. CASE JudgedReady(p)
  <2>0. PICK x \in Calls : StatusWritten(p, x, markReady(pkgs[p].st, pkgs[p].gen, Keep(x)))
    BY <1>7 DEF JudgedReady
  <2> DEFINE st == markReady(pkgs[p].st, pkgs[p].gen, Keep(x))
  <2>1. st.observed = pkgs[p].gen /\ st.conds["Ready"].status = "True"
    BY <1>t DEF markReady, setCondition, removeCondition, Status, ConditionTypes
  <2>2. Verdict(st) = "Ready"
    BY <2>1 DEF Verdict
  <2>3. old.stage = "live" /\ new = LifeRecord("live", old.gen, st.observed, Verdict(st))
    BY <2>0, <1>e
  <2> QED BY <1>f, <2>1, <2>2, <2>3
<1>8. CASE JudgedFailed(p)
  <2>0. PICK x \in Calls : StatusWritten(p, x, markFailed(pkgs[p].st, pkgs[p].gen, x.reason))
    BY <1>8 DEF JudgedFailed
  <2> DEFINE st == markFailed(pkgs[p].st, pkgs[p].gen, x.reason)
  <2>1. st.observed = pkgs[p].gen /\ st.conds["Ready"].status = "False"
    BY <1>t DEF markFailed, setCondition, removeCondition, Status, ConditionTypes
  <2>2. Verdict(st) = "Failed"
    BY <2>1 DEF Verdict
  <2>3. old.stage = "live" /\ new = LifeRecord("live", old.gen, st.observed, Verdict(st))
    BY <2>0, <1>e
  <2> QED BY <1>f, <2>1, <2>2, <2>3
<1> QED BY <1>1, <1>2, <1>3, <1>4, <1>5, <1>6, <1>7, <1>8 DEF PackageStep

\* The controller implements PackageLifecycle, but for the fairness: every status
\* it writes is a verdict on the generation that is live at that moment, none is
\* written on a Package that is gone or going, and none carries over from a
\* deleted Package to a new one of the same name.
THEOREM RefinesLifecycle == Spec => Lifecycle!Spec
<1> DEFINE L == [p \in Packages |-> LifeOf(pkgs[p])]
<1>1. Init => Lifecycle!Init
  <2> SUFFICES ASSUME Init PROVE Lifecycle!Init
    OBVIOUS
  <2>1. \A t \in ConditionTypes : NoStatus.conds[t] = NoCondition
    BY DEF NoStatus
  <2>2. "Ready" \in ConditionTypes /\ NoCondition.status = "absent" /\ NoStatus.observed = 0
    BY DEF NoCondition, ConditionTypes, NoStatus
  <2>3. Verdict(NoStatus) = "none"
    BY <2>1, <2>2 DEF Verdict
  <2>4. LifeOf(NoPackage) = Lifecycle!NoLife
    BY <2>2, <2>3 DEF LifeOf, NoPackage, Lifecycle!NoLife
  <2>5. \A p \in Packages : pkgs[p] = NoPackage
    BY DEF Init
  <2> QED BY <2>4, <2>5 DEF Lifecycle!Init
<1>2. IInv /\ [Next]_vars => [Lifecycle!Next]_L
  <2> SUFFICES ASSUME IInv, [Next]_vars PROVE [Lifecycle!Next]_L
    OBVIOUS
  <2>t. TypeInv /\ TypeOK /\ Versions
    BY DEF IInv, TypeInv
  <2>1. PICK p \in Packages : \A q \in Packages \ {p} : pkgs'[q] = pkgs[q]
    BY <2>t, OnePackage
  <2>2. \A rec : LifeOf(pkgs'[p]) = rec => L' = [L EXCEPT ![p] = rec]
    BY <2>1
  <2>3. \A stage, gen, judged, verdict :
          LifeOf(pkgs'[p]) = LifeRecord(stage, gen, judged, verdict)
            => Lifecycle!Become(p, stage, gen, judged, verdict)
    BY <2>2 DEF Lifecycle!Become, LifeRecord
  <2>4. L[p] = LifeOf(pkgs[p])
    OBVIOUS
  <2>5. PackageStep(p)
    BY <2>t, NextIsPackageStep
  <2>6. CASE LifeOf(pkgs'[p]) = LifeOf(pkgs[p])
    <3>1. L' = L
      BY <2>1, <2>6
    <3> QED BY <3>1
  <2>7. CASE LifeOf(pkgs'[p]) # LifeOf(pkgs[p])
    <3>1. Lifecycle!Next
      BY <2>3, <2>4, <2>5, <2>7, <2>t, LifeCases
      DEF Lifecycle!Next, Lifecycle!Create, Lifecycle!Edit, Lifecycle!Judge,
          Lifecycle!Terminate, Lifecycle!Remove
    <3> QED BY <3>1
  <2> QED BY <2>6, <2>7
<1> QED
  BY <1>1, <1>2, Invariance, PTL DEF Spec, Lifecycle!Spec

-----------------------------------------------------------------------------
(* A verdict is about the spec it stands beside. *)

Renders(p, spec, keys) ==
  \E i \in Inputs, ports \in KubeAPIPorts :
    GenerateFor[<<p, spec, i, ports>>].ok /\ keys = EmittedKeys(GenerateFor[<<p, spec, i, ports>>])

Refuses(p, spec) ==
  \E i \in Inputs, ports \in KubeAPIPorts : ~GenerateFor[<<p, spec, i, ports>>].ok

\* What a call was made with comes from the spec of the copy behind it...
FromSpec(x) ==
  /\ x.pc \in {"apply", "list", "delete", "ready"} => Renders(x.pkg, x.snap.spec, Keep(x))
  /\ x.pc = "failed" /\ x.reason = "GenerationFailed" => Refuses(x.pkg, x.snap.spec)

WorkFromSpec == \A x \in Calls : FromSpec(x)

\* ... and so was the verdict on the live generation.
VerdictFromSpec(p, c) ==
  c.st.observed = c.gen =>
    /\ c.st.conds["Ready"].status = "True" => Renders(p, c.spec, c.st.applied)
    /\ c.st.conds["Ready"].reason = "GenerationFailed" => Refuses(p, c.spec)

VInv == IInv /\ WorkFromSpec /\ \A p \in Packages : VerdictFromSpec(p, pkgs[p])

LEMMA WorkFromSpecStep ==
  ASSUME IInv, WorkFromSpec, [Next]_vars
  PROVE  WorkFromSpec'
<1> SUFFICES FromSpec(w')
  BY LateStep DEF WorkFromSpec, Calls
<1> USE DEF api, caches
<1> FromSpec(w)
  BY DEF WorkFromSpec, Calls
<1>t. TypeOK /\ w \in Worker /\ w.pkg \in Packages /\ w.snap \in Package /\ w.snap.spec \in Specs
  BY DEF IInv, TypeInv, TypeOK, Worker, Package
<1>0. ASSUME w'.pc \in {"idle", "mark", "render"} PROVE FromSpec(w')
  BY <1>0 DEF FromSpec
<1>1. CASE UNCHANGED w
  BY <1>1
<1>2. CASE Retry \/ w' = Idle
  <2>1. w' = Idle
    BY <1>2 DEF Retry
  <2>2. w'.pc = "idle"
    BY <2>1 DEF Idle
  <2> QED BY <1>0, <2>2
<1>3. ASSUME NEW p \in Packages, Start(p) PROVE FromSpec(w')
  <2>1. w' = w \/ w'.pc \in {"mark", "render"}
    BY <1>3 DEF Start, Idle
  <2> QED BY <1>0, <1>1, <2>1
<1>4. CASE MarkReconciling
  <2>1. w'.pc = "render" \/ Retry
    BY <1>4, <1>t DEF MarkReconciling, Worker
  <2> QED BY <1>0, <1>2, <2>1
<1>5. CASE MarkReady \/ MarkFailed
  BY <1>2, <1>5 DEF MarkReady, MarkFailed
<1>6. CASE Render
  <2>1. PICK readable, reachable \in BOOLEAN :
          LET out == GenerateFor[<<w.pkg, w.snap.spec, sharedConfig(readable, cCfg),
                                kubeAPIPorts(w.snap.spec, reachable)>>]
          IN w' = IF ~out.ok
                    THEN [w EXCEPT !.pc = "failed", !.reason = "GenerationFailed"]
                    ELSE [w EXCEPT !.desired = out.objs, !.next = 1,
                            !.kinds = KindsToList,
                            !.pc = IF out.objs = <<>> THEN AfterApply ELSE "apply"]
    BY <1>6 DEF Render
  <2> DEFINE i == sharedConfig(readable, cCfg)
             ports == kubeAPIPorts(w.snap.spec, reachable)
             out == GenerateFor[<<w.pkg, w.snap.spec, i, ports>>]
  <2>2. i \in Inputs /\ ports \in KubeAPIPorts
    <3>1. i \in Inputs
      BY <1>t, SharedConfigType DEF TypeOK
    <3>2. ports \in KubeAPIPorts
      BY <1>t DEF kubeAPIPorts, KubeAPIPorts, TypeOK
    <3> QED BY <3>1, <3>2
  <2> HIDE DEF i, ports
  <2>3. CASE ~out.ok
    <3>1. /\ w'.pc = "failed" /\ w'.pkg = w.pkg /\ w'.snap = w.snap
      BY <2>1, <2>3, <1>t DEF Worker, i, ports
    <3>2. Refuses(w.pkg, w.snap.spec)
      BY <2>2, <2>3 DEF Refuses
    <3> QED BY <3>1, <3>2 DEF FromSpec
  <2>4. CASE out.ok
    <3>1. /\ w'.pc # "failed" /\ w'.pkg = w.pkg /\ w'.snap = w.snap
          /\ w'.desired = out.objs
      BY <2>1, <2>4, <1>t DEF Worker, AfterApply, i, ports
    <3>2. Keep(w') = EmittedKeys(out)
      BY <3>1 DEF Keep, EmittedKeys
    <3>3. Renders(w.pkg, w.snap.spec, Keep(w'))
      BY <2>2, <2>4, <3>2 DEF Renders
    <3> QED BY <3>1, <3>3 DEF FromSpec
  <2> QED BY <2>3, <2>4
<1>7. CASE Apply \/ List \/ Delete
  <2>1. /\ w.pc \in {"apply", "list", "delete"}
        /\ w'.pkg = w.pkg /\ w'.snap = w.snap /\ w'.desired = w.desired
        /\ w'.pc = "failed" => w'.reason \in {"ApplyFailed", "PruneFailed"}
    BY <1>7, <1>t DEF Apply, List, Delete, Fail, PruneNext, AfterApply, Worker
  <2>2. Keep(w') = Keep(w)
    BY <2>1 DEF Keep
  <2> QED BY <2>1, <2>2 DEF FromSpec
<1>8. CASE WorkerStep
  BY <1>4, <1>5, <1>6, <1>7, <1>8 DEF WorkerStep
<1> QED
  BY <1>1, <1>2, <1>3, <1>8
  DEF Next, vars, DeliverPackage, DeletePackage, FinishDeletion, CreatePackage, EditSpec,
      DeliverObject, Collect, Drift, DeliverConfig, EditConfig, EditService, Crash, Land

LEMMA VerdictFromSpecStep ==
  ASSUME IInv, WorkFromSpec, NEW p \in Packages, VerdictFromSpec(p, pkgs[p]), PackageStep(p)
  PROVE  VerdictFromSpec(p, pkgs'[p])
<1>t. /\ pkgs[p] \in Package /\ pkgs[p].gen \in Nat /\ pkgs[p].st \in Status
      /\ pkgs[p].st.conds \in [ConditionTypes -> Condition] /\ "Ready" \in ConditionTypes
  BY DEF IInv, TypeInv, TypeOK, Package, Status, ConditionTypes
<1>o. pkgs[p].st.observed \in Nat /\ pkgs[p].st.observed <= pkgs[p].gen
  BY <1>t DEF Status, IInv, StatusConsistent, Consistent
<1>1. CASE Untouched(p)
  BY <1>1 DEF Untouched
<1>2. CASE Removed(p)
  <2>1. \A t \in ConditionTypes : NoStatus.conds[t] = NoCondition
    BY DEF NoStatus
  <2>2. NoCondition.status = "absent" /\ NoCondition.reason = "" /\ NoPackage.st = NoStatus
    BY DEF NoCondition, NoPackage
  <2> QED BY <1>2, <1>t, <2>1, <2>2 DEF Removed, VerdictFromSpec
<1>3. CASE Created(p)
  <2>1. pkgs'[p].gen = 1 /\ pkgs'[p].st = NoStatus /\ NoStatus.observed = 0
    BY <1>3 DEF Created, Written, NoPackage, NoStatus
  <2> QED BY <2>1 DEF VerdictFromSpec
<1>4. CASE Edited(p) \/ Terminated(p)
  <2>1. pkgs'[p].gen = pkgs[p].gen + 1 /\ pkgs'[p].st = pkgs[p].st
    BY <1>4, <1>t DEF Edited, Terminated, Written, Package
  <2> QED BY <2>1, <1>t, <1>o DEF VerdictFromSpec
<1>e. ASSUME NEW x, NEW st, StatusWritten(p, x, st)
      PROVE  /\ pkgs'[p].gen = pkgs[p].gen /\ pkgs'[p].st = st /\ pkgs'[p].spec = pkgs[p].spec
             /\ x.pkg = p /\ x.snap = pkgs[p]
  BY <1>e, <1>t DEF StatusWritten, Written, Package
<1>6. CASE Marked(p)
  <2> DEFINE st == markReconciling(pkgs[p].st, pkgs[p].gen)
  <2>1. /\ st.observed = pkgs[p].st.observed /\ st.applied = pkgs[p].st.applied
        /\ st.conds["Ready"] = pkgs[p].st.conds["Ready"]
    BY <1>t DEF markReconciling, setCondition, Status
  <2>2. pkgs'[p].gen = pkgs[p].gen /\ pkgs'[p].st = st /\ pkgs'[p].spec = pkgs[p].spec
    BY <1>6, <1>e DEF Marked
  <2> QED BY <2>1, <2>2 DEF VerdictFromSpec
<1>7. CASE JudgedReady(p)
  <2>0. PICK x \in Calls :
          x.pc = "ready" /\ StatusWritten(p, x, markReady(pkgs[p].st, pkgs[p].gen, Keep(x)))
    BY <1>7 DEF JudgedReady
  <2> DEFINE st == markReady(pkgs[p].st, pkgs[p].gen, Keep(x))
  <2>1. /\ st.applied = Keep(x)
        /\ st.conds["Ready"].status = "True" /\ st.conds["Ready"].reason = "ResourcesApplied"
    BY <1>t DEF markReady, setCondition, removeCondition
  <2>2. pkgs'[p].st = st /\ pkgs'[p].spec = pkgs[p].spec /\ x.pkg = p /\ x.snap = pkgs[p]
    BY <2>0, <1>e
  <2>3. Renders(p, pkgs[p].spec, Keep(x))
    BY <2>0, <2>2 DEF WorkFromSpec, FromSpec
  <2> QED BY <2>1, <2>2, <2>3 DEF VerdictFromSpec
<1>8. CASE JudgedFailed(p)
  <2>0. PICK x \in Calls :
          x.pc = "failed" /\ StatusWritten(p, x, markFailed(pkgs[p].st, pkgs[p].gen, x.reason))
    BY <1>8 DEF JudgedFailed
  <2> DEFINE st == markFailed(pkgs[p].st, pkgs[p].gen, x.reason)
  <2>1. st.conds["Ready"].status = "False" /\ st.conds["Ready"].reason = x.reason
    BY <1>t DEF markFailed, setCondition, removeCondition, Status
  <2>2. pkgs'[p].st = st /\ pkgs'[p].spec = pkgs[p].spec /\ x.pkg = p /\ x.snap = pkgs[p]
    BY <2>0, <1>e
  <2>3. x.reason = "GenerationFailed" => Refuses(p, pkgs[p].spec)
    BY <2>0, <2>2 DEF WorkFromSpec, FromSpec
  <2> QED BY <2>1, <2>2, <2>3 DEF VerdictFromSpec
<1> QED BY <1>1, <1>2, <1>3, <1>4, <1>6, <1>7, <1>8 DEF PackageStep

\* A verdict on the live generation was reached from the live spec
\* (VerdictReflectsSpec), whatever edits landed while Reconcile was at work.
THEOREM VerdictIsFromSpec == Spec => []VerdictReflectsSpec
<1>1. ASSUME Init, IInv PROVE VInv
  <2>1. \A p \in Packages : pkgs[p] = NoPackage
    BY <1>1 DEF Init
  <2>2. \A t \in ConditionTypes : NoStatus.conds[t] = NoCondition
    BY DEF NoStatus
  <2>3. /\ NoCondition.status = "absent" /\ NoCondition.reason = "" /\ NoPackage.st = NoStatus
        /\ "Ready" \in ConditionTypes
    BY DEF NoCondition, NoPackage, ConditionTypes
  <2>4. \A p \in Packages : VerdictFromSpec(p, pkgs[p])
    BY <2>1, <2>2, <2>3 DEF VerdictFromSpec
  <2>5. WorkFromSpec
    <3>1. Calls = {w} /\ w.pc = "idle"
      BY <1>1 DEF Init, Idle, Calls
    <3> QED BY <3>1 DEF WorkFromSpec, FromSpec
  <2> QED BY <1>1, <2>4, <2>5 DEF VInv
<1>2. ASSUME VInv, IInv', [Next]_vars PROVE VInv'
  <2>1. \A p \in Packages : VerdictFromSpec(p, pkgs'[p])
    BY <1>2, NextIsPackageStep, VerdictFromSpecStep DEF VInv, IInv, TypeInv
  <2>2. WorkFromSpec'
    BY <1>2, WorkFromSpecStep DEF VInv
  <2> QED BY <1>2, <2>1, <2>2 DEF VInv, VerdictFromSpec
<1>3. VInv => VerdictReflectsSpec
  <2> SUFFICES ASSUME VInv, NEW p \in Packages
               PROVE  LET phase == KStatus(pkgs[p].gen, pkgs[p].deleting, pkgs[p].st)
                      IN /\ phase = "Current" => Renders(p, pkgs[p].spec, pkgs[p].st.applied)
                         /\ phase = "Failed" /\ pkgs[p].st.conds["Ready"].reason = "GenerationFailed"
                              => Refuses(p, pkgs[p].spec)
    BY DEF VerdictReflectsSpec, Renders, Refuses
  <2>1. VerdictFromSpec(p, pkgs[p])
    BY DEF VInv
  <2> QED BY <2>1 DEF VerdictFromSpec, KStatus, Holds
<1> QED
  BY <1>1, <1>2, <1>3, Invariance, PTL DEF Spec
=============================================================================
