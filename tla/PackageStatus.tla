--------------------------- MODULE PackageStatus ---------------------------
(***************************************************************************)
(* The status subresource of a Package (api/v1alpha1/package_types.go) and *)
(* the functions of internal/controller/status.go that rewrite it.  They   *)
(* work on the reconciler's in-memory copy of the object; sending the copy *)
(* to the API server is the business of PackageController.                 *)
(*                                                                         *)
(* A condition carries no message: a message is a function of the reason   *)
(* and of the generation, which are both kept.  LastTransitionTime is one  *)
(* bit, since all that matters of a time is whether it differs from the    *)
(* one that was there before.                                              *)
(***************************************************************************)
EXTENDS Integers

CONSTANT Keys        \* the objects that can be listed in appliedResources

ConditionTypes == {"Ready", "Stalled", "Reconciling"}

Reasons == {"", "Progressing", "ResourcesApplied",
            "GenerationFailed", "ApplyFailed", "PruneFailed"}

FailureReasons == {"GenerationFailed", "ApplyFailed", "PruneFailed"}

Condition == [status : {"absent", "True", "False"}, reason : Reasons,
              observed : Nat, since : {0, 1}]

NoCondition == [status |-> "absent", reason |-> "", observed |-> 0, since |-> 0]

Status == [observed : Nat, conds : [ConditionTypes -> Condition],
           applied : SUBSET Keys]

NoStatus == [observed |-> 0, applied |-> {},
             conds    |-> [t \in ConditionTypes |-> NoCondition]]

-----------------------------------------------------------------------------
\* metav1.Now(): some time other than the one the existing condition bears.
Now(existing) == 1 - existing.since

\* setCondition: replace the condition of that type, and keep the time of its
\* last transition when its status is what it was.
setCondition(conds, type, status, reason, gen) ==
  LET existing == conds[type]
  IN [conds EXCEPT ![type] =
        [status |-> status, reason |-> reason, observed |-> gen,
         since  |-> IF existing.status = status THEN existing.since
                                                ELSE Now(existing)]]

\* removeCondition: an absent condition means "not applicable".
removeCondition(conds, type) == [conds EXCEPT ![type] = NoCondition]

\* A mutant: the generation counts as observed as soon as it is worked on.
markReconciling_StampsObserved(st, gen) ==
  [st EXCEPT !.observed = gen,
             !.conds = setCondition(@, "Reconciling", "True", "Progressing", gen)]

\* markReconciling: nothing but the Reconciling condition changes.
markReconciling(st, gen) ==
  [st EXCEPT !.conds = setCondition(@, "Reconciling", "True", "Progressing", gen)]

\* markFailed: the generation counts as observed although it was not applied;
\* appliedResources stays what the last successful pass made it.
markFailed(st, gen, reason) ==
  [st EXCEPT
     !.observed = gen,
     !.conds = removeCondition(
                 setCondition(setCondition(@, "Ready", "False", reason, gen),
                              "Stalled", "True", reason, gen),
                 "Reconciling")]

\* A mutant: Stalled stays when the failure is over.
markReady_LeavesStalled(st, gen, emitted) ==
  [observed |-> gen, applied |-> emitted,
   conds |-> removeCondition(
               setCondition(st.conds, "Ready", "True", "ResourcesApplied", gen),
               "Reconciling")]

\* markReady, with summarize: the sorted list of what was emitted is its set.
markReady(st, gen, emitted) ==
  [observed |-> gen, applied |-> emitted,
   conds |-> removeCondition(
               removeCondition(
                 setCondition(st.conds, "Ready", "True", "ResourcesApplied", gen),
                 "Stalled"),
               "Reconciling")]

-----------------------------------------------------------------------------
\* What a watcher that follows the kstatus conventions makes of a status
\* (the table of docs/controller.md; the computation itself is cli-utils').
Holds(st, type) == st.conds[type].status = "True"

KStatus(gen, deleting, st) ==
  IF deleting THEN "Terminating"
  ELSE IF st.observed # gen \/ Holds(st, "Reconciling") THEN "InProgress"
  ELSE IF Holds(st, "Stalled") THEN "Failed"
  ELSE IF Holds(st, "Ready") THEN "Current"
  ELSE "InProgress"
=============================================================================
