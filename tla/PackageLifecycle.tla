-------------------------- MODULE PackageLifecycle --------------------------
(***************************************************************************)
(* What a Package's status promises to those who watch it.  A Package has  *)
(* a generation, which every change of its spec increases; now and then    *)
(* the operator judges it.  A verdict is about the generation that is      *)
(* there when it is given; a Package being deleted is judged no more; and  *)
(* a generation that stays is eventually judged.                           *)
(*                                                                         *)
(* PackageController implements this specification.                        *)
(***************************************************************************)
EXTENDS Integers

CONSTANT Packages

VARIABLE life

Verdicts == {"none", "Ready", "Failed"}

Life == [stage : {"absent", "live", "terminating"}, gen : Nat,
         judged : Nat, verdict : Verdicts]
NoLife == [stage |-> "absent", gen |-> 0, judged |-> 0, verdict |-> "none"]

Init == life = [p \in Packages |-> NoLife]

Become(p, stage, gen, judged, verdict) ==
  life' = [life EXCEPT ![p] = [stage |-> stage, gen |-> gen,
                               judged |-> judged, verdict |-> verdict]]

Create(p) == life[p].stage = "absent" /\ Become(p, "live", 1, 0, "none")

\* The old verdict stays, on record for the generation it was about.
Edit(p) ==
  life[p].stage = "live" /\ Become(p, "live", life[p].gen + 1, life[p].judged, life[p].verdict)

Judge(p) ==
  /\ life[p].stage = "live"
  /\ \E v \in {"Ready", "Failed"} : Become(p, "live", life[p].gen, life[p].gen, v)

Terminate(p) ==
  /\ life[p].stage = "live"
  /\ Become(p, "terminating", life[p].gen + 1, life[p].judged, life[p].verdict)

Remove(p) == life[p].stage # "absent" /\ Become(p, "absent", 0, 0, "none")

Next == \E p \in Packages :
          Create(p) \/ Edit(p) \/ Judge(p) \/ Terminate(p) \/ Remove(p)

Spec == Init /\ [][Next]_life

FirstJudgement(p) == life[p].judged # life[p].gen /\ Judge(p)

FairSpec == Spec /\ \A p \in Packages : WF_life(FirstJudgement(p))
=============================================================================
