-------------------------- MODULE RunnerRefinement --------------------------
(***************************************************************************)
(* Runner implements SingleUse. The mapping reads only what survives a     *)
(* crash, state.json, and what really happened to the commands.            *)
(***************************************************************************)
EXTENDS RunnerProperties

\* A job that holds a slot is told from what else a slot may be.
ASSUME SlotMarks == Job \cap {"none", "free", "gone"} = {}

Decision == 1..MaxSerial

LifeOf == [j \in Job |->
  IF starts[j] > 0
  THEN CASE effect[j] = "none"    -> "started"
         [] effect[j] = "ok"      -> "succeeded"
         [] effect[j] = "err"     -> "failed"
         [] effect[j] = "unknown" -> "unknown"
  ELSE CASE disk.jobs[j] \in Waiting  -> "new"
         [] disk.jobs[j] \in Refused  -> "refused"
         [] disk.jobs[j] = "failed"   -> "failed"
         [] OTHER                     -> "accepted"]

InForce(d) == {t \in Tool : disk.grants[t] # NoGrant /\ disk.grants[t].serial = d}

SlotOf == [d \in Decision |->
  IF d > serial THEN "none"
  ELSE IF InForce(d) = {} THEN "gone"
  ELSE LET g == disk.grants[CHOOSE t \in InForce(d) : TRUE]
       IN IF g.reservation = NoJob THEN "free" ELSE g.reservation]

Contract == INSTANCE SingleUse WITH Job <- Job, Decision <- Decision,
                                    run <- LifeOf, slot <- SlotOf

\* What is saved and what the commands did follow the single-use contract in
\* every step, crashes and failed saves included: exec::submit, exec::finish,
\* grant::commit and recovery never break it.
ImplementsSingleUse == Contract!Spec

=============================================================================
