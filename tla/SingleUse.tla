------------------------------ MODULE SingleUse ------------------------------
(***************************************************************************)
(* What admission promises, without stores, tasks, saves or crashes.       *)
(*                                                                         *)
(* Every invocation goes through its life once. Every owner decision that  *)
(* grants a tool is a slot: a single-use decision is taken by one          *)
(* invocation at a time, comes back only when that invocation is known to  *)
(* have failed, and never comes back once it is gone.                      *)
(***************************************************************************)
CONSTANTS Job, Decision

VARIABLES
  run,   \* [Job -> Life]
  slot   \* [Decision -> {"none", "free", "gone"} \cup Job]

Life == {"new", "refused", "accepted", "started", "succeeded", "failed", "unknown"}

Init ==
  /\ run = [j \in Job |-> "new"]
  /\ slot = [d \in Decision |-> "none"]

Moves(j, from, to) == run[j] = from /\ run' = [run EXCEPT ![j] = to]

Refuse(j) == Moves(j, "new", "refused") /\ UNCHANGED slot

Accept(j) ==
  /\ Moves(j, "new", "accepted")
  /\ \/ UNCHANGED slot
     \/ \E d \in Decision : slot[d] = "free" /\ slot' = [slot EXCEPT ![d] = j]

Begin(j) == Moves(j, "accepted", "started") /\ UNCHANGED slot

End(j) ==
  /\ \E o \in {"succeeded", "failed", "unknown"} : Moves(j, "started", o)
  /\ UNCHANGED slot

\* The command could not be started, and now it never will be.
Abandon(j) ==
  /\ Moves(j, "accepted", "failed")
  /\ \/ UNCHANGED slot
     \/ \E d \in Decision : slot[d] = j /\ slot' = [slot EXCEPT ![d] = "free"]

GiveBack(j) ==
  /\ run[j] = "failed"
  /\ \E d \in Decision : slot[d] = j /\ slot' = [slot EXCEPT ![d] = "free"]
  /\ UNCHANGED run

UseUp(j) ==
  /\ run[j] = "succeeded"
  /\ \E d \in Decision : slot[d] = j /\ slot' = [slot EXCEPT ![d] = "gone"]
  /\ UNCHANGED run

\* The sidecar stops: nobody observes how the commands it started end.
LoseSight ==
  /\ run' = [j \in Job |-> IF run[j] = "started" THEN "unknown" ELSE run[j]]
  /\ UNCHANGED slot

\* The owner grants, replaces or removes. A decision that could not be saved
\* is gone at once.
Decide ==
  /\ \E revoked \in SUBSET {d \in Decision : slot[d] # "none"},
        made \in SUBSET {d \in Decision : slot[d] = "none"},
        result \in {"free", "gone"} :
       slot' = [d \in Decision |-> IF d \in revoked THEN "gone"
                                   ELSE IF d \in made THEN result ELSE slot[d]]
  /\ UNCHANGED run

Next ==
  \/ \E j \in Job : \/ Refuse(j) \/ Accept(j) \/ Begin(j) \/ End(j)
                    \/ Abandon(j) \/ GiveBack(j) \/ UseUp(j)
  \/ LoseSight
  \/ Decide

Spec == Init /\ [][Next]_<<run, slot>>

=============================================================================
