------------------------- MODULE DeliveryProperties -------------------------
(***************************************************************************)
(* What the origin and the runner promise together.                        *)
(***************************************************************************)
EXTENDS Delivery

DeliveryTypeOK ==
  /\ TypeOK
  /\ known \in [Job -> Row]
  /\ saved \in [Job -> Row]
  /\ originUp \in BOOLEAN
  /\ stuck \in BOOLEAN
  /\ call \in [Job -> {"idle", "query", "exec"}]
  /\ answer \in [Job -> Reply \cup {"none"}]
  /\ live \in [Job -> BOOLEAN]
  /\ stray \in [Job -> Nat]
  /\ serving \in BOOLEAN
  /\ losses \in Nat
  /\ slips \in Nat

\* What the origin shows as an outcome is the outcome in the runner's
\* state.json, and what it shows as running was accepted there: no answer is
\* given before it is durable, and no late answer is taken for a newer one.
OriginTruthful ==
  \A s \in {known, saved} : \A j \in Job :
    /\ s[j] \in Terminal => disk.jobs[j] = s[j]
    /\ s[j] = "running" => disk.jobs[j] \in Accepted

\* The runner knows an ID of the origin, and may have started its command, only
\* if the origin's state.json has the order: a crash of the origin never leaves
\* a run nobody asked for.
OrderedBeforeStart ==
  \A j \in Job :
    Caller[j] = Origin /\ (disk.jobs[j] # "absent" \/ starts[j] > 0) => saved[j] # "absent"

-----------------------------------------------------------------------------
(* What the invariants rest on: the parts of the inductive invariant *)

\* The origin shows what it has saved while it can save. After a failed save
\* the saved row may be ahead of the one shown, but not of an end.
RowsInStep ==
  /\ ~stuck => known = saved
  /\ \A j \in Job :
       /\ known[j] # "absent" => saved[j] # "absent"
       /\ known[j] \in Ended => saved[j] = known[j]

\* No call is made, and no request is on the wire, before the order is saved.
CallsOrdered ==
  \A j \in Job :
    call[j] # "idle" \/ live[j] \/ stray[j] > 0 => saved[j] # "absent"

\* A status for a job that the runner's state.json bears out.
Borne(j, status) ==
  /\ status \in Terminal => disk.jobs[j] = status
  /\ status = "running" => disk.jobs[j] \in Accepted

\* An answer on its way is still true, however late it comes.
AnswersTrue == \A j \in Job : Borne(j, answer[j])

-----------------------------------------------------------------------------
(* Action properties *)

\* Composed with origins, calls and a network, the runner still is Runner.
RunnerSpec == Spec

\* An end shown by the origin is final, across its crashes too.
EndsFinal ==
  [][\A j \in Job :
       /\ saved[j] \in Ended => saved'[j] = saved[j]
       /\ known[j] \in Ended => known'[j] = known[j]]_allVars

\* "A known Running job must never regress because of a later error."
RunningStands ==
  [][\A j \in Job : known[j] = "running" /\ originUp /\ originUp' =>
       known'[j] \in {"running"} \cup Terminal]_allVars

\* "loss of connectivity is not evidence that execution stopped": timeouts, lost
\* and late calls, restarts of both machines and failed saves of the origin make
\* no end. Unless the runner's storage fails, an origin has no end of its own, so
\* that every one it shows is one the runner has saved (OriginTruthful).
LossIsNoEnd ==
  []~writeError => [](\A j \in Job : known[j] # "undelivered" /\ saved[j] # "undelivered")

-----------------------------------------------------------------------------
(* Liveness *)

\* The dispatcher polls every pending job, both runtimes poll their tasks, an
\* unanswerable call times out, and both sidecars are started again.
DeliveryFairness ==
  /\ \A j \in Job : /\ WF_allVars(Attempt(j))
                    /\ WF_allVars(Serve(j))
                    /\ WF_allVars(Dead(j) /\ Unreachable(j))
                    /\ WF_allVars(Task(j) /\ UNCHANGED originVars)
  /\ WF_allVars(RunnerRestart)
  /\ WF_allVars(OriginRestart)

FairDelivery == DeliverySpec /\ DeliveryFairness

\* An order is not forgotten: it ends, at the latest when machines and network
\* recover, unless a machine cannot save and waits for a repair.
OrdersEnd ==
  \A j \in Job : known[j] \in Pending ~> known[j] \in Ended \/ stuck \/ writeError

=============================================================================
