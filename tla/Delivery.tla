------------------------------ MODULE Delivery ------------------------------
(***************************************************************************)
(* A job between two machines: the origin queues it, its dispatcher asks   *)
(* the runner what it knows of the ID and, if nothing, sends the           *)
(* invocation; the runner is module Runner, unchanged. Calls time out,     *)
(* abandoned requests still arrive, answers are lost, and both sidecars    *)
(* crash, restart and fail to save.                                        *)
(***************************************************************************)
EXTENDS RunnerProperties

CONSTANTS
  Origin,       \* the machine that asks; every job of its is for Me
  MaxLoss,      \* bound: calls lost on a network that works
  MaxSlip,      \* bound: crashes and failed saves of the origin
  MaxStray      \* bound: abandoned exec requests on the wire, per job

ASSUME OriginIsPeer == Origin \in Body \ {Me}
ASSUME LossBounds == MaxLoss \in Nat /\ MaxSlip \in Nat /\ MaxStray \in Nat

\* "undelivered" is a Failed the origin sets itself; the other ends are the
\* runner's.
Pending == {"queued", "waiting_body", "waiting_capacity", "running"}
Ended   == Terminal \cup {"undelivered"}
Row     == {"absent"} \cup Pending \cup Ended
Reply   == Status \cup {"capacity", "error"}

VARIABLES
  known,     \* the origin's job rows in memory
  saved,     \* the origin's job rows in state.json
  originUp,  \* the origin's sidecar is running
  stuck,     \* the origin's write_error is set
  call,      \* the dispatcher task of a job: what it is waiting for
  answer,    \* the response on its way to that task
  live,      \* the exec request of that task is still on the wire
  stray,     \* exec requests on the wire whose task gave up
  serving,   \* the runner's mesh listener is up
  losses,    \* calls lost so far
  slips      \* crashes and failed saves of the origin so far

rows       == <<known, saved, stuck, slips>>
calls      == <<call, answer>>
wire       == <<live, stray>>
originVars == <<rows, originUp, calls, wire, serving, losses>>
allVars    == <<vars, originVars>>

DeliveryInit ==
  /\ Init
  /\ known = [j \in Job |-> "absent"]
  /\ saved = [j \in Job |-> "absent"]
  /\ originUp = TRUE
  /\ stuck = FALSE
  /\ call = [j \in Job |-> "idle"]
  /\ answer = [j \in Job |-> "none"]
  /\ live = [j \in Job |-> FALSE]
  /\ stray = [j \in Job |-> 0]
  /\ serving = TRUE
  /\ losses = 0
  /\ slips = 0

-----------------------------------------------------------------------------
(* The origin's store *)

\* Mutant: goes on before the row is saved.
RecordLater(j, status) ==
  /\ known' = [known EXCEPT ![j] = status]
  /\ UNCHANGED <<saved, stuck, slips>>

\* put_job and the update around accept_runner_reply: saved, failed, or
\* refused because an earlier save failed.
Record(j, status) ==
  LET next == [known EXCEPT ![j] = status] IN
  \/ /\ ~stuck
     /\ known' = next
     /\ saved' = next
     /\ UNCHANGED <<stuck, slips>>
  \/ /\ ~stuck
     /\ slips < MaxSlip
     /\ saved' \in {saved, next}
     /\ stuck' = TRUE
     /\ slips' = slips + 1
     /\ UNCHANGED known
  \/ stuck /\ UNCHANGED rows

HangUp(j) ==
  /\ call' = [call EXCEPT ![j] = "idle"]
  /\ answer' = [answer EXCEPT ![j] = "none"]

\* rpc_exec, rpc_job_retry: the new ID is durable before it is dispatched.
Order(j) ==
  /\ originUp
  /\ ~stuck
  /\ Caller[j] = Origin
  /\ known[j] = "absent"
  /\ saved[j] = "absent"
  /\ Record(j, "queued")
  /\ UNCHANGED <<vars, originUp, calls, wire, serving, losses>>

-----------------------------------------------------------------------------
(* dispatch_one *)

\* Mutant: does not look at jobs that wait for capacity.
DispatchForgetful(j) ==
  /\ originUp
  /\ ~stuck
  /\ known[j] \in Pending \ {"waiting_capacity"}
  /\ call[j] = "idle"
  /\ call' = [call EXCEPT ![j] = "query"]
  /\ UNCHANGED <<vars, rows, originUp, answer, wire, serving, losses>>

\* One task per job at a time.
Dispatch(j) ==
  /\ originUp
  /\ ~stuck
  /\ known[j] \in Pending
  /\ call[j] = "idle"
  /\ call' = [call EXCEPT ![j] = "query"]
  /\ UNCHANGED <<vars, rows, originUp, answer, wire, serving, losses>>

\* The runner has no row: send the invocation.
SendExec(j) ==
  /\ call[j] = "query"
  /\ answer[j] = "absent"
  /\ call' = [call EXCEPT ![j] = "exec"]
  /\ answer' = [answer EXCEPT ![j] = "none"]
  /\ live' = [live EXCEPT ![j] = TRUE]
  /\ UNCHANGED <<vars, rows, originUp, stray, serving, losses>>

\* accept_runner_reply: the row takes the runner's status, unless it ended.
Learn(j) ==
  /\ answer[j] \in Status \ {"absent"}
  /\ HangUp(j)
  /\ Record(j, IF known[j] \in Ended THEN known[j] ELSE answer[j])
  /\ UNCHANGED <<vars, originUp, wire, serving, losses>>

\* The runner refused admission for now: the same ID is tried again.
Defer(j) ==
  /\ answer[j] = "capacity"
  /\ HangUp(j)
  /\ IF known[j] \in Ended \cup {"running", "waiting_capacity"}
     THEN UNCHANGED rows
     ELSE Record(j, "waiting_capacity")
  /\ UNCHANGED <<vars, originUp, wire, serving, losses>>

\* Any other error of the runner ends the job here.
GiveUp(j) ==
  /\ answer[j] = "error"
  /\ HangUp(j)
  /\ IF known[j] \in Ended
     THEN UNCHANGED rows
     ELSE Record(j, "undelivered")
  /\ UNCHANGED <<vars, originUp, wire, serving, losses>>

\* The request cannot be answered any more.
Dead(j) ==
  /\ answer[j] = "none"
  /\ ~serving \/ (call[j] = "exec" /\ ~live[j])

\* Mutant: takes a call that failed after a request was sent for a failed run.
UnreachableEnds(j) ==
  /\ call[j] # "idle"
  /\ HangUp(j)
  /\ live' = [live EXCEPT ![j] = FALSE]
  /\ \/ UNCHANGED stray
     \/ /\ live[j] /\ serving /\ stray[j] < MaxStray
        /\ stray' = [stray EXCEPT ![j] = @ + 1]
  /\ IF known[j] \in Ended \cup {"running"}
     THEN UNCHANGED rows
     ELSE Record(j, IF call[j] = "exec" THEN "undelivered" ELSE "waiting_body")
  /\ IF Dead(j) THEN UNCHANGED losses
                ELSE losses < MaxLoss /\ losses' = losses + 1
  /\ UNCHANGED <<vars, originUp, serving>>

\* Timeout or broken connection, before or after the runner handled the call.
\* The origin cannot tell; an exec request may still be on the wire.
Unreachable(j) ==
  /\ call[j] # "idle"
  /\ HangUp(j)
  /\ live' = [live EXCEPT ![j] = FALSE]
  /\ \/ UNCHANGED stray
     \/ /\ live[j] /\ serving /\ stray[j] < MaxStray
        /\ stray' = [stray EXCEPT ![j] = @ + 1]
  /\ IF known[j] \in Ended \cup {"running", "waiting_body"}
     THEN UNCHANGED rows
     ELSE Record(j, "waiting_body")
  /\ IF Dead(j) THEN UNCHANGED losses
                ELSE losses < MaxLoss /\ losses' = losses + 1
  /\ UNCHANGED <<vars, originUp, serving>>

-----------------------------------------------------------------------------
(* The runner's side of the calls *)

Respond(j, reply) == answer' = [answer EXCEPT ![j] = reply]

\* Mutant: answers from memory although saving failed.
AnswerUnsaved(j) ==
  /\ up /\ serving
  /\ call[j] = "query"
  /\ answer[j] = "none"
  /\ Respond(j, mem.jobs[j])
  /\ UNCHANGED <<vars, rows, originUp, call, wire, serving, losses>>

\* job_get_v2 reads under the lock.
AnswerQuery(j) ==
  /\ up /\ serving
  /\ call[j] = "query"
  /\ answer[j] = "none"
  /\ Respond(j, IF writeError THEN "error" ELSE mem.jobs[j])
  /\ UNCHANGED <<vars, rows, originUp, call, wire, serving, losses>>

\* Mutant: admits without a permit for the child.
HandledUnbounded(j, reply) ==
  /\ up /\ ~writeError
  /\ \/ /\ mem.jobs[j] # "absent"
        /\ reply = mem.jobs[j]
        /\ UNCHANGED vars
     \/ /\ mem.jobs[j] = "absent"
        /\ Verdict(mem, j, TRUE) = "granted"
        /\ Saved(Admitted(mem, j))
        /\ reply = "running"
        /\ task' = [task EXCEPT ![j] = "ready"]
        /\ under' = [under EXCEPT ![j] = mem.grants[ToolOf[j]]]
        /\ UNCHANGED <<up, truth, counters>>

\* exec_v2, up to the response: a known ID is answered from its row and a new
\* one is submitted.
Handled(j, reply) ==
  \/ /\ writeError
     /\ reply = "error"
     /\ UNCHANGED vars
  \/ /\ ~writeError
     /\ mem.jobs[j] # "absent"
     /\ reply = mem.jobs[j]
     /\ UNCHANGED vars
  \/ /\ ~writeError
     /\ mem.jobs[j] = "absent"
     /\ \E inWindow \in BOOLEAN : Verdict(mem, j, inWindow) = "granted"
     /\ Busy
     /\ reply = "capacity"
     /\ UNCHANGED vars
  \/ /\ Admit(j) \/ Deny(j)
     /\ reply = IF writeError' THEN "error" ELSE mem'.jobs[j]

HandleExec(j) ==
  /\ up /\ serving
  /\ live[j]
  /\ live' = [live EXCEPT ![j] = FALSE]
  /\ \E reply \in Reply : Handled(j, reply) /\ Respond(j, reply)
  /\ UNCHANGED <<rows, originUp, call, stray, serving, losses>>

\* The response goes to a connection nobody reads.
HandleStray(j) ==
  /\ up /\ serving
  /\ stray[j] > 0
  /\ stray' = [stray EXCEPT ![j] = @ - 1]
  /\ \E reply \in Reply : Handled(j, reply)
  /\ UNCHANGED <<rows, originUp, calls, live, serving, losses>>

\* Everything the runner does that is not for the origin's calls.
RunnerAlone ==
  /\ \/ \E j \in Job : Enqueue(j) \/ (Caller[j] # Origin /\ Submit(j)) \/ Task(j)
     \/ \E b \in Body, t \in Tool : Ask(b, t)
     \/ Owner
  /\ UNCHANGED originVars

\* Requests in the runner's sockets are gone; a sent response may arrive.
RunnerCrash ==
  /\ Crash
  /\ serving' = FALSE
  /\ live' = [j \in Job |-> FALSE]
  /\ stray' = [j \in Job |-> 0]
  /\ UNCHANGED <<rows, originUp, calls, losses>>

\* After a recovery that could not be saved only the owner is served.
RunnerRestart ==
  /\ Restart
  /\ serving' = ~writeError'
  /\ UNCHANGED <<rows, originUp, calls, wire, losses>>

-----------------------------------------------------------------------------
(* Crash and start of the origin *)

\* Its tasks vanish; a request already sent is on its own.
OriginCrash ==
  /\ originUp
  /\ slips < MaxSlip
  /\ originUp' = FALSE
  /\ slips' = slips + 1
  /\ call' = [j \in Job |-> "idle"]
  /\ answer' = [j \in Job |-> "none"]
  /\ live' = [j \in Job |-> FALSE]
  /\ stray' = [j \in Job |-> IF live[j] /\ stray[j] < MaxStray THEN stray[j] + 1
                             ELSE stray[j]]
  /\ UNCHANGED <<vars, known, saved, stuck, serving, losses>>

\* recover_jobs leaves jobs of other machines as they are.
OriginRestart ==
  /\ ~originUp
  /\ originUp' = TRUE
  /\ known' = saved
  /\ stuck' = FALSE
  /\ UNCHANGED <<vars, saved, slips, calls, wire, serving, losses>>

-----------------------------------------------------------------------------

Attempt(j) == Dispatch(j) \/ SendExec(j) \/ Learn(j) \/ Defer(j) \/ GiveUp(j)

Serve(j) == AnswerQuery(j) \/ HandleExec(j)

DeliveryNext ==
  \/ \E j \in Job : \/ Order(j) \/ Attempt(j) \/ Unreachable(j)
                    \/ Serve(j) \/ HandleStray(j)
  \/ RunnerAlone
  \/ RunnerCrash
  \/ RunnerRestart
  \/ OriginCrash
  \/ OriginRestart

DeliverySpec == DeliveryInit /\ [][DeliveryNext]_allVars

=============================================================================
