-------------------------- MODULE RunnerProperties --------------------------
(***************************************************************************)
(* What Runner promises: invariants, action properties and liveness.       *)
(***************************************************************************)
EXTENDS Runner

TypeOK ==
  /\ mem \in Store
  /\ disk \in Store
  /\ up \in BOOLEAN
  /\ writeError \in BOOLEAN
  /\ task \in [Job -> TaskState]
  /\ under \in [Job -> Grant \cup {NoGrant}]
  /\ starts \in [Job -> Nat]
  /\ effect \in [Job -> {"none", "ok", "err", "unknown"}]
  /\ serial \in Nat
  /\ issued \in Nat
  /\ faults \in Nat

-----------------------------------------------------------------------------
(* Invariants *)

\* Duplicate delivery, a retried submission, a crash or a failed save never
\* makes exec::submit start the command of one invocation ID a second time.
RunsAtMostOnce == \A j \in Job : starts[j] <= 1

\* A run whose command was started under a single-use grant and is not known
\* to have failed.
Spends(j) ==
  /\ starts[j] > 0
  /\ under[j].perm.once
  /\ effect[j] # "err"

\* One owner decision to allow a tool once pays for one run: two runs under
\* the same decision are never both going on, successful or of unknown result.
OncePermission ==
  \A i, j \in Job :
    i # j /\ Spends(i) /\ Spends(j) => under[i].serial # under[j].serial

\* A reserved slot names a run that is going on or whose result is unknown:
\* no finished, failed or denied run keeps a grant busy, in memory or saved.
ReservationHasRun ==
  \A s \in {mem, disk} : \A t \in Tool :
    s.grants[t] # NoGrant =>
      LET r == s.grants[t].reservation IN
      r # NoJob => s.jobs[r] \in {"running", "uncertain"} /\ ToolOf[r] = t

\* What a row says happened is what happened: exit 0 and non-zero exits are
\* real, and a job never accepted never ran.
TruthfulStatus ==
  \A s \in {mem, disk} : \A j \in Job :
    /\ s.jobs[j] = "done_ok" => effect[j] = "ok"
    /\ s.jobs[j] = "done_err" => effect[j] = "err"
    /\ s.jobs[j] \notin Accepted => starts[j] = 0

\* "A pending approval cannot supersede a later owner decision for this slot":
\* every pending request was asked after the owner last changed its slot.
FreshRequests ==
  \A s \in {mem, disk} : \A r \in s.requests : r.id > s.decided[r.tool]

-----------------------------------------------------------------------------
(* What the invariants rest on: the parts of the inductive invariant *)

Active(j) == task[j] \in {"ready", "executing"} \cup Outcome

\* A runner that can save shows what it has saved.
MemoryIsDisk == up /\ ~writeError => mem = disk

\* A task exists only for a job both copies know as accepted; until it settles,
\* both copies say running.
TaskAccepted ==
  \A j \in Job :
    /\ task[j] # "idle" => up
    /\ task[j] # "idle" \/ starts[j] > 0 =>
         disk.jobs[j] \in Accepted /\ mem.jobs[j] \in Accepted /\ under[j] # NoGrant
    /\ Active(j) => disk.jobs[j] = "running" /\ mem.jobs[j] = "running"

\* How far a task is and what has happened to its command.
TaskProgress ==
  \A j \in Job :
    /\ starts[j] <= 1
    /\ task[j] \in {"ready", "unstarted"} => starts[j] = 0
    /\ task[j] = "executing" => starts[j] = 1 /\ effect[j] = "none"
    /\ starts[j] = 0 => effect[j] = "none"
    /\ task[j] \in {"ok", "ok_lost"} => effect[j] = "ok"
    /\ task[j] \in {"err", "err_lost"} => effect[j] = "err"

\* The runs that have spent their single-use decision, or still may.
Spenders ==
  {j \in Job : /\ under[j] # NoGrant
               /\ under[j].perm.once
               /\ task[j] = "ready" \/ (starts[j] > 0 /\ effect[j] # "err")}

\* The slots of a store, given the runs that may spend, what they captured, and
\* the last serial: a serial is one decision about one slot, and while that
\* decision is in force the run that may spend it holds the slot.
SlotsHeld(slots, spenders, captured, last) ==
  /\ \A t \in Tool : slots[t] # NoGrant => slots[t].serial <= last
  /\ \A t, u \in Tool :
       slots[t] # NoGrant /\ slots[u] # NoGrant /\ slots[t].serial = slots[u].serial => t = u
  /\ \A t \in Tool, j \in spenders :
       slots[t] # NoGrant /\ slots[t].serial = captured[j].serial => slots[t].reservation = j

\* Two runs that may spend never share a decision.
SpendersApart ==
  /\ \A s \in {mem, disk} : SlotsHeld(s.grants, Spenders, under, serial)
  /\ \A j \in Job : under[j] # NoGrant => under[j].serial <= serial
  /\ \A i, j \in Spenders : i # j => under[i].serial # under[j].serial

\* The runs under a grant that is not single-use.
Plain == {j \in Job : task[j] # "idle" /\ ~under[j].perm.once}

\* The reservations of a store: a run of that tool, going on or unknown, that
\* captured the grant as single-use.
Reserved(s, plain) ==
  \A t \in Tool : s.grants[t] # NoGrant /\ s.grants[t].reservation # NoJob =>
    LET r == s.grants[t].reservation IN
    s.jobs[r] \in {"running", "uncertain"} /\ ToolOf[r] = t /\ r \notin plain

ReservationsHeld == \A s \in {mem, disk} : Reserved(s, Plain)

\* The requests and decisions of a store: IDs never run ahead of those issued,
\* and each request is younger than the last decision about its slot.
Asked(s, last) ==
  /\ \A r \in s.requests : s.decided[r.tool] < r.id /\ r.id <= last
  /\ \A t \in Tool : s.decided[t] <= last

RequestsInOrder == \A s \in {mem, disk} : Asked(s, issued)

\* A known outcome is shown only once it is saved.
OutcomesSaved ==
  \A j \in Job : mem.jobs[j] \in Terminal \ {"uncertain"} => disk.jobs[j] = mem.jobs[j]

\* A command whose end nobody has observed is being executed.
StartedObserved ==
  \A j \in Job : starts[j] > 0 /\ effect[j] = "none" => task[j] = "executing"

\* The grants committed number at most MaxSerial, and the first one is 1.
SerialsIssued ==
  /\ serial <= MaxSerial
  /\ \A s \in {mem, disk} : \A t \in Tool : s.grants[t] # NoGrant => s.grants[t].serial > 0

-----------------------------------------------------------------------------
(* Action properties *)

\* An outcome is final. Only an uncertain one may be replaced, at a restart, by
\* the outcome that did reach the disk; the saved outcome never changes.
OutcomesFinal ==
  [][\A j \in Job :
       /\ disk.jobs[j] \in Terminal => disk'.jobs[j] = disk.jobs[j]
       /\ mem.jobs[j] \in Terminal =>
            \/ mem'.jobs[j] = mem.jobs[j]
            \/ mem.jobs[j] = "uncertain" /\ ~up]_vars

\* A saved reservation ends by the owner's decision or by the known result of
\* the run that holds it: success uses the grant up, failure frees it, and an
\* uncertain run keeps it.
ReservationOutlivesDoubt ==
  [][\A t \in Tool : disk.grants[t] # NoGrant =>
       LET g == disk.grants[t] IN
       g.reservation # NoJob =>
         \/ disk'.grants[t] = g
         \/ disk'.decided[t] # disk.decided[t]
         \/ Remove(t)
         \/ disk'.grants[t] # NoGrant /\ disk'.grants[t].serial # g.serial
         \/ disk'.grants[t] = NoGrant /\ effect[g.reservation] = "ok"
         \/ /\ disk'.grants[t] = [g EXCEPT !.reservation = NoJob]
            /\ starts[g.reservation] = 0 \/ effect[g.reservation] = "err"]_vars

\* "An identical re-approval is idempotent and still clears the request": an
\* approval that finds the same permission leaves the grant as it is.
ReapprovalIdempotent ==
  [][\A r \in mem.requests, p \in Permission :
       /\ Allow(r.id, p)
       /\ mem.grants[r.tool] # NoGrant
       => mem'.grants[r.tool].reservation = mem.grants[r.tool].reservation]_vars

-----------------------------------------------------------------------------
(* Liveness *)

\* The tokio runtime polls every task, the dispatcher retries every queued job
\* of this machine, and systemd restarts the sidecar. That commands terminate
\* is an assumption on the tools. Owners and peers need not do anything.
Fairness ==
  /\ \A j \in Job : WF_vars(Task(j)) /\ WF_vars(Caller[j] = Me /\ Submit(j))
  /\ WF_vars(Restart)

FairSpec == Spec /\ Fairness

\* An admitted job reaches an outcome, also through crashes and failed saves.
RunsSettle ==
  \A j \in Job : mem.jobs[j] = "running" ~> mem.jobs[j] \in Terminal

\* A job this machine queued for itself is eventually admitted or denied,
\* unless saving failed and the sidecar waits for a repair.
QueueDrains ==
  \A j \in Job : mem.jobs[j] \in {"queued", "waiting_capacity"} ~>
                   mem.jobs[j] \in Accepted \cup Refused \/ writeError

=============================================================================
