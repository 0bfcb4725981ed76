------------------------------- MODULE Runner -------------------------------
(***************************************************************************)
(* The runner of one clix machine: admission of an invocation, the         *)
(* reservation of a single-use grant, the child that runs the command, the *)
(* durable store behind one lock, the owner's decisions on grants and      *)
(* requests, crashes, and recovery at the next start.                      *)
(*                                                                         *)
(* mem is the Store behind the mutex, disk is state.json. Every handler    *)
(* that changes the store goes through Store::update, which publishes to   *)
(* memory only what it has saved.                                          *)
(***************************************************************************)
EXTENDS Naturals, FiniteSets

CONSTANTS
  Job,          \* invocation IDs
  Tool,         \* grant slots, one per tool name
  Body,         \* this machine and its peers
  Me,           \* this machine
  Caller,       \* [Job -> Body]: the machine that signed the invocation
  ToolOf,       \* [Job -> Tool]: argv[0]
  ArgsOf,       \* [Job -> Args]: the argument vector, argv[1..]
  Args,         \* argument vectors
  Permission,   \* what an owner may grant
  Children,     \* limits::CHILDREN
  NoJob,        \* no reservation
  NoGrant,      \* no grant in a slot
  MaxSerial,    \* bound: grants committed
  MaxAsk,       \* bound: no clix request once this many request IDs are issued
  MaxFault      \* bound: crashes and failed saves

(***************************************************************************)
(* A permission is everything grant::same_permission compares. scope       *)
(* "every" is allow_from: None; timed stands for an expiry or a schedule.  *)
(***************************************************************************)
ASSUME PermissionShape ==
  Permission \subseteq [scope : {"every", "listed"}, allow : SUBSET Body,
                        once : BOOLEAN, timed : BOOLEAN, args : SUBSET Args]

ASSUME InvocationShape ==
  /\ Me \in Body
  /\ Caller \in [Job -> Body]
  /\ ToolOf \in [Job -> Tool]
  /\ ArgsOf \in [Job -> Args]

ASSUME Sentinels ==
  /\ NoJob \notin Job
  /\ NoGrant \notin [perm : Permission, reservation : Job \cup {NoJob}, serial : Nat]

ASSUME Bounds ==
  /\ Children \in Nat
  /\ MaxSerial \in Nat
  /\ MaxAsk \in Nat
  /\ MaxFault \in Nat

Refused  == {"denied"}
Accepted == {"running", "done_ok", "done_err", "failed", "uncertain"}
Waiting  == {"absent", "queued", "waiting_capacity"}
Status   == Refused \cup Accepted \cup Waiting
Terminal == {"done_ok", "done_err", "failed", "denied", "uncertain"}

\* How a run ended: RunOutcome, with "_lost" for a capture error.
Outcome  == {"ok", "err", "ok_lost", "err_lost", "unstarted", "unknown"}
TaskState == {"idle", "ready", "executing", "closing"} \cup Outcome

\* serial is a history field: it tells one owner decision from the next.
Grant   == [perm : Permission, reservation : Job \cup {NoJob}, serial : Nat]
Request == [id : Nat, from : Body, tool : Tool]

\* decided is a history field: the last request ID issued when the owner last
\* changed this slot.
Store == [grants   : [Tool -> Grant \cup {NoGrant}],
          jobs     : [Job -> Status],
          requests : SUBSET Request,
          decided  : [Tool -> Nat]]

VARIABLES
  mem,         \* Store behind the mutex
  disk,        \* state.json
  up,          \* the sidecar is running
  writeError,  \* Store::write_error is set
  task,        \* the tokio task of an admitted job; not idle = holds a child permit
  under,       \* the grant a task captured; kept afterwards as history
  starts,      \* history: how often the command of a job was started
  effect,      \* history: how the started command really ended
  serial,      \* grants committed so far
  issued,      \* request IDs issued so far
  faults       \* crashes and failed saves so far

storeVars == <<mem, disk, writeError>>
taskVars  == <<task, under>>
truth     == <<starts, effect>>
counters  == <<serial, issued>>
vars == <<mem, disk, up, writeError, task, under, starts, effect, serial,
          issued, faults>>

EmptyStore == [grants   |-> [t \in Tool |-> NoGrant],
               jobs     |-> [j \in Job |-> "absent"],
               requests |-> {},
               decided  |-> [t \in Tool |-> 0]]

Init ==
  /\ mem = EmptyStore
  /\ disk = EmptyStore
  /\ up = TRUE
  /\ writeError = FALSE
  /\ task = [j \in Job |-> "idle"]
  /\ under = [j \in Job |-> NoGrant]
  /\ starts = [j \in Job |-> 0]
  /\ effect = [j \in Job |-> "none"]
  /\ serial = 0
  /\ issued = 0
  /\ faults = 0

-----------------------------------------------------------------------------
(* Store::update *)

\* The encoded state was fsynced and renamed, then published.
Saved(next) ==
  /\ up
  /\ ~writeError
  /\ mem' = next
  /\ disk' = next
  /\ UNCHANGED <<writeError, faults>>

\* The save failed before or after the rename: memory keeps the old state and
\* every later update is refused until a restart.
SaveFailed(next) ==
  /\ up
  /\ ~writeError
  /\ faults < MaxFault
  /\ mem' = mem
  /\ disk' \in {disk, next}
  /\ writeError' = TRUE
  /\ faults' = faults + 1

Update(next) == Saved(next) \/ SaveFailed(next)

-----------------------------------------------------------------------------
(* grant::check, grant::check_args and the store edits of a submission *)

MayCall(p, b) == p.scope = "every" \/ b \in p.allow

\* Mutant: does not look at the reservation of a single-use grant.
VerdictUnreserved(s, j, inWindow) ==
  LET g == s.grants[ToolOf[j]] IN
  IF g = NoGrant                              THEN "NotAdded"
  ELSE IF ~MayCall(g.perm, Caller[j])         THEN "NotAllowed"
  ELSE IF g.perm.timed /\ ~inWindow           THEN "NotAddedAtTime"
  ELSE IF ArgsOf[j] \notin g.perm.args        THEN "BadArgs"
  ELSE "granted"

\* The first error of check_at and check_args, in their order; inWindow is
\* what the clock answers for an expiry or a schedule.
Verdict(s, j, inWindow) ==
  LET g == s.grants[ToolOf[j]] IN
  IF g = NoGrant                              THEN "NotAdded"
  ELSE IF g.reservation # NoJob               THEN "GrantBusy"
  ELSE IF ~MayCall(g.perm, Caller[j])         THEN "NotAllowed"
  ELSE IF g.perm.timed /\ ~inWindow           THEN "NotAddedAtTime"
  ELSE IF ArgsOf[j] \notin g.perm.args        THEN "BadArgs"
  ELSE "granted"

\* The refusals an approval could fix become a request.
Requestable == {"NotAdded", "NotAllowed", "NotAddedAtTime"}

Upsert(s, b, t) ==
  IF \E r \in s.requests : r.from = b /\ r.tool = t
  THEN s.requests
  ELSE s.requests \cup {[id |-> issued + 1, from |-> b, tool |-> t]}

Admitted(s, j) ==
  LET t == ToolOf[j] IN
  [s EXCEPT !.jobs[j] = "running",
            !.grants[t] = IF @.perm.once THEN [@ EXCEPT !.reservation = j] ELSE @]

Denied(s, j, verdict) ==
  [s EXCEPT !.jobs[j] = "denied",
            !.requests = IF verdict \in Requestable
                         THEN Upsert(s, Caller[j], ToolOf[j]) ELSE @]

\* Mutant: takes a retry of a run of unknown result for a new invocation.
SubmittableAgain(j) ==
  \/ mem.jobs[j] \in {"absent", "uncertain"} /\ Caller[j] # Me
  \/ mem.jobs[j] \in {"queued", "waiting_capacity"} /\ Caller[j] = Me

\* An ID the store knows is answered from its row. Only this machine's own
\* queued work goes through admission again.
Submittable(j) ==
  \/ mem.jobs[j] = "absent" /\ Caller[j] # Me
  \/ mem.jobs[j] \in {"queued", "waiting_capacity"} /\ Caller[j] = Me

Busy == Cardinality({j \in Job : task[j] # "idle"}) >= Children

Admit(j) ==
  /\ Submittable(j)
  /\ \E inWindow \in BOOLEAN : Verdict(mem, j, inWindow) = "granted"
  /\ ~Busy
  /\ LET next == Admitted(mem, j) IN
     \/ /\ Saved(next)
        /\ task' = [task EXCEPT ![j] = "ready"]
        /\ under' = [under EXCEPT ![j] = mem.grants[ToolOf[j]]]
     \/ SaveFailed(next) /\ UNCHANGED taskVars
  /\ UNCHANGED <<up, truth, counters>>

Deny(j) ==
  /\ Submittable(j)
  /\ \E inWindow \in BOOLEAN :
       LET verdict == Verdict(mem, j, inWindow)
           next    == Denied(mem, j, verdict)
       IN /\ verdict # "granted"
          /\ Update(next)
          /\ issued' = IF next.requests = mem.requests THEN issued ELSE issued + 1
  /\ UNCHANGED <<up, taskVars, truth, serial>>

\* No permit: the submission is an error and its update is dropped. The
\* dispatcher keeps this machine's own job waiting; a peer gets the error.
AwaitCapacity(j) ==
  /\ Submittable(j)
  /\ mem.jobs[j] = "queued"
  /\ \E inWindow \in BOOLEAN : Verdict(mem, j, inWindow) = "granted"
  /\ Busy
  /\ Update([mem EXCEPT !.jobs[j] = "waiting_capacity"])
  /\ UNCHANGED <<up, taskVars, truth, counters>>

\* rpc_exec and rpc_job_retry for this machine: a new ID, queued durably.
Enqueue(j) ==
  /\ Caller[j] = Me
  /\ mem.jobs[j] = "absent"
  /\ disk.jobs[j] = "absent"
  /\ Update([mem EXCEPT !.jobs[j] = "queued"])
  /\ UNCHANGED <<up, taskVars, truth, counters>>

-----------------------------------------------------------------------------
(* The spawned task *)

Start(j) ==
  /\ task[j] = "ready"
  /\ \/ /\ task' = [task EXCEPT ![j] = "executing"]
        /\ starts' = [starts EXCEPT ![j] = @ + 1]
     \/ /\ task' = [task EXCEPT ![j] = "unstarted"]
        /\ UNCHANGED starts
  /\ UNCHANGED <<storeVars, up, under, effect, counters, faults>>

Exit(j) ==
  /\ task[j] = "executing"
  /\ \E o \in Outcome \ {"unstarted"} :
       /\ task' = [task EXCEPT ![j] = o]
       /\ effect' = [effect EXCEPT ![j] =
                       CASE o \in {"ok", "ok_lost"}   -> "ok"
                         [] o \in {"err", "err_lost"} -> "err"
                         [] o = "unknown"             -> "unknown"]
  /\ UNCHANGED <<storeVars, up, under, starts, counters, faults>>

\* Mutant: reports a run that ended unobserved as a non-zero exit.
GuessedStatus == [o \in Outcome |->
  CASE o = "ok"                 -> "done_ok"
    [] o \in {"err", "unknown"} -> "done_err"
    [] OTHER                    -> "failed"]

FinalStatus == [o \in Outcome |->
  CASE o = "ok"      -> "done_ok"
    [] o = "err"     -> "done_err"
    [] o = "unknown" -> "uncertain"
    [] OTHER         -> "failed"]

\* Mutant: an unknown outcome frees the grant, like a failure.
SettledFreely(s, j, o) ==
  LET t == ToolOf[j]
      mine == /\ under[j].perm.once
              /\ s.grants[t] # NoGrant
              /\ s.grants[t].reservation = j
  IN [s EXCEPT
       !.jobs[j] = FinalStatus[o],
       !.grants[t] = IF ~mine THEN @
                     ELSE IF o \in {"ok", "ok_lost"} THEN NoGrant
                     ELSE [@ EXCEPT !.reservation = NoJob]]

\* Mutant: a failed run stays in possession of the grant.
SettledBusy(s, j, o) ==
  LET t == ToolOf[j]
      mine == /\ under[j].perm.once
              /\ s.grants[t] # NoGrant
              /\ s.grants[t].reservation = j
  IN [s EXCEPT
       !.jobs[j] = FinalStatus[o],
       !.grants[t] = IF mine /\ o \in {"ok", "ok_lost"} THEN NoGrant ELSE @]

\* finish: success consumes the grant this run reserved, a known failure frees
\* it, an unknown outcome keeps it. A replacement grant is not touched.
Settled(s, j, o) ==
  LET t == ToolOf[j]
      mine == /\ under[j].perm.once
              /\ s.grants[t] # NoGrant
              /\ s.grants[t].reservation = j
  IN [s EXCEPT
       !.jobs[j] = FinalStatus[o],
       !.grants[t] = IF ~mine \/ o = "unknown" THEN @
                     ELSE IF o \in {"ok", "ok_lost"} THEN NoGrant
                     ELSE [@ EXCEPT !.reservation = NoJob]]

\* The error path of the task: memory only.
Unsaved(j) == mem' = [mem EXCEPT !.jobs[j] = "uncertain"]

\* Mutant: a completion that cannot be saved is dropped.
FinishSilently(j) ==
  /\ up
  /\ task[j] \in Outcome
  /\ task' = [task EXCEPT ![j] = "closing"]
  /\ \/ Saved(Settled(mem, j, task[j]))
     \/ writeError /\ UNCHANGED <<mem, disk, writeError, faults>>
     \/ SaveFailed(Settled(mem, j, task[j]))
  /\ UNCHANGED <<up, under, truth, counters>>

Finish(j) ==
  /\ up
  /\ task[j] \in Outcome
  /\ task' = [task EXCEPT ![j] = "closing"]
  /\ \/ Saved(Settled(mem, j, task[j]))
     \/ /\ ~writeError /\ faults < MaxFault  \* this save fails
        /\ Unsaved(j)
        /\ disk' \in {disk, Settled(mem, j, task[j])}
        /\ writeError' = TRUE
        /\ faults' = faults + 1
     \/ /\ writeError                        \* ensure_writable refuses
        /\ Unsaved(j)
        /\ UNCHANGED <<disk, writeError, faults>>
  /\ UNCHANGED <<up, under, truth, counters>>

\* Mutant: the permit is never given back.
LeakPermit(j) == task[j] = "closing" /\ UNCHANGED vars

\* The permit drops after the completion was published.
Release(j) ==
  /\ task[j] = "closing"
  /\ task' = [task EXCEPT ![j] = "idle"]
  /\ UNCHANGED <<storeVars, up, under, truth, counters, faults>>

-----------------------------------------------------------------------------
(* Owner decisions *)

\* Mutant: commits a grant and leaves the requests for its tool open.
CommittedOnly(s, t, p) ==
  [s EXCEPT !.grants[t] = [perm |-> p, reservation |-> NoJob, serial |-> serial + 1],
            !.decided[t] = issued]

\* grant::commit and its invalidate_requests.
Committed(s, t, p) ==
  [s EXCEPT !.grants[t] = [perm |-> p, reservation |-> NoJob, serial |-> serial + 1],
            !.requests = {r \in @ : r.tool # t},
            !.decided[t] = issued]

Add(t, p) ==
  /\ serial < MaxSerial
  /\ Update(Committed(mem, t, p))
  /\ serial' = serial + 1
  /\ UNCHANGED <<up, taskVars, truth, issued>>

Remove(t) ==
  /\ mem.grants[t] # NoGrant
  /\ Update([mem EXCEPT !.grants[t] = NoGrant,
                        !.requests = {r \in @ : r.tool # t},
                        !.decided[t] = issued])
  /\ UNCHANGED <<up, taskVars, truth, counters>>

\* clix request, from a peer or from this machine.
Ask(b, t) ==
  /\ issued < MaxAsk
  /\ Upsert(mem, b, t) # mem.requests
  /\ Update([mem EXCEPT !.requests = Upsert(mem, b, t)])
  /\ issued' = issued + 1
  /\ UNCHANGED <<up, taskVars, truth, serial>>

\* decide names a row by ID; the ID may be as old as the notification it was
\* shown in. An approval carries no argument list and names its machines.
Approvable(p) == p.scope = "listed" /\ p.allow # {} /\ p.args = Args

Allow(id, p) ==
  \E r \in mem.requests :
    /\ r.id = id
    /\ Approvable(p)
    /\ serial < MaxSerial
    /\ mem.grants[r.tool] # NoGrant => mem.grants[r.tool].perm = p
    /\ Update(Committed(mem, r.tool, p))
    /\ serial' = serial + 1
    /\ UNCHANGED <<up, taskVars, truth, issued>>

Dismiss(id) ==
  /\ \E r \in mem.requests : r.id = id
  /\ Update([mem EXCEPT !.requests = {r \in @ : r.id # id}])
  /\ UNCHANGED <<up, taskVars, truth, counters>>

-----------------------------------------------------------------------------
(* Crash and start *)

\* Tasks and permits vanish. A command that was executing ends unobserved.
Crash ==
  /\ up
  /\ faults < MaxFault
  /\ up' = FALSE
  /\ task' = [j \in Job |-> "idle"]
  /\ effect' = [j \in Job |-> IF task[j] = "executing" THEN "unknown" ELSE effect[j]]
  /\ faults' = faults + 1
  /\ UNCHANGED <<storeVars, under, starts, counters>>

Interrupted(s) == {j \in Job : s.jobs[j] = "running"}

\* Mutant: recovers every accepted row, finished or not.
RecoveredTooMuch(s) ==
  [s EXCEPT !.jobs = [j \in Job |-> IF s.jobs[j] \in Accepted THEN "uncertain"
                                    ELSE s.jobs[j]]]

\* Mutant: frees the grants of the runs it recovers.
RecoveredFreely(s) ==
  [s EXCEPT !.jobs = [j \in Job |-> IF s.jobs[j] = "running" THEN "uncertain"
                                    ELSE s.jobs[j]],
            !.grants = [t \in Tool |->
               IF s.grants[t] # NoGrant /\ s.grants[t].reservation \in Interrupted(s)
               THEN [s.grants[t] EXCEPT !.reservation = NoJob] ELSE s.grants[t]]]

Recovered(s) ==
  [s EXCEPT !.jobs = [j \in Job |-> IF s.jobs[j] = "running" THEN "uncertain"
                                    ELSE s.jobs[j]]]

\* Store::open, recover_jobs and, when its save fails, recovery_failed.
Restart ==
  /\ ~up
  /\ up' = TRUE
  /\ mem' = Recovered(disk)
  /\ \/ disk' = Recovered(disk) /\ writeError' = FALSE /\ UNCHANGED faults
     \/ /\ Interrupted(disk) # {}
        /\ faults < MaxFault
        /\ disk' \in {disk, Recovered(disk)}
        /\ writeError' = TRUE
        /\ faults' = faults + 1
  /\ UNCHANGED <<taskVars, truth, counters>>

-----------------------------------------------------------------------------

Task(j) == Start(j) \/ Exit(j) \/ Finish(j) \/ Release(j)

Submit(j) == Admit(j) \/ Deny(j) \/ AwaitCapacity(j)

Owner ==
  \/ \E id \in 1..issued : Dismiss(id) \/ \E p \in Permission : Allow(id, p)
  \/ \E t \in Tool : Remove(t) \/ \E p \in Permission : Add(t, p)

Next ==
  \/ \E j \in Job : Enqueue(j) \/ Submit(j) \/ Task(j)
  \/ \E b \in Body, t \in Tool : Ask(b, t)
  \/ Owner
  \/ Crash
  \/ Restart

Spec == Init /\ [][Next]_vars

=============================================================================
