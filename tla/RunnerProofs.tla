---------------------------- MODULE RunnerProofs ----------------------------
(***************************************************************************)
(* Proofs about Runner, for every set of jobs, tools, bodies and           *)
(* permissions, and every bound.                                           *)
(***************************************************************************)
EXTENDS RunnerRefinement, TLAPS

-----------------------------------------------------------------------------
(* The edits of the store keep its type *)

\* A submission that is granted edits one job and one slot.
LEMMA AdmittedType ==
  ASSUME NEW s \in Store, NEW j \in Job, s.grants[ToolOf[j]] # NoGrant
  PROVE  Admitted(s, j) \in Store
  <1> DEFINE t == ToolOf[j]
  <1>1. t \in Tool
    BY InvocationShape
  <1>2. s.grants[t] \in Grant
    BY <1>1 DEF Store
  <1>3. [s.grants[t] EXCEPT !.reservation = j] \in Grant
    BY <1>2 DEF Grant
  <1>4. QED
    BY <1>1, <1>2, <1>3 DEF Admitted, Store, Status, Accepted

\* A refused submission edits one job and may add one request.
LEMMA DeniedType ==
  ASSUME NEW s \in Store, NEW j \in Job, NEW v, issued \in Nat
  PROVE  Denied(s, j, v) \in Store
  <1>1. Upsert(s, Caller[j], ToolOf[j]) \in SUBSET Request
    BY InvocationShape DEF Upsert, Store, Request
  <1>2. QED
    BY <1>1 DEF Denied, Store, Status, Refused

\* grant::commit puts a fresh grant in one slot.
LEMMA CommittedType ==
  ASSUME NEW s \in Store, NEW t \in Tool, NEW p \in Permission,
         issued \in Nat, serial \in Nat
  PROVE  Committed(s, t, p) \in Store
  <1>1. [perm |-> p, reservation |-> NoJob, serial |-> serial + 1] \in Grant
    BY DEF Grant
  <1>2. QED
    BY <1>1 DEF Committed, Store

\* finish edits one job and at most the slot of its tool.
LEMMA SettledType ==
  ASSUME NEW s \in Store, NEW j \in Job, NEW o \in Outcome
  PROVE  Settled(s, j, o) \in Store
  <1> DEFINE t == ToolOf[j]
  <1>1. t \in Tool
    BY InvocationShape
  <1>2. FinalStatus[o] \in Status
    BY DEF FinalStatus, Outcome, Status, Accepted
  <1>3. s.grants[t] # NoGrant => [s.grants[t] EXCEPT !.reservation = NoJob] \in Grant
    BY <1>1 DEF Store, Grant
  <1>4. QED
    BY <1>1, <1>2, <1>3 DEF Settled, Store

\* recover_jobs edits only job rows.
LEMMA RecoveredType ==
  ASSUME NEW s \in Store
  PROVE  Recovered(s) \in Store
  BY DEF Recovered, Store, Status, Accepted

-----------------------------------------------------------------------------
(* Type correctness *)

\* Whatever Store::update does with a well-typed new state, both copies stay
\* well typed.
LEMMA UpdateType ==
  ASSUME TypeOK, NEW next \in Store, Update(next)
  PROVE  mem' \in Store /\ disk' \in Store /\ writeError' \in BOOLEAN /\ faults' \in Nat
  <1>1. CASE Saved(next)
    BY <1>1, Zenon DEF TypeOK, Saved
  <1>2. CASE SaveFailed(next)
    <2>1. mem' = mem /\ disk' \in {disk, next} /\ writeError' = TRUE /\ faults' = faults + 1
      BY <1>2 DEF SaveFailed
    <2>2. faults' \in Nat
      BY <2>1 DEF TypeOK
    <2>3. QED
      BY <2>1, <2>2, Zenon DEF TypeOK
  <1>3. QED
    BY <1>1, <1>2 DEF Update

LEMMA TypeInductive == TypeOK /\ [Next]_vars => TypeOK'
  <1> SUFFICES ASSUME TypeOK, [Next]_vars
               PROVE  TypeOK'
    OBVIOUS
  <1>1. ASSUME NEW j \in Job, Enqueue(j)
        PROVE  TypeOK'
    <2>1. [mem EXCEPT !.jobs[j] = "queued"] \in Store
      BY DEF TypeOK, Store, Status, Waiting
    <2>2. QED
      BY <1>1, <2>1, UpdateType DEF Enqueue, TypeOK, taskVars, truth, counters
  <1>2. ASSUME NEW j \in Job, Admit(j)
        PROVE  TypeOK'
    <2>1. mem.grants[ToolOf[j]] # NoGrant
      BY <1>2 DEF Admit, Verdict
    <2>2. Admitted(mem, j) \in Store
      BY <2>1, AdmittedType DEF TypeOK
    <2>3. mem.grants[ToolOf[j]] \in Grant \cup {NoGrant}
      BY InvocationShape DEF TypeOK, Store
    <2>4. Update(Admitted(mem, j))
      BY <1>2 DEF Admit, Update
    <2>5. /\ task' \in [Job -> TaskState]
          /\ under' \in [Job -> Grant \cup {NoGrant}]
      BY <1>2, <2>3 DEF Admit, TypeOK, TaskState, taskVars
    <2>6. QED
      BY <1>2, <2>2, <2>4, <2>5, UpdateType DEF Admit, TypeOK, truth, counters
  <1>3. ASSUME NEW j \in Job, Deny(j)
        PROVE  TypeOK'
    <2>1. PICK v : /\ Update(Denied(mem, j, v))
                   /\ issued' = IF Denied(mem, j, v).requests = mem.requests
                                THEN issued ELSE issued + 1
      BY <1>3 DEF Deny
    <2>2. Denied(mem, j, v) \in Store
      BY DeniedType DEF TypeOK
    <2>3. QED
      BY <1>3, <2>1, <2>2, UpdateType DEF Deny, TypeOK, taskVars, truth
  <1>4. ASSUME NEW j \in Job, AwaitCapacity(j)
        PROVE  TypeOK'
    <2>1. [mem EXCEPT !.jobs[j] = "waiting_capacity"] \in Store
      BY DEF TypeOK, Store, Status, Waiting
    <2>2. QED
      BY <1>4, <2>1, UpdateType DEF AwaitCapacity, TypeOK, taskVars, truth, counters
  <1>5. ASSUME NEW j \in Job, Start(j)
        PROVE  TypeOK'
    BY <1>5 DEF Start, TypeOK, TaskState, Outcome, storeVars, counters
  <1>6. ASSUME NEW j \in Job, Exit(j)
        PROVE  TypeOK'
    BY <1>6 DEF Exit, TypeOK, TaskState, Outcome, storeVars, counters
  <1>7. ASSUME NEW j \in Job, Finish(j)
        PROVE  TypeOK'
    <2>1. Settled(mem, j, task[j]) \in Store
      BY <1>7, SettledType DEF TypeOK, Finish
    <2>2. [mem EXCEPT !.jobs[j] = "uncertain"] \in Store
      BY DEF TypeOK, Store, Status, Accepted
    <2>3. task' \in [Job -> TaskState]
      BY <1>7 DEF Finish, TypeOK, TaskState
    <2>4. mem' \in Store /\ disk' \in Store
      BY <1>7, <2>1, <2>2, Zenon DEF Finish, TypeOK, Saved, Unsaved
    <2>5. faults' \in Nat
      BY <1>7 DEF Finish, TypeOK, Saved
    <2>6. writeError' \in BOOLEAN
      BY <1>7, Zenon DEF Finish, TypeOK, Saved
    <2>7. QED
      BY <1>7, <2>3, <2>4, <2>5, <2>6 DEF Finish, TypeOK, truth, counters
  <1>8. ASSUME NEW j \in Job, Release(j)
        PROVE  TypeOK'
    BY <1>8 DEF Release, TypeOK, TaskState, storeVars, truth, counters
  <1>9. ASSUME NEW b \in Body, NEW t \in Tool, Ask(b, t)
        PROVE  TypeOK'
    <2>1. Upsert(mem, b, t) \in SUBSET Request
      BY DEF Upsert, TypeOK, Store, Request
    <2>2. [mem EXCEPT !.requests = Upsert(mem, b, t)] \in Store
      BY <2>1 DEF TypeOK, Store
    <2>3. QED
      BY <1>9, <2>2, UpdateType DEF Ask, TypeOK, taskVars, truth
  <1>10. ASSUME NEW id, Dismiss(id)
         PROVE  TypeOK'
    <2>1. [mem EXCEPT !.requests = {r \in @ : r.id # id}] \in Store
      BY DEF TypeOK, Store
    <2>2. QED
      BY <1>10, <2>1, UpdateType DEF Dismiss, TypeOK, taskVars, truth, counters
  <1>11. ASSUME NEW id, NEW p \in Permission, Allow(id, p)
         PROVE  TypeOK'
    <2>1. PICK r \in mem.requests : /\ Update(Committed(mem, r.tool, p))
                                    /\ serial' = serial + 1
                                    /\ UNCHANGED <<up, taskVars, truth, issued>>
      BY <1>11 DEF Allow
    <2>2. r.tool \in Tool
      BY DEF TypeOK, Store, Request
    <2>3. Committed(mem, r.tool, p) \in Store
      BY <2>2, CommittedType DEF TypeOK
    <2>4. QED
      BY <2>1, <2>3, UpdateType DEF TypeOK, taskVars, truth
  <1>12. ASSUME NEW t \in Tool, Remove(t)
         PROVE  TypeOK'
    <2>1. [mem EXCEPT !.grants[t] = NoGrant,
                      !.requests = {r \in @ : r.tool # t},
                      !.decided[t] = issued] \in Store
      BY DEF TypeOK, Store
    <2>2. QED
      BY <1>12, <2>1, UpdateType DEF Remove, TypeOK, taskVars, truth, counters
  <1>13. ASSUME NEW t \in Tool, NEW p \in Permission, Add(t, p)
         PROVE  TypeOK'
    <2>1. Committed(mem, t, p) \in Store
      BY CommittedType DEF TypeOK
    <2>2. QED
      BY <1>13, <2>1, UpdateType DEF Add, TypeOK, taskVars, truth
  <1>14. ASSUME Crash
         PROVE  TypeOK'
    <2>1. /\ task' \in [Job -> TaskState]
          /\ effect' \in [Job -> {"none", "ok", "err", "unknown"}]
          /\ faults' \in Nat
      BY <1>14 DEF Crash, TypeOK, TaskState
    <2>2. QED
      BY <1>14, <2>1, Zenon DEF Crash, TypeOK, storeVars, counters
  <1>15. ASSUME Restart
         PROVE  TypeOK'
    <2>1. Recovered(disk) \in Store
      BY RecoveredType DEF TypeOK
    <2>2. faults' \in Nat
      BY <1>15 DEF Restart, TypeOK
    <2>3. mem' \in Store /\ disk' \in Store /\ writeError' \in BOOLEAN /\ up' \in BOOLEAN
      BY <1>15, <2>1, Zenon DEF Restart, TypeOK
    <2>4. QED
      BY <1>15, <2>2, <2>3 DEF Restart, TypeOK, taskVars, truth, counters
  <1>16. CASE UNCHANGED vars
    BY <1>16, Zenon DEF vars, TypeOK
  <1>17. QED
    BY <1>1, <1>2, <1>3, <1>4, <1>5, <1>6, <1>7, <1>8, <1>9, <1>10, <1>11,
       <1>12, <1>13, <1>14, <1>15, <1>16 DEF Next, Submit, Task, Owner

LEMMA InitType == Init => TypeOK
  <1>1. EmptyStore \in Store
    BY DEF EmptyStore, Store, Status, Waiting
  <1>2. Init => /\ task \in [Job -> TaskState]
                /\ under \in [Job -> Grant \cup {NoGrant}]
                /\ starts \in [Job -> Nat]
                /\ effect \in [Job -> {"none", "ok", "err", "unknown"}]
                /\ serial \in Nat /\ issued \in Nat /\ faults \in Nat
    BY DEF Init, TaskState
  <1>3. Init => up \in BOOLEAN /\ writeError \in BOOLEAN
    BY Zenon DEF Init
  <1>4. QED
    BY <1>1, <1>2, <1>3, Zenon DEF Init, TypeOK

\* Every reachable state of the runner is well typed.
THEOREM TypeCorrect == Spec => []TypeOK
  BY InitType, TypeInductive, PTL DEF Spec

-----------------------------------------------------------------------------
(* One run per invocation *)

RunInv == TypeOK /\ MemoryIsDisk /\ TaskAccepted /\ TaskProgress

\* An edit of the store that leaves every accepted row alone, whether it is
\* saved or not, keeps the tasks and the rows in step.
LEMMA QuietEdit ==
  ASSUME RunInv, NEW next \in Store, Update(next),
         \A j \in Job : next.jobs[j] # mem.jobs[j] => mem.jobs[j] \in Waiting,
         UNCHANGED <<up, task, under, starts, effect>>
  PROVE  MemoryIsDisk' /\ TaskAccepted' /\ TaskProgress'
  <1>1. /\ up /\ ~writeError
        /\ \/ mem' = next /\ disk' = next /\ UNCHANGED writeError
           \/ mem' = mem /\ disk' \in {disk, next} /\ writeError' = TRUE
    BY Zenon DEF Update, Saved, SaveFailed
  <1>2. MemoryIsDisk'
    BY <1>1 DEF MemoryIsDisk
  <1>3. ASSUME NEW j \in Job, mem.jobs[j] \in Accepted
        PROVE  /\ mem'.jobs[j] = mem.jobs[j]
               /\ disk'.jobs[j] \in {disk.jobs[j], mem.jobs[j]}
    BY <1>1, <1>3 DEF Accepted, Waiting
  <1>4. ASSUME NEW j \in Job
        PROVE  /\ task[j] # "idle" => up'
               /\ task[j] # "idle" \/ starts[j] > 0 =>
                    disk'.jobs[j] \in Accepted /\ mem'.jobs[j] \in Accepted /\ under[j] # NoGrant
               /\ Active(j) => disk'.jobs[j] = "running" /\ mem'.jobs[j] = "running"
    BY <1>1, <1>3 DEF RunInv, TaskAccepted, Active, Outcome
  <1>5. TaskAccepted'
    BY <1>4 DEF TaskAccepted, Active
  <1>6. TaskProgress'
    BY DEF RunInv, TaskProgress
  <1>7. QED
    BY <1>2, <1>5, <1>6

LEMMA RunInductive == RunInv /\ [Next]_vars => RunInv'
  <1> SUFFICES ASSUME RunInv, [Next]_vars
               PROVE  MemoryIsDisk' /\ TaskAccepted' /\ TaskProgress'
    BY TypeInductive DEF RunInv
  <1> USE DEF RunInv
  <1>1. ASSUME NEW j \in Job, Enqueue(j)
        PROVE  MemoryIsDisk' /\ TaskAccepted' /\ TaskProgress'
    <2>1. [mem EXCEPT !.jobs[j] = "queued"] \in Store
      BY DEF TypeOK, Store, Status, Waiting
    <2>2. QED
      BY <1>1, <2>1, QuietEdit DEF Enqueue, taskVars, truth, TypeOK, Store, Waiting
  <1>2. ASSUME NEW j \in Job, Admit(j)
        PROVE  MemoryIsDisk' /\ TaskAccepted' /\ TaskProgress'
    <2> DEFINE next == Admitted(mem, j)
    <2>1. next.jobs = [mem.jobs EXCEPT ![j] = "running"]
      BY DEF Admitted, TypeOK, Store
    <2>2. mem.jobs[j] \in Waiting /\ mem.grants[ToolOf[j]] # NoGrant
      BY <1>2 DEF Admit, Submittable, Waiting, Verdict
    <2>3. CASE SaveFailed(next) /\ UNCHANGED taskVars
      <3>1. next \in Store
        BY <2>2, AdmittedType DEF TypeOK
      <3>2. \A i \in Job : next.jobs[i] # mem.jobs[i] => mem.jobs[i] \in Waiting
        BY <2>1, <2>2 DEF TypeOK, Store
      <3>3. QED
        BY <1>2, <2>3, <3>1, <3>2, QuietEdit DEF Admit, Update, taskVars, truth
    <2>4. CASE /\ Saved(next)
               /\ task' = [task EXCEPT ![j] = "ready"]
               /\ under' = [under EXCEPT ![j] = mem.grants[ToolOf[j]]]
      <3>1. starts[j] = 0 /\ task[j] = "idle"
        <4>1. mem.jobs[j] \notin Accepted
          BY <2>2 DEF Accepted, Waiting
        <4>2. ~(task[j] # "idle" \/ starts[j] > 0)
          BY <4>1, Zenon DEF TaskAccepted
        <4>3. starts[j] \in Nat
          BY DEF TypeOK
        <4>4. QED
          BY <4>2, <4>3
      <3>2. up /\ up' /\ mem' = next /\ disk' = next /\ starts' = starts /\ effect' = effect
        BY <1>2, <2>4, Zenon DEF Admit, Saved, truth
      <3>3. MemoryIsDisk'
        BY <3>2 DEF MemoryIsDisk
      <3>4. \A i \in Job : i # j => mem'.jobs[i] = mem.jobs[i] /\ disk'.jobs[i] = mem.jobs[i]
        BY <2>1, <3>2 DEF TypeOK, Store
      <3>5. TaskAccepted'
        BY <2>1, <2>2, <2>4, <3>1, <3>2, <3>4
        DEF TaskAccepted, Active, Outcome, TypeOK, Store, Accepted
      <3>6. TaskProgress'
        BY <2>4, <3>1, <3>2 DEF TaskProgress, TypeOK
      <3>7. QED
        BY <3>3, <3>5, <3>6
    <2>5. QED
      BY <1>2, <2>3, <2>4 DEF Admit
  <1>3. ASSUME NEW j \in Job, Deny(j)
        PROVE  MemoryIsDisk' /\ TaskAccepted' /\ TaskProgress'
    <2>1. PICK v : Update(Denied(mem, j, v))
      BY <1>3 DEF Deny
    <2>2. Denied(mem, j, v) \in Store
      BY DeniedType DEF TypeOK
    <2>3. mem.jobs[j] \in Waiting
      BY <1>3 DEF Deny, Submittable, Waiting
    <2>4. \A i \in Job : Denied(mem, j, v).jobs[i] # mem.jobs[i] => mem.jobs[i] \in Waiting
      BY <2>3 DEF Denied, TypeOK, Store
    <2>5. QED
      BY <1>3, <2>1, <2>2, <2>4, QuietEdit DEF Deny, taskVars, truth
  <1>4. ASSUME NEW j \in Job, AwaitCapacity(j)
        PROVE  MemoryIsDisk' /\ TaskAccepted' /\ TaskProgress'
    <2>1. [mem EXCEPT !.jobs[j] = "waiting_capacity"] \in Store
      BY DEF TypeOK, Store, Status, Waiting
    <2>2. QED
      BY <1>4, <2>1, QuietEdit
      DEF AwaitCapacity, taskVars, truth, TypeOK, Store, Waiting
  <1>5. ASSUME NEW j \in Job, Start(j)
        PROVE  MemoryIsDisk' /\ TaskAccepted' /\ TaskProgress'
    <2>1. MemoryIsDisk'
      BY <1>5 DEF Start, storeVars, MemoryIsDisk
    <2>2. TaskAccepted'
      BY <1>5 DEF Start, storeVars, TaskAccepted, Active, Outcome, TypeOK
    <2>3. TaskProgress'
      BY <1>5 DEF Start, TaskProgress, TypeOK
    <2>4. QED
      BY <2>1, <2>2, <2>3
  <1>6. ASSUME NEW j \in Job, Exit(j)
        PROVE  MemoryIsDisk' /\ TaskAccepted' /\ TaskProgress'
    <2>1. MemoryIsDisk'
      BY <1>6 DEF Exit, storeVars, MemoryIsDisk
    <2>2. TaskAccepted'
      BY <1>6 DEF Exit, storeVars, TaskAccepted, Active, Outcome, TypeOK
    <2>3. TaskProgress'
      BY <1>6 DEF Exit, TaskProgress, TypeOK, Outcome
    <2>4. QED
      BY <2>1, <2>2, <2>3
  <1>7. ASSUME NEW j \in Job, Finish(j)
        PROVE  MemoryIsDisk' /\ TaskAccepted' /\ TaskProgress'
    <2> DEFINE next == Settled(mem, j, task[j])
    <2>1. /\ up /\ up' /\ task[j] \in Outcome
          /\ task' = [task EXCEPT ![j] = "closing"]
          /\ under' = under /\ starts' = starts /\ effect' = effect
      BY <1>7, Zenon DEF Finish, truth
    <2>2. next.jobs = [mem.jobs EXCEPT ![j] = FinalStatus[task[j]]]
      BY DEF Settled, TypeOK, Store
    <2>3. FinalStatus[task[j]] \in Accepted
      BY <2>1 DEF FinalStatus, Outcome, Accepted
    <2>4. mem.jobs[j] = "running" /\ disk.jobs[j] = "running"
      BY <2>1 DEF TaskAccepted, Active
    <2>5. \/ mem' = next /\ disk' = next
          \/ Unsaved(j) /\ disk' \in {disk, next} /\ writeError' = TRUE
      BY <1>7, Zenon DEF Finish, Saved, TypeOK
    <2>6. MemoryIsDisk'
      <3>1. CASE mem' = next /\ disk' = next
        BY <3>1, Zenon DEF MemoryIsDisk
      <3>2. CASE writeError' = TRUE
        BY <3>2, Zenon DEF MemoryIsDisk
      <3>3. QED
        BY <2>5, <3>1, <3>2
    <2>7. \A i \in Job : i # j => /\ mem'.jobs[i] = mem.jobs[i]
                                  /\ disk'.jobs[i] \in {mem.jobs[i], disk.jobs[i]}
      BY <2>2, <2>5 DEF Unsaved, TypeOK, Store
    <2>8. mem'.jobs[j] \in Accepted /\ disk'.jobs[j] \in Accepted
      BY <2>2, <2>3, <2>4, <2>5 DEF Unsaved, TypeOK, Store, Accepted
    <2>9. TaskAccepted'
      BY <2>1, <2>7, <2>8 DEF TaskAccepted, Active, Outcome, TypeOK
    <2>10. TaskProgress'
      BY <2>1 DEF TaskProgress, TypeOK
    <2>11. QED
      BY <2>6, <2>9, <2>10
  <1>8. ASSUME NEW j \in Job, Release(j)
        PROVE  MemoryIsDisk' /\ TaskAccepted' /\ TaskProgress'
    <2>1. MemoryIsDisk'
      BY <1>8 DEF Release, storeVars, MemoryIsDisk
    <2>2. TaskAccepted'
      BY <1>8 DEF Release, storeVars, truth, TaskAccepted, Active, Outcome, TypeOK
    <2>3. TaskProgress'
      BY <1>8 DEF Release, truth, TaskProgress, TypeOK
    <2>4. QED
      BY <2>1, <2>2, <2>3
  <1>9. ASSUME NEW next \in Store, Update(next), next.jobs = mem.jobs,
               UNCHANGED <<up, taskVars, truth>>
        PROVE  MemoryIsDisk' /\ TaskAccepted' /\ TaskProgress'
    BY <1>9, QuietEdit DEF taskVars, truth
  <1>10. ASSUME NEW b \in Body, NEW t \in Tool, Ask(b, t)
         PROVE  MemoryIsDisk' /\ TaskAccepted' /\ TaskProgress'
    <2>1. Upsert(mem, b, t) \in SUBSET Request
      BY DEF Upsert, TypeOK, Store, Request
    <2>2. [mem EXCEPT !.requests = Upsert(mem, b, t)] \in Store
      BY <2>1 DEF TypeOK, Store
    <2>3. QED
      BY <1>9, <1>10, <2>2 DEF Ask, TypeOK, Store
  <1>11. ASSUME NEW id, Dismiss(id)
         PROVE  MemoryIsDisk' /\ TaskAccepted' /\ TaskProgress'
    <2>1. [mem EXCEPT !.requests = {r \in @ : r.id # id}] \in Store
      BY DEF TypeOK, Store
    <2>2. QED
      BY <1>9, <1>11, <2>1 DEF Dismiss, TypeOK, Store
  <1>12. ASSUME NEW t \in Tool, NEW p \in Permission, Update(Committed(mem, t, p)),
                UNCHANGED <<up, taskVars, truth>>
         PROVE  MemoryIsDisk' /\ TaskAccepted' /\ TaskProgress'
    <2>1. Committed(mem, t, p) \in Store
      BY CommittedType DEF TypeOK
    <2>2. Committed(mem, t, p).jobs = mem.jobs
      BY DEF Committed, TypeOK, Store
    <2>3. QED
      BY <1>9, <1>12, <2>1, <2>2
  <1>13. ASSUME NEW id, NEW p \in Permission, Allow(id, p)
         PROVE  MemoryIsDisk' /\ TaskAccepted' /\ TaskProgress'
    <2>1. PICK r \in mem.requests : /\ Update(Committed(mem, r.tool, p))
                                    /\ UNCHANGED <<up, taskVars, truth>>
      BY <1>13 DEF Allow
    <2>2. r.tool \in Tool
      BY DEF TypeOK, Store, Request
    <2>3. QED
      BY <1>12, <2>1, <2>2
  <1>14. ASSUME NEW t \in Tool, Remove(t)
         PROVE  MemoryIsDisk' /\ TaskAccepted' /\ TaskProgress'
    <2>1. [mem EXCEPT !.grants[t] = NoGrant,
                      !.requests = {r \in @ : r.tool # t},
                      !.decided[t] = issued] \in Store
      BY DEF TypeOK, Store
    <2>2. QED
      BY <1>9, <1>14, <2>1 DEF Remove, TypeOK, Store
  <1>15. ASSUME NEW t \in Tool, NEW p \in Permission, Add(t, p)
         PROVE  MemoryIsDisk' /\ TaskAccepted' /\ TaskProgress'
    BY <1>12, <1>15 DEF Add
  <1>16. ASSUME Crash
         PROVE  MemoryIsDisk' /\ TaskAccepted' /\ TaskProgress'
    <2>1. /\ mem' = mem /\ disk' = disk /\ starts' = starts /\ under' = under
          /\ up' = FALSE /\ task' = [j \in Job |-> "idle"]
          /\ effect' = [j \in Job |-> IF task[j] = "executing" THEN "unknown" ELSE effect[j]]
      BY <1>16, Zenon DEF Crash, storeVars
    <2>2. MemoryIsDisk'
      BY <2>1, Zenon DEF MemoryIsDisk
    <2>3. TaskAccepted'
      BY <2>1 DEF TaskAccepted, Active, Outcome
    <2>4. TaskProgress'
      BY <2>1 DEF TaskProgress
    <2>5. QED
      BY <2>2, <2>3, <2>4
  <1>17. ASSUME Restart
         PROVE  MemoryIsDisk' /\ TaskAccepted' /\ TaskProgress'
    <2>1. /\ ~up /\ mem' = Recovered(disk) /\ disk' \in {disk, Recovered(disk)}
          /\ task' = task /\ starts' = starts /\ effect' = effect /\ under' = under
          /\ disk' = Recovered(disk) \/ writeError' = TRUE
      BY <1>17, Zenon DEF Restart, taskVars, truth
    <2>2. \A j \in Job : task[j] = "idle"
      BY <2>1 DEF TaskAccepted, TypeOK
    <2>3. Recovered(disk).jobs = [j \in Job |-> IF disk.jobs[j] = "running"
                                                THEN "uncertain" ELSE disk.jobs[j]]
      BY DEF Recovered, TypeOK, Store
    <2>4. MemoryIsDisk'
      BY <2>1, <2>3 DEF MemoryIsDisk
    <2>5. TaskAccepted'
      BY <2>1, <2>2, <2>3 DEF TaskAccepted, Active, Outcome, Accepted, TypeOK, Store
    <2>6. TaskProgress'
      BY <2>1 DEF TaskProgress
    <2>7. QED
      BY <2>4, <2>5, <2>6
  <1>18. CASE UNCHANGED vars
    <2>1. /\ mem' = mem /\ disk' = disk /\ up' = up /\ writeError' = writeError
          /\ task' = task /\ under' = under /\ starts' = starts /\ effect' = effect
      BY <1>18 DEF vars
    <2>2. QED
      BY <2>1, Zenon DEF MemoryIsDisk, TaskAccepted, TaskProgress, Active
  <1>19. QED
    BY <1>1, <1>2, <1>3, <1>4, <1>5, <1>6, <1>7, <1>8, <1>10, <1>11, <1>13,
       <1>14, <1>15, <1>16, <1>17, <1>18 DEF Next, Submit, Task, Owner

LEMMA RunInvariant == Spec => []RunInv
  <1>1. Init => RunInv
    <2>1. Init => TypeOK
      BY InitType
    <2>2. Init => MemoryIsDisk /\ TaskAccepted /\ TaskProgress
      BY DEF Init, EmptyStore, MemoryIsDisk, TaskAccepted, TaskProgress,
             Active, Outcome
    <2>3. QED
      BY <2>1, <2>2 DEF RunInv
  <1>2. QED
    BY <1>1, RunInductive, PTL DEF Spec

\* No invocation is ever run twice by this machine.
THEOREM RunOnce == Spec => []RunsAtMostOnce
  <1>1. RunInv => RunsAtMostOnce
    BY DEF RunInv, TaskProgress, RunsAtMostOnce
  <1>2. QED
    BY <1>1, RunInvariant, PTL

\* "Persist acceptance and reserve permission before starting a process": once
\* a command may have started, state.json knows its ID as accepted, whatever
\* is lost afterwards, so no later start of the sidecar can admit it again.
AcceptedBeforeStart ==
  \A j \in Job : starts[j] > 0 => disk.jobs[j] \in Accepted

\* A command is started only after its acceptance is durable.
THEOREM DurableAdmission == Spec => []AcceptedBeforeStart
  <1>1. RunInv => AcceptedBeforeStart
    BY DEF RunInv, TaskAccepted, AcceptedBeforeStart
  <1>2. QED
    BY <1>1, RunInvariant, PTL


-----------------------------------------------------------------------------
(* What a row says happened *)

\* The rows of finished runs, which alone say what a command did.
ToldTruly ==
  \A s \in {mem, disk} : \A j \in Job :
    /\ s.jobs[j] = "done_ok" => effect[j] = "ok"
    /\ s.jobs[j] = "done_err" => effect[j] = "err"

\* No step changes what a finished run has done.
LEMMA EffectStays ==
  ASSUME RunInv, [Next]_vars, NEW j \in Job, NEW s \in {mem, disk},
         s.jobs[j] \in {"done_ok", "done_err"}
  PROVE  effect'[j] = effect[j]
  <1>1. task[j] \notin {"executing"}
    BY DEF RunInv, TaskAccepted, Active
  <1>2. ASSUME NEW i \in Job, Exit(i)
        PROVE  effect'[j] = effect[j]
    <2>1. i # j
      BY <1>1, <1>2 DEF Exit
    <2>2. \E e : effect' = [effect EXCEPT ![i] = e]
      BY <1>2 DEF Exit
    <2>3. QED
      BY <2>1, <2>2 DEF RunInv, TypeOK
  <1>3. CASE Crash
    BY <1>1, <1>3 DEF Crash
  <1>4. CASE effect' = effect
    BY <1>4
  <1>5. QED
    BY <1>2, <1>3, <1>4
    DEF Next, Enqueue, Submit, Admit, Deny, AwaitCapacity, Task, Start, Finish, Release, Ask,
        Owner, Add, Remove, Allow, Dismiss, Restart, vars, truth

\* A row of a store becomes done only when its task settles, with its outcome.
LEMMA RowsFollow ==
  ASSUME RunInv, [Next]_vars, NEW j \in Job, NEW next \in {mem', disk'},
         next.jobs[j] \in {"done_ok", "done_err"}
  PROVE  \/ \E s \in {mem, disk} : s.jobs[j] = next.jobs[j]
         \/ /\ task[j] \in Outcome /\ effect' = effect
            /\ next.jobs[j] = FinalStatus[task[j]]
  <1> DEFINE Goal == \/ \E s \in {mem, disk} : s.jobs[j] = next.jobs[j]
                     \/ /\ task[j] \in Outcome /\ effect' = effect
                        /\ next.jobs[j] = FinalStatus[task[j]]
  <1>1. TypeOK
    BY DEF RunInv
  <1>2. ASSUME NEW n, Update(n),
               n.jobs[j] \in {"done_ok", "done_err"} => n.jobs[j] = mem.jobs[j]
        PROVE  Goal
    <2>1. next \in {mem, disk, n}
      BY <1>2, Zenon DEF Update, Saved, SaveFailed
    <2>2. QED
      BY <1>2, <2>1
  <1>3. ASSUME NEW i \in Job, NEW status \in {"queued", "waiting_capacity"},
               Update([mem EXCEPT !.jobs[i] = status])
        PROVE  Goal
    <2>1. [mem EXCEPT !.jobs[i] = status].jobs = [mem.jobs EXCEPT ![i] = status]
      BY <1>1 DEF TypeOK, Store
    <2>2. QED
      BY <1>1, <1>2, <1>3, <2>1 DEF TypeOK, Store
  <1>4. ASSUME NEW i \in Job, Admit(i)
        PROVE  Goal
    <2>1. Update(Admitted(mem, i))
      BY <1>4 DEF Admit, Update
    <2>2. Admitted(mem, i).jobs = [mem.jobs EXCEPT ![i] = "running"]
      BY <1>1 DEF Admitted, TypeOK, Store
    <2>3. QED
      BY <1>1, <1>2, <2>1, <2>2 DEF TypeOK, Store
  <1>5. ASSUME NEW i \in Job, Deny(i)
        PROVE  Goal
    <2>1. PICK v : Update(Denied(mem, i, v))
      BY <1>5 DEF Deny
    <2>2. Denied(mem, i, v).jobs = [mem.jobs EXCEPT ![i] = "denied"]
      BY <1>1 DEF Denied, TypeOK, Store
    <2>3. QED
      BY <1>1, <1>2, <2>1, <2>2 DEF TypeOK, Store
  <1>6. ASSUME NEW n, Update(n), n.jobs = mem.jobs
        PROVE  Goal
    BY <1>2, <1>6
  <1>7. ASSUME NEW b, NEW t, Ask(b, t)
        PROVE  Goal
    BY <1>1, <1>6, <1>7 DEF Ask, TypeOK, Store
  <1>8. ASSUME NEW id, Dismiss(id)
        PROVE  Goal
    BY <1>1, <1>6, <1>8 DEF Dismiss, TypeOK, Store
  <1>9. ASSUME NEW t, NEW p, Update(Committed(mem, t, p))
        PROVE  Goal
    BY <1>1, <1>6, <1>9 DEF Committed, TypeOK, Store
  <1>10. ASSUME NEW t, Remove(t)
         PROVE  Goal
    BY <1>1, <1>6, <1>10 DEF Remove, TypeOK, Store
  <1>11. ASSUME NEW i \in Job, Finish(i)
         PROVE  Goal
    <2> DEFINE n == Settled(mem, i, task[i])
    <2>1. next \in {mem, disk, n} \/ (next = mem' /\ Unsaved(i))
      BY <1>11, Zenon DEF Finish, Saved
    <2>2. task[i] \in Outcome /\ effect' = effect
      BY <1>11, Zenon DEF Finish, truth
    <2>3. n.jobs = [mem.jobs EXCEPT ![i] = FinalStatus[task[i]]]
      BY <1>1 DEF Settled, TypeOK, Store
    <2>4. CASE next \in {mem, disk}
      BY <2>4
    <2>5. CASE next = n
      BY <1>1, <2>2, <2>3, <2>5 DEF TypeOK, Store
    <2>6. CASE next = mem' /\ Unsaved(i)
      <3>1. next.jobs = [mem.jobs EXCEPT ![i] = "uncertain"]
        BY <1>1, <2>6 DEF Unsaved, TypeOK, Store
      <3>2. QED
        BY <1>1, <3>1 DEF TypeOK, Store
    <2>7. QED
      BY <2>1, <2>4, <2>5, <2>6
  <1>12. CASE Restart
    <2>1. next \in {disk, Recovered(disk)}
      BY <1>12, Zenon DEF Restart
    <2>2. Recovered(disk).jobs = [i \in Job |-> IF disk.jobs[i] = "running"
                                                THEN "uncertain" ELSE disk.jobs[i]]
      BY <1>1 DEF Recovered, TypeOK, Store
    <2>3. QED
      BY <2>1, <2>2
  <1>13. CASE mem' = mem /\ disk' = disk
    BY <1>13
  <1>14. QED
    BY <1>3, <1>4, <1>5, <1>7, <1>8, <1>9, <1>10, <1>11, <1>12, <1>13
    DEF Next, Enqueue, Submit, AwaitCapacity, Task, Start, Exit, Release,
        Owner, Add, Allow, Crash, vars, storeVars

\* A saved or shown exit status is the one the command had, and what was never
\* accepted never ran.
THEOREM StatusIsTrue == Spec => []TruthfulStatus
  <1>1. Init => ToldTruly
    BY DEF Init, EmptyStore, ToldTruly
  <1>2. RunInv /\ ToldTruly /\ [Next]_vars => ToldTruly'
    <2> SUFFICES ASSUME RunInv, ToldTruly, [Next]_vars,
                        NEW next \in {mem', disk'}, NEW j \in Job
                 PROVE  /\ next.jobs[j] = "done_ok" => effect'[j] = "ok"
                        /\ next.jobs[j] = "done_err" => effect'[j] = "err"
      BY DEF ToldTruly
    <2>1. CASE \E s \in {mem, disk} : s.jobs[j] = next.jobs[j]
      BY <2>1, EffectStays DEF ToldTruly
    <2>2. CASE /\ task[j] \in Outcome /\ effect' = effect
               /\ next.jobs[j] = FinalStatus[task[j]]
      BY <2>2 DEF RunInv, TaskProgress, FinalStatus, Outcome
    <2>3. QED
      BY <2>1, <2>2, RowsFollow
  <1>3. ASSUME RunInv, ToldTruly PROVE TruthfulStatus
    <2> SUFFICES ASSUME NEW s \in {mem, disk}, NEW j \in Job, s.jobs[j] \notin Accepted
                 PROVE  starts[j] = 0
      BY <1>3 DEF TruthfulStatus, ToldTruly
    <2>1. ~(starts[j] > 0)
      BY <1>3 DEF RunInv, TaskAccepted
    <2>2. starts[j] \in Nat
      BY <1>3 DEF RunInv, TypeOK
    <2>3. QED
      BY <2>1, <2>2
  <1>4. QED
    BY <1>1, <1>2, <1>3, RunInvariant, PTL DEF Spec


-----------------------------------------------------------------------------
(* One run per decision *)

OnceInv == RunInv /\ SpendersApart

Slots == [Tool -> Grant \cup {NoGrant}]

\* Fewer spenders and later decisions take nothing from a store.
LEMMA HeldByFewer ==
  ASSUME NEW g \in Slots, NEW S, NEW S2 \in SUBSET S, NEW u,
         NEW n \in Nat, NEW n2 \in Nat, n <= n2, SlotsHeld(g, S, u, n)
  PROVE  SlotsHeld(g, S2, u, n2)
  <1>1. ASSUME NEW t \in Tool, g[t] # NoGrant
        PROVE  g[t].serial <= n2
    <2>1. g[t].serial \in Nat /\ g[t].serial <= n
      BY <1>1 DEF Slots, Grant, SlotsHeld
    <2>2. QED
      BY <2>1
  <1>2. QED
    BY <1>1 DEF SlotsHeld

\* An owner's decision puts an empty slot or a fresh grant in place of a grant.
LEMMA HeldAfterDecision ==
  ASSUME NEW g \in Slots, NEW S, NEW u, NEW n \in Nat, NEW n2 \in Nat,
         SlotsHeld(g, S, u, n), \A j \in S : u[j].serial \in Nat /\ u[j].serial <= n,
         NEW t \in Tool, NEW slot \in Grant \cup {NoGrant},
         slot = NoGrant \/ (slot.serial = n + 1 /\ n2 = n + 1),
         n <= n2
  PROVE  SlotsHeld([g EXCEPT ![t] = slot], S, u, n2)
  <1> DEFINE h == [g EXCEPT ![t] = slot]
  <1>1. \A v \in Tool : h[v] = IF v = t THEN slot ELSE g[v]
    BY DEF Slots
  <1>2. SlotsHeld(g, S, u, n2)
    BY HeldByFewer
  <1>3. \A v \in Tool : g[v] # NoGrant => g[v].serial \in Nat /\ g[v].serial <= n
    BY DEF Slots, Grant, SlotsHeld
  <1>4. QED
    BY <1>1, <1>2, <1>3 DEF SlotsHeld

\* A slot that is emptied is nobody's.
LEMMA NoGrantHeld ==
  ASSUME NEW g \in Slots, NEW S, NEW u, NEW n, SlotsHeld(g, S, u, n), NEW t \in Tool
  PROVE  SlotsHeld([g EXCEPT ![t] = NoGrant], S, u, n)
  <1>1. \A v \in Tool : [g EXCEPT ![t] = NoGrant][v] = IF v = t THEN NoGrant ELSE g[v]
    BY DEF Slots
  <1>2. QED
    BY <1>1 DEF SlotsHeld

\* A run that may not spend, or no more, leaves its slot.
LEMMA HeldAfterRelease ==
  ASSUME NEW g \in Slots, NEW S, NEW u, NEW n, SlotsHeld(g, S, u, n),
         NEW t \in Tool, g[t] # NoGrant, g[t].reservation \notin S
  PROVE  SlotsHeld([g EXCEPT ![t] = [g[t] EXCEPT !.reservation = NoJob]], S, u, n)
  <1>1. \A slot : \A v \in Tool :
          [g EXCEPT ![t] = slot][v] = IF v = t THEN slot ELSE g[v]
    BY DEF Slots
  <1>2. \A j \in S : g[t].serial # u[j].serial
    BY DEF SlotsHeld
  <1>3. /\ [g[t] EXCEPT !.reservation = NoJob].serial = g[t].serial
        /\ [g[t] EXCEPT !.reservation = NoJob] # NoGrant
    <2>1. g[t] \in Grant
      BY DEF Slots
    <2>2. [g[t] EXCEPT !.reservation = NoJob] \in Grant
      BY <2>1 DEF Grant
    <2>3. QED
      BY <2>1, <2>2, Sentinels DEF Grant
  <1>4. QED
    BY <1>1, <1>2, <1>3 DEF SlotsHeld

\* A run admitted under a free single-use grant takes its slot, whether or not
\* it comes to be one of those that may spend it.
LEMMA HeldAfterReserve ==
  ASSUME NEW g \in Slots, NEW S, NEW u, NEW n \in Nat, SlotsHeld(g, S, u, n),
         NEW j \in Job, NEW t \in Tool, g[t] # NoGrant, g[t].reservation = NoJob,
         S \subseteq Job, NEW S2 \in SUBSET (S \cup {j}), NEW u2,
         \A i \in S2 \ {j} : u2[i] = u[i],
         j \in S2 => u2[j] = g[t]
  PROVE  SlotsHeld([g EXCEPT ![t] = [g[t] EXCEPT !.reservation = j]], S2, u2, n)
  <1> DEFINE slot == [g[t] EXCEPT !.reservation = j]
             h == [g EXCEPT ![t] = slot]
  <1>1. \A v \in Tool : h[v] = IF v = t THEN slot ELSE g[v]
    BY DEF Slots
  <1>2. g[t] \in Grant /\ slot \in Grant /\ slot.serial = g[t].serial /\ slot.reservation = j
    <2>1. g[t] \in Grant
      BY DEF Slots
    <2>2. QED
      BY <2>1 DEF Grant
  <1>3. \A i \in S : g[t].serial # u[i].serial
    BY Sentinels DEF SlotsHeld
  <1>4. ASSUME NEW v \in Tool, NEW i \in S2, h[v] # NoGrant, h[v].serial = u2[i].serial
        PROVE  h[v].reservation = i
    <2>1. CASE i = j
      <3>1. v = t
        BY <1>1, <1>2, <1>4, <2>1 DEF SlotsHeld
      <3>2. QED
        BY <1>1, <1>2, <2>1, <3>1
    <2>2. CASE i # j
      <3>1. i \in S /\ u2[i] = u[i]
        BY <2>2
      <3>2. v # t
        BY <1>1, <1>2, <1>3, <1>4, <3>1
      <3>3. QED
        BY <1>1, <1>4, <3>1, <3>2 DEF SlotsHeld
    <2>3. QED
      BY <2>1, <2>2
  <1>5. /\ \A v \in Tool : h[v] # NoGrant => h[v].serial <= n
        /\ \A v, w \in Tool : h[v] # NoGrant /\ h[w] # NoGrant /\ h[v].serial = h[w].serial => v = w
    BY <1>1, <1>2, Sentinels DEF SlotsHeld
  <1>6. QED
    BY <1>4, <1>5 DEF SlotsHeld

\* A step that admits nobody: what it leaves in the slots is held by those who
\* may spend it.
LEMMA KeptApart ==
  ASSUME OnceInv, under' = under, Spenders' \subseteq Spenders,
         serial' \in Nat, serial <= serial',
         NEW n, SlotsHeld(n, Spenders', under, serial'),
         mem'.grants \in {mem.grants, disk.grants, n},
         disk'.grants \in {mem.grants, disk.grants, n}
  PROVE  SpendersApart'
  <1>1. /\ mem.grants \in Slots /\ disk.grants \in Slots /\ serial \in Nat
        /\ under \in [Job -> Grant \cup {NoGrant}]
    BY DEF OnceInv, RunInv, TypeOK, Store, Slots
  <1>2. SlotsHeld(mem.grants, Spenders, under, serial) /\ SlotsHeld(disk.grants, Spenders, under, serial)
    BY DEF OnceInv, SpendersApart
  <1>3. SlotsHeld(mem.grants, Spenders', under, serial') /\ SlotsHeld(disk.grants, Spenders', under, serial')
    BY <1>1, <1>2, HeldByFewer
  <1>4. \A s \in {mem', disk'} : SlotsHeld(s.grants, Spenders', under', serial')
    BY <1>3
  <1>5. \A j \in Job : under'[j] # NoGrant => under'[j].serial <= serial'
    <2> SUFFICES ASSUME NEW j \in Job, under[j] # NoGrant PROVE under[j].serial <= serial'
      OBVIOUS
    <2>1. under[j].serial \in Nat /\ under[j].serial <= serial
      BY <1>1 DEF OnceInv, SpendersApart, Grant
    <2>2. QED
      BY <1>1, <2>1
  <1>6. \A i, j \in Spenders' : i # j => under'[i].serial # under'[j].serial
    BY DEF OnceInv, SpendersApart
  <1>7. QED
    BY <1>4, <1>5, <1>6 DEF SpendersApart

\* Nobody else comes to spend: a run that was not one of the spenders captured
\* no single-use grant, has not started, or has failed.
LEMMA SpendersShrink ==
  ASSUME RunInv, [Next]_vars, under' = under,
         \A j \in Job : task'[j] = "ready" => task[j] = "ready"
  PROVE  Spenders' \subseteq Spenders
  <1> SUFFICES ASSUME NEW j \in Job, under[j] # NoGrant, under[j].perm.once,
                      task'[j] = "ready" \/ (starts'[j] > 0 /\ effect'[j] # "err")
               PROVE  task[j] = "ready" \/ (starts[j] > 0 /\ effect[j] # "err")
    BY DEF Spenders
  <1>1. TypeOK /\ TaskProgress /\ starts[j] \in Nat
    BY DEF RunInv, TypeOK
  <1>2. ASSUME NEW i \in Job, Start(i)
        PROVE  task[j] = "ready" \/ (starts[j] > 0 /\ effect[j] # "err")
    BY <1>1, <1>2 DEF Start, TypeOK
  <1>3. ASSUME NEW i \in Job, Exit(i)
        PROVE  task[j] = "ready" \/ (starts[j] > 0 /\ effect[j] # "err")
    <2>1. starts' = starts /\ \E e : effect' = [effect EXCEPT ![i] = e] /\ task[i] = "executing"
      BY <1>3 DEF Exit
    <2>2. i = j => starts[j] = 1 /\ effect[j] = "none"
      BY <1>1, <2>1 DEF TaskProgress
    <2>3. i # j => effect'[j] = effect[j]
      BY <1>1, <2>1 DEF TypeOK
    <2>4. QED
      BY <2>1, <2>2, <2>3
  <1>4. CASE Crash
    <2>1. /\ starts' = starts /\ task'[j] = "idle"
          /\ effect'[j] = IF task[j] = "executing" THEN "unknown" ELSE effect[j]
      BY <1>4 DEF Crash
    <2>2. QED
      BY <1>1, <2>1 DEF TaskProgress
  <1>5. CASE starts' = starts /\ effect' = effect
    BY <1>5
  <1>6. QED
    BY <1>2, <1>3, <1>4, <1>5
    DEF Next, Enqueue, Submit, Admit, Deny, AwaitCapacity, Task, Finish, Release, Ask,
        Owner, Add, Remove, Allow, Dismiss, Restart, vars, truth

LEMMA OnceInDecision ==
  ASSUME OnceInv, [Next]_vars, NEW t \in Tool, NEW n, NEW slot \in Grant \cup {NoGrant},
         n.grants = [mem.grants EXCEPT ![t] = slot], Update(n),
         \/ slot = NoGrant /\ serial' = serial
         \/ slot # NoGrant /\ slot.serial = serial + 1 /\ serial' = serial + 1,
         UNCHANGED <<taskVars, truth>>
  PROVE  SpendersApart'
  <1>1. /\ mem.grants \in Slots /\ serial \in Nat /\ under \in [Job -> Grant \cup {NoGrant}]
    BY DEF OnceInv, RunInv, TypeOK, Store, Slots
  <1>2. Spenders' = Spenders /\ under' = under
    BY DEF Spenders, taskVars, truth
  <1>3. \A j \in Spenders : under[j].serial \in Nat /\ under[j].serial <= serial
    BY <1>1 DEF Spenders, OnceInv, SpendersApart, Grant
  <1>4. serial' \in Nat /\ serial <= serial'
    BY <1>1
  <1>5. SlotsHeld(mem.grants, Spenders, under, serial)
    BY DEF OnceInv, SpendersApart
  <1>6. SlotsHeld([mem.grants EXCEPT ![t] = slot], Spenders, under, serial')
    BY <1>1, <1>3, <1>4, <1>5, HeldAfterDecision
  <1>7. mem' \in {mem, disk, n} /\ disk' \in {mem, disk, n}
    BY Zenon DEF Update, Saved, SaveFailed
  <1>8. QED
    BY <1>2, <1>4, <1>6, <1>7, KeptApart

LEMMA OnceInFinish ==
  ASSUME OnceInv, [Next]_vars, NEW j \in Job, Finish(j)
  PROVE  SpendersApart'
  <1> DEFINE t == ToolOf[j]
             o == task[j]
             n == Settled(mem, j, o)
  <1>1. /\ TypeOK /\ TaskProgress /\ t \in Tool
        /\ mem.grants \in Slots /\ serial \in Nat /\ under \in [Job -> Grant \cup {NoGrant}]
    BY InvocationShape DEF OnceInv, RunInv, TypeOK, Store, Slots
  <1>2. /\ o \in Outcome /\ task' = [task EXCEPT ![j] = "closing"]
        /\ under' = under /\ starts' = starts /\ effect' = effect /\ serial' = serial
    BY <1>1, Zenon DEF Finish, truth, counters
  <1>3. Spenders' \subseteq Spenders
    BY <1>1, <1>2, SpendersShrink DEF TypeOK, OnceInv
  <1>4. SlotsHeld(mem.grants, Spenders', under, serial)
    <2>1. SlotsHeld(mem.grants, Spenders, under, serial)
      BY DEF OnceInv, SpendersApart
    <2>2. QED
      BY <1>1, <1>3, <2>1, HeldByFewer
  <1>5. SlotsHeld(n.grants, Spenders', under, serial)
    <2> DEFINE mine == /\ under[j].perm.once
                       /\ mem.grants[t] # NoGrant
                       /\ mem.grants[t].reservation = j
    <2>1. n.grants = [mem.grants EXCEPT ![t] =
                        IF ~mine \/ o = "unknown" THEN mem.grants[t]
                        ELSE IF o \in {"ok", "ok_lost"} THEN NoGrant
                        ELSE [mem.grants[t] EXCEPT !.reservation = NoJob]]
      BY <1>1 DEF Settled, TypeOK, Store
    <2>2. CASE ~mine \/ o = "unknown"
      <3>1. n.grants = mem.grants
        BY <1>1, <2>1, <2>2 DEF Slots
      <3>2. QED
        BY <1>4, <3>1
    <2>3. CASE mine /\ o \in {"ok", "ok_lost"}
      <3>1. n.grants = [mem.grants EXCEPT ![t] = NoGrant]
        BY <2>1, <2>3
      <3>2. QED
        BY <1>1, <1>4, <3>1, NoGrantHeld
    <2>4. CASE mine /\ o \notin {"ok", "ok_lost", "unknown"}
      <3>1. n.grants = [mem.grants EXCEPT ![t] = [mem.grants[t] EXCEPT !.reservation = NoJob]]
        BY <2>1, <2>4
      <3>2. j \notin Spenders'
        <4>1. starts[j] = 0 \/ effect[j] = "err"
          BY <1>1, <1>2, <2>4 DEF TaskProgress, Outcome
        <4>2. task'[j] = "closing"
          BY <1>1, <1>2 DEF TypeOK
        <4>3. QED
          BY <1>2, <4>1, <4>2 DEF Spenders
      <3>3. QED
        BY <1>1, <1>4, <2>4, <3>1, <3>2, HeldAfterRelease
    <2>5. QED
      BY <2>2, <2>3, <2>4
  <1>6. /\ mem'.grants \in {mem.grants, disk.grants, n.grants}
        /\ disk'.grants \in {mem.grants, disk.grants, n.grants}
    <2>1. [mem EXCEPT !.jobs[j] = "uncertain"].grants = mem.grants
      BY <1>1 DEF TypeOK, Store
    <2>2. mem' \in {mem, disk, n} \/ Unsaved(j)
      BY Zenon DEF Finish, Saved
    <2>3. disk' \in {mem, disk, n}
      BY Zenon DEF Finish, Saved
    <2>4. QED
      BY <2>1, <2>2, <2>3 DEF Unsaved
  <1>7. QED
    BY <1>1, <1>2, <1>3, <1>5, <1>6, KeptApart

LEMMA OnceInAdmit ==
  ASSUME OnceInv, [Next]_vars, NEW j \in Job, Admit(j)
  PROVE  SpendersApart'
  <1> DEFINE t == ToolOf[j]
             g == mem.grants[t]
             n == Admitted(mem, j)
  <1>1. /\ TypeOK /\ TaskProgress /\ TaskAccepted /\ t \in Tool
        /\ mem.grants \in Slots /\ disk.grants \in Slots
        /\ serial \in Nat /\ under \in [Job -> Grant \cup {NoGrant}]
    BY InvocationShape DEF OnceInv, RunInv, TypeOK, Store, Slots
  <1>2. /\ g # NoGrant /\ g.reservation = NoJob
        /\ starts' = starts /\ effect' = effect /\ serial' = serial
    BY <1>1 DEF Admit, Verdict, truth, counters
  <1>3. /\ \A s \in {mem, disk} : SlotsHeld(s.grants, Spenders, under, serial)
        /\ Spenders \subseteq Job
        /\ \A i \in Job : under[i] # NoGrant => under[i].serial <= serial
        /\ \A i, k \in Spenders : i # k => under[i].serial # under[k].serial
    BY DEF OnceInv, SpendersApart, Spenders
  <1>4. n.grants = [mem.grants EXCEPT ![t] = IF g.perm.once THEN [g EXCEPT !.reservation = j] ELSE g]
    BY <1>1 DEF Admitted, TypeOK, Store
  <1>5. starts[j] = 0 /\ task[j] = "idle"
    <2>1. mem.jobs[j] \notin Accepted
      BY DEF Admit, Submittable, Accepted
    <2>2. ~(starts[j] > 0) /\ task[j] = "idle" /\ starts[j] \in Nat
      BY <1>1, <2>1 DEF TaskAccepted, TypeOK
    <2>3. QED
      BY <2>2
  <1>6. CASE SaveFailed(n) /\ UNCHANGED taskVars
    <2>1. /\ mem'.grants \in {mem.grants, disk.grants, n.grants}
          /\ disk'.grants \in {mem.grants, disk.grants, n.grants}
      BY <1>6 DEF SaveFailed
    <2>2. Spenders' = Spenders /\ under' = under
      BY <1>2, <1>6 DEF Spenders, taskVars
    <2>3. SlotsHeld(n.grants, Spenders, under, serial)
      <3>1. CASE g.perm.once
        <4>1. n.grants = [mem.grants EXCEPT ![t] = [mem.grants[t] EXCEPT !.reservation = j]]
          BY <1>4, <3>1
        <4>2. j \notin Spenders
          BY <1>5 DEF Spenders
        <4>3. SlotsHeld(mem.grants, Spenders, under, serial)
          BY <1>3
        <4>4. Spenders \in SUBSET (Spenders \cup {j})
          OBVIOUS
        <4>5. SlotsHeld([mem.grants EXCEPT ![t] = [mem.grants[t] EXCEPT !.reservation = j]],
                        Spenders, under, serial)
          BY <1>1, <1>2, <1>3, <4>2, <4>3, <4>4, HeldAfterReserve
        <4>6. QED
          BY <4>1, <4>5
      <3>2. CASE ~g.perm.once
        <4>1. n.grants = mem.grants
          BY <1>1, <1>4, <3>2 DEF Slots
        <4>2. QED
          BY <1>3, <4>1
      <3>3. QED
        BY <3>1, <3>2
    <2>4. QED
      BY <1>1, <1>2, <2>1, <2>2, <2>3, KeptApart
  <1>7. CASE /\ Saved(n)
             /\ task' = [task EXCEPT ![j] = "ready"]
             /\ under' = [under EXCEPT ![j] = g]
    <2>1. mem' = n /\ disk' = n
      BY <1>7 DEF Saved
    <2>2. starts[j] = 0
      BY <1>5
    <2>3. /\ under'[j] = g /\ task'[j] = "ready"
          /\ \A i \in Job \ {j} : under'[i] = under[i] /\ task'[i] = task[i]
      BY <1>1, <1>7 DEF TypeOK
    <2>4. /\ Spenders' \subseteq Spenders \cup {j}
          /\ j \in Spenders' => g.perm.once
      BY <1>2, <2>2, <2>3 DEF Spenders
    <2>5. SlotsHeld(n.grants, Spenders', under', serial)
      <3>1. CASE g.perm.once
        <4>1. n.grants = [mem.grants EXCEPT ![t] = [mem.grants[t] EXCEPT !.reservation = j]]
          BY <1>4, <3>1
        <4>2. /\ Spenders' \in SUBSET (Spenders \cup {j})
              /\ \A i \in Spenders' \ {j} : under'[i] = under[i]
              /\ under'[j] = mem.grants[t]
          BY <1>3, <2>3, <2>4
        <4>3. SlotsHeld(mem.grants, Spenders, under, serial)
          BY <1>3
        <4>4. SlotsHeld([mem.grants EXCEPT ![t] = [mem.grants[t] EXCEPT !.reservation = j]],
                        Spenders', under', serial)
          <5>1. PICK S2, u2 : S2 = Spenders' /\ u2 = under'
            OBVIOUS
          <5>2. /\ S2 \in SUBSET (Spenders \cup {j})
                /\ \A i \in S2 \ {j} : u2[i] = under[i]
                /\ u2[j] = mem.grants[t]
            BY <4>2, <5>1
          <5>3. /\ t \in Tool /\ mem.grants \in Slots /\ serial \in Nat /\ Spenders \subseteq Job
                /\ mem.grants[t] # NoGrant /\ mem.grants[t].reservation = NoJob
            BY <1>1, <1>2, <1>3
          <5> HIDE DEF t
          <5>4. SlotsHeld([mem.grants EXCEPT ![t] = [mem.grants[t] EXCEPT !.reservation = j]],
                          S2, u2, serial)
            BY <4>3, <5>2, <5>3, HeldAfterReserve
          <5>5. QED
            BY <5>1, <5>4
        <4>5. QED
          BY <4>1, <4>4
      <3>2. CASE ~g.perm.once
        <4>1. n.grants = mem.grants
          BY <1>1, <1>4, <3>2 DEF Slots
        <4>2. Spenders' \subseteq Spenders /\ j \notin Spenders'
          BY <2>4, <3>2
        <4>3. QED
          BY <1>3, <2>3, <4>1, <4>2 DEF SlotsHeld
      <3>3. QED
        BY <3>1, <3>2
    <2>6. \A i \in Job : under'[i] # NoGrant => under'[i].serial <= serial
      BY <1>1, <1>2, <1>3, <2>3 DEF SlotsHeld
    <2>7. \A i \in Spenders' \ {j} : under'[i].serial # g.serial /\ i \in Spenders
      BY <1>1, <1>2, <1>3, <2>3, <2>4, Sentinels DEF SlotsHeld
    <2>8. \A i, k \in Spenders' : i # k => under'[i].serial # under'[k].serial
      BY <1>3, <2>3, <2>7
    <2>9. QED
      BY <1>2, <2>1, <2>5, <2>6, <2>8 DEF SpendersApart
  <1>8. QED
    BY <1>6, <1>7 DEF Admit

LEMMA OnceInductive ==
  ASSUME OnceInv, [Next]_vars
  PROVE  SpendersApart'
  <1>1. /\ TypeOK /\ SlotsHeld(mem.grants, Spenders, under, serial)
        /\ mem.grants \in Slots /\ disk.grants \in Slots
        /\ serial \in Nat
    BY DEF OnceInv, RunInv, TypeOK, Store, Slots, SpendersApart
  \* Slots untouched, nobody admitted.
  <1>2. ASSUME under' = under, serial' = serial,
               \A j \in Job : task'[j] = "ready" => task[j] = "ready",
               mem'.grants \in {mem.grants, disk.grants},
               disk'.grants \in {mem.grants, disk.grants}
        PROVE  SpendersApart'
    <2>1. Spenders' \subseteq Spenders
      BY <1>2, SpendersShrink DEF OnceInv
    <2>2. SlotsHeld(mem.grants, Spenders', under, serial)
      BY <1>1, <2>1, HeldByFewer
    <2>3. QED
      BY <1>1, <1>2, <2>1, <2>2, KeptApart
  <1>3. ASSUME NEW n, Update(n), n.grants = mem.grants, serial' = serial, UNCHANGED taskVars
        PROVE  SpendersApart'
    <2>1. mem' \in {mem, disk, n} /\ disk' \in {mem, disk, n}
      BY <1>3, Zenon DEF Update, Saved, SaveFailed
    <2>2. QED
      BY <1>2, <1>3, <2>1 DEF taskVars
  <1>4. ASSUME NEW j \in Job, Enqueue(j)
        PROVE  SpendersApart'
    BY <1>1, <1>3, <1>4 DEF Enqueue, counters, TypeOK, Store
  <1>5. ASSUME NEW j \in Job, Deny(j)
        PROVE  SpendersApart'
    <2>1. PICK v : Update(Denied(mem, j, v))
      BY <1>5 DEF Deny
    <2>2. Denied(mem, j, v).grants = mem.grants
      BY <1>1 DEF Denied, TypeOK, Store
    <2>3. QED
      BY <1>3, <1>5, <2>1, <2>2 DEF Deny
  <1>6. ASSUME NEW j \in Job, AwaitCapacity(j)
        PROVE  SpendersApart'
    BY <1>1, <1>3, <1>6 DEF AwaitCapacity, counters, TypeOK, Store
  <1>7. ASSUME NEW b, NEW t, Ask(b, t)
        PROVE  SpendersApart'
    BY <1>1, <1>3, <1>7 DEF Ask, TypeOK, Store
  <1>8. ASSUME NEW id, Dismiss(id)
        PROVE  SpendersApart'
    BY <1>1, <1>3, <1>8 DEF Dismiss, counters, TypeOK, Store
  <1>9. ASSUME NEW j \in Job, Start(j) \/ Exit(j) \/ Release(j)
        PROVE  SpendersApart'
    <2>1. /\ under' = under /\ serial' = serial /\ mem' = mem /\ disk' = disk
          /\ \E v : v # "ready" /\ task' = [task EXCEPT ![j] = v]
      BY <1>9 DEF Start, Exit, Release, storeVars, counters, Outcome
    <2>2. QED
      BY <1>1, <1>2, <2>1 DEF TypeOK
  <1>10. CASE Crash \/ UNCHANGED vars
    BY <1>2, <1>10 DEF Crash, storeVars, counters, vars
  <1>11. CASE Restart
    <2>1. Recovered(disk).grants = disk.grants
      BY <1>1 DEF Recovered, TypeOK, Store
    <2>2. /\ mem' \in {disk, Recovered(disk)} /\ disk' \in {disk, Recovered(disk)}
          /\ task' = task /\ under' = under /\ serial' = serial
      BY <1>11, Zenon DEF Restart, taskVars, counters
    <2>3. QED
      BY <1>2, <2>1, <2>2
  <1>12. ASSUME NEW t \in Tool, NEW p \in Permission, Update(Committed(mem, t, p)),
                serial' = serial + 1, UNCHANGED <<taskVars, truth>>
         PROVE  SpendersApart'
    <2> DEFINE slot == [perm |-> p, reservation |-> NoJob, serial |-> serial + 1]
    <2>1. slot \in Grant /\ slot # NoGrant /\ slot.serial = serial + 1
      BY <1>1, Sentinels DEF Grant
    <2>2. Committed(mem, t, p).grants = [mem.grants EXCEPT ![t] = slot]
      BY <1>1 DEF Committed, TypeOK, Store
    <2>3. QED
      BY <1>12, <2>1, <2>2, OnceInDecision
  <1>13. ASSUME NEW t \in Tool, NEW p \in Permission, Add(t, p)
         PROVE  SpendersApart'
    BY <1>12, <1>13 DEF Add
  <1>14. ASSUME NEW id, NEW p \in Permission, Allow(id, p)
         PROVE  SpendersApart'
    <2>1. PICK r \in mem.requests : /\ Update(Committed(mem, r.tool, p))
                                    /\ serial' = serial + 1
                                    /\ UNCHANGED <<taskVars, truth>>
      BY <1>14 DEF Allow
    <2>2. r.tool \in Tool
      BY <1>1 DEF TypeOK, Store, Request
    <2>3. QED
      BY <1>12, <2>1, <2>2
  <1>15. ASSUME NEW t \in Tool, Remove(t)
         PROVE  SpendersApart'
    <2>1. PICK n : /\ Update(n)
                   /\ n = [mem EXCEPT !.grants[t] = NoGrant,
                                      !.requests = {r \in mem.requests : r.tool # t},
                                      !.decided[t] = issued]
      BY <1>15 DEF Remove
    <2>2. n.grants = [mem.grants EXCEPT ![t] = NoGrant]
      BY <1>1, <2>1 DEF TypeOK, Store
    <2>3. serial' = serial /\ UNCHANGED <<taskVars, truth>>
      BY <1>15 DEF Remove, counters
    <2>4. QED
      BY <1>15, <2>1, <2>2, <2>3, OnceInDecision
  <1>16. QED
    BY <1>4, <1>5, <1>6, <1>7, <1>8, <1>9, <1>10, <1>11, <1>13, <1>14, <1>15,
       OnceInAdmit, OnceInFinish
    DEF Next, Submit, Task, Owner

LEMMA InitApart == Init => SpendersApart
  <1> SUFFICES ASSUME Init PROVE SpendersApart
    OBVIOUS
  <1>1. \A j \in Job : under[j] = NoGrant
    BY DEF Init
  <1>2. Spenders = {}
    BY <1>1 DEF Spenders
  <1>3. \A s \in {mem, disk}, t \in Tool : s.grants[t] = NoGrant
    BY DEF Init, EmptyStore
  <1>4. QED
    BY <1>1, <1>2, <1>3 DEF SpendersApart, SlotsHeld

\* Two runs that may spend never share a decision, in any reachable state.
LEMMA ApartInvariant == Spec => []SpendersApart
  <1>1. RunInv /\ SpendersApart /\ [Next]_vars => SpendersApart'
    BY OnceInductive DEF OnceInv
  <1>2. QED
    BY <1>1, InitApart, RunInvariant, PTL DEF Spec

\* One decision of the owner to allow a tool once pays for one run, however many
\* runs there are, may be going on together, crash or cannot be saved.
THEOREM OnceIsOnce == Spec => []OncePermission
  <1>1. ASSUME RunInv, SpendersApart PROVE OncePermission
    <2> SUFFICES ASSUME NEW i \in Job, NEW j \in Job, i # j, Spends(i), Spends(j)
                 PROVE  under[i].serial # under[j].serial
      BY DEF OncePermission
    <2>1. i \in Spenders /\ j \in Spenders
      BY <1>1 DEF RunInv, TaskAccepted, Spends, Spenders
    <2>2. QED
      BY <1>1, <2>1 DEF SpendersApart
  <1>2. QED
    BY <1>1, ApartInvariant, RunInvariant, PTL

-----------------------------------------------------------------------------
(* Requests and decisions *)

\* More IDs take nothing from a store.
LEMMA AskedLater ==
  ASSUME NEW s \in Store, NEW last \in Nat, NEW more \in Nat, last <= more, Asked(s, last)
  PROVE  Asked(s, more)
  <1>1. \A r \in s.requests : r.id \in Nat
    BY DEF Store, Request
  <1>2. \A t \in Tool : s.decided[t] \in Nat
    BY DEF Store
  <1>3. QED
    BY <1>1, <1>2 DEF Asked

\* A new request takes the next ID.
LEMMA AskedNext ==
  ASSUME NEW s \in Store, issued \in Nat, Asked(s, issued), NEW b \in Body, NEW t \in Tool,
         NEW n \in Store, n.requests \in {s.requests, Upsert(s, b, t)}, n.decided = s.decided
  PROVE  Asked(n, IF n.requests = s.requests THEN issued ELSE issued + 1)
  <1>1. CASE n.requests = s.requests
    BY <1>1 DEF Asked
  <1>2. CASE n.requests # s.requests
    <2>1. n.requests = s.requests \cup {[id |-> issued + 1, from |-> b, tool |-> t]}
      BY <1>2 DEF Upsert
    <2>2. Asked(s, issued + 1)
      BY AskedLater
    <2>3. s.decided[t] \in Nat /\ s.decided[t] <= issued
      BY DEF Asked, Store
    <2>4. s.decided[t] < issued + 1
      BY <2>3
    <2>5. QED
      BY <1>2, <2>1, <2>2, <2>4 DEF Asked
  <1>3. QED
    BY <1>1, <1>2

\* A decision about a slot answers its requests.
LEMMA AskedDecided ==
  ASSUME NEW s \in Store, issued \in Nat, Asked(s, issued), NEW t \in Tool, NEW n,
         n.requests = {r \in s.requests : r.tool # t},
         n.decided = [s.decided EXCEPT ![t] = issued]
  PROVE  Asked(n, issued)
  <1>1. \A u \in Tool : n.decided[u] = IF u = t THEN issued ELSE s.decided[u]
    BY DEF Store
  <1>2. \A r \in s.requests : r.tool \in Tool
    BY DEF Store, Request
  <1>3. QED
    BY <1>1, <1>2 DEF Asked

LEMMA RequestsInductive ==
  ASSUME TypeOK, RequestsInOrder, [Next]_vars
  PROVE  RequestsInOrder'
  <1>1. /\ mem \in Store /\ disk \in Store /\ issued \in Nat
        /\ Asked(mem, issued) /\ Asked(disk, issued)
    BY DEF TypeOK, RequestsInOrder
  <1>2. ASSUME NEW n, Asked(n, issued'), issued' \in Nat, issued <= issued',
               mem' \in {mem, disk, n}, disk' \in {mem, disk, n}
        PROVE  RequestsInOrder'
    <2>1. Asked(mem, issued') /\ Asked(disk, issued')
      BY <1>1, <1>2, AskedLater
    <2>2. Asked(mem', issued') /\ Asked(disk', issued')
      BY <1>2, <2>1
    <2>3. QED
      BY <2>2 DEF RequestsInOrder, Asked
  <1>3. ASSUME NEW n, Update(n), Asked(n, issued'), issued' \in Nat, issued <= issued'
        PROVE  RequestsInOrder'
    <2>1. mem' \in {mem, disk, n} /\ disk' \in {mem, disk, n}
      BY <1>3, Zenon DEF Update, Saved, SaveFailed
    <2>2. QED
      BY <1>2, <1>3, <2>1
  <1>4. ASSUME NEW n, n.requests = mem.requests, n.decided = mem.decided
        PROVE  Asked(n, issued)
    BY <1>1, <1>4 DEF Asked
  <1>5. ASSUME NEW j \in Job, Enqueue(j) \/ AwaitCapacity(j) \/ Admit(j)
        PROVE  RequestsInOrder'
    <2>1. PICK n : Update(n) /\ n.requests = mem.requests /\ n.decided = mem.decided
      <3>1. CASE Enqueue(j)
        BY <1>1, <3>1 DEF Enqueue, Store
      <3>2. CASE AwaitCapacity(j)
        BY <1>1, <3>2 DEF AwaitCapacity, Store
      <3>3. CASE Admit(j)
        <4>1. Update(Admitted(mem, j))
          BY <3>3 DEF Admit, Update
        <4>2. /\ Admitted(mem, j).requests = mem.requests
              /\ Admitted(mem, j).decided = mem.decided
          BY <1>1 DEF Admitted, Store
        <4>3. QED
          BY <4>1, <4>2
      <3>4. QED
        BY <1>5, <3>1, <3>2, <3>3
    <2>2. issued' = issued
      BY <1>5 DEF Enqueue, AwaitCapacity, Admit, counters
    <2>3. QED
      BY <1>1, <1>3, <1>4, <2>1, <2>2
  <1>6. ASSUME NEW j \in Job, Deny(j)
        PROVE  RequestsInOrder'
    <2>1. PICK v : /\ Update(Denied(mem, j, v))
                   /\ issued' = IF Denied(mem, j, v).requests = mem.requests
                                THEN issued ELSE issued + 1
      BY <1>6 DEF Deny
    <2> DEFINE n == Denied(mem, j, v)
    <2>2. n \in Store
      BY <1>1, DeniedType
    <2>3. /\ n.requests \in {mem.requests, Upsert(mem, Caller[j], ToolOf[j])}
          /\ n.decided = mem.decided
      BY <1>1 DEF Denied, Store
    <2>4. Caller[j] \in Body /\ ToolOf[j] \in Tool
      BY InvocationShape
    <2>5. Asked(n, issued')
      BY <1>1, <2>1, <2>2, <2>3, <2>4, AskedNext
    <2>6. issued' \in Nat /\ issued <= issued'
      BY <1>1, <2>1
    <2>7. QED
      BY <1>3, <2>1, <2>5, <2>6
  <1>7. ASSUME NEW b \in Body, NEW t \in Tool, Ask(b, t)
        PROVE  RequestsInOrder'
    <2>1. PICK n : /\ n = [mem EXCEPT !.requests = Upsert(mem, b, t)] /\ Update(n)
                   /\ issued' = issued + 1 /\ Upsert(mem, b, t) # mem.requests
      BY <1>7 DEF Ask
    <2>2. Upsert(mem, b, t) \in SUBSET Request
      BY <1>1 DEF Upsert, Store, Request
    <2>3. n \in Store /\ n.requests = Upsert(mem, b, t) /\ n.decided = mem.decided
      BY <1>1, <2>1, <2>2 DEF Store
    <2>4. Asked(n, issued')
      BY <1>1, <2>1, <2>3, AskedNext
    <2>5. QED
      BY <1>1, <1>3, <2>1, <2>4
  <1>8. ASSUME NEW id, Dismiss(id)
        PROVE  RequestsInOrder'
    <2>1. PICK n : n = [mem EXCEPT !.requests = {r \in mem.requests : r.id # id}] /\ Update(n)
      BY <1>8 DEF Dismiss
    <2>2. Asked(n, issued)
      BY <1>1, <2>1 DEF Asked, Store
    <2>3. issued' = issued
      BY <1>8 DEF Dismiss, counters
    <2>4. QED
      BY <1>1, <1>3, <2>1, <2>2, <2>3
  <1>9. ASSUME NEW t \in Tool, NEW n, Update(n), issued' = issued,
               n.requests = {r \in mem.requests : r.tool # t},
               n.decided = [mem.decided EXCEPT ![t] = issued]
        PROVE  RequestsInOrder'
    BY <1>1, <1>3, <1>9, AskedDecided
  <1>10. ASSUME NEW t \in Tool, NEW p, Update(Committed(mem, t, p)), issued' = issued
         PROVE  RequestsInOrder'
    BY <1>1, <1>9, <1>10 DEF Committed, Store
  <1>11. ASSUME NEW t \in Tool, NEW p, Add(t, p)
         PROVE  RequestsInOrder'
    BY <1>10, <1>11 DEF Add
  <1>12. ASSUME NEW id, NEW p, Allow(id, p)
         PROVE  RequestsInOrder'
    <2>1. PICK r \in mem.requests : Update(Committed(mem, r.tool, p)) /\ issued' = issued
      BY <1>12 DEF Allow
    <2>2. r.tool \in Tool
      BY <1>1 DEF Store, Request
    <2>3. QED
      BY <1>10, <2>1, <2>2
  <1>13. ASSUME NEW t \in Tool, Remove(t)
         PROVE  RequestsInOrder'
    <2>1. PICK n : /\ Update(n)
                   /\ n = [mem EXCEPT !.grants[t] = NoGrant,
                                      !.requests = {r \in mem.requests : r.tool # t},
                                      !.decided[t] = issued]
      BY <1>13 DEF Remove
    <2>2. issued' = issued
      BY <1>13 DEF Remove, counters
    <2>3. QED
      BY <1>1, <1>9, <2>1, <2>2 DEF Store
  <1>14. ASSUME NEW j \in Job, Finish(j)
         PROVE  RequestsInOrder'
    <2> DEFINE n == Settled(mem, j, task[j])
    <2>1. n.requests = mem.requests /\ n.decided = mem.decided
      BY <1>1 DEF Settled, Store
    <2>2. PICK m : m = [mem EXCEPT !.jobs[j] = "uncertain"]
      OBVIOUS
    <2>3. m.requests = mem.requests /\ m.decided = mem.decided
      BY <1>1, <2>2 DEF Store
    <2>4. mem' \in {mem, disk, n, m} /\ disk' \in {mem, disk, n, m}
      BY <1>14, <2>2, Zenon DEF Finish, Saved, Unsaved
    <2>5. issued' = issued
      BY <1>14 DEF Finish, counters
    <2>6. Asked(mem', issued') /\ Asked(disk', issued')
      BY <1>1, <1>4, <2>1, <2>3, <2>4, <2>5
    <2>7. QED
      BY <2>6 DEF RequestsInOrder, Asked
  <1>15. CASE Restart
    <2>1. PICK n : /\ n = Recovered(disk) /\ issued' = issued
                   /\ mem' \in {disk, n} /\ disk' \in {disk, n}
      BY <1>15, Zenon DEF Restart, counters
    <2>2. Asked(n, issued)
      BY <1>1, <2>1 DEF Recovered, Asked, Store
    <2>3. QED
      BY <1>1, <1>2, <2>1, <2>2
  <1>16. ASSUME mem' = mem, disk' = disk, issued' = issued
         PROVE  RequestsInOrder'
    BY <1>1, <1>2, <1>16
  <1>17. QED
    BY <1>5, <1>6, <1>7, <1>8, <1>11, <1>12, <1>13, <1>14, <1>15, <1>16
    DEF Next, Submit, Task, Owner, Start, Exit, Release, Crash, storeVars, counters, vars

\* A request the owner can still answer was asked after the last decision about
\* its slot, also after a crash between the two.
THEOREM RequestsAreFresh == Spec => []FreshRequests
  <1>1. Init => RequestsInOrder
    BY DEF Init, EmptyStore, RequestsInOrder, Asked
  <1>2. TypeOK /\ RequestsInOrder /\ [Next]_vars => RequestsInOrder'
    BY RequestsInductive
  <1>3. TypeOK /\ RequestsInOrder => FreshRequests
    <2> SUFFICES ASSUME TypeOK, RequestsInOrder, NEW s \in {mem, disk}, NEW r \in s.requests
                 PROVE  r.id > s.decided[r.tool]
      BY DEF FreshRequests
    <2>1. r.id \in Nat /\ s.decided[r.tool] \in Nat /\ s.decided[r.tool] < r.id
      BY DEF TypeOK, Store, Request, RequestsInOrder, Asked
    <2>2. QED
      BY <2>1
  <1>4. QED
    BY <1>1, <1>2, <1>3, TypeCorrect, PTL DEF Spec

-----------------------------------------------------------------------------
(* Reservations *)

\* A job that was not accepted has no reservation.
LEMMA ReservedAside ==
  ASSUME NEW s \in Store, NEW P, NEW P2 \in SUBSET P, Reserved(s, P), NEW n,
         n.grants = s.grants,
         \A j \in Job : s.jobs[j] \in {"running", "uncertain"} =>
                          n.jobs[j] \in {"running", "uncertain"}
  PROVE  Reserved(n, P2)
  <1>1. \A t \in Tool : s.grants[t] # NoGrant => s.grants[t].reservation \in Job \cup {NoJob}
    BY DEF Store, Grant
  <1>2. QED
    BY <1>1 DEF Reserved

\* A decision of the owner reserves nothing.
LEMMA ReservedDecision ==
  ASSUME NEW s \in Store, NEW P, Reserved(s, P), NEW n, NEW t \in Tool, NEW slot,
         n.jobs = s.jobs, n.grants = [s.grants EXCEPT ![t] = slot],
         slot = NoGrant \/ slot.reservation = NoJob
  PROVE  Reserved(n, P)
  <1>1. \A u \in Tool : n.grants[u] = IF u = t THEN slot ELSE s.grants[u]
    BY DEF Store
  <1>2. QED
    BY <1>1 DEF Reserved

LEMMA ReservedAdmit ==
  ASSUME TypeOK, NEW j \in Job, NEW P, NEW P2 \in SUBSET (P \cup {j}), Reserved(mem, P),
         mem.grants[ToolOf[j]] # NoGrant, mem.grants[ToolOf[j]].reservation = NoJob,
         mem.jobs[j] \in Waiting,
         mem.grants[ToolOf[j]].perm.once => j \notin P2
  PROVE  Reserved(Admitted(mem, j), P2)
  <1> DEFINE t == ToolOf[j]
             g == mem.grants[t]
             n == Admitted(mem, j)
  <1>1. t \in Tool /\ mem \in Store /\ g \in Grant
    BY InvocationShape DEF TypeOK, Store
  <1>2. \A i \in Job : n.jobs[i] = IF i = j THEN "running" ELSE mem.jobs[i]
    BY <1>1 DEF Admitted, Store
  <1>3. \A u \in Tool : n.grants[u] = IF u = t /\ g.perm.once THEN [g EXCEPT !.reservation = j]
                                      ELSE mem.grants[u]
    BY <1>1 DEF Admitted, Store
  <1>4. [g EXCEPT !.reservation = j].reservation = j
    BY <1>1 DEF Grant
  <1>5. \A u \in Tool : mem.grants[u] # NoGrant => mem.grants[u].reservation \in Job \cup {NoJob}
    BY <1>1 DEF Store, Grant
  <1> SUFFICES ASSUME NEW u \in Tool, n.grants[u] # NoGrant, n.grants[u].reservation # NoJob
               PROVE  /\ n.jobs[n.grants[u].reservation] \in {"running", "uncertain"}
                      /\ ToolOf[n.grants[u].reservation] = u
                      /\ n.grants[u].reservation \notin P2
    BY DEF Reserved
  <1>6. CASE u = t /\ g.perm.once
    <2>1. n.grants[u].reservation = j /\ j \notin P2
      BY <1>3, <1>4, <1>6
    <2>2. QED
      BY <1>2, <1>6, <2>1
  <1>7. CASE ~(u = t /\ g.perm.once)
    <2>1. n.grants[u] = mem.grants[u]
      BY <1>3, <1>7
    <2>2. PICK r \in Job : /\ r = mem.grants[u].reservation
                           /\ mem.jobs[r] \in {"running", "uncertain"} /\ ToolOf[r] = u /\ r \notin P
      BY <1>5, <2>1 DEF Reserved
    <2>3. r # j
      BY <2>2 DEF Waiting
    <2>4. QED
      BY <1>2, <2>1, <2>2, <2>3
  <1>8. QED
    BY <1>6, <1>7

\* A run that ends leaves the slot it reserved, unless its result is unknown.
LEMMA ReservedSettled ==
  ASSUME TypeOK, NEW j \in Job, NEW P2 \in SUBSET Plain, Reserved(mem, Plain),
         task[j] \in Outcome
  PROVE  Reserved(Settled(mem, j, task[j]), P2)
  <1> DEFINE t == ToolOf[j]
             g == mem.grants[t]
             o == task[j]
             n == Settled(mem, j, o)
             mine == /\ under[j].perm.once
                     /\ g # NoGrant
                     /\ g.reservation = j
  <1>1. t \in Tool /\ mem \in Store /\ (g # NoGrant => g \in Grant)
    BY InvocationShape DEF TypeOK, Store
  <1>2. \A i \in Job : n.jobs[i] = IF i = j THEN FinalStatus[o] ELSE mem.jobs[i]
    BY <1>1 DEF Settled, Store
  <1>3. \A u \in Tool :
          n.grants[u] = IF u # t \/ ~mine \/ o = "unknown" THEN mem.grants[u]
                        ELSE IF o \in {"ok", "ok_lost"} THEN NoGrant
                        ELSE [g EXCEPT !.reservation = NoJob]
    BY <1>1 DEF Settled, Store
  <1>4. g # NoGrant => [g EXCEPT !.reservation = NoJob].reservation = NoJob
    BY <1>1 DEF Grant
  <1>5. \A u \in Tool : mem.grants[u] # NoGrant => mem.grants[u].reservation \in Job \cup {NoJob}
    BY <1>1 DEF Store, Grant
  <1>6. under[j].perm.once \/ j \in Plain
    BY DEF Plain, Outcome
  <1> SUFFICES ASSUME NEW u \in Tool, n.grants[u] # NoGrant, n.grants[u].reservation # NoJob
               PROVE  /\ n.jobs[n.grants[u].reservation] \in {"running", "uncertain"}
                      /\ ToolOf[n.grants[u].reservation] = u
                      /\ n.grants[u].reservation \notin P2
    BY DEF Reserved
  <1>7. n.grants[u] = mem.grants[u] /\ (u # t \/ ~mine \/ o = "unknown")
    BY <1>3, <1>4
  <1>8. PICK r \in Job : /\ r = mem.grants[u].reservation
                         /\ mem.jobs[r] \in {"running", "uncertain"} /\ ToolOf[r] = u /\ r \notin Plain
    BY <1>5, <1>7 DEF Reserved
  <1>9. CASE r = j
    <2>1. o = "unknown"
      BY <1>6, <1>7, <1>8, <1>9
    <2>2. FinalStatus[o] = "uncertain"
      BY <2>1 DEF FinalStatus, Outcome
    <2>3. QED
      BY <1>2, <1>7, <1>8, <1>9, <2>2
  <1>10. CASE r # j
    BY <1>2, <1>7, <1>8, <1>10
  <1>11. QED
    BY <1>9, <1>10

\* What memory and disk may become in one step, when no run is added under a
\* grant that is not single-use.
LEMMA ReservedUpdate ==
  ASSUME ReservationsHeld, NEW n, Update(n) \/ (mem' = mem /\ disk' = disk),
         Plain' \subseteq Plain, Reserved(n, Plain) \/ (mem' = mem /\ disk' = disk)
  PROVE  ReservationsHeld'
  <1>1. /\ mem' \in {mem, n}
        /\ disk' \in {disk, n}
        /\ (mem' = mem /\ disk' = disk) \/ Reserved(n, Plain)
    BY Zenon DEF Update, Saved, SaveFailed
  <1>2. Reserved(mem, Plain) /\ Reserved(disk, Plain)
    BY DEF ReservationsHeld
  <1>3. Reserved(mem', Plain) /\ Reserved(disk', Plain)
    BY <1>1, <1>2
  <1>4. Reserved(mem', Plain') /\ Reserved(disk', Plain')
    BY <1>3 DEF Reserved
  <1>5. QED
    BY <1>4 DEF ReservationsHeld

LEMMA ReservationsInAdmit ==
  ASSUME RunInv, ReservationsHeld, NEW j \in Job, Admit(j)
  PROVE  ReservationsHeld'
  <1> DEFINE g == mem.grants[ToolOf[j]]
             n == Admitted(mem, j)
  <1>1. TypeOK /\ TaskAccepted
    BY DEF RunInv
  <1>2. Reserved(mem, Plain) /\ Reserved(disk, Plain)
    BY DEF ReservationsHeld
  <1>3. g # NoGrant /\ g.reservation = NoJob /\ mem.jobs[j] \in Waiting
    BY DEF Admit, Verdict, Submittable, Waiting
  <1>4. task[j] = "idle"
    BY <1>1, <1>3 DEF TaskAccepted, Waiting, Accepted
  <1>5. j \notin Plain
    BY <1>4 DEF Plain
  <1>6. CASE SaveFailed(n) /\ UNCHANGED taskVars
    <2>1. Reserved(n, Plain)
      BY <1>1, <1>2, <1>3, <1>5, ReservedAdmit
    <2>2. Plain' = Plain
      BY <1>6 DEF Plain, taskVars
    <2>3. QED
      BY <1>6, <2>1, <2>2, ReservedUpdate DEF Update
  <1>7. CASE /\ Saved(n)
             /\ task' = [task EXCEPT ![j] = "ready"]
             /\ under' = [under EXCEPT ![j] = g]
    <2>1. /\ under'[j] = g
          /\ \A i \in Job \ {j} : under'[i] = under[i] /\ task'[i] = task[i]
      BY <1>1, <1>7 DEF TypeOK
    <2>2. Plain' \subseteq Plain \cup {j} /\ (g.perm.once => j \notin Plain')
      BY <2>1 DEF Plain
    <2>3. PICK P2 : P2 = Plain'
      OBVIOUS
    <2>4. P2 \in SUBSET (Plain \cup {j}) /\ (g.perm.once => j \notin P2)
      BY <2>2, <2>3
    <2>5. Reserved(n, P2)
      BY <1>1, <1>2, <1>3, <2>4, ReservedAdmit
    <2>6. mem' = n /\ disk' = n
      BY <1>7 DEF Saved
    <2>7. Reserved(mem', Plain') /\ Reserved(disk', Plain')
      BY <2>3, <2>5, <2>6
    <2>8. QED
      BY <2>7 DEF ReservationsHeld
  <1>8. QED
    BY <1>6, <1>7 DEF Admit

LEMMA ReservationsInFinish ==
  ASSUME RunInv, ReservationsHeld, NEW j \in Job, Finish(j)
  PROVE  ReservationsHeld'
  <1> DEFINE n == Settled(mem, j, task[j])
             m == [mem EXCEPT !.jobs[j] = "uncertain"]
  <1>1. TypeOK /\ mem \in Store /\ Reserved(mem, Plain) /\ Reserved(disk, Plain)
    BY DEF RunInv, TypeOK, ReservationsHeld
  <1>2. task[j] \in Outcome /\ task' = [task EXCEPT ![j] = "closing"] /\ under' = under
    BY Zenon DEF Finish
  <1>3. PICK P2 : P2 = Plain' /\ P2 \in SUBSET Plain
    <2>1. Plain' \subseteq Plain
      BY <1>1, <1>2 DEF Plain, TypeOK, Outcome
    <2>2. QED
      BY <2>1
  <1>4. Reserved(n, P2)
    BY <1>1, <1>2, <1>3, ReservedSettled
  <1>5. Reserved(m, P2)
    <2>1. /\ m.grants = mem.grants
          /\ \A i \in Job : m.jobs[i] = IF i = j THEN "uncertain" ELSE mem.jobs[i]
      BY <1>1 DEF Store
    <2>2. \A i \in Job : mem.jobs[i] \in {"running", "uncertain"} =>
                        m.jobs[i] \in {"running", "uncertain"}
      BY <2>1
    <2> HIDE DEF m
    <2>3. QED
      BY <1>1, <1>3, <2>1, <2>2, ReservedAside
  <1>6. Reserved(mem, P2) /\ Reserved(disk, P2)
    BY <1>1, <1>3 DEF Reserved
  <1>7. mem' \in {n, m} /\ disk' \in {disk, n}
    BY Zenon DEF Finish, Saved, Unsaved
  <1>8. Reserved(mem', Plain') /\ Reserved(disk', Plain')
    BY <1>3, <1>4, <1>5, <1>6, <1>7
  <1>9. QED
    BY <1>8 DEF ReservationsHeld

LEMMA ReservationsInductive ==
  TypeOK /\ RunInv /\ ReservationsHeld /\ [Next]_vars => ReservationsHeld'
  <1> SUFFICES ASSUME TypeOK, RunInv, ReservationsHeld, [Next]_vars
               PROVE  ReservationsHeld'
    OBVIOUS
  <1>1. mem \in Store /\ disk \in Store
    BY DEF TypeOK
  <1>2. Reserved(mem, Plain) /\ Reserved(disk, Plain)
    BY DEF ReservationsHeld
  <1>3. ASSUME task' = task, under' = under
        PROVE  Plain' = Plain
    BY <1>3 DEF Plain
  <1>4. ASSUME NEW j \in Job, NEW st, task' = [task EXCEPT ![j] = st],
               task[j] # "idle", under' = under
        PROVE  Plain' \subseteq Plain
    BY <1>4 DEF Plain, TypeOK
  <1>5. ASSUME NEW j \in Job, Enqueue(j) \/ AwaitCapacity(j)
        PROVE  ReservationsHeld'
    <2>1. PICK n, st : /\ n = [mem EXCEPT !.jobs[j] = st] /\ Update(n) /\ st \in Status
                       /\ mem.jobs[j] \in {"absent", "queued"}
      BY <1>5 DEF Enqueue, AwaitCapacity, Status, Waiting
    <2>2. /\ n.grants = mem.grants
          /\ \A i \in Job : i # j => n.jobs[i] = mem.jobs[i]
      BY <1>1, <2>1 DEF Store
    <2>3. Reserved(n, Plain)
      BY <1>1, <1>2, <2>1, <2>2, ReservedAside
    <2>4. task' = task /\ under' = under
      BY <1>5 DEF Enqueue, AwaitCapacity, taskVars
    <2>5. QED
      BY <1>3, <2>1, <2>3, <2>4, ReservedUpdate
  <1>6. ASSUME NEW j \in Job, Deny(j)
        PROVE  ReservationsHeld'
    <2>1. PICK v : Update(Denied(mem, j, v))
      BY <1>6 DEF Deny
    <2> DEFINE n == Denied(mem, j, v)
    <2>3. n.grants = mem.grants /\ \A i \in Job : i # j => n.jobs[i] = mem.jobs[i]
      BY <1>1 DEF Denied, Store
    <2>4. mem.jobs[j] \in Waiting
      BY <1>6 DEF Deny, Submittable, Waiting
    <2>5. Reserved(n, Plain)
      BY <1>1, <1>2, <2>3, <2>4, ReservedAside DEF Waiting
    <2>6. task' = task /\ under' = under
      BY <1>6 DEF Deny, taskVars
    <2>7. QED
      BY <1>3, <2>1, <2>5, <2>6, ReservedUpdate
  <1>7. ASSUME NEW b \in Body, NEW t \in Tool, Ask(b, t)
        PROVE  ReservationsHeld'
    <2>1. PICK n : /\ n = [mem EXCEPT !.requests = Upsert(mem, b, t)] /\ Update(n)
      BY <1>7 DEF Ask
    <2>2. Reserved(n, Plain)
      BY <1>1, <1>2, <2>1 DEF Reserved, Store
    <2>3. task' = task /\ under' = under
      BY <1>7 DEF Ask, taskVars
    <2>4. QED
      BY <1>3, <2>1, <2>2, <2>3, ReservedUpdate
  <1>8. ASSUME NEW id, Dismiss(id)
        PROVE  ReservationsHeld'
    <2>1. PICK n : n = [mem EXCEPT !.requests = {r \in mem.requests : r.id # id}] /\ Update(n)
      BY <1>8 DEF Dismiss
    <2>2. Reserved(n, Plain)
      BY <1>1, <1>2, <2>1 DEF Reserved, Store
    <2>3. task' = task /\ under' = under
      BY <1>8 DEF Dismiss, taskVars
    <2>4. QED
      BY <1>3, <2>1, <2>2, <2>3, ReservedUpdate
  <1>9. ASSUME NEW t \in Tool, NEW p, Update(Committed(mem, t, p)), task' = task, under' = under
         PROVE  ReservationsHeld'
    <2> DEFINE slot == [perm |-> p, reservation |-> NoJob, serial |-> serial + 1]
               n == Committed(mem, t, p)
    <2>1. n.jobs = mem.jobs /\ n.grants = [mem.grants EXCEPT ![t] = slot]
      BY <1>1 DEF Committed, Store
    <2>2. slot.reservation = NoJob
      OBVIOUS
    <2> HIDE DEF slot, n
    <2>3. Reserved(n, Plain)
      BY <1>1, <1>2, <2>1, <2>2, ReservedDecision
    <2>4. QED
      BY <1>3, <1>9, <2>3, ReservedUpdate DEF n
  <1>10. ASSUME NEW t \in Tool, NEW p, Add(t, p)
         PROVE  ReservationsHeld'
    BY <1>9, <1>10 DEF Add, taskVars
  <1>11. ASSUME NEW id, NEW p, Allow(id, p)
         PROVE  ReservationsHeld'
    <2>1. PICK r \in mem.requests : /\ Update(Committed(mem, r.tool, p))
                                    /\ task' = task /\ under' = under
      BY <1>11 DEF Allow, taskVars
    <2>2. r.tool \in Tool
      BY <1>1 DEF Store, Request
    <2>3. QED
      BY <1>9, <2>1, <2>2
  <1>12. ASSUME NEW t \in Tool, Remove(t)
         PROVE  ReservationsHeld'
    <2>1. PICK n : /\ Update(n)
                   /\ n = [mem EXCEPT !.grants[t] = NoGrant,
                                      !.requests = {r \in mem.requests : r.tool # t},
                                      !.decided[t] = issued]
      BY <1>12 DEF Remove
    <2>2. n.jobs = mem.jobs /\ n.grants = [mem.grants EXCEPT ![t] = NoGrant]
      BY <1>1, <2>1 DEF Store
    <2>3. Reserved(n, Plain)
      BY <1>1, <1>2, <2>2, ReservedDecision
    <2>4. task' = task /\ under' = under
      BY <1>12 DEF Remove, taskVars
    <2>5. QED
      BY <1>3, <2>1, <2>3, <2>4, ReservedUpdate
  <1>13. ASSUME NEW j \in Job, Start(j) \/ Exit(j) \/ Release(j)
         PROVE  ReservationsHeld'
    <2>1. PICK st : task' = [task EXCEPT ![j] = st]
      BY <1>13 DEF Start, Exit, Release
    <2>2. task[j] # "idle"
      BY <1>13 DEF Start, Exit, Release
    <2>3. under' = under /\ mem' = mem /\ disk' = disk
      BY <1>13 DEF Start, Exit, Release, storeVars
    <2>4. QED
      BY <1>4, <2>1, <2>2, <2>3, ReservedUpdate
  <1>14. CASE Crash
    <2>1. Plain' \subseteq Plain
      BY <1>14 DEF Crash, Plain
    <2>2. QED
      BY <1>14, <2>1, ReservedUpdate DEF Crash, storeVars
  <1>15. CASE Restart
    <2> DEFINE n == Recovered(disk)
    <2>1. Plain' = Plain /\ mem' = n /\ disk' \in {disk, n}
      BY <1>15 DEF Restart, taskVars, Plain
    <2>2. /\ n.grants = disk.grants
          /\ \A i \in Job : disk.jobs[i] \in {"running", "uncertain"} => n.jobs[i] = "uncertain"
      BY <1>1 DEF Recovered, Store
    <2>3. Reserved(n, Plain)
      BY <1>1, <1>2, <2>2, ReservedAside
    <2>4. Reserved(mem', Plain') /\ Reserved(disk', Plain')
      BY <1>2, <2>1, <2>3
    <2>5. QED
      BY <2>4 DEF ReservationsHeld
  <1>16. CASE UNCHANGED vars
    <2>1. Plain' = Plain /\ mem' = mem /\ disk' = disk
      BY <1>16 DEF vars, Plain
    <2>2. QED
      BY <2>1, ReservedUpdate
  <1>17. QED
    BY <1>5, <1>6, <1>7, <1>8, <1>10, <1>11, <1>12, <1>13, <1>14, <1>15, <1>16,
       ReservationsInAdmit, ReservationsInFinish
    DEF Next, Submit, Task, Owner

\* A slot is busy only for a run of its tool that is going on or whose result
\* is unknown, in memory and in the saved state, through crashes and failed
\* saves: the reservation admission makes always ends with the run.
THEOREM ReservationsAreHeld == Spec => []ReservationHasRun
  <1>1. Init => ReservationsHeld
    BY DEF Init, EmptyStore, ReservationsHeld, Reserved
  <1>2. RunInv /\ ReservationsHeld /\ [Next]_vars => ReservationsHeld'
    BY ReservationsInductive DEF RunInv
  <1>3. ReservationsHeld => ReservationHasRun
    BY DEF ReservationsHeld, Reserved, ReservationHasRun
  <1>4. QED
    BY <1>1, <1>2, <1>3, RunInvariant, PTL DEF Spec

-----------------------------------------------------------------------------
(* What a step may do to the store *)

\* An edit of the store by a submission, a request or the owner.
Edited(n) ==
  /\ Update(n)
  /\ n \in Store
  /\ \A j \in Job : n.jobs[j] # mem.jobs[j] => mem.jobs[j] \in Waiting

\* Every step leaves the store alone, edits it through Store::update, finishes a
\* run, or is a start.
LEMMA StoreStep ==
  ASSUME TypeOK, [Next]_vars
  PROVE  \/ mem' = mem /\ disk' = disk /\ writeError' = writeError /\ (up' => up)
         \/ up' = up /\ \E n : Edited(n)
         \/ \E j \in Job : Finish(j)
         \/ Restart
  <1> DEFINE Goal == \/ mem' = mem /\ disk' = disk /\ writeError' = writeError /\ (up' => up)
                     \/ up' = up /\ \E n : Edited(n)
                     \/ \E j \in Job : Finish(j)
                     \/ Restart
  <1>1. mem \in Store
    BY DEF TypeOK
  <1>2. ASSUME NEW j \in Job, NEW status \in {"queued", "waiting_capacity"}, up' = up,
               mem.jobs[j] \in Waiting, Update([mem EXCEPT !.jobs[j] = status])
        PROVE  Goal
    <2> DEFINE n == [mem EXCEPT !.jobs[j] = status]
    <2>1. n \in Store /\ \A i \in Job : n.jobs[i] # mem.jobs[i] => i = j
      BY <1>1 DEF Store, Status, Waiting
    <2> HIDE DEF n
    <2>2. Edited(n)
      BY <1>2, <2>1 DEF Edited, n
    <2>3. QED
      BY <1>2, <2>2
  <1>3. ASSUME NEW j \in Job, Enqueue(j) \/ AwaitCapacity(j)
        PROVE  Goal
    <2>1. /\ up' = up /\ mem.jobs[j] \in Waiting
          /\ \E status \in {"queued", "waiting_capacity"} : Update([mem EXCEPT !.jobs[j] = status])
      BY <1>3 DEF Enqueue, AwaitCapacity, Waiting
    <2>2. QED
      BY <1>2, <2>1
  <1>4. ASSUME NEW j \in Job, Admit(j)
        PROVE  Goal
    <2> DEFINE n == Admitted(mem, j)
    <2>1. Update(n) /\ up' = up /\ mem.jobs[j] \in Waiting /\ mem.grants[ToolOf[j]] # NoGrant
      BY <1>4 DEF Admit, Submittable, Waiting, Verdict, Update
    <2>2. n \in Store
      BY <1>1, <2>1, AdmittedType
    <2>3. \A i \in Job : n.jobs[i] # mem.jobs[i] => i = j
      BY <1>1 DEF Admitted, Store
    <2> HIDE DEF n
    <2>4. Edited(n)
      BY <2>1, <2>2, <2>3 DEF Edited
    <2>5. QED
      BY <2>1, <2>4
  <1>5. ASSUME NEW j \in Job, Deny(j)
        PROVE  Goal
    <2>1. PICK v : Update(Denied(mem, j, v))
      BY <1>5 DEF Deny
    <2> DEFINE n == Denied(mem, j, v)
    <2>2. up' = up /\ mem.jobs[j] \in Waiting
      BY <1>5 DEF Deny, Submittable, Waiting
    <2>3. n \in Store
      BY <1>1, DeniedType DEF TypeOK
    <2>4. \A i \in Job : n.jobs[i] # mem.jobs[i] => i = j
      BY <1>1 DEF Denied, Store
    <2> HIDE DEF n
    <2>5. Edited(n)
      BY <2>1, <2>2, <2>3, <2>4 DEF Edited, n
    <2>6. QED
      BY <2>2, <2>5
  <1>6. ASSUME NEW n, Update(n), n \in Store, n.jobs = mem.jobs, up' = up
        PROVE  Goal
    BY <1>6 DEF Edited
  <1>7. ASSUME NEW b \in Body, NEW t \in Tool, Ask(b, t)
        PROVE  Goal
    <2>1. Upsert(mem, b, t) \in SUBSET Request
      BY <1>1 DEF Upsert, Store, Request, TypeOK
    <2>2. PICK n : n = [mem EXCEPT !.requests = Upsert(mem, b, t)]
      OBVIOUS
    <2>3. n \in Store /\ n.jobs = mem.jobs
      BY <1>1, <2>1, <2>2 DEF Store
    <2>4. QED
      BY <1>6, <1>7, <2>2, <2>3 DEF Ask
  <1>8. ASSUME NEW id, Dismiss(id)
        PROVE  Goal
    <2>1. PICK n : n = [mem EXCEPT !.requests = {r \in mem.requests : r.id # id}]
      OBVIOUS
    <2>2. n \in Store /\ n.jobs = mem.jobs
      BY <1>1, <2>1 DEF Store
    <2>3. QED
      BY <1>6, <1>8, <2>1, <2>2 DEF Dismiss
  <1>9. ASSUME NEW t \in Tool, NEW p \in Permission, Update(Committed(mem, t, p)), up' = up
        PROVE  Goal
    <2>1. Committed(mem, t, p) \in Store
      BY <1>1, CommittedType DEF TypeOK
    <2>2. Committed(mem, t, p).jobs = mem.jobs
      BY <1>1 DEF Committed, Store
    <2>3. QED
      BY <1>6, <1>9, <2>1, <2>2
  <1>10. ASSUME NEW t \in Tool, NEW p \in Permission, Add(t, p)
         PROVE  Goal
    BY <1>9, <1>10 DEF Add
  <1>11. ASSUME NEW id, NEW p \in Permission, Allow(id, p)
         PROVE  Goal
    <2>1. PICK r \in mem.requests : Update(Committed(mem, r.tool, p)) /\ up' = up
      BY <1>11 DEF Allow
    <2>2. r.tool \in Tool
      BY <1>1 DEF Store, Request
    <2>3. QED
      BY <1>9, <2>1, <2>2
  <1>12. ASSUME NEW t \in Tool, Remove(t)
         PROVE  Goal
    <2>1. PICK n : /\ Update(n)
                   /\ n = [mem EXCEPT !.grants[t] = NoGrant,
                                      !.requests = {r \in mem.requests : r.tool # t},
                                      !.decided[t] = issued]
      BY <1>12 DEF Remove
    <2>2. n \in Store /\ n.jobs = mem.jobs
      BY <1>1, <2>1 DEF Store, TypeOK
    <2>3. QED
      BY <1>6, <1>12, <2>1, <2>2 DEF Remove
  <1>13. ASSUME NEW j \in Job, Start(j) \/ Exit(j) \/ Release(j)
         PROVE  Goal
    BY <1>13, Zenon DEF Start, Exit, Release, storeVars
  <1>14. CASE Crash \/ UNCHANGED vars
    BY <1>14, Zenon DEF Crash, storeVars, vars
  <1>15. QED
    BY <1>3, <1>4, <1>5, <1>7, <1>8, <1>10, <1>11, <1>12, <1>13, <1>14
    DEF Next, Submit, Task, Owner

\* What finish may leave in the store: the settled state, the row alone marked
\* uncertain, or, when nothing is saved, the old one.
LEMMA FinishStep ==
  ASSUME TypeOK, NEW j \in Job, Finish(j)
  PROVE  /\ up /\ up' = up
         /\ disk' \in {disk, Settled(mem, j, task[j])}
         /\ \/ mem' = Settled(mem, j, task[j]) /\ disk' = mem' /\ writeError' = writeError
            \/ /\ mem' = [mem EXCEPT !.jobs[j] = "uncertain"]
               /\ disk' = disk \/ writeError'
         /\ writeError => disk' = disk /\ writeError'
  <1>1. up /\ up' = up
    BY DEF Finish
  <1>2. CASE Saved(Settled(mem, j, task[j]))
    BY <1>1, <1>2, Zenon DEF Saved, TypeOK
  <1>3. ASSUME Unsaved(j), ~Saved(Settled(mem, j, task[j]))
        PROVE  /\ disk' \in {disk, Settled(mem, j, task[j])}
               /\ disk' = disk \/ writeError'
               /\ writeError => disk' = disk /\ writeError'
    <2>1. \/ disk' \in {disk, Settled(mem, j, task[j])} /\ writeError' = TRUE /\ ~writeError
          \/ disk' = disk /\ writeError' = writeError
      BY <1>3 DEF Finish
    <2>2. QED
      BY <2>1
  <1>4. QED
    BY <1>1, <1>2, <1>3 DEF Finish, Unsaved

\* Recovery writes rows and no grants.
LEMMA RecoveredParts ==
  ASSUME NEW s \in Store
  PROVE  /\ Recovered(s).grants = s.grants
         /\ Recovered(s).jobs = [j \in Job |-> IF s.jobs[j] = "running" THEN "uncertain"
                                               ELSE s.jobs[j]]
  BY DEF Recovered, Store

\* No outcome is known before it is saved.
LEMMA SavedInductive == RunInv /\ OutcomesSaved /\ [Next]_vars => OutcomesSaved'
  <1> DEFINE Known == Terminal \ {"uncertain"}
  <1> SUFFICES ASSUME RunInv, OutcomesSaved, [Next]_vars,
                      NEW j \in Job, mem'.jobs[j] \in Known
               PROVE  disk'.jobs[j] = mem'.jobs[j]
    BY DEF OutcomesSaved
  <1>1. TypeOK /\ mem \in Store /\ disk \in Store
    BY DEF RunInv, TypeOK
  <1>2. mem.jobs[j] \in Known => disk.jobs[j] = mem.jobs[j]
    BY DEF OutcomesSaved
  <1>3. CASE mem' = mem /\ disk' = disk
    BY <1>2, <1>3
  <1>4. ASSUME NEW n, Edited(n)
        PROVE  disk'.jobs[j] = mem'.jobs[j]
    <2>1. \/ mem' = n /\ disk' = n
          \/ mem' = mem /\ disk' \in {disk, n}
      BY <1>4, Zenon DEF Edited, Update, Saved, SaveFailed
    <2>2. mem.jobs[j] \in Known => n.jobs[j] = mem.jobs[j]
      BY <1>4 DEF Edited, Terminal, Waiting
    <2>3. QED
      BY <1>2, <2>1, <2>2
  <1>5. ASSUME NEW i \in Job, Finish(i)
        PROVE  disk'.jobs[j] = mem'.jobs[j]
    <2> DEFINE n == Settled(mem, i, task[i])
               m == [mem EXCEPT !.jobs[i] = "uncertain"]
    <2>1. n.jobs = [mem.jobs EXCEPT ![i] = FinalStatus[task[i]]]
      BY <1>1 DEF Settled, Store
    <2>2. m.jobs = [mem.jobs EXCEPT ![i] = "uncertain"]
      BY <1>1 DEF Store
    <2>3. disk' \in {disk, n} /\ (mem' = m \/ disk' = mem')
      BY <1>1, <1>5, FinishStep
    <2> HIDE DEF n, m
    <2>4. CASE mem' = m
      <3>1. j # i /\ mem'.jobs[j] = mem.jobs[j]
        BY <1>1, <2>2, <2>4 DEF Store
      <3>2. n.jobs[j] = mem.jobs[j]
        BY <1>1, <2>1, <3>1 DEF Store
      <3>3. QED
        BY <1>2, <2>3, <3>1, <3>2
    <2>5. QED
      BY <2>3, <2>4
  <1>6. CASE Restart
    <2>1. mem' = Recovered(disk) /\ disk' \in {disk, Recovered(disk)}
      BY <1>6, Zenon DEF Restart
    <2>2. Recovered(disk).jobs = [i \in Job |-> IF disk.jobs[i] = "running" THEN "uncertain"
                                               ELSE disk.jobs[i]]
      BY <1>1, RecoveredParts, Zenon
    <2>3. QED
      BY <2>1, <2>2 DEF Terminal
  <1>7. QED
    BY <1>1, <1>3, <1>4, <1>5, <1>6, StoreStep

\* No outcome is known before it is saved, in every state of a run.
LEMMA SavedInvariant == Spec => []OutcomesSaved
  <1>1. Init => OutcomesSaved
    BY DEF Init, EmptyStore, OutcomesSaved, Terminal
  <1>2. QED
    BY <1>1, SavedInductive, RunInvariant, PTL DEF Spec

\* What a step may do to an outcome.
LEMMA OutcomeStep ==
  ASSUME RunInv, OutcomesSaved, [Next]_vars, NEW j \in Job
  PROVE  /\ disk.jobs[j] \in Terminal => disk'.jobs[j] = disk.jobs[j]
         /\ mem.jobs[j] \in Terminal =>
              \/ mem'.jobs[j] = mem.jobs[j]
              \/ mem.jobs[j] = "uncertain" /\ ~up
  <1>1. TypeOK /\ mem \in Store /\ disk \in Store
    BY DEF RunInv, TypeOK
  <1>2. up /\ ~writeError => mem = disk
    BY DEF RunInv, MemoryIsDisk
  <1>3. CASE mem' = mem /\ disk' = disk
    BY <1>3
  <1>4. ASSUME NEW n, Edited(n)
        PROVE  /\ disk.jobs[j] \in Terminal => disk'.jobs[j] = disk.jobs[j]
               /\ mem.jobs[j] \in Terminal => mem'.jobs[j] = mem.jobs[j]
    <2>1. up /\ ~writeError /\ mem' \in {mem, n} /\ disk' \in {disk, n}
      BY <1>4, Zenon DEF Edited, Update, Saved, SaveFailed
    <2>2. mem.jobs[j] \in Terminal => n.jobs[j] = mem.jobs[j]
      BY <1>4 DEF Edited, Terminal, Waiting
    <2>3. QED
      BY <1>2, <2>1, <2>2 DEF Terminal
  <1>5. ASSUME NEW i \in Job, Finish(i)
        PROVE  /\ disk.jobs[j] \in Terminal => disk'.jobs[j] = disk.jobs[j]
               /\ mem.jobs[j] \in Terminal => mem'.jobs[j] = mem.jobs[j]
    <2> DEFINE n == Settled(mem, i, task[i])
               m == [mem EXCEPT !.jobs[i] = "uncertain"]
    <2>1. n.jobs = [mem.jobs EXCEPT ![i] = FinalStatus[task[i]]]
      BY <1>1 DEF Settled, Store
    <2>2. m.jobs = [mem.jobs EXCEPT ![i] = "uncertain"]
      BY <1>1 DEF Store
    <2>3. /\ up /\ mem' \in {n, m} /\ disk' \in {disk, n} /\ (writeError => disk' = disk)
      BY <1>1, <1>5, FinishStep
    <2>4. disk.jobs[i] = "running" /\ mem.jobs[i] = "running"
      BY <1>5 DEF Finish, RunInv, TaskAccepted, Active
    <2> HIDE DEF n, m
    <2>5. CASE j = i
      BY <2>4, <2>5 DEF Terminal
    <2>6. CASE j # i
      <3>1. n.jobs[j] = mem.jobs[j] /\ m.jobs[j] = mem.jobs[j]
        BY <1>1, <2>1, <2>2, <2>6 DEF Store
      <3>2. QED
        BY <1>2, <2>3, <3>1 DEF Terminal
    <2>7. QED
      BY <2>5, <2>6
  <1>6. CASE Restart
    <2>1. ~up /\ mem' = Recovered(disk) /\ disk' \in {disk, Recovered(disk)}
      BY <1>6, Zenon DEF Restart
    <2>2. Recovered(disk).jobs = [i \in Job |-> IF disk.jobs[i] = "running" THEN "uncertain"
                                               ELSE disk.jobs[i]]
      BY <1>1, RecoveredParts, Zenon
    <2>3. QED
      BY <2>1, <2>2 DEF OutcomesSaved, Terminal
  <1>7. QED
    BY <1>1, <1>3, <1>4, <1>5, <1>6, StoreStep

\* A row keeps its outcome, through failed saves, crashes and recovery: only an
\* uncertain one that did not reach the disk is replaced, and only by a restart.
THEOREM OutcomesAreFinal == Spec => OutcomesFinal
  <1> DEFINE Final == \A j \in Job :
               /\ disk.jobs[j] \in Terminal => disk'.jobs[j] = disk.jobs[j]
               /\ mem.jobs[j] \in Terminal =>
                    \/ mem'.jobs[j] = mem.jobs[j]
                    \/ mem.jobs[j] = "uncertain" /\ ~up
  <1>1. RunInv /\ OutcomesSaved /\ [Next]_vars => [Final]_vars
    BY OutcomeStep, Zenon
  <1>2. QED
    BY <1>1, SavedInvariant, RunInvariant, PTL DEF Spec, OutcomesFinal

-----------------------------------------------------------------------------
(* Reservations end with a known result *)

\* The saved grants change by admission, by a run that ends, or by the owner.
LEMMA GrantStep ==
  ASSUME TypeOK, MemoryIsDisk, [Next]_vars, disk'.grants # disk.grants
  PROVE  /\ mem.grants = disk.grants
         /\ \/ \E j \in Job : Admit(j) /\ disk' = Admitted(mem, j)
            \/ \E j \in Job : Finish(j) /\ disk' = Settled(mem, j, task[j])
            \/ \E t \in Tool, g \in Grant :
                 /\ g.serial = serial + 1
                 /\ disk'.grants = [disk.grants EXCEPT ![t] = g]
            \/ \E t \in Tool : Remove(t) /\ disk'.grants = [disk.grants EXCEPT ![t] = NoGrant]
  <1> DEFINE Goal == \/ \E j \in Job : Admit(j) /\ disk' = Admitted(mem, j)
                     \/ \E j \in Job : Finish(j) /\ disk' = Settled(mem, j, task[j])
                     \/ \E t \in Tool, g \in Grant :
                          /\ g.serial = serial + 1
                          /\ disk'.grants = [mem.grants EXCEPT ![t] = g]
                     \/ \E t \in Tool : Remove(t) /\ disk'.grants = [mem.grants EXCEPT ![t] = NoGrant]
  <1>1. mem \in Store /\ disk \in Store
    BY DEF TypeOK
  <1>2. ASSUME NEW n, Update(n)
        PROVE  mem.grants = disk.grants /\ disk' = n
    BY <1>2, Zenon DEF Update, Saved, SaveFailed, MemoryIsDisk
  <1>3. ASSUME NEW j \in Job, Enqueue(j) \/ AwaitCapacity(j) \/ Deny(j)
        PROVE  FALSE
    <2>1. CASE Enqueue(j) \/ AwaitCapacity(j)
      <3>1. PICK st : Update([mem EXCEPT !.jobs[j] = st])
        BY <2>1 DEF Enqueue, AwaitCapacity
      <3>2. [mem EXCEPT !.jobs[j] = st].grants = mem.grants
        BY <1>1 DEF Store
      <3>3. QED
        BY <1>2, <3>1, <3>2
    <2>2. CASE Deny(j)
      <3>1. PICK v : Update(Denied(mem, j, v))
        BY <2>2 DEF Deny
      <3>2. Denied(mem, j, v).grants = mem.grants
        BY <1>1 DEF Denied, Store
      <3>3. QED
        BY <1>2, <3>1, <3>2
    <2>3. QED
      BY <1>3, <2>1, <2>2
  <1>4. ASSUME NEW b, NEW t, Ask(b, t)
        PROVE  FALSE
    <2>1. [mem EXCEPT !.requests = Upsert(mem, b, t)].grants = mem.grants
      BY <1>1 DEF Store
    <2>2. QED
      BY <1>2, <1>4, <2>1 DEF Ask
  <1>5. ASSUME NEW id, Dismiss(id)
        PROVE  FALSE
    <2>1. [mem EXCEPT !.requests = {r \in mem.requests : r.id # id}].grants = mem.grants
      BY <1>1 DEF Store
    <2>2. QED
      BY <1>2, <1>5, <2>1 DEF Dismiss
  <1>6. ASSUME NEW j \in Job, Admit(j)
        PROVE  mem.grants = disk.grants /\ Goal
    <2>1. Update(Admitted(mem, j))
      BY <1>6 DEF Admit, Update
    <2>2. QED
      BY <1>2, <1>6, <2>1
  <1>7. ASSUME NEW j \in Job, Finish(j)
        PROVE  mem.grants = disk.grants /\ Goal
    <2>1. disk' = Settled(mem, j, task[j]) /\ up /\ ~writeError
      BY <1>7, FinishStep
    <2>2. QED
      BY <1>7, <2>1 DEF MemoryIsDisk
  <1>8. ASSUME NEW t \in Tool, NEW p \in Permission, Update(Committed(mem, t, p))
        PROVE  mem.grants = disk.grants /\ Goal
    <2>1. PICK g : g = [perm |-> p, reservation |-> NoJob, serial |-> serial + 1]
      OBVIOUS
    <2>2. g \in Grant /\ g.serial = serial + 1
      BY <2>1 DEF Grant, TypeOK
    <2>3. Committed(mem, t, p).grants = [mem.grants EXCEPT ![t] = g]
      BY <1>1, <2>1 DEF Committed, Store
    <2>4. mem.grants = disk.grants /\ disk'.grants = [mem.grants EXCEPT ![t] = g]
      BY <1>2, <1>8, <2>3
    <2>5. QED
      BY <2>2, <2>4, Zenon
  <1>9. ASSUME NEW id, NEW p \in Permission, Allow(id, p)
        PROVE  mem.grants = disk.grants /\ Goal
    <2>1. PICK r \in mem.requests : Update(Committed(mem, r.tool, p))
      BY <1>9 DEF Allow
    <2>2. r.tool \in Tool
      BY <1>1 DEF Store, Request
    <2>3. QED
      BY <1>8, <2>1, <2>2
  <1>10. ASSUME NEW t \in Tool, Remove(t)
         PROVE  mem.grants = disk.grants /\ Goal
    <2>1. PICK n : /\ Update(n)
                   /\ n = [mem EXCEPT !.grants[t] = NoGrant,
                                      !.requests = {r \in mem.requests : r.tool # t},
                                      !.decided[t] = issued]
      BY <1>10 DEF Remove
    <2>2. n.grants = [mem.grants EXCEPT ![t] = NoGrant]
      BY <1>1, <2>1 DEF Store
    <2>3. QED
      BY <1>2, <1>10, <2>1, <2>2
  <1>11. ~Restart
    <2>1. Recovered(disk).grants = disk.grants
      BY <1>1, RecoveredParts, Zenon
    <2>2. QED
      BY <2>1 DEF Restart
  <1>12. ~Crash /\ ~UNCHANGED vars /\ \A j \in Job : ~(Start(j) \/ Exit(j) \/ Release(j))
    BY DEF Crash, vars, Start, Exit, Release, storeVars
  <1>13. mem.grants = disk.grants /\ Goal
    BY <1>3, <1>4, <1>5, <1>6, <1>7, <1>8, <1>9, <1>10, <1>11, <1>12
    DEF Next, Submit, Task, Owner, Add
  <1>14. QED
    BY <1>13

\* A saved reservation is ended by its run, once it is known to have succeeded,
\* failed or never started, or by the owner: never by doubt, and never by
\* another run.
THEOREM DoubtKeepsReservation == Spec => ReservationOutlivesDoubt
  <1> DEFINE Kept == \A t \in Tool : disk.grants[t] # NoGrant =>
               LET g == disk.grants[t] IN
               g.reservation # NoJob =>
                 \/ disk'.grants[t] = g
                 \/ disk'.decided[t] # disk.decided[t]
                 \/ Remove(t)
                 \/ disk'.grants[t] # NoGrant /\ disk'.grants[t].serial # g.serial
                 \/ disk'.grants[t] = NoGrant /\ effect[g.reservation] = "ok"
                 \/ /\ disk'.grants[t] = [g EXCEPT !.reservation = NoJob]
                    /\ starts[g.reservation] = 0 \/ effect[g.reservation] = "err"
  <1>1. RunInv /\ SpendersApart /\ [Next]_vars => [Kept]_vars
    <2> SUFFICES ASSUME RunInv, SpendersApart, [Next]_vars,
                        disk'.grants # disk.grants,
                        NEW t \in Tool, disk.grants[t] # NoGrant,
                        disk.grants[t].reservation # NoJob
                 PROVE  \/ disk'.grants[t] = disk.grants[t]
                        \/ Remove(t)
                        \/ /\ disk'.grants[t] # NoGrant
                           /\ disk'.grants[t].serial # disk.grants[t].serial
                        \/ /\ disk'.grants[t] = NoGrant
                           /\ effect[disk.grants[t].reservation] = "ok"
                        \/ /\ disk'.grants[t] = [disk.grants[t] EXCEPT !.reservation = NoJob]
                           /\ \/ starts[disk.grants[t].reservation] = 0
                              \/ effect[disk.grants[t].reservation] = "err"
      BY Zenon
    <2>1. TypeOK /\ mem \in Store /\ disk \in Store /\ mem.grants = disk.grants
      BY GrantStep DEF RunInv, TypeOK
    <2>2. ASSUME NEW j \in Job, Admit(j), disk' = Admitted(mem, j)
          PROVE  disk'.grants[t] = disk.grants[t]
      <3>1. mem.grants[ToolOf[j]].reservation = NoJob
        BY <2>2 DEF Admit, Verdict
      <3>2. t # ToolOf[j]
        BY <2>1, <3>1
      <3>3. QED
        BY <2>1, <2>2, <3>2, InvocationShape DEF Admitted, Store
    <2>3. ASSUME NEW j \in Job, Finish(j), disk' = Settled(mem, j, task[j])
          PROVE  \/ disk'.grants[t] = disk.grants[t]
                 \/ disk'.grants[t] = NoGrant /\ effect[disk.grants[t].reservation] = "ok"
                 \/ /\ disk'.grants[t] = [disk.grants[t] EXCEPT !.reservation = NoJob]
                    /\ \/ starts[disk.grants[t].reservation] = 0
                       \/ effect[disk.grants[t].reservation] = "err"
      <3> DEFINE o == task[j]
                 mine == /\ under[j].perm.once
                         /\ mem.grants[ToolOf[j]] # NoGrant
                         /\ mem.grants[ToolOf[j]].reservation = j
      <3>1. disk'.grants = [mem.grants EXCEPT ![ToolOf[j]] =
                              IF ~mine \/ o = "unknown" THEN mem.grants[ToolOf[j]]
                              ELSE IF o \in {"ok", "ok_lost"} THEN NoGrant
                              ELSE [mem.grants[ToolOf[j]] EXCEPT !.reservation = NoJob]]
        BY <2>1, <2>3, InvocationShape DEF Settled, Store
      <3>2. disk'.grants[t] = IF ToolOf[j] # t \/ ~mine \/ o = "unknown" THEN disk.grants[t]
                              ELSE IF o \in {"ok", "ok_lost"} THEN NoGrant
                              ELSE [disk.grants[t] EXCEPT !.reservation = NoJob]
        BY <2>1, <3>1, InvocationShape DEF Store
      <3>3. o \in Outcome
        BY <2>3 DEF Finish
      <3>4. /\ o \in {"ok", "ok_lost"} => effect[j] = "ok"
            /\ o \in Outcome \ {"ok", "ok_lost", "unknown"} => starts[j] = 0 \/ effect[j] = "err"
        BY DEF RunInv, TaskProgress, Outcome
      <3>5. QED
        BY <2>1, <3>2, <3>3, <3>4
    <2>4. ASSUME NEW u \in Tool, NEW g \in Grant, g.serial = serial + 1,
                 disk'.grants = [disk.grants EXCEPT ![u] = g]
          PROVE  \/ disk'.grants[t] = disk.grants[t]
                 \/ /\ disk'.grants[t] # NoGrant
                    /\ disk'.grants[t].serial # disk.grants[t].serial
      <3>1. disk'.grants[t] = IF t = u THEN g ELSE disk.grants[t]
        BY <2>1, <2>4 DEF Store
      <3>2. disk.grants[t].serial \in Nat /\ disk.grants[t].serial <= serial /\ serial \in Nat
        BY <2>1 DEF SpendersApart, SlotsHeld, Store, Grant, TypeOK
      <3>3. disk.grants[t].serial # serial + 1
        BY <3>2
      <3>4. QED
        BY <2>4, <3>1, <3>3, Sentinels DEF Grant
    <2>5. ASSUME NEW u \in Tool, Remove(u), disk'.grants = [disk.grants EXCEPT ![u] = NoGrant]
          PROVE  disk'.grants[t] = disk.grants[t] \/ Remove(t)
      BY <2>1, <2>5 DEF Store
    <2>6. QED
      BY <2>1, <2>2, <2>3, <2>4, <2>5, GrantStep DEF RunInv
  <1>2. QED
    BY <1>1, ApartInvariant, RunInvariant, PTL DEF Spec, ReservationOutlivesDoubt

-----------------------------------------------------------------------------
(* Runner implements SingleUse *)

\* No command whose end nobody observed outlives its task.
LEMMA ObservedInductive == RunInv /\ StartedObserved /\ [Next]_vars => StartedObserved'
  <1> SUFFICES ASSUME RunInv, StartedObserved, [Next]_vars,
                      NEW j \in Job, starts'[j] > 0, effect'[j] = "none"
               PROVE  task'[j] = "executing"
    BY DEF StartedObserved
  <1>1. TypeOK /\ TaskProgress /\ TaskAccepted
    BY DEF RunInv
  <1>2. ASSUME NEW i \in Job, Start(i)
        PROVE  task'[j] = "executing"
    BY <1>1, <1>2 DEF Start, TypeOK, StartedObserved
  <1>3. ASSUME NEW i \in Job, Exit(i)
        PROVE  task'[j] = "executing"
    <2>1. i # j
      BY <1>1, <1>3 DEF Exit, TypeOK, Outcome
    <2>2. QED
      BY <1>1, <1>3, <2>1 DEF Exit, TypeOK, StartedObserved
  <1>4. CASE Crash
    BY <1>1, <1>4 DEF Crash, StartedObserved, TypeOK
  <1>5. ASSUME NEW i \in Job, Admit(i)
        PROVE  task'[j] = "executing"
    <2>1. task[j] = "executing"
      BY <1>5 DEF Admit, truth, StartedObserved
    <2>2. i # j
      <3>1. mem.jobs[i] \notin Accepted
        BY <1>5 DEF Admit, Submittable, Accepted
      <3>2. QED
        BY <1>1, <2>1, <3>1 DEF TaskAccepted
    <2>3. QED
      BY <1>1, <1>5, <2>1, <2>2 DEF Admit, taskVars, TypeOK
  <1>6. ASSUME NEW i \in Job, Finish(i) \/ Release(i)
        PROVE  task'[j] = "executing"
    <2>1. task[j] = "executing"
      BY <1>6 DEF Finish, Release, truth, StartedObserved
    <2>2. i # j /\ \E x : task' = [task EXCEPT ![i] = x]
      BY <1>6, <2>1 DEF Finish, Release, Outcome
    <2>3. QED
      BY <1>1, <2>1, <2>2 DEF TypeOK
  <1>7. CASE task' = task /\ starts' = starts /\ effect' = effect
    BY <1>7 DEF StartedObserved
  <1>8. QED
    BY <1>2, <1>3, <1>4, <1>5, <1>6, <1>7
    DEF Next, Enqueue, Submit, Deny, AwaitCapacity, Task, Ask, Owner, Add, Remove, Allow,
        Dismiss, Restart, vars, truth, taskVars

\* Every grant in a store is numbered from 1.
LEMMA IssuedInductive == TypeOK /\ SerialsIssued /\ [Next]_vars => SerialsIssued'
  <1> DEFINE Positive(g) == \A t \in Tool : g[t] # NoGrant => g[t].serial > 0
  <1> SUFFICES ASSUME TypeOK, SerialsIssued, [Next]_vars
               PROVE  serial' <= MaxSerial /\ Positive(mem'.grants) /\ Positive(disk'.grants)
    BY DEF SerialsIssued
  <1>1. /\ mem \in Store /\ disk \in Store /\ serial \in Nat /\ serial <= MaxSerial
        /\ Positive(mem.grants) /\ Positive(disk.grants)
    BY DEF TypeOK, SerialsIssued
  <1>2. serial' <= MaxSerial
    <2>1. serial' = serial \/ (serial' = serial + 1 /\ serial < MaxSerial)
      BY Zenon DEF Next, Enqueue, Submit, Admit, Deny, AwaitCapacity, Task, Start, Exit, Finish,
         Release, Ask, Owner, Add, Remove, Allow, Dismiss, Crash, Restart, vars, counters
    <2>2. QED
      BY <1>1, <2>1, Bounds
  <1> HIDE DEF Positive
  <1>3. ASSUME NEW n, Update(n), Positive(n.grants)
        PROVE  Positive(mem'.grants) /\ Positive(disk'.grants)
    <2>1. mem' \in {mem, n} /\ disk' \in {disk, n}
      BY <1>3, Zenon DEF Update, Saved, SaveFailed
    <2>2. QED
      BY <1>1, <1>3, <2>1
  <1>4. ASSUME NEW n, Update(n), n.grants = mem.grants
        PROVE  Positive(mem'.grants) /\ Positive(disk'.grants)
    BY <1>1, <1>3, <1>4
  <1>5. ASSUME NEW n, NEW t \in Tool, NEW g, n.grants = [mem.grants EXCEPT ![t] = g],
               g = NoGrant \/ g.serial > 0
        PROVE  Positive(n.grants)
    BY <1>1, <1>5 DEF Positive, Store
  <1>6. ASSUME NEW j \in Job, NEW st, Update([mem EXCEPT !.jobs[j] = st])
        PROVE  Positive(mem'.grants) /\ Positive(disk'.grants)
    <2>1. [mem EXCEPT !.jobs[j] = st].grants = mem.grants
      BY <1>1 DEF Store
    <2>2. QED
      BY <1>4, <1>6, <2>1
  <1>7. ASSUME NEW j \in Job, Deny(j)
        PROVE  Positive(mem'.grants) /\ Positive(disk'.grants)
    <2>1. PICK v : Update(Denied(mem, j, v))
      BY <1>7 DEF Deny
    <2>2. Denied(mem, j, v).grants = mem.grants
      BY <1>1 DEF Denied, Store
    <2>3. QED
      BY <1>4, <2>1, <2>2
  <1>8. ASSUME NEW b, NEW t, Ask(b, t)
        PROVE  Positive(mem'.grants) /\ Positive(disk'.grants)
    <2>1. [mem EXCEPT !.requests = Upsert(mem, b, t)].grants = mem.grants
      BY <1>1 DEF Store
    <2>2. QED
      BY <1>4, <1>8, <2>1 DEF Ask
  <1>9. ASSUME NEW id, Dismiss(id)
        PROVE  Positive(mem'.grants) /\ Positive(disk'.grants)
    <2>1. [mem EXCEPT !.requests = {r \in mem.requests : r.id # id}].grants = mem.grants
      BY <1>1 DEF Store
    <2>2. QED
      BY <1>4, <1>9, <2>1 DEF Dismiss
  <1>10. ASSUME NEW j \in Job, Admit(j)
         PROVE  Positive(mem'.grants) /\ Positive(disk'.grants)
    <2> DEFINE g == mem.grants[ToolOf[j]]
               h == IF g.perm.once THEN [g EXCEPT !.reservation = j] ELSE g
    <2>1. Update(Admitted(mem, j)) /\ g # NoGrant
      BY <1>10 DEF Admit, Verdict, Update
    <2>2. ToolOf[j] \in Tool /\ g \in Grant /\ g.serial > 0
      BY <1>1, <2>1, InvocationShape DEF Store, Positive
    <2>3. h.serial = g.serial
      BY <2>2 DEF Grant
    <2>4. Admitted(mem, j).grants = [mem.grants EXCEPT ![ToolOf[j]] = h]
      BY <1>1 DEF Admitted, Store
    <2> HIDE DEF h
    <2>5. Positive(Admitted(mem, j).grants)
      BY <1>5, <2>2, <2>3, <2>4
    <2>6. QED
      BY <1>3, <2>1, <2>5
  <1>11. ASSUME NEW j \in Job, Finish(j)
         PROVE  Positive(mem'.grants) /\ Positive(disk'.grants)
    <2> DEFINE n == Settled(mem, j, task[j])
               t == ToolOf[j]
    <2>1. t \in Tool /\ (mem.grants[t] # NoGrant => mem.grants[t] \in Grant)
      BY <1>1, InvocationShape DEF Store
    <2>2. \E g : /\ g = NoGrant \/ (mem.grants[t] # NoGrant /\ g.serial = mem.grants[t].serial)
                 /\ n.grants = [mem.grants EXCEPT ![t] = g]
      <3> DEFINE g == IF ~(/\ under[j].perm.once
                           /\ mem.grants[t] # NoGrant
                           /\ mem.grants[t].reservation = j) \/ task[j] = "unknown"
                      THEN mem.grants[t]
                      ELSE IF task[j] \in {"ok", "ok_lost"} THEN NoGrant
                      ELSE [mem.grants[t] EXCEPT !.reservation = NoJob]
      <3>1. n.grants = [mem.grants EXCEPT ![t] = g]
        BY <1>1 DEF Settled, Store
      <3>2. g = NoGrant \/ (mem.grants[t] # NoGrant /\ g.serial = mem.grants[t].serial)
        BY <2>1 DEF Grant
      <3>3. QED
        BY <3>1, <3>2
    <2>3. PICK g : /\ g = NoGrant \/ (mem.grants[t] # NoGrant /\ g.serial = mem.grants[t].serial)
                   /\ n.grants = [mem.grants EXCEPT ![t] = g]
      BY <2>2
    <2>4. g = NoGrant \/ g.serial > 0
      BY <1>1, <2>1, <2>3 DEF Positive
    <2>5. Positive(n.grants)
      BY <1>5, <2>1, <2>3, <2>4
    <2>6. [mem EXCEPT !.jobs[j] = "uncertain"].grants = mem.grants
      BY <1>1 DEF Store
    <2>7. /\ disk' \in {disk, n}
          /\ mem' \in {n, [mem EXCEPT !.jobs[j] = "uncertain"]}
      BY <1>11, FinishStep
    <2>8. QED
      BY <1>1, <2>5, <2>6, <2>7
  <1>12. ASSUME NEW t \in Tool, NEW p, Update(Committed(mem, t, p))
         PROVE  Positive(mem'.grants) /\ Positive(disk'.grants)
    <2>1. PICK g : g = [perm |-> p, reservation |-> NoJob, serial |-> serial + 1]
      OBVIOUS
    <2>2. Committed(mem, t, p).grants = [mem.grants EXCEPT ![t] = g]
      BY <1>1, <2>1 DEF Committed, Store
    <2>3. g.serial > 0
      BY <1>1, <2>1
    <2>4. QED
      BY <1>3, <1>5, <1>12, <2>2, <2>3
  <1>13. ASSUME NEW id, NEW p, Allow(id, p)
         PROVE  Positive(mem'.grants) /\ Positive(disk'.grants)
    <2>1. PICK r \in mem.requests : Update(Committed(mem, r.tool, p))
      BY <1>13 DEF Allow
    <2>2. r.tool \in Tool
      BY <1>1 DEF Store, Request
    <2>3. QED
      BY <1>12, <2>1, <2>2
  <1>14. ASSUME NEW t \in Tool, Remove(t)
         PROVE  Positive(mem'.grants) /\ Positive(disk'.grants)
    <2>1. PICK n : /\ Update(n)
                   /\ n = [mem EXCEPT !.grants[t] = NoGrant,
                                      !.requests = {r \in mem.requests : r.tool # t},
                                      !.decided[t] = issued]
      BY <1>14 DEF Remove
    <2>2. n.grants = [mem.grants EXCEPT ![t] = NoGrant]
      BY <1>1, <2>1 DEF Store
    <2>3. QED
      BY <1>3, <1>5, <2>1, <2>2
  <1>15. CASE Restart
    <2>1. Recovered(disk).grants = disk.grants
      BY <1>1, RecoveredParts, Zenon
    <2>2. mem' = Recovered(disk) /\ disk' \in {disk, Recovered(disk)}
      BY <1>15, Zenon DEF Restart
    <2>3. mem'.grants = disk.grants /\ disk'.grants = disk.grants
      BY <2>1, <2>2
    <2>4. QED
      BY <1>1, <1>2, <2>3, Zenon
  <1>16. CASE mem' = mem /\ disk' = disk
    BY <1>1, <1>2, <1>16, Zenon
  <1>17. Positive(mem'.grants) /\ Positive(disk'.grants)
    BY <1>6, <1>7, <1>8, <1>9, <1>10, <1>11, <1>12, <1>13, <1>14, <1>15, <1>16
    DEF Next, Enqueue, Submit, AwaitCapacity, Task, Start, Exit, Release, Owner, Add, Crash,
        vars, storeVars
  <1>18. QED
    BY <1>2, <1>17

\* The inductive invariant behind the refinement: RunInv, the spenders kept apart,
\* starts that were observed and serials that were issued.
RefinementInv == RunInv /\ SpendersApart /\ StartedObserved /\ SerialsIssued

\* Every state of a run satisfies it.
LEMMA RefinementInvariant == Spec => []RefinementInv
  <1>1. Init => StartedObserved /\ SerialsIssued
    BY Bounds DEF Init, EmptyStore, StartedObserved, SerialsIssued
  <1>2. QED
    BY <1>1, ObservedInductive, IssuedInductive, TypeCorrect, RunInvariant, ApartInvariant,
       PTL DEF Spec, RefinementInv

\* The mapping as functions of what it reads: the life of a command that was
\* never started, and the slots of some grants.
RowLife(status) ==
  CASE status \in Waiting -> "new"
    [] status \in Refused -> "refused"
    [] status = "failed"  -> "failed"
    [] OTHER              -> "accepted"

\* How the contract sees an installed grant: free, or held by the reserving job.
Held(g) == IF g.reservation = NoJob THEN "free" ELSE g.reservation

\* The contract's slots, computed from a grants table and the last serial.
SlotFrom(g, last) == [d \in Decision |->
  IF d > last THEN "none"
  ELSE IF {t \in Tool : g[t] # NoGrant /\ g[t].serial = d} = {} THEN "gone"
  ELSE LET h == g[CHOOSE t \in {t \in Tool : g[t] # NoGrant /\ g[t].serial = d} : TRUE]
       IN IF h.reservation = NoJob THEN "free" ELSE h.reservation]

\* Each decision in force fills one slot and is one of those taken.
Numbered(g, last) ==
  /\ \A t \in Tool : g[t] # NoGrant => g[t].serial \in 1..last
  /\ \A t, u \in Tool : g[t] # NoGrant /\ g[u] # NoGrant /\ g[t].serial = g[u].serial => t = u

\* SlotOf is that function of the grants on disk, in this state ...
LEMMA SlotMap == SlotOf = SlotFrom(disk.grants, serial)
  BY DEF SlotOf, SlotFrom, InForce

\* ... and in the next.
LEMMA SlotMapNext == SlotOf' = SlotFrom(disk'.grants, serial')
  BY DEF SlotOf, SlotFrom, InForce

\* What the slots are, read from the grants.
SlotsAre(f, g, last) ==
  \A d \in Decision :
    /\ d > last => f[d] = "none"
    /\ \A t \in Tool : g[t] # NoGrant /\ g[t].serial = d => f[d] = Held(g[t])
    /\ d <= last /\ (\A t \in Tool : g[t] # NoGrant => g[t].serial # d) => f[d] = "gone"

\* The slots are a function on the decisions.
Shaped(f) == f = [d \in Decision |-> f[d]]

\* They are so as the mapping gives them.
LEMMA SlotShape ==
  ASSUME NEW g, NEW last
  PROVE  Shaped(SlotFrom(g, last))
  BY DEF SlotFrom, Shaped

\* The slot of an installed grant's decision.
LEMMA SlotValue ==
  ASSUME NEW g \in Slots, NEW last \in Nat, Numbered(g, last)
  PROVE  SlotsAre(SlotFrom(g, last), g, last)
  <1> SUFFICES ASSUME NEW d \in Decision
               PROVE  /\ d > last => SlotFrom(g, last)[d] = "none"
                      /\ \A t \in Tool : g[t] # NoGrant /\ g[t].serial = d
                                        => SlotFrom(g, last)[d] = Held(g[t])
                      /\ d <= last /\ (\A t \in Tool : g[t] # NoGrant => g[t].serial # d)
                           => SlotFrom(g, last)[d] = "gone"
    BY DEF SlotsAre
  <1> DEFINE In == {t \in Tool : g[t] # NoGrant /\ g[t].serial = d}
  <1>1. SlotFrom(g, last)[d] = IF d > last THEN "none"
                               ELSE IF In = {} THEN "gone"
                               ELSE Held(g[CHOOSE t \in In : TRUE])
    BY DEF SlotFrom, Held
  <1>2. ASSUME NEW t \in Tool, g[t] # NoGrant, g[t].serial = d
        PROVE  SlotFrom(g, last)[d] = Held(g[t])
    <2>1. In = {t}
      BY <1>2 DEF Numbered
    <2>2. (CHOOSE u \in In : TRUE) = t
      BY <2>1
    <2>3. ~(d > last)
      BY <1>2 DEF Numbered
    <2>4. QED
      BY <1>1, <2>1, <2>2, <2>3
  <1>3. QED
    BY <1>1, <1>2, Bounds DEF Decision

\* A grant whose reservation is changed is the same decision.
LEMMA ReservedGrant ==
  ASSUME NEW g \in Grant, NEW r \in Job \cup {NoJob}
  PROVE  /\ [g EXCEPT !.reservation = r] \in Grant /\ [g EXCEPT !.reservation = r] # NoGrant
         /\ [g EXCEPT !.reservation = r].serial = g.serial
         /\ [g EXCEPT !.reservation = r].reservation = r
  <1>1. [g EXCEPT !.reservation = r] \in Grant
    BY DEF Grant
  <1>2. QED
    BY <1>1, Sentinels DEF Grant

\* Taking or giving back a reservation changes the slot of its decision.
LEMMA SlotReserved ==
  ASSUME NEW g \in Slots, NEW last \in Nat, last <= MaxSerial, Numbered(g, last),
         NEW t \in Tool, g[t] # NoGrant, NEW r \in Job \cup {NoJob}, NEW h \in Slots,
         h[t] # NoGrant, h[t].serial = g[t].serial, h[t].reservation = r,
         \A u \in Tool \ {t} : h[u] = g[u]
  PROVE  /\ g[t].serial \in Decision
         /\ SlotFrom(g, last)[g[t].serial] = Held(g[t])
         /\ SlotFrom(h, last) = [SlotFrom(g, last) EXCEPT
                                   ![g[t].serial] = IF r = NoJob THEN "free" ELSE r]
  <1> DEFINE d == g[t].serial
  <1>1. d \in 1..last
    BY DEF Numbered
  <1>2. d \in Decision
    BY <1>1, Bounds DEF Decision
  <1>3. Numbered(h, last)
    BY DEF Numbered
  <1>4. PICK f, f2 : /\ f = SlotFrom(g, last) /\ SlotsAre(f, g, last)
                     /\ f2 = SlotFrom(h, last) /\ SlotsAre(f2, h, last)
    BY <1>3, SlotValue, Zenon
  <1>5. f[d] = Held(g[t]) /\ f2[d] = IF r = NoJob THEN "free" ELSE r
    BY <1>2, <1>4 DEF Held, SlotsAre
  <1>6. ASSUME NEW e \in Decision, e # d
        PROVE  f2[e] = f[e]
    <2>1. CASE e > last
      BY <1>4, <2>1 DEF SlotsAre
    <2>2. CASE \E u \in Tool : g[u] # NoGrant /\ g[u].serial = e
      <3>1. PICK u \in Tool : g[u] # NoGrant /\ g[u].serial = e
        BY <2>2
      <3>2. h[u] = g[u]
        BY <1>6, <3>1
      <3>3. QED
        BY <1>4, <3>1, <3>2 DEF SlotsAre
    <2>3. CASE e <= last /\ \A u \in Tool : g[u] # NoGrant => g[u].serial # e
      <3>1. \A u \in Tool : h[u] # NoGrant => h[u].serial # e
        BY <1>6, <2>3
      <3>2. QED
        BY <1>4, <2>3, <3>1 DEF SlotsAre
    <2>4. QED
      BY <2>1, <2>2, <2>3 DEF Decision
  <1>7. f2 = [f EXCEPT ![d] = IF r = NoJob THEN "free" ELSE r]
    <2>1. Shaped(f)
      BY <1>4, SlotShape, Zenon
    <2>2. Shaped(f2)
      BY <1>4, SlotShape, Zenon
    <2>3. QED
      BY <1>2, <1>5, <1>6, <2>1, <2>2 DEF Shaped
  <1>8. QED
    BY <1>2, <1>4, <1>5, <1>7, Zenon

\* A slot that is emptied or replaced loses its decision; a new one is free.
LEMMA SlotDecided ==
  ASSUME NEW g \in Slots, NEW last \in Nat, Numbered(g, last), NEW t \in Tool,
         NEW n \in Grant \cup {NoGrant}, NEW last2 \in Nat, last2 <= MaxSerial,
         \/ n = NoGrant /\ last2 = last
         \/ n # NoGrant /\ n.serial = last + 1 /\ n.reservation = NoJob /\ last2 = last + 1,
         NEW h \in Slots, h[t] = n, \A u \in Tool \ {t} : h[u] = g[u]
  PROVE  SlotFrom(h, last2) =
           [d \in Decision |-> IF g[t] # NoGrant /\ d = g[t].serial THEN "gone"
                               ELSE IF d = last + 1 /\ n # NoGrant THEN "free"
                               ELSE SlotFrom(g, last)[d]]
  <1>1. \A u \in Tool : g[u] # NoGrant => g[u].serial \in 1..last
    BY DEF Numbered
  <1>2. Numbered(h, last2)
    BY <1>1 DEF Numbered
  <1>. PICK f, f2 : /\ f = SlotFrom(g, last) /\ SlotsAre(f, g, last)
                    /\ f2 = SlotFrom(h, last2) /\ SlotsAre(f2, h, last2)
    BY <1>2, SlotValue, Zenon
  <1>3. ASSUME NEW d \in Decision
        PROVE  f2[d] = IF g[t] # NoGrant /\ d = g[t].serial THEN "gone"
                       ELSE IF d = last + 1 /\ n # NoGrant THEN "free"
                       ELSE f[d]
    <2>1. CASE g[t] # NoGrant /\ d = g[t].serial
      <3>1. d <= last2 /\ \A u \in Tool : h[u] # NoGrant => h[u].serial # d
        BY <1>1, <2>1 DEF Numbered
      <3>2. QED
        BY <2>1, <3>1 DEF SlotsAre
    <2>2. CASE d = last + 1 /\ n # NoGrant
      <3>1. f2[d] = Held(n)
        BY <2>2 DEF SlotsAre
      <3>2. ~(g[t] # NoGrant /\ d = g[t].serial)
        BY <1>1, <2>2
      <3>3. QED
        BY <2>2, <3>1, <3>2 DEF Held
    <2>3. CASE ~(g[t] # NoGrant /\ d = g[t].serial) /\ ~(d = last + 1 /\ n # NoGrant)
      <3>1. CASE d > last
        <4>1. d > last2
          BY <2>3, <3>1 DEF Decision
        <4>2. QED
          BY <2>3, <3>1, <4>1 DEF SlotsAre
      <3>2. CASE \E u \in Tool : g[u] # NoGrant /\ g[u].serial = d
        <4>1. PICK u \in Tool : g[u] # NoGrant /\ g[u].serial = d
          BY <3>2
        <4>2. h[u] = g[u]
          BY <2>3, <4>1
        <4>3. QED
          BY <2>3, <4>1, <4>2 DEF SlotsAre
      <3>3. CASE d <= last /\ \A u \in Tool : g[u] # NoGrant => g[u].serial # d
        <4>1. d <= last2 /\ \A u \in Tool : h[u] # NoGrant => h[u].serial # d
          BY <2>3, <3>3 DEF Decision
        <4>2. QED
          BY <2>3, <3>3, <4>1 DEF SlotsAre
      <3>4. QED
        BY <3>1, <3>2, <3>3 DEF Decision
    <2>4. QED
      BY <2>1, <2>2, <2>3
  <1>4. Shaped(f2)
    BY SlotShape, Zenon
  <1>5. QED
    BY <1>3, <1>4 DEF Shaped

\* A decision that was not saved is gone at once.
LEMMA SlotLost ==
  ASSUME NEW g \in Slots, NEW last \in Nat, Numbered(g, last), NEW d \in Decision
  PROVE  SlotFrom(g, last + 1)[d] = IF d = last + 1 THEN "gone" ELSE SlotFrom(g, last)[d]
  <1>1. Numbered(g, last + 1)
    BY DEF Numbered
  <1>. PICK f, f2 : /\ f = SlotFrom(g, last) /\ SlotsAre(f, g, last)
                    /\ f2 = SlotFrom(g, last + 1) /\ SlotsAre(f2, g, last + 1)
    <2>1. last + 1 \in Nat
      OBVIOUS
    <2>2. QED
      BY <1>1, <2>1, SlotValue, Zenon
  <1>2. \A t \in Tool : g[t] # NoGrant => g[t].serial \in 1..last
    BY DEF Numbered
  <1>3. CASE d > last
    <2>1. \A t \in Tool : g[t] # NoGrant => g[t].serial # d
      BY <1>2, <1>3
    <2>2. QED
      BY <1>1, <1>3, <2>1 DEF Decision, SlotsAre
  <1>4. CASE d <= last
    <2>1. CASE \E t \in Tool : g[t] # NoGrant /\ g[t].serial = d
      BY <1>1, <1>4, <2>1 DEF Decision, SlotsAre
    <2>2. CASE \A t \in Tool : g[t] # NoGrant => g[t].serial # d
      BY <1>1, <1>4, <2>2 DEF Decision, SlotsAre
    <2>3. QED
      BY <2>1, <2>2
  <1>5. QED
    BY <1>3, <1>4 DEF Decision

\* The invariant gives the numbering that the slots rest on.
LEMMA NumberedNow == RefinementInv => Numbered(disk.grants, serial) /\ disk.grants \in Slots
  <1> SUFFICES ASSUME RefinementInv
               PROVE  Numbered(disk.grants, serial) /\ disk.grants \in Slots
    OBVIOUS
  <1>1. TypeOK /\ disk.grants \in Slots /\ serial \in Nat
    BY DEF RefinementInv, RunInv, TypeOK, Store, Slots
  <1>2. SlotsHeld(disk.grants, Spenders, under, serial)
    BY DEF RefinementInv, SpendersApart
  <1>3. \A t \in Tool : disk.grants[t] # NoGrant =>
          disk.grants[t].serial \in Nat /\ disk.grants[t].serial > 0
    BY <1>1 DEF RefinementInv, SerialsIssued, Slots, Grant
  <1>4. QED
    BY <1>1, <1>2, <1>3 DEF SlotsHeld, Numbered

\* What a started command did, and the lives read from what happened and from
\* the saved rows.
Ran(e) ==
  CASE e = "none"    -> "started"
    [] e = "ok"      -> "succeeded"
    [] e = "err"     -> "failed"
    [] e = "unknown" -> "unknown"

\* The contract's lives, computed from the starts, the effects and the rows.
LifeFrom(st, ef, rows) ==
  [j \in Job |-> IF st[j] > 0 THEN Ran(ef[j]) ELSE RowLife(rows[j])]

\* LifeOf is that function of this state ...
LEMMA LifeMap == LifeOf = LifeFrom(starts, effect, disk.jobs)
  BY Zenon DEF LifeOf, LifeFrom, Ran, RowLife

\* ... and of the next.
LEMMA LifeMapNext == LifeOf' = LifeFrom(starts', effect', disk'.jobs)
  BY Zenon DEF LifeOf, LifeFrom, Ran, RowLife

\* The life of one job.
LEMMA LifeValue ==
  ASSUME NEW j \in Job
  PROVE  /\ LifeOf[j] = IF starts[j] > 0 THEN Ran(effect[j]) ELSE RowLife(disk.jobs[j])
         /\ LifeOf'[j] = IF starts'[j] > 0 THEN Ran(effect'[j]) ELSE RowLife(disk'.jobs[j])
  BY LifeMap, LifeMapNext DEF LifeFrom

\* A job that keeps its start count, its effect and its row keeps its life.
LEMMA LifeKept ==
  ASSUME NEW j \in Job, starts'[j] = starts[j], effect'[j] = effect[j],
         starts[j] > 0 \/ RowLife(disk'.jobs[j]) = RowLife(disk.jobs[j])
  PROVE  LifeOf'[j] = LifeOf[j]
  BY LifeValue

\* Lives that agree on every job are the same lives.
LEMMA LivesKept ==
  ASSUME \A j \in Job : LifeOf'[j] = LifeOf[j]
  PROVE  LifeOf' = LifeOf
  <1>1. PICK f, f2 : f = LifeOf /\ f2 = LifeOf'
    OBVIOUS
  <1>2. f = [j \in Job |-> f[j]] /\ f2 = [j \in Job |-> f2[j]]
    BY <1>1, LifeMap, LifeMapNext DEF LifeFrom
  <1>3. \A j \in Job : f2[j] = f[j]
    BY <1>1
  <1>4. f2 = f
    BY <1>2, <1>3
  <1>5. QED
    BY <1>1, <1>4

\* A step that changes one job's life is a function update of the lives.
LEMMA LifeMoved ==
  ASSUME NEW j \in Job, NEW x, LifeOf'[j] = x, \A i \in Job \ {j} : LifeOf'[i] = LifeOf[i]
  PROVE  LifeOf' = [LifeOf EXCEPT ![j] = x]
  <1>1. PICK f, f2 : f = LifeOf /\ f2 = LifeOf'
    OBVIOUS
  <1>2. f = [i \in Job |-> f[i]] /\ f2 = [i \in Job |-> f2[i]]
    BY <1>1, LifeMap, LifeMapNext DEF LifeFrom
  <1>3. f2[j] = x /\ \A i \in Job \ {j} : f2[i] = f[i]
    BY <1>1
  <1>4. f2 = [f EXCEPT ![j] = x]
    BY <1>2, <1>3
  <1>5. QED
    BY <1>1, <1>4

\* Memory knows no other life than the saved state does.
LEMMA RowAgrees ==
  ASSUME RefinementInv, up, ~writeError, NEW j \in Job
  PROVE  RowLife(mem.jobs[j]) = RowLife(disk.jobs[j])
  BY DEF RefinementInv, RunInv, MemoryIsDisk, RowLife, Waiting, Refused

\* Saved grants that stay as they are keep every slot.
LEMMA SlotsKept ==
  ASSUME disk'.grants = disk.grants, serial' = serial
  PROVE  SlotOf' = SlotOf
  BY SlotMap, SlotMapNext

\* What an update saves leaves the lives if the contract cannot tell its rows apart.
LEMMA QuietSimulated ==
  ASSUME RefinementInv, NEW n, Update(n), UNCHANGED truth,
         \A j \in Job : RowLife(n.jobs[j]) = RowLife(mem.jobs[j])
  PROVE  LifeOf' = LifeOf
  <1>1. \A j \in Job : RowLife(disk'.jobs[j]) = RowLife(disk.jobs[j])
    <2>1. up /\ ~writeError /\ disk' \in {disk, n}
      BY Zenon DEF Update, Saved, SaveFailed
    <2>2. QED
      BY <2>1, RowAgrees
  <1>2. \A j \in Job : LifeOf'[j] = LifeOf[j]
    BY <1>1, LifeKept DEF truth
  <1>3. QED
    BY <1>2, LivesKept

\* The step is a step of the contract, or a stutter of it.
Simulated == [Contract!Next]_<<LifeOf, SlotOf>>

\* A saved edit of one row that leaves the grants.
LEMMA RowSimulated ==
  ASSUME RefinementInv, NEW j \in Job, NEW n, Update(n), UNCHANGED truth, serial' = serial,
         n.grants = mem.grants, mem.jobs[j] \in Waiting,
         n.jobs = [mem.jobs EXCEPT ![j] = n.jobs[j]],
         n.jobs[j] \in Waiting \cup Refused
  PROVE  Simulated
  <1>1. /\ TypeOK /\ mem \in Store /\ disk \in Store
        /\ up /\ ~writeError /\ disk' \in {disk, n} /\ mem.grants = disk.grants
    BY Zenon DEF Update, Saved, SaveFailed, RefinementInv, RunInv, TypeOK, MemoryIsDisk
  <1>2. SlotOf' = SlotOf
    <2>1. disk'.grants = disk.grants
      BY <1>1
    <2>2. QED
      BY <2>1, SlotsKept
  <1>3. \A i \in Job \ {j} : n.jobs[i] = mem.jobs[i]
    BY <1>1 DEF Store
  <1>4. \A i \in Job \ {j} : LifeOf'[i] = LifeOf[i]
    BY <1>1, <1>3, RowAgrees, LifeKept DEF truth
  <1>5. starts[j] = 0
    <2>1. mem.jobs[j] \notin Accepted
      BY DEF Waiting, Accepted
    <2>2. ~(starts[j] > 0) /\ starts[j] \in Nat
      BY <1>1, <2>1 DEF RefinementInv, RunInv, TaskAccepted, TypeOK
    <2>3. QED
      BY <2>2
  <1>6. LifeOf[j] = "new"
    <2>1. RowLife(mem.jobs[j]) = "new"
      BY DEF RowLife, Waiting, Refused
    <2>2. RowLife(disk.jobs[j]) = "new"
      BY <1>1, <2>1, RowAgrees
    <2>3. QED
      BY <1>5, <2>2, LifeValue
  <1>7. CASE disk' = n /\ n.jobs[j] \in Refused
    <2>1. LifeOf'[j] = "refused"
      <3>1. RowLife(disk'.jobs[j]) = "refused" /\ ~(starts'[j] > 0)
        BY <1>5, <1>7 DEF truth, RowLife, Waiting, Refused
      <3>2. QED
        BY <3>1, LifeValue
    <2>2. LifeOf' = [LifeOf EXCEPT ![j] = "refused"]
      BY <1>4, <2>1, LifeMoved
    <2>3. Contract!Refuse(j)
      BY <1>2, <1>6, <2>2 DEF Contract!Refuse, Contract!Moves
    <2>4. QED
      BY <2>3 DEF Simulated, Contract!Next
  <1>8. CASE disk' = disk \/ n.jobs[j] \in Waiting
    <2>1. RowLife(disk'.jobs[j]) = RowLife(disk.jobs[j])
      <3>1. n.jobs[j] \in Waiting => RowLife(n.jobs[j]) = RowLife(mem.jobs[j])
        BY DEF RowLife, Waiting, Refused
      <3>2. QED
        BY <1>1, <1>8, <3>1, RowAgrees
    <2>2. LifeOf'[j] = LifeOf[j]
      BY <2>1, LifeKept DEF truth
    <2>3. LifeOf' = LifeOf
      BY <1>4, <2>2, LivesKept
    <2>4. QED
      BY <1>2, <2>3 DEF Simulated
  <1>9. QED
    BY <1>1, <1>7, <1>8

\* An edit of the store that changes neither rows nor grants.
LEMMA AsideSimulated ==
  ASSUME RefinementInv, NEW n, Update(n), UNCHANGED truth, serial' = serial,
         n.grants = mem.grants, n.jobs = mem.jobs
  PROVE  Simulated
  <1>1. LifeOf' = LifeOf
    BY QuietSimulated
  <1>2. disk'.grants = disk.grants
    BY Zenon DEF Update, Saved, SaveFailed, RefinementInv, RunInv, MemoryIsDisk
  <1>3. QED
    BY <1>1, <1>2, SlotsKept DEF Simulated

\* An admission is the contract's acceptance, which takes a slot if the grant is for one use.
LEMMA AdmitSimulated ==
  ASSUME RefinementInv, NEW j \in Job, Admit(j)
  PROVE  Simulated
  <1> DEFINE t == ToolOf[j]
             g == mem.grants[t]
  <1>1. /\ TypeOK /\ t \in Tool /\ mem \in Store /\ disk \in Store
        /\ g # NoGrant /\ g.reservation = NoJob /\ mem.jobs[j] \in Waiting
        /\ starts' = starts /\ effect' = effect /\ serial' = serial
    BY InvocationShape
    DEF RefinementInv, RunInv, TypeOK, Admit, Submittable, Waiting, Verdict, truth, counters
  <1>2. up /\ ~writeError /\ disk' \in {disk, Admitted(mem, j)} /\ mem.grants = disk.grants
    BY Zenon DEF Admit, Saved, SaveFailed, RefinementInv, RunInv, MemoryIsDisk
  <1>3. CASE disk' = disk
    <2>1. SlotOf' = SlotOf
      BY <1>1, <1>3, SlotsKept
    <2>2. \A i \in Job : LifeOf'[i] = LifeOf[i]
      BY <1>1, <1>3, LifeKept
    <2>3. QED
      BY <2>1, <2>2, LivesKept DEF Simulated
  <1>4. CASE disk' = Admitted(mem, j)
    <2>1. /\ disk'.jobs = [mem.jobs EXCEPT ![j] = "running"]
          /\ disk'.grants = [disk.grants EXCEPT ![t] =
                               IF g.perm.once THEN [g EXCEPT !.reservation = j] ELSE g]
      BY <1>1, <1>2, <1>4 DEF Admitted, Store
    <2>2. starts[j] = 0
      <3>1. mem.jobs[j] \notin Accepted
        BY <1>1 DEF Waiting, Accepted
      <3>2. ~(starts[j] > 0) /\ starts[j] \in Nat
        BY <1>1, <3>1 DEF RefinementInv, RunInv, TaskAccepted, TypeOK
      <3>3. QED
        BY <3>2
    <2>3. LifeOf[j] = "new" /\ LifeOf'[j] = "accepted"
      <3>1. RowLife(mem.jobs[j]) = "new" /\ RowLife("running") = "accepted"
        BY <1>1 DEF RowLife, Waiting, Refused
      <3>2. RowLife(disk.jobs[j]) = "new" /\ disk'.jobs[j] = "running"
        BY <1>1, <1>2, <2>1, <3>1, RowAgrees DEF Store
      <3>3. QED
        BY <1>1, <2>2, <3>1, <3>2, LifeValue
    <2>4. \A i \in Job \ {j} : LifeOf'[i] = LifeOf[i]
      <3>1. \A i \in Job \ {j} : disk'.jobs[i] = mem.jobs[i]
        BY <1>1, <2>1 DEF Store
      <3>2. \A i \in Job \ {j} : RowLife(disk'.jobs[i]) = RowLife(disk.jobs[i])
        BY <1>2, <3>1, RowAgrees
      <3>3. QED
        BY <1>1, <3>2, LifeKept
    <2>5. LifeOf' = [LifeOf EXCEPT ![j] = "accepted"]
      BY <2>3, <2>4, LifeMoved
    <2>6. SlotOf' = SlotOf \/ \E d \in Decision : SlotOf[d] = "free" /\ SlotOf' = [SlotOf EXCEPT ![d] = j]
      <3>1. CASE ~g.perm.once
        <4>1. disk'.grants = disk.grants
          BY <1>1, <1>2, <2>1, <3>1 DEF Store
        <4>2. QED
          BY <1>1, <4>1, SlotsKept
      <3>2. CASE g.perm.once
        <4>1. PICK h, s : h = disk'.grants /\ s = disk.grants
          OBVIOUS
        <4>2. /\ s \in Slots /\ Numbered(s, serial) /\ serial \in Nat /\ serial <= MaxSerial
              /\ s[t] # NoGrant /\ s[t].reservation = NoJob
          BY <1>1, <1>2, <2>1, <3>2, <4>1, NumberedNow DEF TypeOK, RefinementInv, SerialsIssued
        <4>0. h = [s EXCEPT ![t] = [s[t] EXCEPT !.reservation = j]]
          BY <1>1, <1>2, <2>1, <3>2, <4>1
        <4>3. /\ s[t].serial \in Decision
              /\ SlotFrom(s, serial)[s[t].serial] = Held(s[t])
              /\ SlotFrom(h, serial) = [SlotFrom(s, serial) EXCEPT
                                   ![s[t].serial] = IF j = NoJob THEN "free" ELSE j]
          <5>1. t \in Tool /\ j \in Job \cup {NoJob}
            BY <1>1
          <5> HIDE DEF t
          <5>2. /\ h \in Slots /\ h[t] # NoGrant /\ h[t].serial = s[t].serial
                /\ h[t].reservation = j /\ \A u \in Tool \ {t} : h[u] = s[u]
            <6>1. s[t] \in Grant
              BY <4>2, <5>1 DEF Slots
            <6>2. PICK x : x = [s[t] EXCEPT !.reservation = j]
              OBVIOUS
            <6>3. x \in Grant /\ x # NoGrant /\ x.serial = s[t].serial /\ x.reservation = j
              BY <5>1, <6>1, <6>2, ReservedGrant
            <6>4. h = [s EXCEPT ![t] = x]
              BY <4>0, <6>2
            <6>5. QED
              BY <4>2, <5>1, <6>3, <6>4 DEF Slots
          <5>3. QED
            BY <4>2, <5>1, <5>2, SlotReserved
        <4>4. SlotOf = SlotFrom(s, serial) /\ SlotOf' = SlotFrom(h, serial)
          BY <1>1, <4>1, SlotMap, SlotMapNext
        <4>5. Held(s[t]) = "free" /\ j # NoJob
          BY <4>2, Sentinels DEF Held
        <4>6. SlotOf[s[t].serial] = "free" /\ SlotOf' = [SlotOf EXCEPT ![s[t].serial] = j]
          BY <4>3, <4>4, <4>5
        <4>7. QED
          BY <4>3, <4>6
      <3>3. QED
        BY <3>1, <3>2
    <2>7. Contract!Accept(j)
      BY <2>3, <2>5, <2>6 DEF Contract!Accept, Contract!Moves
    <2>8. QED
      BY <2>7 DEF Simulated, Contract!Next
  <1>5. QED
    BY <1>2, <1>3, <1>4

\* Starting a program is the contract's start of an accepted job.
LEMMA StartSimulated ==
  ASSUME RefinementInv, NEW j \in Job, Start(j)
  PROVE  Simulated
  <1>1. /\ TypeOK /\ starts[j] = 0 /\ effect[j] = "none" /\ disk.jobs[j] = "running"
        /\ effect' = effect /\ disk' = disk /\ serial' = serial
        /\ starts' \in {starts, [starts EXCEPT ![j] = @ + 1]}
    BY DEF RefinementInv, RunInv, TaskProgress, TaskAccepted, Active, Start, storeVars, counters
  <1>2. SlotOf' = SlotOf
    BY <1>1, SlotsKept
  <1>3. \A i \in Job \ {j} : LifeOf'[i] = LifeOf[i]
    <2>1. \A i \in Job \ {j} : starts'[i] = starts[i]
      BY <1>1 DEF TypeOK
    <2>2. QED
      BY <1>1, <2>1, LifeKept
  <1>4. CASE starts' = starts
    <2>1. LifeOf'[j] = LifeOf[j]
      BY <1>1, <1>4, LifeKept
    <2>2. QED
      BY <1>2, <1>3, <2>1, LivesKept DEF Simulated
  <1>5. CASE starts' = [starts EXCEPT ![j] = @ + 1]
    <2>1. LifeOf[j] = "accepted" /\ LifeOf'[j] = "started"
      <3>1. starts'[j] = 1
        BY <1>1, <1>5 DEF TypeOK
      <3>2. QED
        BY <1>1, <3>1, LifeValue DEF RowLife, Ran, Waiting, Refused
    <2>2. LifeOf' = [LifeOf EXCEPT ![j] = "started"]
      BY <1>3, <2>1, LifeMoved
    <2>3. Contract!Begin(j)
      BY <1>2, <2>1, <2>2 DEF Contract!Begin, Contract!Moves
    <2>4. QED
      BY <2>3 DEF Simulated, Contract!Next
  <1>6. QED
    BY <1>1, <1>4, <1>5

\* A program that ends, or is lost, moves its job to a final life.
LEMMA ExitSimulated ==
  ASSUME RefinementInv, NEW j \in Job, Exit(j)
  PROVE  Simulated
  <1>1. /\ TypeOK /\ starts[j] = 1 /\ effect[j] = "none"
        /\ starts' = starts /\ disk' = disk /\ serial' = serial
        /\ \E e \in {"ok", "err", "unknown"} : effect' = [effect EXCEPT ![j] = e]
    BY DEF RefinementInv, RunInv, TaskProgress, Exit, storeVars, counters, Outcome
  <1>2. PICK e \in {"ok", "err", "unknown"} : effect' = [effect EXCEPT ![j] = e]
    BY <1>1
  <1>3. effect'[j] = e /\ \A i \in Job \ {j} : effect'[i] = effect[i]
    BY <1>1, <1>2 DEF TypeOK
  <1>4. SlotOf' = SlotOf
    BY <1>1, SlotsKept
  <1>5. \A i \in Job \ {j} : LifeOf'[i] = LifeOf[i]
    BY <1>1, <1>3, LifeKept
  <1>6. LifeOf[j] = "started" /\ LifeOf'[j] = Ran(e)
    BY <1>1, <1>3, LifeValue DEF Ran
  <1>7. Ran(e) \in {"succeeded", "failed", "unknown"}
    BY DEF Ran
  <1>8. LifeOf' = [LifeOf EXCEPT ![j] = Ran(e)]
    BY <1>5, <1>6, LifeMoved
  <1>9. Contract!End(j)
    BY <1>4, <1>6, <1>7, <1>8 DEF Contract!End, Contract!Moves
  <1>10. QED
    BY <1>9 DEF Simulated, Contract!Next

\* A crash ends the observation of exactly the commands that are being executed.
LEMMA CrashSimulated ==
  ASSUME RefinementInv, Crash
  PROVE  Simulated
  <1>1. /\ TypeOK /\ starts' = starts /\ disk' = disk /\ serial' = serial
        /\ effect' = [i \in Job |-> IF task[i] = "executing" THEN "unknown" ELSE effect[i]]
    BY DEF RefinementInv, RunInv, Crash, storeVars, counters
  <1>2. SlotOf' = SlotOf
    BY <1>1, SlotsKept
  <1>3. ASSUME NEW j \in Job
        PROVE  LifeOf'[j] = IF LifeOf[j] = "started" THEN "unknown" ELSE LifeOf[j]
    <2>1. CASE task[j] = "executing"
      <3>1. starts[j] = 1 /\ effect[j] = "none" /\ effect'[j] = "unknown"
        BY <1>1, <2>1 DEF RefinementInv, RunInv, TaskProgress
      <3>2. QED
        BY <1>1, <3>1, LifeValue DEF Ran
    <2>2. CASE task[j] # "executing"
      <3>1. effect'[j] = effect[j] /\ (starts[j] > 0 => effect[j] # "none")
        BY <1>1, <2>2 DEF RefinementInv, StartedObserved
      <3>2. effect[j] \in {"none", "ok", "err", "unknown"}
        BY <1>1 DEF TypeOK
      <3>3. LifeOf[j] # "started"
        BY <3>1, <3>2, LifeValue DEF Ran, RowLife
      <3>4. QED
        BY <1>1, <3>1, <3>3, LifeKept
    <2>3. QED
      BY <2>1, <2>2
  <1>4. LifeOf' = [j \in Job |-> IF LifeOf[j] = "started" THEN "unknown" ELSE LifeOf[j]]
    <2>1. PICK f, f2 : f = LifeOf /\ f2 = LifeOf'
      OBVIOUS
    <2>2. f2 = [j \in Job |-> f2[j]]
      BY <2>1, LifeMapNext DEF LifeFrom
    <2>3. \A j \in Job : f2[j] = IF f[j] = "started" THEN "unknown" ELSE f[j]
      BY <1>3, <2>1
    <2>4. f2 = [j \in Job |-> IF f[j] = "started" THEN "unknown" ELSE f[j]]
      BY <2>2, <2>3
    <2>5. QED
      BY <2>1, <2>4
  <1>5. Contract!LoseSight
    BY <1>2, <1>4 DEF Contract!LoseSight
  <1>6. QED
    BY <1>5 DEF Simulated, Contract!Next

\* A restart only marks commands without an outcome, which the contract does not see.
LEMMA RestartSimulated ==
  ASSUME RefinementInv, Restart
  PROVE  Simulated
  <1>1. /\ TypeOK /\ disk \in Store /\ starts' = starts /\ effect' = effect /\ serial' = serial
        /\ disk' \in {disk, Recovered(disk)}
    BY Zenon DEF RefinementInv, RunInv, TypeOK, Restart, truth, counters
  <1>2. /\ Recovered(disk).grants = disk.grants
        /\ Recovered(disk).jobs = [i \in Job |-> IF disk.jobs[i] = "running" THEN "uncertain"
                                                 ELSE disk.jobs[i]]
    BY <1>1, RecoveredParts, Zenon
  <1>3. disk'.grants = disk.grants
    BY <1>1, <1>2
  <1>4. \A i \in Job : RowLife(disk'.jobs[i]) = RowLife(disk.jobs[i])
    <2>1. RowLife("running") = RowLife("uncertain")
      BY DEF RowLife, Waiting, Refused
    <2>2. QED
      BY <1>1, <1>2, <2>1
  <1>5. \A i \in Job : LifeOf'[i] = LifeOf[i]
    BY <1>1, <1>4, LifeKept
  <1>6. QED
    BY <1>1, <1>3, <1>5, SlotsKept, LivesKept DEF Simulated

\* The slot of the run that holds the grant of its tool is given back or used up.
LEMMA SlotFreed ==
  ASSUME RefinementInv, NEW t \in Tool, NEW j \in Job, serial' = serial,
         disk.grants[t] # NoGrant, disk.grants[t].reservation = j,
         disk'.grants = [disk.grants EXCEPT ![t] = [disk.grants[t] EXCEPT !.reservation = NoJob]]
  PROVE  \E d \in Decision : SlotOf[d] = j /\ SlotOf' = [SlotOf EXCEPT ![d] = "free"]
  <1>1. PICK h, s : h = disk'.grants /\ s = disk.grants
    OBVIOUS
  <1>2. /\ s \in Slots /\ Numbered(s, serial) /\ serial \in Nat /\ serial <= MaxSerial
        /\ s[t] # NoGrant /\ s[t].reservation = j /\ NoJob \in Job \cup {NoJob}
    BY <1>1, NumberedNow DEF RefinementInv, RunInv, TypeOK, SerialsIssued
  <1>3. /\ s[t].serial \in Decision
        /\ SlotFrom(s, serial)[s[t].serial] = Held(s[t])
        /\ SlotFrom(h, serial) = [SlotFrom(s, serial) EXCEPT
                                    ![s[t].serial] = IF NoJob = NoJob THEN "free" ELSE NoJob]
    <2>1. /\ h \in Slots /\ h[t] # NoGrant /\ h[t].serial = s[t].serial
          /\ h[t].reservation = NoJob /\ \A u \in Tool \ {t} : h[u] = s[u]
      <3>1. PICK x : x = [s[t] EXCEPT !.reservation = NoJob]
        OBVIOUS
      <3>2. s[t] \in Grant
        BY <1>2 DEF Slots
      <3>3. x \in Grant /\ x # NoGrant /\ x.serial = s[t].serial /\ x.reservation = NoJob
        BY <3>1, <3>2, ReservedGrant
      <3>4. h = [s EXCEPT ![t] = x]
        BY <1>1, <3>1
      <3>5. QED
        BY <1>2, <3>3, <3>4 DEF Slots
    <2>2. QED
      BY <1>2, <2>1, SlotReserved
  <1>4. SlotOf = SlotFrom(s, serial) /\ SlotOf' = SlotFrom(h, serial)
    BY <1>1, SlotMap, SlotMapNext
  <1>5. Held(s[t]) = j
    BY <1>2, Sentinels DEF Held
  <1>6. QED
    BY <1>3, <1>4, <1>5

\* Consuming a one-use grant removes its slot for good.
LEMMA SlotUsed ==
  ASSUME RefinementInv, NEW t \in Tool, NEW j \in Job, serial' = serial,
         disk.grants[t] # NoGrant, disk.grants[t].reservation = j,
         disk'.grants = [disk.grants EXCEPT ![t] = NoGrant]
  PROVE  \E d \in Decision : SlotOf[d] = j /\ SlotOf' = [SlotOf EXCEPT ![d] = "gone"]
  <1>1. PICK h, s : h = disk'.grants /\ s = disk.grants
    OBVIOUS
  <1>2. /\ s \in Slots /\ Numbered(s, serial) /\ serial \in Nat /\ serial <= MaxSerial
        /\ s[t] # NoGrant /\ s[t].reservation = j
    BY <1>1, NumberedNow DEF RefinementInv, RunInv, TypeOK, SerialsIssued
  <1>3. PICK d \in Decision : d = s[t].serial
    BY <1>2, Bounds DEF Numbered, Decision
  <1>4. PICK f, f2 : f = SlotOf /\ f2 = SlotOf'
    OBVIOUS
  <1>5. f2 = [e \in Decision |-> IF e = d THEN "gone" ELSE f[e]]
    <2>1. SlotFrom(h, serial) =
           [e \in Decision |-> IF s[t] # NoGrant /\ e = s[t].serial THEN "gone"
                               ELSE IF e = serial + 1 /\ NoGrant # NoGrant THEN "free"
                               ELSE SlotFrom(s, serial)[e]]
      <3>1. h \in Slots /\ h[t] = NoGrant /\ \A u \in Tool \ {t} : h[u] = s[u]
        BY <1>1, <1>2 DEF Slots
      <3>2. PICK n \in Grant \cup {NoGrant} : n = NoGrant
        OBVIOUS
      <3>3. SlotFrom(h, serial) =
             [e \in Decision |-> IF s[t] # NoGrant /\ e = s[t].serial THEN "gone"
                                 ELSE IF e = serial + 1 /\ n # NoGrant THEN "free"
                                 ELSE SlotFrom(s, serial)[e]]
        BY <1>2, <3>1, <3>2, SlotDecided
      <3>4. QED
        BY <3>2, <3>3
    <2>2. f = SlotFrom(s, serial) /\ f2 = SlotFrom(h, serial)
      BY <1>1, <1>4, SlotMap, SlotMapNext
    <2>3. QED
      BY <1>2, <1>3, <2>1, <2>2
  <1>6. f = [e \in Decision |-> f[e]]
    BY <1>4 DEF SlotOf
  <1>7. f[d] = j
    <2>1. SlotsAre(SlotFrom(s, serial), s, serial)
      BY <1>2, SlotValue, Zenon
    <2>2. f = SlotFrom(s, serial)
      BY <1>1, <1>4, SlotMap
    <2>3. Held(s[t]) = j
      BY <1>2, Sentinels DEF Held
    <2>4. QED
      BY <1>2, <1>3, <2>1, <2>2, <2>3 DEF SlotsAre
  <1>8. f2 = [f EXCEPT ![d] = "gone"]
    BY <1>5, <1>6
  <1>9. QED
    BY <1>4, <1>7, <1>8

\* A run that ends gives its slot back or uses it up, or moves nothing.
LEMMA FinishSimulated ==
  ASSUME RefinementInv, NEW j \in Job, Finish(j)
  PROVE  Simulated
  <1> DEFINE t == ToolOf[j]
             o == task[j]
             n == Settled(mem, j, o)
  <1>1. /\ TypeOK /\ t \in Tool /\ mem \in Store /\ disk \in Store /\ o \in Outcome
        /\ starts' = starts /\ effect' = effect /\ serial' = serial
        /\ disk.jobs[j] = "running" /\ mem.jobs[j] = "running"
    BY InvocationShape
    DEF RefinementInv, RunInv, TypeOK, Finish, TaskAccepted, Active, truth, counters
  <1>2. CASE disk' = disk
    <2>1. SlotOf' = SlotOf
      BY <1>1, <1>2, SlotsKept
    <2>2. \A i \in Job : LifeOf'[i] = LifeOf[i]
      BY <1>1, <1>2, LifeKept
    <2>3. QED
      BY <2>1, <2>2, LivesKept DEF Simulated
  <1>3. CASE disk' = n /\ disk' # disk
    <2> DEFINE mine == /\ under[j].perm.once
                       /\ mem.grants[t] # NoGrant
                       /\ mem.grants[t].reservation = j
               slot == IF ~mine \/ o = "unknown" THEN mem.grants[t]
                       ELSE IF o \in {"ok", "ok_lost"} THEN NoGrant
                       ELSE [mem.grants[t] EXCEPT !.reservation = NoJob]
    <2>1. up /\ ~writeError /\ mem.grants = disk.grants
      BY <1>1, <1>3, FinishStep DEF RefinementInv, RunInv, MemoryIsDisk
    <2>2. disk'.jobs = [mem.jobs EXCEPT ![j] = FinalStatus[o]] /\ disk'.grants = [mem.grants EXCEPT ![t] = slot]
      BY <1>1, <1>3 DEF Settled, Store
    <2>3. \A i \in Job \ {j} : LifeOf'[i] = LifeOf[i]
      <3>1. \A i \in Job \ {j} : disk'.jobs[i] = mem.jobs[i]
        BY <1>1, <2>2 DEF Store
      <3>2. QED
        BY <1>1, <2>1, <3>1, RowAgrees, LifeKept
    <2>4. disk'.jobs[j] = FinalStatus[o]
      BY <1>1, <2>2 DEF Store
    \* The life of the run: only a command that never started moves now.
    <2>5. CASE o = "unstarted"
      <3>1. starts[j] = 0 /\ FinalStatus[o] = "failed"
        BY <2>5 DEF RefinementInv, RunInv, TaskProgress, FinalStatus, Outcome
      <3>2. LifeOf[j] = "accepted" /\ LifeOf'[j] = "failed"
        BY <1>1, <2>4, <3>1, LifeValue DEF RowLife, Waiting, Refused
      <3>3. LifeOf' = [LifeOf EXCEPT ![j] = "failed"]
        BY <2>3, <3>2, LifeMoved
      <3>4. CASE ~mine
        <4>1. disk'.grants = disk.grants
          BY <1>1, <2>1, <2>2, <3>4 DEF Store
        <4>2. Contract!Abandon(j)
          BY <1>1, <3>2, <3>3, <4>1, SlotsKept DEF Contract!Abandon, Contract!Moves
        <4>3. QED
          BY <4>2 DEF Simulated, Contract!Next
      <3>5. CASE mine
        <4>1. \E d \in Decision : SlotOf[d] = j /\ SlotOf' = [SlotOf EXCEPT ![d] = "free"]
          BY <1>1, <2>1, <2>2, <2>5, <3>5, SlotFreed
        <4>2. Contract!Abandon(j)
          BY <3>2, <3>3, <4>1 DEF Contract!Abandon, Contract!Moves
        <4>3. QED
          BY <4>2 DEF Simulated, Contract!Next
      <3>6. QED
        BY <3>4, <3>5
    <2>6. CASE o # "unstarted"
      <3>1. LifeOf'[j] = LifeOf[j]
        <4>1. o = "unknown" => RowLife(FinalStatus[o]) = RowLife("running")
          BY DEF FinalStatus, Outcome, RowLife, Waiting, Refused
        <4>2. o \in {"ok", "ok_lost", "err", "err_lost"} => starts[j] > 0
          BY <1>1 DEF RefinementInv, RunInv, TaskProgress, TypeOK
        <4>3. o \in {"unknown", "ok", "ok_lost", "err", "err_lost"}
          BY <1>1, <2>6 DEF Outcome
        <4>4. QED
          BY <1>1, <2>4, <4>1, <4>2, <4>3, LifeKept
      <3>2. LifeOf' = LifeOf
        BY <2>3, <3>1, LivesKept
      <3>3. CASE ~mine \/ o = "unknown"
        <4>1. disk'.grants = disk.grants
          BY <1>1, <2>1, <2>2, <3>3 DEF Store
        <4>2. QED
          BY <1>1, <3>2, <4>1, SlotsKept DEF Simulated
      <3>4. CASE mine /\ o \in {"ok", "ok_lost"}
        <4>1. starts[j] > 0 /\ effect[j] = "ok"
          BY <1>1, <3>4 DEF RefinementInv, RunInv, TaskProgress, TypeOK
        <4>2. LifeOf[j] = "succeeded"
          BY <4>1, LifeValue DEF Ran
        <4>3. disk'.grants = [disk.grants EXCEPT ![t] = NoGrant]
          BY <2>1, <2>2, <3>4
        <4>4. \E d \in Decision : SlotOf[d] = j /\ SlotOf' = [SlotOf EXCEPT ![d] = "gone"]
          BY <1>1, <2>1, <3>4, <4>3, SlotUsed
        <4>5. Contract!UseUp(j)
          BY <3>2, <4>2, <4>4 DEF Contract!UseUp
        <4>6. QED
          BY <4>5 DEF Simulated, Contract!Next
      <3>5. CASE mine /\ o \in {"err", "err_lost"}
        <4>1. starts[j] > 0 /\ effect[j] = "err"
          BY <1>1, <3>5 DEF RefinementInv, RunInv, TaskProgress, TypeOK
        <4>2. LifeOf[j] = "failed"
          BY <4>1, LifeValue DEF Ran
        <4>3. \E d \in Decision : SlotOf[d] = j /\ SlotOf' = [SlotOf EXCEPT ![d] = "free"]
          BY <1>1, <2>1, <2>2, <3>5, SlotFreed
        <4>4. Contract!GiveBack(j)
          BY <3>2, <4>2, <4>3 DEF Contract!GiveBack
        <4>5. QED
          BY <4>4 DEF Simulated, Contract!Next
      <3>6. QED
        BY <1>1, <2>6, <3>3, <3>4, <3>5 DEF Outcome
    <2>7. QED
      BY <2>5, <2>6
  <1>4. QED
    BY <1>1, <1>2, <1>3, FinishStep

\* The slots of decisions in force and of those not taken yet.
LEMMA SlotsNow ==
  ASSUME RefinementInv
  PROVE  /\ SlotOf = [d \in Decision |-> SlotOf[d]]
         /\ \A d \in Decision : d > serial => SlotOf[d] = "none"
         /\ \A t \in Tool : disk.grants[t] # NoGrant =>
              /\ disk.grants[t].serial \in Decision
              /\ SlotOf[disk.grants[t].serial] # "none"
  <1>1. PICK s : s = disk.grants
    OBVIOUS
  <1>2. s \in Slots /\ Numbered(s, serial) /\ serial \in Nat /\ serial <= MaxSerial
    BY <1>1, NumberedNow DEF RefinementInv, RunInv, TypeOK, SerialsIssued
  <1>3. PICK f : f = SlotOf
    OBVIOUS
  <1>4. SlotsAre(f, s, serial)
    <2>1. SlotsAre(SlotFrom(s, serial), s, serial)
      BY <1>2, SlotValue
    <2>2. f = SlotFrom(s, serial)
      BY <1>1, <1>3, SlotMap
    <2>3. QED
      BY <2>1, <2>2
  <1>5. ASSUME NEW t \in Tool, s[t] # NoGrant
        PROVE  s[t].serial \in Decision /\ f[s[t].serial] # "none"
    <2>1. s[t].serial \in Decision
      BY <1>2, <1>5, Bounds DEF Numbered, Decision
    <2>2. f[s[t].serial] = Held(s[t])
      BY <1>4, <1>5, <2>1 DEF SlotsAre
    <2>3. s[t].reservation \in Job \cup {NoJob}
      BY <1>2, <1>5 DEF Slots, Grant
    <2>4. Held(s[t]) # "none"
      BY <2>3, SlotMarks DEF Held
    <2>5. QED
      BY <2>1, <2>2, <2>4
  <1>6. f = [d \in Decision |-> f[d]]
    BY <1>3 DEF SlotOf
  <1>7. \A d \in Decision : d > serial => f[d] = "none"
    BY <1>4 DEF SlotsAre
  <1>8. QED
    BY <1>1, <1>3, <1>5, <1>6, <1>7

\* The owner's decision: what it replaces is gone, and what it grants is free, or
\* gone if it could not be saved.
LEMMA DecisionSimulated ==
  ASSUME RefinementInv, NEW revoked \in SUBSET Decision, NEW made \in SUBSET Decision,
         \A d \in revoked : SlotOf[d] # "none",
         \A d \in made : SlotOf[d] = "none",
         NEW result \in {"free", "gone"}, LifeOf' = LifeOf,
         SlotOf' = [d \in Decision |-> IF d \in revoked THEN "gone"
                                       ELSE IF d \in made THEN result ELSE SlotOf[d]]
  PROVE  Simulated
  <1>1. /\ revoked \in SUBSET {d \in Decision : SlotOf[d] # "none"}
        /\ made \in SUBSET {d \in Decision : SlotOf[d] = "none"}
    OBVIOUS
  <1>2. Contract!Decide
    BY <1>1, Zenon DEF Contract!Decide
  <1>3. QED
    BY <1>2 DEF Simulated, Contract!Next

\* grant::commit fills the next slot and gives up the one it replaces.
LEMMA CommitSimulated ==
  ASSUME RefinementInv, NEW t \in Tool, NEW p \in Permission, Update(Committed(mem, t, p)),
         serial < MaxSerial, serial' = serial + 1, UNCHANGED truth
  PROVE  Simulated
  <1>1. PICK g : g = [perm |-> p, reservation |-> NoJob, serial |-> serial + 1]
    OBVIOUS
  <1>2. /\ TypeOK /\ mem \in Store /\ serial \in Nat /\ g \in Grant /\ g # NoGrant
        /\ g.serial = serial + 1 /\ g.reservation = NoJob /\ serial + 1 \in Nat
        /\ serial + 1 <= MaxSerial /\ serial + 1 \in Decision
    BY <1>1, Sentinels, Bounds DEF RefinementInv, RunInv, TypeOK, Grant, Decision
  <1>3. /\ up /\ ~writeError /\ mem.grants = disk.grants
        /\ disk' \in {disk, Committed(mem, t, p)}
    BY Zenon DEF Update, Saved, SaveFailed, RefinementInv, RunInv, MemoryIsDisk
  <1>4. Committed(mem, t, p).jobs = mem.jobs /\ Committed(mem, t, p).grants = [mem.grants EXCEPT ![t] = g]
    BY <1>1, <1>2 DEF Committed, Store
  <1>5. LifeOf' = LifeOf
    BY <1>4, QuietSimulated
  <1>6. PICK h, s, f : h = disk'.grants /\ s = disk.grants /\ f = SlotOf
    OBVIOUS
  <1>7. /\ s \in Slots /\ Numbered(s, serial) /\ f = SlotFrom(s, serial)
        /\ SlotOf' = SlotFrom(h, serial + 1)
    BY <1>6, NumberedNow, SlotMap, SlotMapNext
  <1>8. /\ f = [d \in Decision |-> f[d]] /\ f[serial + 1] = "none"
        /\ s[t] # NoGrant => s[t].serial \in Decision /\ f[s[t].serial] # "none"
    BY <1>2, <1>6, SlotsNow
  <1>9. CASE disk' = disk
    <2>1. h = s
      BY <1>6, <1>9
    <2>2. \A d \in Decision : SlotFrom(s, serial + 1)[d] = IF d = serial + 1 THEN "gone" ELSE f[d]
      BY <1>2, <1>7, SlotLost
    <2>3. PICK f2 : f2 = SlotFrom(s, serial + 1)
      OBVIOUS
    <2>4. Shaped(f2)
      BY <2>3, SlotShape, Zenon
    <2>5. \A d \in Decision : f2[d] = IF d = serial + 1 THEN "gone" ELSE f[d]
      BY <2>2, <2>3
    <2>6. f2 = [d \in Decision |-> IF d \in {} THEN "gone"
                                   ELSE IF d \in {serial + 1} THEN "gone" ELSE f[d]]
      BY <2>4, <2>5 DEF Shaped
    <2>7. SlotOf' = [d \in Decision |-> IF d \in {} THEN "gone"
                                        ELSE IF d \in {serial + 1} THEN "gone" ELSE SlotOf[d]]
      BY <1>6, <1>7, <2>1, <2>3, <2>6
    <2>8. SlotOf[serial + 1] = "none"
      BY <1>6, <1>8
    <2>9. /\ {} \in SUBSET Decision /\ {serial + 1} \in SUBSET Decision
          /\ \A d \in {} : SlotOf[d] # "none"
          /\ \A d \in {serial + 1} : SlotOf[d] = "none"
          /\ "gone" \in {"free", "gone"}
      BY <1>2, <2>8
    <2>10. QED
      BY <1>5, <2>7, <2>9, DecisionSimulated, Zenon
  <1>10. CASE disk' = Committed(mem, t, p)
    <2> DEFINE old == IF s[t] = NoGrant THEN {} ELSE {s[t].serial}
    <2>1. h \in Slots /\ h[t] = g /\ \A u \in Tool \ {t} : h[u] = s[u]
      <3>1. h = [s EXCEPT ![t] = g]
        BY <1>3, <1>4, <1>6, <1>10
      <3>2. QED
        BY <1>2, <1>7, <3>1 DEF Slots
    <2>2. SlotFrom(h, serial + 1) =
            [d \in Decision |-> IF s[t] # NoGrant /\ d = s[t].serial THEN "gone"
                                ELSE IF d = serial + 1 /\ g # NoGrant THEN "free"
                                ELSE SlotFrom(s, serial)[d]]
      <3>1. g \in Grant \cup {NoGrant}
        BY <1>2
      <3>2. QED
        BY <1>2, <1>7, <2>1, <3>1, SlotDecided
    <2>3. SlotOf' = [d \in Decision |-> IF d \in old THEN "gone"
                                        ELSE IF d \in {serial + 1} THEN "free" ELSE SlotOf[d]]
      <3>1. \A d \in Decision : (IF s[t] # NoGrant /\ d = s[t].serial THEN "gone"
                                 ELSE IF d = serial + 1 /\ g # NoGrant THEN "free" ELSE f[d])
                              = (IF d \in old THEN "gone"
                                 ELSE IF d \in {serial + 1} THEN "free" ELSE f[d])
        BY <1>2
      <3>2. SlotOf' = [d \in Decision |-> IF s[t] # NoGrant /\ d = s[t].serial THEN "gone"
                                ELSE IF d = serial + 1 /\ g # NoGrant THEN "free"
                                ELSE f[d]]
        BY <1>7, <2>2
      <3> HIDE DEF old
      <3>3. SlotOf' = [d \in Decision |-> IF d \in old THEN "gone"
                                          ELSE IF d \in {serial + 1} THEN "free" ELSE f[d]]
        BY <3>1, <3>2
      <3>4. QED
        BY <1>6, <3>3
    <2>4. /\ old \in SUBSET Decision /\ {serial + 1} \in SUBSET Decision
          /\ \A d \in old : f[d] # "none"
          /\ \A d \in {serial + 1} : f[d] = "none"
          /\ "free" \in {"free", "gone"}
      BY <1>2, <1>8
    <2> HIDE DEF old
    <2>5. /\ \A d \in old : SlotOf[d] # "none"
          /\ \A d \in {serial + 1} : SlotOf[d] = "none"
      BY <1>6, <2>4
    <2>6. QED
      BY <1>5, <2>3, <2>4, <2>5, DecisionSimulated, Zenon
  <1>11. QED
    BY <1>3, <1>9, <1>10

\* Removing a grant gives its slot up.
LEMMA RemoveSimulated ==
  ASSUME RefinementInv, NEW t \in Tool, Remove(t)
  PROVE  Simulated
  <1>1. PICK n : /\ Update(n)
                 /\ n = [mem EXCEPT !.grants[t] = NoGrant,
                                    !.requests = {r \in mem.requests : r.tool # t},
                                    !.decided[t] = issued]
    BY DEF Remove
  <1>2. /\ mem \in Store /\ serial \in Nat /\ serial <= MaxSerial /\ mem.grants[t] # NoGrant
        /\ UNCHANGED truth /\ serial' = serial
    BY DEF RefinementInv, RunInv, TypeOK, SerialsIssued, Remove, counters
  <1>3. n.jobs = mem.jobs /\ n.grants = [mem.grants EXCEPT ![t] = NoGrant]
    BY <1>1, <1>2 DEF Store
  <1>4. LifeOf' = LifeOf
    BY <1>1, <1>2, <1>3, QuietSimulated
  <1>5. up /\ ~writeError /\ mem.grants = disk.grants /\ disk' \in {disk, n}
    BY <1>1, Zenon DEF Update, Saved, SaveFailed, RefinementInv, RunInv, MemoryIsDisk
  <1>6. CASE disk' = disk
    BY <1>2, <1>4, <1>6, SlotsKept DEF Simulated
  <1>7. CASE disk' = n
    <2>1. PICK h, s, f : h = disk'.grants /\ s = disk.grants /\ f = SlotOf
      OBVIOUS
    <2>2. /\ s \in Slots /\ Numbered(s, serial) /\ f = SlotFrom(s, serial)
          /\ SlotOf' = SlotFrom(h, serial) /\ s[t] # NoGrant
      BY <1>2, <1>5, <2>1, NumberedNow, SlotMap, SlotMapNext
    <2>3. PICK d \in Decision : d = s[t].serial /\ f[d] # "none"
      BY <2>1, <2>2, SlotsNow
    <2>4. h \in Slots /\ h[t] = NoGrant /\ \A u \in Tool \ {t} : h[u] = s[u]
      <3>1. h = [s EXCEPT ![t] = NoGrant]
        BY <1>3, <1>5, <1>7, <2>1
      <3>2. QED
        BY <2>2, <3>1 DEF Slots
    <2>5. SlotFrom(h, serial) =
            [e \in Decision |-> IF s[t] # NoGrant /\ e = s[t].serial THEN "gone"
                                ELSE IF e = serial + 1 /\ NoGrant # NoGrant THEN "free"
                                ELSE SlotFrom(s, serial)[e]]
      <3>1. NoGrant \in Grant \cup {NoGrant}
        OBVIOUS
      <3>2. QED
        BY <1>2, <2>2, <2>4, <3>1, SlotDecided
    <2>6. SlotFrom(h, serial) = [e \in Decision |-> IF e \in {d} THEN "gone"
                                                    ELSE IF e \in {} THEN "gone" ELSE f[e]]
      BY <2>2, <2>3, <2>5
    <2>7. SlotOf' = [e \in Decision |-> IF e \in {d} THEN "gone"
                                        ELSE IF e \in {} THEN "gone" ELSE SlotOf[e]]
      BY <2>1, <2>2, <2>6
    <2>8. SlotOf[d] # "none"
      BY <2>1, <2>3
    <2>9. /\ {} \in SUBSET Decision /\ {d} \in SUBSET Decision
          /\ \A e \in {d} : SlotOf[e] # "none"
          /\ \A e \in {} : SlotOf[e] = "none"
          /\ "gone" \in {"free", "gone"}
      BY <2>8
    <2>10. QED
      BY <1>4, <2>7, <2>9, DecisionSimulated, Zenon
  <1>8. QED
    BY <1>5, <1>6, <1>7

\* Every step of the runner is a step of the single-use contract or a stutter.
LEMMA StepSimulated ==
  ASSUME RefinementInv, [Next]_vars
  PROVE  Simulated
  <1>1. mem \in Store /\ TypeOK
    BY DEF RefinementInv, RunInv, TypeOK
  <1>2. ASSUME NEW j \in Job, NEW st \in Waiting, mem.jobs[j] \in Waiting, UNCHANGED truth,
               serial' = serial, Update([mem EXCEPT !.jobs[j] = st])
        PROVE  Simulated
    <2>1. PICK n : n = [mem EXCEPT !.jobs[j] = st]
      OBVIOUS
    <2>2. n.grants = mem.grants /\ n.jobs = [mem.jobs EXCEPT ![j] = st] /\ n.jobs[j] = st
      BY <1>1, <2>1 DEF Store
    <2>3. n.jobs = [mem.jobs EXCEPT ![j] = n.jobs[j]]
      BY <2>2
    <2>4. QED
      BY <1>2, <2>1, <2>2, <2>3, RowSimulated
  <1>3. ASSUME NEW j \in Job, Enqueue(j) \/ AwaitCapacity(j)
        PROVE  Simulated
    <2>1. /\ mem.jobs[j] \in Waiting /\ UNCHANGED truth /\ serial' = serial
          /\ \E st \in Waiting : Update([mem EXCEPT !.jobs[j] = st])
      BY <1>3 DEF Enqueue, AwaitCapacity, Waiting, counters
    <2>2. QED
      BY <1>2, <2>1
  <1>4. ASSUME NEW j \in Job, Deny(j)
        PROVE  Simulated
    <2>1. PICK v : Update(Denied(mem, j, v))
      BY <1>4 DEF Deny
    <2>2. PICK n : n = Denied(mem, j, v)
      OBVIOUS
    <2>3. /\ n.grants = mem.grants /\ n.jobs = [mem.jobs EXCEPT ![j] = "denied"]
          /\ n.jobs[j] = "denied"
      BY <1>1, <2>2 DEF Denied, Store
    <2>4. n.jobs = [mem.jobs EXCEPT ![j] = n.jobs[j]] /\ n.jobs[j] \in Refused
      BY <2>3 DEF Refused
    <2>5. mem.jobs[j] \in Waiting /\ UNCHANGED truth /\ serial' = serial
      BY <1>4 DEF Deny, Submittable, Waiting
    <2>6. QED
      BY <2>1, <2>2, <2>3, <2>4, <2>5, RowSimulated
  <1>5. ASSUME NEW b, NEW t, Ask(b, t)
        PROVE  Simulated
    <2>1. PICK n : n = [mem EXCEPT !.requests = Upsert(mem, b, t)]
      OBVIOUS
    <2>2. n.grants = mem.grants /\ n.jobs = mem.jobs
      BY <1>1, <2>1 DEF Store
    <2>3. Update(n) /\ UNCHANGED truth /\ serial' = serial
      BY <1>5, <2>1 DEF Ask
    <2>4. QED
      BY <2>2, <2>3, AsideSimulated
  <1>6. ASSUME NEW id, Dismiss(id)
        PROVE  Simulated
    <2>1. PICK n : n = [mem EXCEPT !.requests = {r \in mem.requests : r.id # id}]
      OBVIOUS
    <2>2. n.grants = mem.grants /\ n.jobs = mem.jobs
      BY <1>1, <2>1 DEF Store
    <2>3. Update(n) /\ UNCHANGED truth /\ serial' = serial
      BY <1>6, <2>1 DEF Dismiss, counters
    <2>4. QED
      BY <2>2, <2>3, AsideSimulated
  <1>7. ASSUME NEW t \in Tool, NEW p \in Permission, Add(t, p)
        PROVE  Simulated
    BY <1>7, CommitSimulated DEF Add
  <1>8. ASSUME NEW id, NEW p \in Permission, Allow(id, p)
        PROVE  Simulated
    <2>1. PICK r \in mem.requests : /\ Update(Committed(mem, r.tool, p))
                                    /\ serial < MaxSerial /\ serial' = serial + 1
                                    /\ UNCHANGED truth
      BY <1>8 DEF Allow
    <2>2. r.tool \in Tool
      BY <1>1 DEF Store, Request
    <2>3. QED
      BY <2>1, <2>2, CommitSimulated
  <1>9. ASSUME NEW j \in Job, Release(j)
        PROVE  Simulated
    <2>1. LifeOf' = LifeOf /\ SlotOf' = SlotOf
      BY <1>9, LifeMap, LifeMapNext, SlotMap, SlotMapNext DEF Release, storeVars, truth, counters
    <2>2. QED
      BY <2>1 DEF Simulated
  <1>10. CASE UNCHANGED vars
    <2>1. LifeOf' = LifeOf /\ SlotOf' = SlotOf
      BY <1>10, LifeMap, LifeMapNext, SlotMap, SlotMapNext DEF vars
    <2>2. QED
      BY <2>1 DEF Simulated
  <1>11. QED
    BY <1>3, <1>4, <1>5, <1>6, <1>7, <1>8, <1>9, <1>10, AdmitSimulated, StartSimulated,
       ExitSimulated, FinishSimulated, RemoveSimulated, CrashSimulated, RestartSimulated
    DEF Next, Submit, Task, Owner

\* What is saved and what the commands did follow the single-use contract, with
\* crashes, failed saves and owners who decide at any time:
\* a single-use decision is taken by one run at a time, comes back only when that
\* run is known to have failed, and never comes back once it is gone.
THEOREM RunnerIsSingleUse == Spec => ImplementsSingleUse
  <1>1. Init => Contract!Init
    <2> SUFFICES ASSUME Init PROVE Contract!Init
      OBVIOUS
    <2>1. LifeOf = [j \in Job |-> "new"]
      <3>1. \A j \in Job : starts[j] = 0 /\ RowLife(disk.jobs[j]) = "new"
        BY DEF Init, EmptyStore, RowLife, Waiting, Refused
      <3>2. \A j \in Job : LifeOf[j] = "new"
        BY <3>1, LifeValue
      <3>3. LifeOf = [j \in Job |-> LifeOf[j]]
        BY LifeMap DEF LifeFrom
      <3>4. QED
        BY <3>2, <3>3
    <2>2. SlotOf = [d \in Decision |-> "none"]
      BY Bounds DEF Init, SlotOf, Decision
    <2>3. QED
      BY <2>1, <2>2 DEF Contract!Init
  <1>2. RefinementInv /\ [Next]_vars => Simulated
    BY StepSimulated
  <1>3. QED
    BY <1>1, <1>2, RefinementInvariant, PTL DEF Spec, ImplementsSingleUse, Contract!Spec, Simulated

=============================================================================
