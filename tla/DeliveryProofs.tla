--------------------------- MODULE DeliveryProofs ---------------------------
(***************************************************************************)
(* Proofs about Delivery. The runner keeps its promises in the presence of *)
(* origins, retries and a network, because every step of the composition   *)
(* is a step of Runner or leaves the runner alone.                         *)
(***************************************************************************)
EXTENDS DeliveryProperties, RunnerProofs

\* What a request makes the runner do is a submission, or nothing.
LEMMA HandledIsRunner ==
  ASSUME NEW j \in Job, NEW reply, Handled(j, reply)
  PROVE  [Next]_vars
  BY DEF Handled, Next, Submit

LEMMA StepIsRunner == [DeliveryNext]_allVars => [Next]_vars
  <1> SUFFICES ASSUME [DeliveryNext]_allVars
               PROVE  [Next]_vars
    OBVIOUS
  <1>1. ASSUME NEW j \in Job, Order(j) \/ Attempt(j) \/ Unreachable(j) \/ AnswerQuery(j)
        PROVE  UNCHANGED vars
    BY <1>1 DEF Order, Attempt, Dispatch, SendExec, Learn, Defer, GiveUp,
                Unreachable, AnswerQuery
  <1>2. ASSUME NEW j \in Job, HandleExec(j) \/ HandleStray(j)
        PROVE  [Next]_vars
    BY <1>2, HandledIsRunner DEF HandleExec, HandleStray
  <1>3. ASSUME RunnerAlone
        PROVE  Next
    BY <1>3 DEF RunnerAlone, Next
  <1>4. ASSUME RunnerCrash \/ RunnerRestart
        PROVE  Next
    BY <1>4 DEF RunnerCrash, RunnerRestart, Next
  <1>5. ASSUME OriginCrash \/ OriginRestart
        PROVE  UNCHANGED vars
    BY <1>5 DEF OriginCrash, OriginRestart
  <1>6. CASE UNCHANGED allVars
    BY <1>6 DEF allVars
  <1>7. QED
    BY <1>1, <1>2, <1>3, <1>4, <1>5, <1>6 DEF DeliveryNext, Serve

\* The composition implements Runner.
THEOREM DeliveryIsRunner == DeliverySpec => RunnerSpec
  <1>1. DeliveryInit => Init
    BY DEF DeliveryInit
  <1>2. QED
    BY <1>1, StepIsRunner, PTL DEF DeliverySpec, RunnerSpec, Spec

\* However often an invocation is sent, its command is started at most once.
THEOREM RemoteRunOnce == DeliverySpec => []RunsAtMostOnce
  BY DeliveryIsRunner, RunOnce, PTL DEF RunnerSpec

-----------------------------------------------------------------------------
(* Types of the origin, its calls and the wire *)

RowsTypeOK ==
  /\ known \in [Job -> Row] /\ saved \in [Job -> Row]
  /\ stuck \in BOOLEAN /\ slips \in Nat

CallsTypeOK ==
  /\ call \in [Job -> {"idle", "query", "exec"}]
  /\ answer \in [Job -> Reply \cup {"none"}]

WireTypeOK == live \in [Job -> BOOLEAN] /\ stray \in [Job -> Nat]

OriginTypeOK ==
  /\ RowsTypeOK /\ CallsTypeOK /\ WireTypeOK
  /\ originUp \in BOOLEAN /\ serving \in BOOLEAN /\ losses \in Nat

LEMMA StatusesAreRows == Status \subseteq Row /\ "undelivered" \in Row
                         /\ Ended \subseteq Row /\ Pending \subseteq Row
  BY DEF Status, Row, Ended, Pending, Terminal, Refused, Accepted,
         Waiting

LEMMA RecordTyped ==
  ASSUME RowsTypeOK, NEW j \in Job, NEW status \in Row, Record(j, status)
  PROVE  RowsTypeOK'
<1>1. [known EXCEPT ![j] = status] \in [Job -> Row]
  BY DEF RowsTypeOK
<1> DEFINE next == [known EXCEPT ![j] = status]
<1>2. /\ known' \in {known, next} /\ saved' \in {saved, next}
      /\ slips' \in {slips, slips + 1}
  BY DEF Record, rows
<1> HIDE DEF next
<1>3. stuck' \in BOOLEAN
  BY DEF RowsTypeOK, Record, rows
<1>4. known' \in [Job -> Row] /\ saved' \in [Job -> Row] /\ slips' \in Nat
  BY <1>1, <1>2 DEF RowsTypeOK, next
<1>5. QED
  BY <1>3, <1>4 DEF RowsTypeOK

LEMMA HangUpTyped ==
  ASSUME CallsTypeOK, NEW j \in Job, HangUp(j)
  PROVE  CallsTypeOK'
  BY DEF CallsTypeOK, HangUp

LEMMA OriginStep ==
  ASSUME TypeOK, TypeOK', OriginTypeOK, [DeliveryNext]_allVars
  PROVE  OriginTypeOK'
<1> USE DEF OriginTypeOK
<1>1. ASSUME UNCHANGED rows PROVE RowsTypeOK'
  BY <1>1 DEF RowsTypeOK, rows
<1>2. ASSUME UNCHANGED calls PROVE CallsTypeOK'
  BY <1>2 DEF CallsTypeOK, calls
<1>3. ASSUME UNCHANGED wire PROVE WireTypeOK'
  BY <1>3 DEF WireTypeOK, wire
<1>4. ASSUME NEW j \in Job, Order(j) PROVE OriginTypeOK'
  <2>1. RowsTypeOK'
    BY <1>4, RecordTyped, StatusesAreRows DEF Order, Pending
  <2>2. QED
    BY <1>2, <1>3, <1>4, <2>1 DEF Order
<1>5. ASSUME NEW j \in Job, Dispatch(j) \/ SendExec(j) PROVE OriginTypeOK'
  BY <1>1, <1>3, <1>5 DEF Dispatch, SendExec, CallsTypeOK, WireTypeOK, wire
<1>6. ASSUME NEW j \in Job, Learn(j) PROVE OriginTypeOK'
  <2>1. RowsTypeOK'
    <3>1. known[j] \in Row /\ answer[j] \in Status
      BY <1>6 DEF RowsTypeOK, Learn
    <3>2. QED
      BY <1>6, <3>1, RecordTyped, StatusesAreRows DEF Learn
  <2>2. QED
    BY <1>3, <1>6, <2>1, HangUpTyped DEF Learn
<1>7. ASSUME NEW j \in Job, Defer(j) PROVE OriginTypeOK'
  <2>1. RowsTypeOK'
    BY <1>1, <1>7, RecordTyped, StatusesAreRows DEF Defer, Pending
  <2>2. QED
    BY <1>3, <1>7, <2>1, HangUpTyped DEF Defer
<1>8. ASSUME NEW j \in Job, GiveUp(j) PROVE OriginTypeOK'
  <2>1. RowsTypeOK'
    BY <1>1, <1>8, RecordTyped, StatusesAreRows DEF GiveUp
  <2>2. QED
    BY <1>3, <1>8, <2>1, HangUpTyped DEF GiveUp
<1>9. ASSUME NEW j \in Job, Unreachable(j) PROVE OriginTypeOK'
  <2>1. RowsTypeOK'
    BY <1>1, <1>9, RecordTyped, StatusesAreRows DEF Unreachable, Pending
  <2>2. CallsTypeOK'
    BY <1>9, HangUpTyped DEF Unreachable
  <2>3. WireTypeOK'
    BY <1>9 DEF Unreachable, WireTypeOK
  <2>4. losses' \in Nat
    BY <1>9 DEF Unreachable
  <2>5. QED
    BY <1>9, <2>1, <2>2, <2>3, <2>4 DEF Unreachable
<1>10. ASSUME NEW j \in Job, AnswerQuery(j) PROVE OriginTypeOK'
  <2>1. mem.jobs[j] \in Status
    BY DEF TypeOK, Store
  <2>2. CallsTypeOK'
    BY <1>10, <2>1 DEF AnswerQuery, Respond, CallsTypeOK, Reply
  <2>3. QED
    BY <1>1, <1>3, <1>10, <2>2 DEF AnswerQuery
<1>11. ASSUME NEW j \in Job, HandleExec(j) PROVE OriginTypeOK'
  <2>1. CallsTypeOK'
    BY <1>11 DEF HandleExec, Respond, CallsTypeOK
  <2>2. QED
    BY <1>1, <1>11, <2>1 DEF HandleExec, WireTypeOK
<1>12. ASSUME NEW j \in Job, HandleStray(j) PROVE OriginTypeOK'
  BY <1>1, <1>2, <1>12 DEF HandleStray, WireTypeOK
<1>13. CASE RunnerAlone
  BY <1>1, <1>2, <1>3, <1>13 DEF RunnerAlone, originVars
<1>14. CASE RunnerCrash
  BY <1>1, <1>2, <1>14 DEF RunnerCrash, WireTypeOK
<1>15. CASE RunnerRestart
  <2>1. serving' \in BOOLEAN
    BY <1>15 DEF RunnerRestart, TypeOK
  <2>2. QED
    BY <1>1, <1>2, <1>3, <1>15, <2>1 DEF RunnerRestart
<1>16. CASE OriginCrash
  <2>1. RowsTypeOK'
    BY <1>16 DEF OriginCrash, RowsTypeOK
  <2>2. CallsTypeOK' /\ WireTypeOK'
    BY <1>16, LossBounds DEF OriginCrash, CallsTypeOK, WireTypeOK
  <2>3. QED
    BY <1>16, <2>1, <2>2 DEF OriginCrash
<1>17. CASE OriginRestart
  BY <1>2, <1>3, <1>17 DEF OriginRestart, RowsTypeOK
<1>18. CASE UNCHANGED allVars
  BY <1>1, <1>2, <1>3, <1>18 DEF allVars, originVars
<1>19. QED
  BY <1>4, <1>5, <1>6, <1>7, <1>8, <1>9, <1>10, <1>11, <1>12, <1>13, <1>14, <1>15, <1>16,
     <1>17, <1>18 DEF DeliveryNext, Attempt, Serve

\* Every reachable state of both machines, the calls and the wire is well typed:
\* an answer is a status or a refusal, never a row the runner could not have.
THEOREM DeliveryTypeCorrect == DeliverySpec => []DeliveryTypeOK
<1>1. DeliverySpec => []TypeOK
  BY DeliveryIsRunner, TypeCorrect, PTL DEF RunnerSpec
<1>2. DeliveryInit => OriginTypeOK
  <2> SUFFICES ASSUME DeliveryInit PROVE OriginTypeOK
    OBVIOUS
  <2>1. RowsTypeOK
    BY DEF DeliveryInit, RowsTypeOK, Row
  <2>2. CallsTypeOK /\ WireTypeOK
    BY DEF DeliveryInit, CallsTypeOK, WireTypeOK
  <2>3. QED
    BY <2>1, <2>2 DEF DeliveryInit, OriginTypeOK
<1>3. TypeOK /\ OriginTypeOK => DeliveryTypeOK
  BY DEF OriginTypeOK, RowsTypeOK, CallsTypeOK, WireTypeOK, DeliveryTypeOK
<1>4. TypeOK /\ TypeOK' /\ OriginTypeOK /\ [DeliveryNext]_allVars => OriginTypeOK'
  BY OriginStep
<1>5. QED
  BY <1>1, <1>2, <1>3, <1>4, PTL DEF DeliverySpec

-----------------------------------------------------------------------------
(* What the runner's rows may do *)

\* An accepted job stays accepted.
LEMMA AcceptedStays ==
  ASSUME RunInv, [Next]_vars, NEW j \in Job, disk.jobs[j] \in Accepted
  PROVE  disk'.jobs[j] \in Accepted
  <1>1. TypeOK /\ mem \in Store /\ disk \in Store
    BY DEF RunInv, TypeOK
  <1>2. up /\ ~writeError => mem.jobs[j] \in Accepted
    BY DEF RunInv, MemoryIsDisk, Accepted
  <1>3. ASSUME NEW n, Edited(n)
        PROVE  disk'.jobs[j] \in Accepted
    <2>1. up /\ ~writeError /\ disk' \in {disk, n}
      BY <1>3, Zenon DEF Edited, Update, Saved, SaveFailed
    <2>2. n.jobs[j] = mem.jobs[j]
      BY <1>2, <1>3, <2>1 DEF Edited, Accepted, Waiting
    <2>3. QED
      BY <1>2, <2>1, <2>2
  <1>4. ASSUME NEW i \in Job, Finish(i)
        PROVE  disk'.jobs[j] \in Accepted
    <2> DEFINE n == Settled(mem, i, task[i])
    <2>1. n.jobs = [mem.jobs EXCEPT ![i] = FinalStatus[task[i]]]
      BY <1>1 DEF Settled, Store
    <2>2. up /\ disk' \in {disk, n} /\ (writeError => disk' = disk)
      BY <1>1, <1>4, FinishStep
    <2>3. FinalStatus[task[i]] \in Accepted
      BY <1>4 DEF Finish, Outcome, FinalStatus, Accepted
    <2> HIDE DEF n
    <2>4. n.jobs[j] \in {mem.jobs[j], FinalStatus[task[i]]}
      BY <1>1, <2>1 DEF Store
    <2>5. QED
      BY <1>2, <2>2, <2>3, <2>4
  <1>5. CASE Restart
    <2>1. disk' \in {disk, Recovered(disk)}
      BY <1>5, Zenon DEF Restart
    <2>2. Recovered(disk).jobs = [i \in Job |-> IF disk.jobs[i] = "running" THEN "uncertain"
                                               ELSE disk.jobs[i]]
      BY <1>1, RecoveredParts, Zenon
    <2>3. QED
      BY <2>1, <2>2 DEF Accepted
  <1>6. QED
    BY <1>1, <1>3, <1>4, <1>5, StoreStep

\* A status that the saved state bears out stays borne out.
LEMMA BorneStays ==
  ASSUME RunInv, OutcomesSaved, [Next]_vars, NEW j \in Job, NEW status, Borne(j, status)
  PROVE  Borne(j, status)'
  BY OutcomeStep, AcceptedStays DEF Borne

\* The jobs whose row an edit changes.
LEMMA OthersEdited ==
  ASSUME TypeOK, NEW i \in Job, NEW j \in Job \ {i}, Enqueue(i) \/ Submit(i)
  PROVE  up /\ ~writeError /\ disk'.jobs[j] \in {disk.jobs[j], mem.jobs[j]}
  <1>1. mem \in Store
    BY DEF TypeOK
  <1>2. PICK n : Update(n) /\ n.jobs[j] = mem.jobs[j]
    <2>1. CASE Enqueue(i)
      <3>1. [mem EXCEPT !.jobs[i] = "queued"].jobs[j] = mem.jobs[j]
        BY <1>1 DEF Store
      <3>2. QED
        BY <2>1, <3>1 DEF Enqueue
    <2>2. CASE AwaitCapacity(i)
      <3>1. [mem EXCEPT !.jobs[i] = "waiting_capacity"].jobs[j] = mem.jobs[j]
        BY <1>1 DEF Store
      <3>2. QED
        BY <2>2, <3>1 DEF AwaitCapacity
    <2>3. CASE Admit(i)
      <3>1. Admitted(mem, i).jobs[j] = mem.jobs[j]
        BY <1>1 DEF Store, Admitted
      <3>2. Update(Admitted(mem, i))
        BY <2>3 DEF Admit, Update
      <3>3. QED
        BY <3>1, <3>2
    <2>4. CASE Deny(i)
      <3>1. \A v : Denied(mem, i, v).jobs[j] = mem.jobs[j]
        BY <1>1 DEF Store, Denied
      <3>2. \E v : Update(Denied(mem, i, v))
        BY <2>4 DEF Deny
      <3>3. QED
        BY <3>1, <3>2
    <2>5. QED
      BY <2>1, <2>2, <2>3, <2>4 DEF Submit
  <1>3. up /\ ~writeError /\ disk' \in {disk, n}
    BY <1>2, Zenon DEF Update, Saved, SaveFailed
  <1>4. QED
    BY <1>2, <1>3

\* Only a submission or an order of this machine makes a new row.
LEMMA AbsentStays ==
  ASSUME RunInv, NEW j \in Job, disk.jobs[j] = "absent",
         \/ \E i \in Job \ {j} : Enqueue(i) \/ Submit(i)
         \/ \E i \in Job : Task(i)
         \/ \E b \in Body, t \in Tool : Ask(b, t)
         \/ Owner \/ Crash \/ Restart \/ UNCHANGED vars
  PROVE  disk'.jobs[j] = "absent"
  <1>1. TypeOK /\ mem \in Store /\ disk \in Store
    BY DEF RunInv, TypeOK
  <1>2. up /\ ~writeError => mem.jobs[j] = "absent"
    BY DEF RunInv, MemoryIsDisk
  <1>3. ASSUME NEW i \in Job \ {j}, Enqueue(i) \/ Submit(i)
        PROVE  disk'.jobs[j] = "absent"
    BY <1>1, <1>2, <1>3, OthersEdited
  <1>4. ASSUME NEW i \in Job, Task(i)
        PROVE  disk'.jobs[j] = "absent"
    <2>1. CASE Finish(i)
      <3> DEFINE n == Settled(mem, i, task[i])
      <3>1. n.jobs = [mem.jobs EXCEPT ![i] = FinalStatus[task[i]]]
        BY <1>1 DEF Settled, Store
      <3>2. up /\ disk' \in {disk, n} /\ (writeError => disk' = disk)
        BY <1>1, <2>1, FinishStep
      <3>3. j # i
        BY <2>1 DEF Finish, RunInv, TaskAccepted, Active
      <3> HIDE DEF n
      <3>4. n.jobs[j] = mem.jobs[j]
        BY <1>1, <3>1, <3>3 DEF Store
      <3>5. QED
        BY <1>2, <3>2, <3>4
    <2>2. CASE ~Finish(i)
      BY <1>4, <2>2 DEF Task, Start, Exit, Release, storeVars
    <2>3. QED
      BY <2>1, <2>2
  <1>5. ASSUME NEW n, Update(n), n.jobs = mem.jobs
        PROVE  disk'.jobs[j] = "absent"
    <2>1. up /\ ~writeError /\ disk' \in {disk, n}
      BY <1>5, Zenon DEF Update, Saved, SaveFailed
    <2>2. QED
      BY <1>2, <1>5, <2>1
  <1>6. ASSUME NEW b \in Body, NEW t \in Tool, Ask(b, t)
        PROVE  disk'.jobs[j] = "absent"
    <2>1. [mem EXCEPT !.requests = Upsert(mem, b, t)].jobs = mem.jobs
      BY <1>1 DEF Store
    <2>2. QED
      BY <1>5, <1>6, <2>1 DEF Ask
  <1>7. ASSUME Owner
        PROVE  disk'.jobs[j] = "absent"
    <2>1. \A t, p : Committed(mem, t, p).jobs = mem.jobs
      BY <1>1 DEF Store, Committed
    <2>2. ASSUME NEW t, NEW p, Update(Committed(mem, t, p))
          PROVE  disk'.jobs[j] = "absent"
      BY <1>5, <2>1, <2>2
    <2>3. ASSUME NEW id, Dismiss(id)
          PROVE  disk'.jobs[j] = "absent"
      <3>1. \A q : [mem EXCEPT !.requests = q].jobs = mem.jobs
        BY <1>1 DEF Store
      <3>2. QED
        BY <1>5, <2>3, <3>1 DEF Dismiss
    <2>4. ASSUME NEW t, Remove(t)
          PROVE  disk'.jobs[j] = "absent"
      <3> DEFINE n == [mem EXCEPT !.grants[t] = NoGrant,
                                  !.requests = {r \in mem.requests : r.tool # t},
                                  !.decided[t] = issued]
      <3>1. n.jobs = mem.jobs
        BY <1>1 DEF Store
      <3>2. Update(n)
        BY <2>4 DEF Remove
      <3>3. QED
        BY <1>5, <3>1, <3>2
    <2>5. \A t, p : Add(t, p) => Update(Committed(mem, t, p))
      BY DEF Add
    <2>6. \A id, p : Allow(id, p) => \E t : Update(Committed(mem, t, p))
      BY DEF Allow
    <2>7. QED
      BY <1>7, <2>2, <2>3, <2>4, <2>5, <2>6 DEF Owner
  <1>8. CASE Crash \/ UNCHANGED vars
    BY <1>8 DEF Crash, storeVars, vars
  <1>9. CASE Restart
    <2>1. disk' \in {disk, Recovered(disk)}
      BY <1>9, Zenon DEF Restart
    <2>2. Recovered(disk).jobs = [i \in Job |-> IF disk.jobs[i] = "running" THEN "uncertain"
                                               ELSE disk.jobs[i]]
      BY <1>1, RecoveredParts, Zenon
    <2>3. QED
      BY <2>1, <2>2
  <1>10. QED
    BY <1>3, <1>4, <1>6, <1>7, <1>8, <1>9

-----------------------------------------------------------------------------
(* What the origin's rows may do *)

\* A status the origin may write for a job: one the runner's saved state bears
\* out, and never another one for a job that ended.
Told(j, status) ==
  /\ status \in Row \ {"absent"}
  /\ Borne(j, status)
  /\ known[j] \in Ended => status = known[j]

\* The rows stay, take a status that is borne out, or are read back from disk.
RowsMove ==
  \/ known' = known /\ saved' = saved /\ stuck' = stuck
  \/ \E j \in Job : \E status : Told(j, status) /\ Record(j, status) /\ UNCHANGED disk
  \/ known' = saved /\ saved' = saved /\ UNCHANGED disk

\* Every step leaves the rows, writes a true status to one, or reads them back.
LEMMA RowsStep ==
  ASSUME OriginTypeOK, AnswersTrue, OriginTruthful, [DeliveryNext]_allVars
  PROVE  RowsMove
  <1>1. ASSUME NEW j \in Job, NEW status, Told(j, status), Record(j, status), UNCHANGED vars
        PROVE  RowsMove
    BY <1>1, Zenon DEF RowsMove, vars
  <1>2. ASSUME UNCHANGED rows
        PROVE  RowsMove
    BY <1>2 DEF RowsMove, rows
  <1>3. ASSUME NEW j \in Job, NEW status \in {"queued", "waiting_capacity", "waiting_body", "undelivered"},
               known[j] \notin Ended
        PROVE  Told(j, status)
    BY <1>3, StatusesAreRows DEF Told, Borne, Row, Pending, Ended, Terminal
  <1>4. ASSUME NEW j \in Job, Order(j)
        PROVE  RowsMove
    <2>1. known[j] = "absent" /\ Record(j, "queued") /\ UNCHANGED vars
      BY <1>4 DEF Order
    <2>2. known[j] \notin Ended
      BY <2>1 DEF Ended, Terminal
    <2>3. QED
      BY <1>1, <1>3, <2>1, <2>2
  <1>5. ASSUME NEW j \in Job, Learn(j)
        PROVE  RowsMove
    <2> DEFINE status == IF known[j] \in Ended THEN known[j] ELSE answer[j]
    <2>1. Record(j, status) /\ UNCHANGED vars /\ answer[j] \in Status \ {"absent"}
      BY <1>5 DEF Learn
    <2>2. Borne(j, answer[j]) /\ Borne(j, known[j])
      BY DEF AnswersTrue, OriginTruthful, Borne
    <2>3. status \in Row \ {"absent"}
      BY <2>1, StatusesAreRows DEF Ended, Terminal
    <2>4. Told(j, status)
      BY <2>2, <2>3 DEF Told
    <2>5. QED
      BY <1>1, <2>1, <2>4
  <1>6. ASSUME NEW j \in Job, Defer(j) \/ GiveUp(j) \/ Unreachable(j)
        PROVE  RowsMove
    <2>1. /\ UNCHANGED vars
          /\ \/ UNCHANGED rows
             \/ /\ known[j] \notin Ended
                /\ \E status \in {"waiting_capacity", "waiting_body", "undelivered"} : Record(j, status)
      BY <1>6 DEF Defer, GiveUp, Unreachable
    <2>2. QED
      BY <1>1, <1>2, <1>3, <2>1
  <1>7. CASE OriginRestart
    BY <1>7 DEF OriginRestart, RowsMove, vars
  <1>8. CASE OriginCrash
    BY <1>8 DEF OriginCrash, RowsMove
  <1>9. CASE RunnerAlone \/ RunnerCrash \/ RunnerRestart \/ UNCHANGED allVars
    BY <1>2, <1>9 DEF RunnerAlone, RunnerCrash, RunnerRestart, originVars, allVars
  <1>10. ASSUME NEW j \in Job, Dispatch(j) \/ SendExec(j) \/ Serve(j) \/ HandleStray(j)
         PROVE  RowsMove
    BY <1>2, <1>10 DEF Dispatch, SendExec, Serve, AnswerQuery, HandleExec, HandleStray
  <1>11. QED
    BY <1>4, <1>5, <1>6, <1>7, <1>8, <1>9, <1>10 DEF DeliveryNext, Attempt

\* What a written status does to each row.
LEMMA RecordStep ==
  ASSUME RowsTypeOK, RowsInStep, NEW j \in Job, NEW status, Told(j, status), Record(j, status)
  PROVE  /\ RowsInStep'
         /\ \A i \in Job : known'[i] \in {known[i], IF i = j THEN status ELSE known[i]}
         /\ \A i \in Job : saved'[i] \in {saved[i], IF i = j THEN status ELSE saved[i]}
         /\ saved[j] \in Ended => saved'[j] = saved[j]
  <1>1. PICK next : next = [known EXCEPT ![j] = status]
    OBVIOUS
  <1>2. next[j] = status /\ \A i \in Job \ {j} : next[i] = known[i]
    BY <1>1 DEF RowsTypeOK
  <1>3. \/ known' = known /\ saved' = saved /\ stuck' = stuck
        \/ ~stuck /\ known' = next /\ saved' = next
        \/ ~stuck /\ known' = known /\ saved' \in {saved, next} /\ stuck' = TRUE
    BY <1>1, Zenon DEF Record, rows
  <1>4. ~stuck => known = saved
    BY DEF RowsInStep
  <1>5. \A i \in Job : /\ known[i] # "absent" => saved[i] # "absent"
                       /\ known[i] \in Ended => saved[i] = known[i]
    BY DEF RowsInStep
  <1>6. status # "absent" /\ (known[j] \in Ended => status = known[j])
    BY DEF Told
  <1>7. \A i \in Job : /\ known'[i] # "absent" => saved'[i] # "absent"
                       /\ known'[i] \in Ended => saved'[i] = known'[i]
    <2> SUFFICES ASSUME NEW i \in Job
                 PROVE  /\ known'[i] # "absent" => saved'[i] # "absent"
                        /\ known'[i] \in Ended => saved'[i] = known'[i]
      OBVIOUS
    <2>1. CASE i = j
      BY <1>2, <1>3, <1>4, <1>5, <1>6, <2>1
    <2>2. CASE i # j
      BY <1>2, <1>3, <1>4, <1>5, <2>2
    <2>3. QED
      BY <2>1, <2>2
  <1>8. ~stuck' => known' = saved'
    BY <1>3, <1>4
  <1>9. RowsInStep'
    BY <1>7, <1>8 DEF RowsInStep
  <1>10. QED
    BY <1>2, <1>3, <1>4, <1>5, <1>6, <1>9

\* No row of the origin is lost, no end is overwritten, and each written status
\* is borne out.
LEMMA RowsKept ==
  ASSUME RowsTypeOK, RowsInStep, RowsMove
  PROVE  /\ RowsInStep'
         /\ \A i \in Job :
              /\ saved[i] # "absent" => saved'[i] # "absent"
              /\ saved[i] \in Ended => saved'[i] = saved[i]
              /\ known[i] \in Ended => known'[i] = known[i]
              /\ \A s \in {known'[i], saved'[i]} :
                   s \in {known[i], saved[i]} \/ (Borne(i, s) /\ disk' = disk)
  <1>1. CASE known' = known /\ saved' = saved /\ stuck' = stuck
    BY <1>1 DEF RowsInStep
  <1>2. ASSUME NEW j \in Job, NEW status, Told(j, status), Record(j, status), UNCHANGED disk
        PROVE  /\ RowsInStep'
               /\ \A i \in Job :
                    /\ saved[i] # "absent" => saved'[i] # "absent"
                    /\ saved[i] \in Ended => saved'[i] = saved[i]
                    /\ known[i] \in Ended => known'[i] = known[i]
                    /\ \A s \in {known'[i], saved'[i]} :
                         s \in {known[i], saved[i]} \/ (Borne(i, s) /\ disk' = disk)
    <2>1. /\ RowsInStep'
          /\ \A i \in Job : known'[i] \in {known[i], IF i = j THEN status ELSE known[i]}
          /\ \A i \in Job : saved'[i] \in {saved[i], IF i = j THEN status ELSE saved[i]}
          /\ saved[j] \in Ended => saved'[j] = saved[j]
      BY <1>2, RecordStep
    <2>2. status # "absent" /\ Borne(j, status) /\ (known[j] \in Ended => status = known[j])
      BY <1>2 DEF Told
    <2>3. QED
      BY <1>2, <2>1, <2>2
  <1>3. CASE known' = saved /\ saved' = saved /\ UNCHANGED disk
    BY <1>3 DEF RowsInStep
  <1>4. QED
    BY <1>1, <1>2, <1>3 DEF RowsMove

-----------------------------------------------------------------------------
(* Calls and answers *)

\* No call starts, and no request goes on the wire, without a saved order.
LEMMA CallsStep ==
  ASSUME OriginTypeOK, RowsInStep, CallsOrdered, [DeliveryNext]_allVars,
         NEW j \in Job, call'[j] # "idle" \/ live'[j] \/ stray'[j] > 0
  PROVE  saved[j] # "absent"
  <1>1. call[j] # "idle" \/ live[j] \/ stray[j] > 0 => saved[j] # "absent"
    BY DEF CallsOrdered
  <1>2. known[j] \in Pending => saved[j] # "absent"
    BY DEF RowsInStep, Pending
  <1>3. /\ call \in [Job -> {"idle", "query", "exec"}] /\ live \in [Job -> BOOLEAN]
        /\ stray \in [Job -> Nat]
    BY DEF OriginTypeOK, CallsTypeOK, WireTypeOK
  <1>4. ASSUME call'[j] \in {call[j], "idle"}, UNCHANGED wire
        PROVE  saved[j] # "absent"
    BY <1>1, <1>4 DEF wire
  <1>5. ASSUME NEW i \in Job, Dispatch(i)
        PROVE  saved[j] # "absent"
    BY <1>1, <1>2, <1>3, <1>5 DEF Dispatch, wire
  <1>6. ASSUME NEW i \in Job, SendExec(i)
        PROVE  saved[j] # "absent"
    BY <1>1, <1>3, <1>6 DEF SendExec
  <1>7. ASSUME NEW i \in Job, Learn(i) \/ Defer(i) \/ GiveUp(i)
        PROVE  saved[j] # "absent"
    <2>1. call' = [call EXCEPT ![i] = "idle"] /\ UNCHANGED wire
      BY <1>7 DEF Learn, Defer, GiveUp, HangUp
    <2>2. QED
      BY <1>3, <1>4, <2>1
  <1>8. ASSUME NEW i \in Job, Unreachable(i)
        PROVE  saved[j] # "absent"
    <2>1. /\ call' = [call EXCEPT ![i] = "idle"] /\ live' = [live EXCEPT ![i] = FALSE]
          /\ stray' = stray \/ (live[i] /\ stray' = [stray EXCEPT ![i] = @ + 1])
      BY <1>8 DEF Unreachable, HangUp
    <2>2. QED
      BY <1>1, <1>3, <2>1
  <1>9. ASSUME NEW i \in Job, HandleExec(i)
        PROVE  saved[j] # "absent"
    BY <1>1, <1>3, <1>9 DEF HandleExec
  <1>10. ASSUME NEW i \in Job, HandleStray(i)
         PROVE  saved[j] # "absent"
    BY <1>1, <1>3, <1>10 DEF HandleStray, calls
  <1>11. ASSUME NEW i \in Job, Order(i) \/ AnswerQuery(i)
         PROVE  saved[j] # "absent"
    BY <1>1, <1>11 DEF Order, AnswerQuery, calls, wire
  <1>12. CASE RunnerCrash
    BY <1>1, <1>12 DEF RunnerCrash, calls
  <1>13. CASE OriginCrash
    BY <1>1, <1>3, <1>13 DEF OriginCrash
  <1>14. CASE RunnerAlone \/ RunnerRestart \/ OriginRestart \/ UNCHANGED allVars
    BY <1>1, <1>14 DEF RunnerAlone, RunnerRestart, OriginRestart, originVars, allVars, calls, wire
  <1>15. QED
    BY <1>5, <1>6, <1>7, <1>8, <1>9, <1>10, <1>11, <1>12, <1>13, <1>14
    DEF DeliveryNext, Attempt, Serve

\* What the runner answers is saved when it says so.
LEMMA HandledTruly ==
  ASSUME MemoryIsDisk, MemoryIsDisk', up, NEW j \in Job, NEW reply, Handled(j, reply)
  PROVE  Borne(j, reply)'
  <1>1. CASE reply \in {"error", "capacity"}
    BY <1>1 DEF Borne, Terminal
  <1>2. CASE ~writeError /\ reply = mem.jobs[j] /\ UNCHANGED vars
    BY <1>2 DEF MemoryIsDisk, Borne, Accepted, vars
  <1>3. CASE (Admit(j) \/ Deny(j)) /\ ~writeError' /\ reply = mem'.jobs[j]
    <2>1. up'
      BY <1>3 DEF Admit, Deny
    <2>2. mem' = disk'
      BY <1>3, <2>1 DEF MemoryIsDisk
    <2>3. QED
      BY <1>3, <2>2 DEF Borne, Accepted
  <1>4. QED
    BY <1>1, <1>2, <1>3 DEF Handled

\* Answers stay true: a new one is read from what is saved, and the saved state
\* never takes back what an old one said.
LEMMA AnswersStep ==
  ASSUME RunInv, OutcomesSaved, OriginTypeOK, MemoryIsDisk, MemoryIsDisk', AnswersTrue,
         [DeliveryNext]_allVars
  PROVE  AnswersTrue'
  <1> SUFFICES ASSUME NEW j \in Job
               PROVE  Borne(j, answer[j])'
    BY DEF AnswersTrue
  <1>1. Borne(j, answer[j])
    BY DEF AnswersTrue
  <1>2. answer \in [Job -> Reply \cup {"none"}]
    BY DEF OriginTypeOK, CallsTypeOK
  <1>3. [Next]_vars
    BY StepIsRunner
  <1>4. ASSUME answer'[j] = answer[j]
        PROVE  Borne(j, answer[j])'
    <2>1. PICK a : a = answer[j]
      OBVIOUS
    <2>2. Borne(j, a)'
      BY <1>1, <1>3, <2>1, BorneStays
    <2>3. QED
      BY <1>4, <2>1, <2>2 DEF Borne
  <1>5. ASSUME answer'[j] = "none"
        PROVE  Borne(j, answer[j])'
    BY <1>5 DEF Borne, Terminal
  <1>6. ASSUME UNCHANGED calls
        PROVE  Borne(j, answer[j])'
    BY <1>4, <1>6 DEF calls
  <1>7. ASSUME NEW i \in Job, Dispatch(i)
        PROVE  Borne(j, answer[j])'
    BY <1>2, <1>4, <1>7 DEF Dispatch
  <1>8. ASSUME NEW i \in Job, SendExec(i)
        PROVE  Borne(j, answer[j])'
    BY <1>2, <1>4, <1>5, <1>8 DEF SendExec
  <1>9. ASSUME NEW i \in Job, Learn(i) \/ Defer(i) \/ GiveUp(i) \/ Unreachable(i)
         PROVE  Borne(j, answer[j])'
    <2>1. HangUp(i)
      BY <1>9 DEF Learn, Defer, GiveUp, Unreachable
    <2>2. QED
      BY <1>2, <1>4, <1>5, <2>1 DEF HangUp
  <1>10. ASSUME NEW i \in Job, AnswerQuery(i)
         PROVE  Borne(j, answer[j])'
    <2>1. /\ up /\ disk' = disk
          /\ answer' = [answer EXCEPT ![i] = IF writeError THEN "error" ELSE mem.jobs[i]]
      BY <1>10 DEF AnswerQuery, Respond, vars
    <2>2. CASE i = j
      <3>1. answer'[j] = IF writeError THEN "error" ELSE mem.jobs[j]
        BY <1>2, <2>1, <2>2
      <3>2. ~writeError => mem = disk
        BY <2>1 DEF MemoryIsDisk
      <3>3. QED
        BY <2>1, <2>2, <3>1, <3>2 DEF Borne, Terminal, Accepted
    <2>3. CASE i # j
      BY <1>2, <1>4, <2>1, <2>3
    <2>4. QED
      BY <2>2, <2>3
  <1>11. ASSUME NEW i \in Job, HandleExec(i)
         PROVE  Borne(j, answer[j])'
    <2>1. PICK reply \in Reply : Handled(i, reply) /\ Respond(i, reply)
      BY <1>11 DEF HandleExec
    <2>2. up /\ answer' = [answer EXCEPT ![i] = reply]
      BY <1>11, <2>1 DEF HandleExec, Respond
    <2>3. CASE i = j
      <3>1. Borne(j, reply)' /\ answer'[j] = reply
        BY <1>2, <2>1, <2>2, <2>3, HandledTruly
      <3>2. QED
        BY <3>1 DEF Borne
    <2>4. CASE i # j
      BY <1>2, <1>4, <2>2, <2>4
    <2>5. QED
      BY <2>3, <2>4
  <1>12. CASE OriginCrash
    BY <1>2, <1>5, <1>12 DEF OriginCrash
  <1>13. QED
    BY <1>6, <1>7, <1>8, <1>9, <1>10, <1>11, <1>12
    DEF DeliveryNext, Attempt, Serve, Order, HandleStray, RunnerAlone, RunnerCrash,
        RunnerRestart, OriginRestart, originVars, allVars

-----------------------------------------------------------------------------
(* The invariant of the two machines *)

\* What the origin shows and asks for, given what the runner has saved.
OriginInv ==
  /\ OriginTypeOK /\ RowsInStep /\ CallsOrdered /\ AnswersTrue
  /\ OriginTruthful /\ OrderedBeforeStart

\* A row of the runner comes from a request, and a request from a saved order.
LEMMA OrderedStep ==
  ASSUME RunInv, RunInv', OriginInv, [DeliveryNext]_allVars,
         \A i \in Job : saved[i] # "absent" => saved'[i] # "absent"
  PROVE  OrderedBeforeStart'
  <1> SUFFICES ASSUME NEW j \in Job, Caller[j] = Origin, disk'.jobs[j] # "absent" \/ starts'[j] > 0
               PROVE  saved[j] # "absent"
    BY DEF OrderedBeforeStart
  <1>1. disk'.jobs[j] # "absent"
    BY DEF RunInv, TaskAccepted, Accepted
  <1>2. CASE disk.jobs[j] # "absent"
    BY <1>2 DEF OriginInv, OrderedBeforeStart
  <1>3. ASSUME disk.jobs[j] = "absent"
        PROVE  \E i \in Job : HandleExec(i) \/ HandleStray(i)
    <2>1. ASSUME NEW i \in Job, Enqueue(i) \/ (Caller[i] # Origin /\ Submit(i))
          PROVE  i \in Job \ {j}
      BY <2>1, OriginIsPeer DEF Enqueue
    <2>2. ~RunnerAlone
      BY <1>1, <1>3, <2>1, AbsentStays DEF OriginInv, RunnerAlone
    <2>3. ~RunnerCrash /\ ~RunnerRestart
      BY <1>1, <1>3, AbsentStays DEF RunnerCrash, RunnerRestart
    <2>4. ~UNCHANGED vars
      BY <1>1, <1>3, AbsentStays
    <2>5. \A i \in Job : ~Order(i) /\ ~Attempt(i) /\ ~Unreachable(i) /\ ~AnswerQuery(i)
      BY <2>4 DEF Order, Attempt, Dispatch, SendExec, Learn, Defer, GiveUp, Unreachable, AnswerQuery
    <2>6. ~OriginCrash /\ ~OriginRestart /\ ~UNCHANGED allVars
      BY <2>4 DEF OriginCrash, OriginRestart, allVars
    <2>7. QED
      BY <2>2, <2>3, <2>5, <2>6 DEF DeliveryNext, Serve
  <1>4. CASE disk.jobs[j] = "absent"
    <2>1. PICK i \in Job : HandleExec(i) \/ HandleStray(i)
      BY <1>3, <1>4
    <2>2. live[i] \/ stray[i] > 0
      BY <2>1 DEF HandleExec, HandleStray
    <2>3. \E reply \in Reply : Handled(i, reply)
      BY <2>1 DEF HandleExec, HandleStray
    <2>4. ~UNCHANGED vars
      BY <1>1, <1>4, AbsentStays
    <2>5. Submit(i)
      BY <2>3, <2>4 DEF Handled, Submit
    <2>6. i = j
      BY <1>1, <1>4, <2>5, AbsentStays
    <2>7. QED
      BY <2>2, <2>6 DEF OriginInv, CallsOrdered
  <1>5. QED
    BY <1>2, <1>4

\* Every step of the two machines keeps the invariant.
LEMMA OriginInductive ==
  ASSUME RunInv, RunInv', OutcomesSaved, OriginInv, [DeliveryNext]_allVars
  PROVE  OriginInv'
  <1>1. [Next]_vars /\ TypeOK /\ TypeOK'
    BY StepIsRunner DEF RunInv
  <1>2. OriginTypeOK'
    BY <1>1, OriginStep DEF OriginInv
  <1>3. MemoryIsDisk /\ MemoryIsDisk'
    BY DEF RunInv
  <1>4. /\ RowsInStep'
        /\ \A i \in Job :
             /\ saved[i] # "absent" => saved'[i] # "absent"
             /\ \A s \in {known'[i], saved'[i]} :
                  s \in {known[i], saved[i]} \/ (Borne(i, s) /\ disk' = disk)
    BY RowsStep, RowsKept DEF OriginInv, OriginTypeOK
  <1>5. AnswersTrue'
    BY <1>3, AnswersStep DEF OriginInv
  <1>6. CallsOrdered'
    BY <1>4, CallsStep DEF OriginInv, CallsOrdered
  <1>7. OrderedBeforeStart'
    BY <1>4, OrderedStep
  <1>8. OriginTruthful'
    <2> SUFFICES ASSUME NEW j \in Job, NEW s \in {known'[j], saved'[j]}
                 PROVE  Borne(j, s)'
      BY DEF OriginTruthful, Borne
    <2>1. CASE s \in {known[j], saved[j]}
      <3>1. Borne(j, s)
        BY <2>1 DEF OriginInv, OriginTruthful, Borne
      <3>2. QED
        BY <1>1, <3>1, BorneStays
    <2>2. CASE Borne(j, s) /\ disk' = disk
      BY <2>2 DEF Borne
    <2>3. QED
      BY <1>4, <2>1, <2>2
  <1>9. QED
    BY <1>2, <1>3, <1>4, <1>5, <1>6, <1>7, <1>8 DEF OriginInv

\* Every state of the two machines satisfies it, next to what holds of the runner.
LEMMA OriginInvariant == DeliverySpec => [](RunInv /\ OutcomesSaved /\ OriginInv)
  <1>1. DeliverySpec => [](RunInv /\ OutcomesSaved)
    BY DeliveryIsRunner, RunInvariant, SavedInvariant, PTL DEF RunnerSpec
  <1>2. DeliverySpec => []DeliveryTypeOK
    BY DeliveryTypeCorrect
  <1>3. DeliveryInit /\ DeliveryTypeOK => OriginInv
    <2> SUFFICES ASSUME DeliveryInit, DeliveryTypeOK
                 PROVE  OriginInv
      OBVIOUS
    <2>1. OriginTypeOK
      BY DEF DeliveryTypeOK, OriginTypeOK, RowsTypeOK, CallsTypeOK, WireTypeOK
    <2>2. RowsInStep
      BY DEF DeliveryInit, RowsInStep, Ended, Terminal
    <2>3. CallsOrdered /\ AnswersTrue
      BY DEF DeliveryInit, CallsOrdered, AnswersTrue, Borne, Terminal
    <2>4. OriginTruthful /\ OrderedBeforeStart
      BY DEF DeliveryInit, Init, EmptyStore, OriginTruthful, OrderedBeforeStart, Terminal
    <2>5. QED
      BY <2>1, <2>2, <2>3, <2>4 DEF OriginInv
  <1>4. QED
    BY <1>1, <1>2, <1>3, OriginInductive, PTL DEF DeliverySpec

\* Whatever is lost, late or repeated, and whoever crashes, the origin shows an
\* outcome only if the runner's state.json has it, and running only if the
\* runner has accepted the job.
THEOREM OriginShowsTruth == DeliverySpec => []OriginTruthful
  BY OriginInvariant, PTL DEF OriginInv

\* A run of the origin's was ordered durably before the runner heard of it.
THEOREM OrderComesFirst == DeliverySpec => []OrderedBeforeStart
  BY OriginInvariant, PTL DEF OriginInv

\* No late answer, retry, failed save or crash replaces an end the origin has.
THEOREM EndsStay == DeliverySpec => EndsFinal
  <1> DEFINE Stays == \A j \in Job :
               /\ saved[j] \in Ended => saved'[j] = saved[j]
               /\ known[j] \in Ended => known'[j] = known[j]
  <1>1. OriginInv /\ [DeliveryNext]_allVars => [Stays]_allVars
    <2> SUFFICES ASSUME OriginInv, [DeliveryNext]_allVars
                 PROVE  Stays
      OBVIOUS
    <2>1. RowsTypeOK /\ RowsInStep /\ RowsMove
      BY RowsStep DEF OriginInv, OriginTypeOK
    <2>2. QED
      BY <2>1, RowsKept
  <1>2. QED
    BY <1>1, OriginInvariant, PTL DEF DeliverySpec, EndsFinal

-----------------------------------------------------------------------------
(* Lost calls make no end *)

\* No origin has an end of its own, and no error is on its way to one.
NoOwnEnd ==
  \A j \in Job : known[j] # "undelivered" /\ saved[j] # "undelivered" /\ answer[j] # "error"

\* A row that takes another status is no end of the origin's own.
LEMMA RecordNoEnd ==
  ASSUME RowsTypeOK, NoOwnEnd, NEW j \in Job, NEW status, status # "undelivered",
         Record(j, status) \/ UNCHANGED rows
  PROVE  \A i \in Job : known'[i] # "undelivered" /\ saved'[i] # "undelivered"
  <1>1. PICK next : next = [known EXCEPT ![j] = status]
    OBVIOUS
  <1>2. \A i \in Job : next[i] # "undelivered"
    BY <1>1 DEF RowsTypeOK, NoOwnEnd
  <1>3. known' \in {known, next} /\ saved' \in {saved, next}
    BY <1>1, Zenon DEF Record, rows
  <1>4. QED
    BY <1>2, <1>3 DEF NoOwnEnd

\* A runner that can save answers a request with a row or with its capacity.
LEMMA HandledNoError ==
  ASSUME TypeOK, TypeOK', ~writeError, ~writeError', NEW j \in Job, NEW reply, Handled(j, reply)
  PROVE  reply # "error"
  <1>1. reply \in Status \cup {"capacity"}
    BY DEF Handled, TypeOK, Store
  <1>2. QED
    BY <1>1 DEF Status, Refused, Accepted, Waiting

\* While the runner's storage works, no step of the two machines or of the network
\* makes an error or an end of the origin's own.
LEMMA NoEndStep ==
  ASSUME TypeOK, TypeOK', OriginTypeOK, NoOwnEnd, ~writeError, ~writeError',
         [DeliveryNext]_allVars
  PROVE  NoOwnEnd'
  <1>1. RowsTypeOK /\ answer \in [Job -> Reply \cup {"none"}]
    BY DEF OriginTypeOK, CallsTypeOK
  <1>2. \A st \in Status : st \notin {"error", "undelivered"}
    BY DEF Status, Refused, Accepted, Waiting
  <1>3. ASSUME NEW j \in Job, NEW status, status # "undelivered",
               Record(j, status) \/ UNCHANGED rows, HangUp(j)
        PROVE  NoOwnEnd'
    <2>1. \A i \in Job : known'[i] # "undelivered" /\ saved'[i] # "undelivered"
      BY <1>1, <1>3, RecordNoEnd
    <2>2. \A i \in Job : answer'[i] # "error"
      BY <1>1, <1>3 DEF HangUp, NoOwnEnd
    <2>3. QED
      BY <2>1, <2>2 DEF NoOwnEnd
  <1>4. ASSUME NEW j \in Job, Order(j)
        PROVE  NoOwnEnd'
    <2>1. Record(j, "queued") /\ answer' = answer
      BY <1>4 DEF Order, calls
    <2>2. \A i \in Job : known'[i] # "undelivered" /\ saved'[i] # "undelivered"
      BY <1>1, <2>1, RecordNoEnd
    <2>3. QED
      BY <2>1, <2>2 DEF NoOwnEnd
  <1>5. ASSUME NEW j \in Job, Learn(j)
        PROVE  NoOwnEnd'
    <2>1. PICK status : status = IF known[j] \in Ended THEN known[j] ELSE answer[j]
      OBVIOUS
    <2>2. status # "undelivered"
      BY <1>2, <1>5, <2>1 DEF Learn, NoOwnEnd
    <2>3. QED
      BY <1>3, <1>5, <2>1, <2>2, Zenon DEF Learn
  <1>6. ASSUME NEW j \in Job, Defer(j) \/ Unreachable(j)
        PROVE  NoOwnEnd'
    <2>1. HangUp(j) /\ \E status \in {"waiting_capacity", "waiting_body"} :
                         Record(j, status) \/ UNCHANGED rows
      BY <1>6, Zenon DEF Defer, Unreachable
    <2>2. QED
      BY <1>3, <2>1
  <1>7. ASSUME NEW j \in Job
        PROVE  ~GiveUp(j)
    BY DEF GiveUp, NoOwnEnd
  <1>8. ASSUME NEW j \in Job, NEW reply \in {"none"} \cup Status \cup {"capacity"},
               UNCHANGED rows, answer' = [answer EXCEPT ![j] = reply]
        PROVE  NoOwnEnd'
    BY <1>1, <1>2, <1>8 DEF NoOwnEnd, rows
  <1>9. ASSUME UNCHANGED rows, \A j \in Job : answer'[j] \in {answer[j], "none"}
        PROVE  NoOwnEnd'
    BY <1>9 DEF NoOwnEnd, rows
  <1>10. ASSUME NEW j \in Job, Dispatch(j) \/ SendExec(j)
         PROVE  NoOwnEnd'
    BY <1>1, <1>9, <1>10 DEF Dispatch, SendExec
  <1>11. ASSUME NEW j \in Job, AnswerQuery(j)
         PROVE  NoOwnEnd'
    <2>1. mem.jobs[j] \in Status
      BY DEF TypeOK, Store
    <2>2. QED
      BY <1>8, <1>11, <2>1 DEF AnswerQuery, Respond
  <1>12. ASSUME NEW j \in Job, HandleExec(j)
         PROVE  NoOwnEnd'
    <2>1. PICK reply \in Reply : Handled(j, reply) /\ Respond(j, reply)
      BY <1>12 DEF HandleExec
    <2>2. reply # "error"
      BY <2>1, HandledNoError
    <2>3. QED
      BY <1>8, <1>12, <2>1, <2>2 DEF HandleExec, Respond, Reply
  <1>13. ASSUME NEW j \in Job, HandleStray(j)
         PROVE  NoOwnEnd'
    BY <1>9, <1>13 DEF HandleStray, calls
  <1>14. CASE OriginCrash \/ OriginRestart
    BY <1>14 DEF OriginCrash, OriginRestart, NoOwnEnd, calls
  <1>15. CASE RunnerAlone \/ RunnerCrash \/ RunnerRestart \/ UNCHANGED allVars
    BY <1>9, <1>15 DEF RunnerAlone, RunnerCrash, RunnerRestart, originVars, allVars, calls
  <1>16. QED
    BY <1>4, <1>5, <1>6, <1>7, <1>10, <1>11, <1>12, <1>13, <1>14, <1>15
    DEF DeliveryNext, Attempt, Serve

\* Timeouts, lost and late calls, restarts and failed saves of the origin end no
\* order while the runner's storage works.
THEOREM LossMakesNoEnd == DeliverySpec => LossIsNoEnd
  <1>1. DeliveryInit => NoOwnEnd
    BY DEF DeliveryInit, NoOwnEnd
  <1>2. /\ NoOwnEnd /\ ~writeError /\ ~writeError' /\ [DeliveryNext]_allVars
        /\ (RunInv /\ OriginInv) /\ (RunInv /\ OriginInv)'
        => NoOwnEnd'
    BY NoEndStep DEF RunInv, OriginInv
  <1>3. NoOwnEnd => \A j \in Job : known[j] # "undelivered" /\ saved[j] # "undelivered"
    BY DEF NoOwnEnd
  <1>4. QED
    BY <1>1, <1>2, <1>3, OriginInvariant, PTL DEF DeliverySpec, LossIsNoEnd

=============================================================================
