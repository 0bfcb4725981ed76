--------------------------- MODULE RequestProofs ---------------------------
(***************************************************************************)
(* Proofs about Requests, for any deliveries, tools and numbers of faults. *)
(* While saving works memory and disk agree; a request on the wire or in   *)
(* the inbox has been ordered; an answer "ok" or a removed row stands for  *)
(* a saved receipt. The dispatcher that sends them is shown to take the    *)
(* same steps, for any rows, peers and slots.                              *)
(***************************************************************************)
EXTENDS RequestDispatch, FiniteSetTheorems, TLAPS

\* A delivery ID that is on its way or has been handled.
Moving(a) ==
  \/ call[a] = "sent"
  \/ live[a]
  \/ stray[a] > 0
  \/ answer[a] # "none"
  \/ inbox.receipt[a] # NoRow
  \/ inboxSaved.receipt[a] # NoRow

\* The strengthening of the invariants: what is saved backs what is going on.
Backed ==
  /\ ~senderHalt => out = outSaved
  /\ ~boxHalt => inbox = inboxSaved
  /\ \A a \in Ask : Moving(a) \/ out[a] # "unsent" => outSaved[a] # "unsent"

RequestInv == RequestTypeOK /\ Backed /\ DeliveredMeansReceived

\* request::receive and the owner's decision give a well-typed inbox; receive
\* never forgets a receipt and leaves one.
LEMMA ReceivedFacts ==
  ASSUME inbox \in Inbox, issued \in Nat, NEW a \in Ask
  PROVE  /\ Received(a) \in Inbox
         /\ Received(a).receipt[a] # NoRow
         /\ \A b \in Ask : b # a => Received(a).receipt[b] = inbox.receipt[b]
         /\ \A t \in Tool : Received(a).row[t] # inbox.row[t] =>
              /\ t = ToolOf[a]
              /\ inbox.receipt[a] = NoRow
              /\ Received(a).receipt[a] = Received(a).row[t]
<1> DEFINE t0 == ToolOf[a]
           id == IF inbox.row[t0] # NoRow THEN inbox.row[t0] ELSE issued + 1
<1>1. t0 \in Tool /\ id \in Nat /\ id # NoRow
  BY RequestShape DEF Inbox, NoRow
<1>2. CASE inbox.receipt[a] # NoRow
  <2>1. Received(a) = inbox
    BY <1>2 DEF Received
  <2>2. QED
    BY <1>2, <2>1
<1>3. CASE inbox.receipt[a] = NoRow
  <2>1. Received(a) = [row     |-> [inbox.row EXCEPT ![t0] = id],
                       receipt |-> [inbox.receipt EXCEPT ![a] = id]]
    BY <1>3 DEF Received
  <2> HIDE DEF id, t0
  <2>2. /\ Received(a) \in Inbox
        /\ Received(a).row = [inbox.row EXCEPT ![t0] = id]
        /\ Received(a).receipt = [inbox.receipt EXCEPT ![a] = id]
    BY <1>1, <2>1 DEF Inbox
  <2>3. QED
    <3>1. /\ Received(a).receipt[a] = id
          /\ \A b \in Ask : b # a => Received(a).receipt[b] = inbox.receipt[b]
          /\ Received(a).row[t0] = id
          /\ \A t \in Tool : t # t0 => Received(a).row[t] = inbox.row[t]
      BY <1>1, <2>2 DEF Inbox
    <3>2. QED
      BY <1>1, <1>3, <2>2, <3>1 DEF t0
<1>4. QED
  BY <1>2, <1>3

\* What every way of handling a delivery does to the receiver's store.
LEMMA HandledFacts ==
  ASSUME RequestInv, NEW a \in Ask, NEW reply, Handled(a, reply)
  PROVE  /\ inbox' \in Inbox /\ inboxSaved' \in Inbox /\ boxHalt' \in BOOLEAN
         /\ issued' \in Nat /\ faults' \in Nat
         /\ ~boxHalt' => inbox' = inboxSaved'
         /\ reply = "ok" => inboxSaved'.receipt[a] # NoRow
         /\ \A b \in Ask : inboxSaved.receipt[b] # NoRow => inboxSaved'.receipt[b] # NoRow
         /\ \A b \in Ask : b # a =>
              /\ inbox'.receipt[b] # NoRow =>
                   inbox.receipt[b] # NoRow \/ inboxSaved.receipt[b] # NoRow
              /\ inboxSaved'.receipt[b] # NoRow =>
                   inbox.receipt[b] # NoRow \/ inboxSaved.receipt[b] # NoRow
<1> USE DEF RequestInv, RequestTypeOK
<1>1. CASE reply = "ok" /\ SavedIn(Received(a)) /\ issued' \in Nat
  <2>1. ~boxHalt /\ inbox = inboxSaved
    BY <1>1 DEF SavedIn, Backed
  <2>2. inbox' = Received(a) /\ inboxSaved' = Received(a) /\ UNCHANGED <<boxHalt, faults>>
    BY <1>1 DEF SavedIn
  <2>3. /\ Received(a) \in Inbox
        /\ Received(a).receipt[a] # NoRow
        /\ \A b \in Ask : b # a => Received(a).receipt[b] = inbox.receipt[b]
    BY ReceivedFacts
  <2>4. QED
    BY <1>1, <2>1, <2>2, <2>3
<1>2. CASE reply = "error" /\ SaveInFailed(Received(a)) /\ issued' \in Nat
  <2>1. inbox = inboxSaved
    BY <1>2 DEF SaveInFailed, Backed
  <2>2. /\ inbox' = inbox
        /\ inboxSaved' \in {inboxSaved, Received(a)}
        /\ faults' = faults + 1
    BY <1>2 DEF SaveInFailed
  <2>3. boxHalt' = TRUE
    BY <1>2 DEF SaveInFailed
  <2>4. /\ Received(a) \in Inbox
        /\ Received(a).receipt[a] # NoRow
        /\ \A b \in Ask : b # a => Received(a).receipt[b] = inbox.receipt[b]
    BY ReceivedFacts
  <2>5. /\ boxHalt' \in BOOLEAN
        /\ ~boxHalt' => inbox' = inboxSaved'
    BY <2>3, Zenon
  <2>6. QED
    BY <1>2, <2>1, <2>2, <2>4, <2>5
<1>3. CASE reply = "error" /\ boxHalt /\ UNCHANGED <<boxVars, faults>>
  BY <1>3 DEF boxVars, Backed
<1>4. QED
  BY <1>1, <1>2, <1>3 DEF Handled

\* What the sender's update does to its rows.
LEMMA SaveOutFacts ==
  ASSUME RequestInv, NEW a \in Ask, NEW row \in OutRow \ {"unsent"}, SaveOut(a, row)
  PROVE  /\ out' \in [Ask -> OutRow] /\ outSaved' \in [Ask -> OutRow]
         /\ senderHalt' \in BOOLEAN /\ faults' \in Nat
         /\ ~senderHalt' => out' = outSaved'
         /\ \A b \in Ask : outSaved[b] # "unsent" => outSaved'[b] # "unsent"
         /\ \A b \in Ask : out'[b] # "unsent" => outSaved'[b] # "unsent"
         /\ \A b \in Ask : "delivered" \in {out'[b], outSaved'[b]} =>
              "delivered" \in {out[b], outSaved[b]} \/ (b = a /\ row = "delivered")
<1> DEFINE next == [out EXCEPT ![a] = row]
<1>1. ~senderHalt /\ out = outSaved
  BY DEF SaveOut, RequestInv, Backed
<1>2. /\ next \in [Ask -> OutRow]
      /\ next[a] = row
      /\ \A b \in Ask : b # a => next[b] = out[b]
  BY DEF RequestInv, RequestTypeOK
<1>3. CASE out' = next /\ outSaved' = next /\ UNCHANGED <<senderHalt, faults>>
  BY <1>1, <1>2, <1>3 DEF RequestInv, RequestTypeOK, OutRow
<1>4. CASE /\ outSaved' \in {outSaved, next}
           /\ senderHalt' = TRUE
           /\ faults' = faults + 1
           /\ UNCHANGED out
  <2>1. out' \in [Ask -> OutRow] /\ outSaved' \in [Ask -> OutRow] /\ faults' \in Nat
    BY <1>2, <1>4 DEF RequestInv, RequestTypeOK
  <2>2. senderHalt' \in BOOLEAN /\ (~senderHalt' => out' = outSaved')
    BY <1>4, Zenon
  <2>3. QED
    BY <1>1, <1>2, <1>4, <2>1, <2>2
<1>5. QED
  BY <1>3, <1>4 DEF SaveOut

\* Every step keeps memory and disk in step with each other and with the wire.
LEMMA RequestInductive ==
  ASSUME RequestInv, [Next]_vars
  PROVE  RequestInv'
<1> USE DEF RequestInv
<1>0. CASE UNCHANGED vars
  BY <1>0 DEF vars, senderVars, wireVars, boxVars, RequestTypeOK, Backed, Moving,
              DeliveredMeansReceived
<1>1. ASSUME NEW a \in Ask, Ordered(a)
      PROVE  RequestInv'
  <2>1. SaveOut(a, "fresh") /\ UNCHANGED <<wireVars, boxVars>>
    BY <1>1 DEF Ordered
  <2>2. QED
    BY <2>1, SaveOutFacts DEF OutRow, wireVars, boxVars, RequestTypeOK, Backed, Moving,
                              DeliveredMeansReceived
<1>2. ASSUME NEW a \in Ask, Send(a)
      PROVE  RequestInv'
  BY <1>2 DEF Send, senderVars, boxVars, RequestTypeOK, Backed, Moving, Open,
              DeliveredMeansReceived
<1>3. ASSUME NEW a \in Ask, Answered(a)
      PROVE  RequestInv'
  <2>1. CASE senderHalt /\ UNCHANGED <<senderVars, faults>>
    BY <1>3, <2>1 DEF Answered, HangUp, senderVars, boxVars, RequestTypeOK, Backed,
                      Moving, DeliveredMeansReceived
  <2>2. CASE SaveOut(a, IF answer[a] = "ok" THEN "delivered" ELSE "failed")
    BY <1>3, <2>2, SaveOutFacts DEF Answered, HangUp, OutRow, boxVars, RequestTypeOK,
                      Backed, Moving, DeliveredMeansReceived
  <2>3. QED
    BY <1>3, <2>1, <2>2 DEF Answered
<1>4. ASSUME NEW a \in Ask, Unanswered(a)
      PROVE  RequestInv'
  <2>1. CASE UNCHANGED <<senderVars, faults>>
    BY <1>4, <2>1 DEF Unanswered, HangUp, senderVars, boxVars, RequestTypeOK, Backed,
                      Moving, DeliveredMeansReceived
  <2>2. CASE SaveOut(a, "waiting")
    BY <1>4, <2>2, SaveOutFacts DEF Unanswered, HangUp, OutRow, boxVars, RequestTypeOK,
                      Backed, Moving, DeliveredMeansReceived
  <2>3. QED
    BY <1>4, <2>1, <2>2 DEF Unanswered
<1>5. ASSUME NEW a \in Ask, Lose(a)
      PROVE  RequestInv'
  BY <1>5 DEF Lose, senderVars, boxVars, RequestTypeOK, Backed, Moving,
              DeliveredMeansReceived
<1>6. ASSUME NEW a \in Ask, Handle(a)
      PROVE  RequestInv'
  <2>1. PICK reply \in {"ok", "error"} :
          Handled(a, reply) /\ answer' = [answer EXCEPT ![a] = reply]
    BY <1>6 DEF Handle
  <2>2. outSaved[a] # "unsent"
    BY <1>6 DEF Handle, Backed, Moving
  <2>3. QED
    BY <1>6, <2>1, <2>2, HandledFacts DEF Handle, senderVars, RequestTypeOK, Backed,
                      Moving, DeliveredMeansReceived
<1>7. ASSUME NEW a \in Ask, HandleStray(a)
      PROVE  RequestInv'
  <2>1. PICK reply \in {"ok", "error"} : Handled(a, reply)
    BY <1>7 DEF HandleStray
  <2>2. outSaved[a] # "unsent"
    BY <1>7 DEF HandleStray, Backed, Moving
  <2>3. QED
    BY <1>7, <2>1, <2>2, HandledFacts DEF HandleStray, senderVars, RequestTypeOK, Backed,
                      Moving, DeliveredMeansReceived
<1>8. ASSUME NEW t \in Tool, Decide(t)
      PROVE  RequestInv'
  <2> DEFINE next == [inbox EXCEPT !.row[t] = NoRow]
  <2>1. next \in Inbox /\ next.receipt = inbox.receipt
    BY DEF RequestTypeOK, Inbox, NoRow
  <2>2. CASE SavedIn(next)
    BY <1>8, <2>1, <2>2 DEF Decide, SavedIn, senderVars, wireVars, RequestTypeOK, Backed,
                      Moving, DeliveredMeansReceived
  <2>3. CASE SaveInFailed(next)
    <3>1. boxHalt' \in BOOLEAN /\ (~boxHalt' => inbox' = inboxSaved')
      BY <2>3, Zenon DEF SaveInFailed
    <3>2. inbox = inboxSaved /\ inbox' = inbox /\ inboxSaved' \in {inboxSaved, next}
          /\ faults' = faults + 1
      BY <2>3 DEF SaveInFailed, Backed
    <3>3. inboxSaved' \in Inbox /\ inboxSaved'.receipt = inboxSaved.receipt
      BY <2>1, <3>2 DEF RequestTypeOK
    <3> HIDE DEF next
    <3>4. UNCHANGED <<senderVars, wireVars, issued>>
      BY <1>8 DEF Decide
    <3>5. RequestTypeOK'
      BY <3>1, <3>2, <3>3, <3>4 DEF senderVars, wireVars, RequestTypeOK
    <3>6. Backed'
      BY <3>1, <3>2, <3>3, <3>4 DEF senderVars, wireVars, Backed, Moving
    <3>7. DeliveredMeansReceived'
      BY <3>3, <3>4 DEF senderVars, wireVars, DeliveredMeansReceived
    <3>8. QED
      BY <3>5, <3>6, <3>7
  <2>4. QED
    BY <1>8, <2>2, <2>3 DEF Decide
<1>9. CASE SenderReboot
  <2>1. senderHalt' \in BOOLEAN /\ out' = outSaved /\ outSaved' = outSaved
    BY <1>9, Zenon DEF SenderReboot
  <2>2. QED
    BY <1>9, <2>1 DEF SenderReboot, boxVars, RequestTypeOK, Backed, Moving,
                      DeliveredMeansReceived
<1>10. CASE BoxReboot
  <2>1. boxHalt' \in BOOLEAN /\ inbox' = inboxSaved /\ inboxSaved' = inboxSaved
    BY <1>10, Zenon DEF BoxReboot
  <2>2. QED
    BY <1>10, <2>1 DEF BoxReboot, senderVars, RequestTypeOK, Backed, Moving,
                       DeliveredMeansReceived
<1>11. QED
  BY <1>0, <1>1, <1>2, <1>3, <1>4, <1>5, <1>6, <1>7, <1>8, <1>9, <1>10 DEF Next, Deliver

LEMMA RequestInvariant == RequestSpec => []RequestInv
<1>1. Init => RequestInv
  <2> SUFFICES ASSUME Init PROVE RequestInv
    OBVIOUS
  <2>1. senderHalt \in BOOLEAN /\ boxHalt \in BOOLEAN
    BY Zenon DEF Init
  <2>2. RequestTypeOK
    BY <2>1 DEF Init, RequestTypeOK, OutRow, Inbox, EmptyInbox, NoRow
  <2>3. QED
    BY <2>2 DEF Init, RequestInv, Backed, Moving, DeliveredMeansReceived, EmptyInbox, NoRow
<1>2. QED
  BY <1>1, RequestInductive, PTL DEF RequestSpec

\* Every reachable state of the two stores and the wire is well typed.
THEOREM RequestTypeCorrect == RequestSpec => []RequestTypeOK
<1>1. RequestInv => RequestTypeOK
  BY DEF RequestInv
<1>2. QED
  BY <1>1, RequestInvariant, PTL

\* "delivered" is never told of a request whose receipt could still be lost.
THEOREM DeliveryKept == RequestSpec => []DeliveredMeansReceived
<1>1. RequestInv => DeliveredMeansReceived
  BY DEF RequestInv
<1>2. QED
  BY <1>1, RequestInvariant, PTL

\* No row or receipt without an order in the sender's state.json.
THEOREM OrderFirst == RequestSpec => []OrderedBeforeReceived
<1>1. RequestInv => OrderedBeforeReceived
  BY DEF RequestInv, Backed, Moving, OrderedBeforeReceived
<1>2. QED
  BY <1>1, RequestInvariant, PTL

\* What the owner has decided does not come back with a late delivery.
THEOREM NeverRevived == RequestSpec => NoRevival
<1> DEFINE Fresh == \A t \in Tool :
       inboxSaved.row[t] = NoRow /\ inboxSaved'.row[t] # NoRow =>
         \E a \in Ask : /\ ToolOf[a] = t
                        /\ inboxSaved.receipt[a] = NoRow
                        /\ inboxSaved'.receipt[a] = inboxSaved'.row[t]
<1>1. ASSUME RequestInv, [Next]_vars
      PROVE  [Fresh]_vars
  <2>1. ASSUME NEW a \in Ask, NEW reply, Handled(a, reply)
        PROVE  Fresh
    <3>1. CASE inboxSaved' = inboxSaved
      BY <3>1
    <3>2. CASE inbox = inboxSaved /\ inboxSaved' = Received(a)
      <4>1. \A t \in Tool : Received(a).row[t] # inbox.row[t] =>
              /\ t = ToolOf[a]
              /\ inbox.receipt[a] = NoRow
              /\ Received(a).receipt[a] = Received(a).row[t]
        BY <1>1, ReceivedFacts DEF RequestInv, RequestTypeOK
      <4>2. QED
        BY <3>2, <4>1
    <3>3. QED
      <4>1. CASE SavedIn(Received(a)) \/ SaveInFailed(Received(a))
        BY <1>1, <3>1, <3>2, <4>1 DEF SavedIn, SaveInFailed, RequestInv, Backed
      <4>2. CASE UNCHANGED <<boxVars, faults>>
        BY <3>1, <4>2 DEF boxVars
      <4>3. QED
        BY <2>1, <4>1, <4>2 DEF Handled
  <2>2. ASSUME NEW t \in Tool, Decide(t)
        PROVE  Fresh
    <3> DEFINE next == [inbox EXCEPT !.row[t] = NoRow]
    <3>1. inbox = inboxSaved /\ inboxSaved' \in {inboxSaved, next}
      BY <1>1, <2>2 DEF Decide, SavedIn, SaveInFailed, RequestInv, Backed
    <3>2. \A u \in Tool : next.row[u] # NoRow => next.row[u] = inbox.row[u]
      BY <1>1 DEF RequestInv, RequestTypeOK, Inbox
    <3>3. QED
      BY <3>1, <3>2
  <2>3. CASE UNCHANGED inboxSaved
    BY <2>3
  <2>4. QED
    BY <1>1, <2>1, <2>2, <2>3 DEF Next, Deliver, Ordered, Send, Answered, Unanswered, Lose,
         Handle, HandleStray, SenderReboot, BoxReboot, boxVars, vars
<1>2. QED
  BY <1>1, RequestInvariant, PTL DEF RequestSpec, NoRevival

-----------------------------------------------------------------------------
(* The dispatcher: the loop sends nothing that Requests would not, and keeps  *)
(* within its slots. That it sends everything in the end is left to TLC.      *)

\* The loop, its tasks and the requests between them take the steps of Requests.
THEOREM DispatchIsRequests == DispatchSafety => RequestSpec
<1>1. DispatchedInit => Init
  BY DEF DispatchedInit
<1>2. [DispatchedNext]_dispatchedVars => [Next]_vars
  BY DEF DispatchedNext, dispatchedVars, Dispatched, Warmed, Deliverer, Refused, Fetched,
         DispatcherReboot, Next, Deliver
<1>3. QED
  BY <1>1, <1>2, PTL DEF DispatchSafety, RequestSpec

DispatchInv == DispatchTypeOK /\ call \in [Ask -> {"idle", "sent"}] /\ AttemptsBounded

Busy(t) == {k \in Key : t[k] # "none"}

LEMMA BusyFinite ==
  ASSUME NEW t
  PROVE  IsFiniteSet(Busy(t)) /\ Cardinality(Busy(t)) \in Nat
  BY DispatchShape, FS_Subset, FS_CardinalityType DEF Busy

\* A turn starts no more tasks than there are free slots.
LEMMA TurnBounded ==
  ASSUME DispatchTypeOK, NEW candidates \in SUBSET Key, NEW done \in SUBSET Key,
         Turn(candidates, done), Cardinality(Busy(task)) <= Slots
  PROVE  DispatchTypeOK' /\ Cardinality(Busy(task')) <= Slots
<1>1. PICK started \in SUBSET Due(candidates, done) :
        /\ Foremost(started, Due(candidates, done), Free(done))
        /\ task' = [k \in Key |-> IF k \in started THEN "running" ELSE Joined(done)[k]]
        /\ cooling' = (cooling \cap candidates) \cup started
        /\ IF started = {} THEN UNCHANGED cursor
           ELSE \E last \in started : cursor' = Rank[last]
  BY DEF Turn
<1>2. started \in SUBSET Key /\ IsFiniteSet(started) /\ Cardinality(started) \in Nat
  BY <1>1, DispatchShape, FS_Subset, FS_CardinalityType DEF Due
<1>3. Joined(done) \in [Key -> Task]
  BY DEF Joined, DispatchTypeOK, Task
<1>4. DispatchTypeOK'
  BY <1>1, <1>2, <1>3, DispatchShape DEF DispatchTypeOK, Task
<1>5. Cardinality(started) <= Slots - Cardinality(Busy(Joined(done)))
  BY <1>1 DEF Foremost, Free, Busy
<1>6. Busy(task') = Busy(Joined(done)) \cup started
  BY <1>1, <1>2, <1>3 DEF Busy
<1>7. Cardinality(Busy(task')) <= Cardinality(Busy(Joined(done))) + Cardinality(started)
  <2>1. Cardinality(Busy(Joined(done)) \cup started)
          = Cardinality(Busy(Joined(done))) + Cardinality(started)
              - Cardinality(Busy(Joined(done)) \cap started)
    BY <1>2, BusyFinite, FS_Union
  <2>2. Cardinality(Busy(Joined(done)) \cap started) \in Nat
    BY <1>2, FS_Intersection, FS_CardinalityType
  <2>3. QED
    BY <1>2, <1>6, <2>1, <2>2, BusyFinite
<1>8. QED
  BY <1>2, <1>4, <1>5, <1>7, BusyFinite, DispatchShape

\* Whatever else happens, a task only comes to its end.
LEMMA EndBounded ==
  ASSUME DispatchTypeOK, NEW k \in Key, End(k)
  PROVE  DispatchTypeOK' /\ Busy(task') = Busy(task)
  BY DEF DispatchTypeOK, Task, End, Busy

LEMMA InvStep ==
  ASSUME DispatchInv, [DispatchedNext]_dispatchedVars
  PROVE  DispatchInv'
<1> USE DEF DispatchInv
<1>1. Cardinality(Busy(task)) <= Slots
  BY DEF AttemptsBounded, Busy
<1>2. ASSUME Cardinality(Busy(task')) <= Slots, DispatchTypeOK',
             call' \in [Ask -> {"idle", "sent"}],
             \A a \in Ask : call'[a] = "sent" => task'[a] = "running"
      PROVE  DispatchInv'
  BY <1>2 DEF AttemptsBounded, Busy
<1>3. ASSUME NEW done \in {{}} \cup {{k} : k \in Key}, Dispatched(done) PROVE DispatchInv'
  <2>1. Candidates \in SUBSET Key /\ done \in SUBSET Key
    BY DispatchedRows DEF Candidates
  <2>2. DispatchTypeOK' /\ Cardinality(Busy(task')) <= Slots
    BY <1>1, <1>3, <2>1, TurnBounded DEF Dispatched
  <2>3. \A k \in Key : task[k] = "running" => task'[k] = "running"
    BY <1>3, <2>1 DEF Dispatched, Turn, Joined, DispatchTypeOK, Task
  <2>4. call' = call
    BY <1>3 DEF Dispatched, vars, wireVars
  <2>5. QED
    BY <1>2, <2>2, <2>3, <2>4, DispatchedRows DEF AttemptsBounded
<1>4. ASSUME NEW k \in Key, Warmed(k) PROVE DispatchInv'
  BY <1>1, <1>2, <1>4 DEF Warmed, Warm, DispatchTypeOK, AttemptsBounded, vars, wireVars
<1>5. ASSUME NEW a \in Ask, task[a] = "running", Send(a), UNCHANGED dispatchVars
      PROVE DispatchInv'
  BY <1>1, <1>2, <1>5, DispatchedRows
     DEF Send, DispatchTypeOK, AttemptsBounded, dispatchVars
<1>6. ASSUME NEW a \in Ask, HangUp(a), End(a) PROVE DispatchInv'
  <2>1. DispatchTypeOK' /\ Busy(task') = Busy(task)
    BY <1>6, EndBounded, DispatchedRows
  <2>2. call' \in [Ask -> {"idle", "sent"}]
        /\ \A b \in Ask : call'[b] = "sent" => task'[b] = "running"
    BY <1>6, DispatchedRows DEF HangUp, End, AttemptsBounded, DispatchTypeOK
  <2>3. QED
    BY <1>1, <1>2, <2>1, <2>2
<1>7. ASSUME UNCHANGED <<call, dispatchVars>> PROVE DispatchInv'
  BY <1>1, <1>2, <1>7 DEF AttemptsBounded, DispatchTypeOK, dispatchVars
<1>8. ASSUME NEW k \in Key, End(k), UNCHANGED call, k \in Ask => call[k] = "idle"
      PROVE DispatchInv'
  <2>1. DispatchTypeOK' /\ Busy(task') = Busy(task)
    BY <1>8, EndBounded
  <2>2. \A b \in Ask : call'[b] = "sent" => task'[b] = "running"
    BY <1>8, DispatchedRows DEF End, AttemptsBounded, DispatchTypeOK
  <2>3. QED
    BY <1>1, <1>2, <1>8, <2>1, <2>2
<1>9. CASE \E a \in Ask : Deliverer(a)
  BY <1>5, <1>6, <1>7, <1>9 DEF Deliverer, Answered, Unanswered, Handle
<1>10. CASE \E a \in Ask : Refused(a)
  BY <1>8, <1>10, DispatchedRows DEF Refused, vars, wireVars
<1>11. CASE \E a \in Ask : (Ordered(a) \/ Lose(a) \/ HandleStray(a)) /\ UNCHANGED dispatchVars
  BY <1>7, <1>11 DEF Ordered, Lose, HandleStray, wireVars
<1>12. CASE \E p \in Peer : Fetched(p)
  BY <1>8, <1>12, DispatchedRows DEF Fetched, vars, wireVars
<1>13. CASE (BoxReboot \/ \E t \in Tool : Decide(t)) /\ UNCHANGED dispatchVars
  BY <1>7, <1>13 DEF BoxReboot, Decide, wireVars
<1>14. CASE DispatcherReboot
  <2>1. Busy(task') = {}
    BY <1>14 DEF DispatcherReboot, Busy
  <2>2. DispatchTypeOK' /\ call' \in [Ask -> {"idle", "sent"}]
        /\ \A a \in Ask : call'[a] = "idle"
    BY <1>14 DEF DispatcherReboot, SenderReboot, DispatchTypeOK, Task
  <2>3. Cardinality(Busy(task')) <= Slots
    BY <2>1, FS_EmptySet, DispatchShape
  <2>4. QED
    BY <1>2, <2>2, <2>3
<1>15. CASE UNCHANGED dispatchedVars
  BY <1>7, <1>15 DEF dispatchedVars, vars, wireVars
<1>16. QED
  BY <1>3, <1>4, <1>9, <1>10, <1>11, <1>12, <1>13, <1>14, <1>15 DEF DispatchedNext

\* No more tasks than slots, and no request out but that of a running task.
THEOREM AttemptsWithinSlots == DispatchSafety => []AttemptsBounded
<1>1. DispatchedInit => DispatchInv
  <2> SUFFICES ASSUME DispatchedInit PROVE DispatchInv
    OBVIOUS
  <2>1. Busy(task) = {}
    BY DEF DispatchedInit, Loop, Busy
  <2>2. Cardinality(Busy(task)) <= Slots
    BY <2>1, FS_EmptySet, DispatchShape
  <2>3. QED
    BY <2>2 DEF DispatchedInit, Init, Loop, DispatchInv, DispatchTypeOK, Task,
               AttemptsBounded, Busy
<1>2. DispatchInv /\ [DispatchedNext]_dispatchedVars => DispatchInv'
  BY InvStep
<1>3. DispatchInv => AttemptsBounded
  BY DEF DispatchInv
<1>4. QED
  BY <1>1, <1>2, <1>3, PTL DEF DispatchSafety
=============================================================================
