--------------------------- MODULE RequestDispatch ---------------------------
(***************************************************************************)
(* Requests with the loop that sends them: one task per delivery, started  *)
(* in the turns of the dispatcher of the sender, next to the tasks that    *)
(* fetch the history of its peers and never come to an end of their work.  *)
(*                                                                         *)
(* A task is running from its start to the end of deliver; call says when  *)
(* its request is out. Requests takes for granted that an open delivery is *)
(* sent again; here the loop has to bring it about.                        *)
(***************************************************************************)
EXTENDS RequestProperties, Dispatcher

CONSTANT Peer  \* machines whose history is fetched

ASSUME DispatchedRows == Key = Ask \cup Peer /\ Ask \cap Peer = {}

dispatchedVars == <<vars, dispatchVars>>

Candidates == {a \in Ask : out[a] \in Open} \cup Peer

DispatchedInit == Init /\ Loop

Dispatched(done) == Turn(Candidates, done) /\ UNCHANGED vars

Warmed(k) == Warm(k) /\ UNCHANGED vars

\* deliver: the request goes out, and its end is the end of the task.
Deliverer(a) ==
  \/ task[a] = "running" /\ Send(a) /\ UNCHANGED dispatchVars
  \/ Answered(a) /\ End(a)
  \/ Unanswered(a) /\ End(a)
  \/ Handle(a) /\ UNCHANGED dispatchVars

\* deliver finds the store unwritable before it calls.
Refused(a) == senderHalt /\ call[a] = "idle" /\ End(a) /\ UNCHANGED vars

\* sync_peer has fetched its pages or given up.
Fetched(p) == End(p) /\ UNCHANGED vars

\* The tasks of a process that crashes are gone with it.
DispatcherReboot ==
  SenderReboot /\ task' = [k \in Key |-> "none"] /\ cooling' = {} /\ cursor' = 0

DispatchedNext ==
  \/ \E done \in {{}} \cup {{k} : k \in Key} : Dispatched(done)
  \/ \E k \in Key : Warmed(k)
  \/ \E a \in Ask :
       \/ Deliverer(a) \/ Refused(a)
       \/ (Ordered(a) \/ Lose(a) \/ HandleStray(a)) /\ UNCHANGED dispatchVars
  \/ \E p \in Peer : Fetched(p)
  \/ (BoxReboot \/ \E t \in Tool : Decide(t)) /\ UNCHANGED dispatchVars
  \/ DispatcherReboot

\* Time passes, the loop wakes after every poll interval and joins each task that
\* has ended, a task is run, and its call is answered or times out.
DispatchFairness ==
  /\ WF_dispatchedVars(Dispatched({}))
  /\ \A k \in Key : WF_dispatchedVars(Dispatched({k})) /\ WF_dispatchedVars(Warmed(k))
  /\ \A a \in Ask : WF_dispatchedVars(Deliverer(a)) /\ WF_dispatchedVars(Refused(a))
  /\ \A p \in Peer : WF_dispatchedVars(Fetched(p))

DispatchTypeOK ==
  /\ task \in [Key -> Task]
  /\ cooling \subseteq Key
  /\ cursor \in Nat

\* "Fair, bounded attempts": every request that is out belongs to a task of its
\* own delivery, and there are never more tasks than slots.
AttemptsBounded ==
  /\ \A a \in Ask : call[a] = "sent" => task[a] = "running"
  /\ Cardinality({k \in Key : task[k] # "none"}) <= Slots

DispatchSafety == DispatchedInit /\ [][DispatchedNext]_dispatchedVars

DispatchSpec == DispatchSafety /\ DispatchFairness

=============================================================================
