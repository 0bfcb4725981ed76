------------------------------- MODULE Requests -------------------------------
(***************************************************************************)
(* Permission requests from one machine to another: clix request queues    *)
(* one durably under a delivery ID, the dispatcher sends it until it is    *)
(* answered, and the receiver keeps a receipt of every delivery next to    *)
(* the rows its owner decides on. Calls time out, an abandoned request may *)
(* arrive later, and both sidecars crash and fail to save.                 *)
(*                                                                         *)
(* A crash and the next start are one step: nothing is served in between.  *)
(***************************************************************************)
EXTENDS Naturals, FiniteSets

CONSTANTS
  Ask,       \* delivery IDs of the sender
  Tool,      \* tools asked for
  ToolOf,    \* [Ask -> Tool]
  MaxFault,  \* bound: crashes, failed saves, and calls lost on a network that works
  MaxStray   \* bound: abandoned requests on the wire, per delivery ID

ASSUME RequestShape == ToolOf \in [Ask -> Tool]
ASSUME RequestBounds == MaxFault \in Nat /\ MaxStray \in Nat

\* A row the sender keeps until it is delivered; "failed" has its error set.
OutRow == {"unsent", "fresh", "waiting", "failed", "delivered"}
Open   == {"fresh", "waiting"}

\* The receiver's store: the rows its owner sees (one per tool and requester),
\* each with the ID it was given, and the receipts.
NoRow == 0
Inbox == [row : [Tool -> Nat], receipt : [Ask -> Nat]]
EmptyInbox == [row |-> [t \in Tool |-> NoRow], receipt |-> [a \in Ask |-> NoRow]]

VARIABLES
  out,        \* [Ask -> OutRow]: outbound_requests in memory
  outSaved,   \* the same in the sender's state.json
  senderHalt, \* the sender's write_error is set
  call,       \* [Ask -> {"idle", "sent"}]: the delivery task
  answer,     \* [Ask -> {"none", "ok", "error"}]: the response on its way
  live,       \* [Ask -> BOOLEAN]: the request of that task is on the wire
  stray,      \* [Ask -> Nat]: requests on the wire whose task gave up
  inbox,      \* the receiver's rows and receipts in memory
  inboxSaved, \* the same in the receiver's state.json
  boxHalt,    \* the receiver's write_error is set
  issued,     \* request IDs the receiver has given out
  faults      \* crashes, failed saves and lost calls so far

senderVars == <<out, outSaved, senderHalt>>
wireVars   == <<call, answer, live, stray>>
boxVars    == <<inbox, inboxSaved, boxHalt, issued>>
vars == <<senderVars, wireVars, boxVars, faults>>

Init ==
  /\ out = [a \in Ask |-> "unsent"]
  /\ outSaved = out
  /\ senderHalt = FALSE
  /\ call = [a \in Ask |-> "idle"]
  /\ answer = [a \in Ask |-> "none"]
  /\ live = [a \in Ask |-> FALSE]
  /\ stray = [a \in Ask |-> 0]
  /\ inbox = EmptyInbox
  /\ inboxSaved = EmptyInbox
  /\ boxHalt = FALSE
  /\ issued = 0
  /\ faults = 0

-----------------------------------------------------------------------------
(* Store::update of the sender and of the receiver: shown is what memory has *)
(* after a save that failed; the file may have been replaced or not.         *)

\* Mutant: goes on before the row is saved.
SaveOutLater(a, row) ==
  /\ ~senderHalt
  /\ out' = [out EXCEPT ![a] = row]
  /\ UNCHANGED <<outSaved, senderHalt, faults>>

SaveOut(a, row) ==
  LET next == [out EXCEPT ![a] = row] IN
  /\ ~senderHalt
  /\ \/ /\ out' = next
        /\ outSaved' = next
        /\ UNCHANGED <<senderHalt, faults>>
     \/ /\ faults < MaxFault
        /\ outSaved' \in {outSaved, next}
        /\ senderHalt' = TRUE
        /\ faults' = faults + 1
        /\ UNCHANGED out

SavedIn(next) ==
  /\ ~boxHalt
  /\ inbox' = next
  /\ inboxSaved' = next
  /\ UNCHANGED <<boxHalt, faults>>

SaveInFailed(next) ==
  /\ ~boxHalt
  /\ faults < MaxFault
  /\ inboxSaved' \in {inboxSaved, next}
  /\ boxHalt' = TRUE
  /\ faults' = faults + 1
  /\ UNCHANGED inbox

-----------------------------------------------------------------------------
(* The sender: rpc_request and request::deliver *)

Ordered(a) ==
  /\ out[a] = "unsent"
  /\ outSaved[a] = "unsent"
  /\ SaveOut(a, "fresh")
  /\ UNCHANGED <<wireVars, boxVars>>

\* The dispatcher starts one task for a row without an error.
Send(a) ==
  /\ ~senderHalt
  /\ out[a] \in Open
  /\ call[a] = "idle"
  /\ call' = [call EXCEPT ![a] = "sent"]
  /\ live' = [live EXCEPT ![a] = TRUE]
  /\ UNCHANGED <<senderVars, answer, stray, boxVars, faults>>

HangUp(a) ==
  /\ call' = [call EXCEPT ![a] = "idle"]
  /\ answer' = [answer EXCEPT ![a] = "none"]

\* An answer removes the row, or marks it with the error and ends the attempts.
Answered(a) ==
  /\ answer[a] # "none"
  /\ HangUp(a)
  /\ IF senderHalt THEN UNCHANGED <<senderVars, faults>>
     ELSE SaveOut(a, IF answer[a] = "ok" THEN "delivered" ELSE "failed")
  /\ UNCHANGED <<live, stray, boxVars>>

\* The connection failed with the request handled or dropped.
Unanswered(a) ==
  /\ call[a] = "sent"
  /\ ~live[a] /\ answer[a] = "none"
  /\ HangUp(a)
  /\ IF senderHalt \/ out[a] = "waiting" THEN UNCHANGED <<senderVars, faults>>
     ELSE SaveOut(a, "waiting")
  /\ UNCHANGED <<live, stray, boxVars>>

\* The network loses the request or the answer, or the call times out and the
\* request is still on its way.
Lose(a) ==
  /\ faults < MaxFault
  /\ faults' = faults + 1
  /\ live[a] \/ answer[a] # "none"
  /\ live' = [live EXCEPT ![a] = FALSE]
  /\ answer' = [answer EXCEPT ![a] = "none"]
  /\ \/ UNCHANGED stray
     \/ /\ live[a]
        /\ stray[a] < MaxStray
        /\ stray' = [stray EXCEPT ![a] = @ + 1]
  /\ UNCHANGED <<senderVars, call, boxVars>>

-----------------------------------------------------------------------------
(* The receiver: request::receive and the owner *)

\* Mutant: opens a row at every delivery.
ReceivedAgain(a) ==
  LET t  == ToolOf[a]
      id == IF inbox.row[t] # NoRow THEN inbox.row[t] ELSE issued + 1 IN
  [inbox EXCEPT !.row[t] = id, !.receipt[a] = id]

\* A known delivery ID changes nothing. A new one joins the row of its tool or
\* opens one, and leaves a receipt.
Received(a) ==
  LET t  == ToolOf[a]
      id == IF inbox.row[t] # NoRow THEN inbox.row[t] ELSE issued + 1 IN
  IF inbox.receipt[a] # NoRow THEN inbox
  ELSE [row     |-> [inbox.row EXCEPT ![t] = id],
        receipt |-> [inbox.receipt EXCEPT ![a] = id]]

\* Mutant: answers before the receipt is saved.
HandledLater(a, reply) ==
  /\ reply = "ok"
  /\ ~boxHalt
  /\ inbox' = Received(a)
  /\ issued' = IF Received(a).row = inbox.row THEN issued ELSE issued + 1
  /\ UNCHANGED <<inboxSaved, boxHalt, faults>>

Handled(a, reply) ==
  \/ /\ reply = "ok"
     /\ SavedIn(Received(a))
     /\ issued' = IF Received(a).row = inbox.row THEN issued ELSE issued + 1
  \/ /\ reply = "error"
     /\ SaveInFailed(Received(a))
     /\ issued' = IF Received(a).row = inbox.row THEN issued ELSE issued + 1
  \/ /\ reply = "error"
     /\ boxHalt
     /\ UNCHANGED <<boxVars, faults>>

Handle(a) ==
  /\ live[a]
  /\ live' = [live EXCEPT ![a] = FALSE]
  /\ \E reply \in {"ok", "error"} :
       Handled(a, reply) /\ answer' = [answer EXCEPT ![a] = reply]
  /\ UNCHANGED <<senderVars, call, stray>>

HandleStray(a) ==
  /\ stray[a] > 0
  /\ stray' = [stray EXCEPT ![a] = @ - 1]
  /\ \E reply \in {"ok", "error"} : Handled(a, reply)
  /\ UNCHANGED <<senderVars, call, answer, live>>

\* The owner allows, dismisses, or changes the grant of the tool: its row goes,
\* the receipts stay.
Decide(t) ==
  LET next == [inbox EXCEPT !.row[t] = NoRow] IN
  /\ inbox.row[t] # NoRow
  /\ SavedIn(next) \/ SaveInFailed(next)
  /\ UNCHANGED <<senderVars, wireVars, issued>>

-----------------------------------------------------------------------------

\* The tasks vanish; a request already sent is on its own.
SenderReboot ==
  /\ faults < MaxFault
  /\ faults' = faults + 1
  /\ out' = outSaved
  /\ senderHalt' = FALSE
  /\ call' = [a \in Ask |-> "idle"]
  /\ answer' = [a \in Ask |-> "none"]
  /\ live' = [a \in Ask |-> FALSE]
  /\ stray' = [a \in Ask |-> IF live[a] /\ stray[a] < MaxStray THEN stray[a] + 1
                             ELSE stray[a]]
  /\ UNCHANGED <<outSaved, boxVars>>

\* Requests in its sockets are gone; a sent answer may arrive.
BoxReboot ==
  /\ faults < MaxFault
  /\ faults' = faults + 1
  /\ inbox' = inboxSaved
  /\ boxHalt' = FALSE
  /\ live' = [a \in Ask |-> FALSE]
  /\ stray' = [a \in Ask |-> 0]
  /\ UNCHANGED <<senderVars, call, answer, inboxSaved, issued>>

Deliver(a) == Send(a) \/ Answered(a) \/ Unanswered(a) \/ Handle(a)

Next ==
  \/ \E a \in Ask : Ordered(a) \/ Deliver(a) \/ Lose(a) \/ HandleStray(a)
  \/ \E t \in Tool : Decide(t)
  \/ SenderReboot
  \/ BoxReboot

RequestSpec == Init /\ [][Next]_vars

=============================================================================
