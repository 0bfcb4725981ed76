-------------------------- MODULE RequestProperties --------------------------
(***************************************************************************)
(* What Requests promises.                                                 *)
(***************************************************************************)
EXTENDS Requests

RequestTypeOK ==
  /\ out \in [Ask -> OutRow]
  /\ outSaved \in [Ask -> OutRow]
  /\ senderHalt \in BOOLEAN
  /\ call \in [Ask -> {"idle", "sent"}]
  /\ answer \in [Ask -> {"none", "ok", "error"}]
  /\ live \in [Ask -> BOOLEAN]
  /\ stray \in [Ask -> Nat]
  /\ inbox \in Inbox
  /\ inboxSaved \in Inbox
  /\ boxHalt \in BOOLEAN
  /\ issued \in Nat
  /\ faults \in Nat

\* What the sender has removed as delivered, and told its user so, is in the
\* receiver's state.json: no crash of the receiver takes it back.
DeliveredMeansReceived ==
  \A a \in Ask :
    "delivered" \in {out[a], outSaved[a]} \/ answer[a] = "ok" => inboxSaved.receipt[a] # NoRow

\* The receiver has a request, or a receipt of one, only if the sender's
\* state.json has ordered it: no row without its sender.
OrderedBeforeReceived ==
  \A a \in Ask :
    NoRow # inboxSaved.receipt[a] \/ NoRow # inbox.receipt[a] => outSaved[a] # "unsent"

\* "Delivery receipts remain, so delayed retries cannot revive its old ID": once
\* the owner has decided on a saved request, no retry, late copy or restart puts
\* it up again; a new row is a delivery never seen before.
NoRevival ==
  [][\A t \in Tool :
       inboxSaved.row[t] = NoRow /\ inboxSaved'.row[t] # NoRow =>
         \E a \in Ask : /\ ToolOf[a] = t
                        /\ inboxSaved.receipt[a] = NoRow
                        /\ inboxSaved'.receipt[a] = inboxSaved'.row[t]]_vars

\* The dispatcher starts every open delivery again, the receiver's handlers run,
\* and a call that cannot be answered ends.
FairRequests == RequestSpec /\ \A a \in Ask : WF_vars(Deliver(a))

\* A queued request is delivered or refused with an error, unless the sender's
\* storage has failed.
RequestsEnd ==
  \A a \in Ask : out[a] \in Open ~> out[a] \in {"delivered", "failed"} \/ senderHalt

=============================================================================
