----------------------------- MODULE MCRequests -----------------------------
(* A small instance of RequestDispatch for TLC: two deliveries for one tool *)
(* and the history of a peer share one dispatch slot.                       *)
EXTENDS RequestDispatch, TLC

CONSTANTS ask1, ask2, adb, peer

MCToolOf == [a \in Ask |-> adb]
MCRank   == (peer :> 1) @@ (ask1 :> 2) @@ (ask2 :> 3)

=============================================================================
