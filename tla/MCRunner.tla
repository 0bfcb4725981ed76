------------------------------ MODULE MCRunner ------------------------------
(* Small instances of Runner for TLC. *)
EXTENDS RunnerRefinement

CONSTANTS me, peer, adb, j1, j3, argv

MCBody == {me, peer}
MCCaller == [j \in Job |-> IF j = j3 THEN me ELSE peer]
MCToolOf == [j \in Job |-> adb]
MCArgsOf == [j \in Job |-> argv]

OncePeer   == [scope |-> "listed", allow |-> {peer}, once |-> TRUE,
               timed |-> FALSE, args |-> {argv}]
OnceEvery  == [scope |-> "every", allow |-> {}, once |-> TRUE,
               timed |-> FALSE, args |-> {argv}]
WindowPeer == [scope |-> "listed", allow |-> {peer}, once |-> FALSE,
               timed |-> TRUE, args |-> {argv}]
NoArgs     == [scope |-> "every", allow |-> {}, once |-> FALSE,
               timed |-> FALSE, args |-> {}]

MCPermission == {OnceEvery, WindowPeer}
MCScoped == {OncePeer, NoArgs}

=============================================================================
