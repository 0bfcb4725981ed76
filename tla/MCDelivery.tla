----------------------------- MODULE MCDelivery -----------------------------
(* Small instances of Delivery for TLC. *)
EXTENDS DeliveryProperties

CONSTANTS me, peer, adb, j1, j3, argv

MCBody == {me, peer}
MCCaller == [j \in Job |-> IF j = j3 THEN me ELSE peer]
MCToolOf == [j \in Job |-> adb]
MCArgsOf == [j \in Job |-> argv]

OnceEvery == [scope |-> "every", allow |-> {}, once |-> TRUE,
              timed |-> FALSE, args |-> {argv}]
MCPermission == {OnceEvery}

=============================================================================
