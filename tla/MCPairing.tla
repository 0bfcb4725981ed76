------------------------------ MODULE MCPairing ------------------------------
(* A small instance of Pairing for TLC: mA joins mB and listens for mB and for *)
(* mC at the same time. mB takes the name of mC on the way.                    *)
EXTENDS PairingProperties, TLC

CONSTANTS mA, mB, mC, l1, l2, l3, c1, c2, c3, x, y, z

MCFirstName == (mA :> z) @@ (mB :> x) @@ (mC :> y)
MCHost  == (l1 :> mB) @@ (l2 :> mA) @@ (l3 :> mA)
MCGuest == (c1 :> mA) @@ (c2 :> mB) @@ (c3 :> mC)
MCTyped == (c1 :> l1) @@ (c2 :> l2) @@ (c3 :> l3)
MCCalled == [k \in Listen \cup Join |-> IF k = c2 THEN y ELSE NoName]
MCRoute == (c1 :> <<mB, mC>>) @@ (c2 :> <<mA>>) @@ (c3 :> <<mA>>)

=============================================================================
