------------------------------ MODULE MCStorage ------------------------------
(* A small instance of Storage for TLC: one run here, one elsewhere, and one  *)
(* of which this machine only hears.                                          *)
EXTENDS StorageProperties, TLC

CONSTANTS own, sent, heard, zeros, words, none

MCRaw  == (zeros :> 2) @@ (words :> 2) @@ (none :> 0)
MCJson == (zeros :> 3) @@ (words :> 8) @@ (none :> 0)
MCPrinted == [j \in Job |-> IF j = sent THEN zeros ELSE words]

=============================================================================
