---------------------------- MODULE MCPinJournal ----------------------------
(* Small instances of PinJournal for TLC. *)
EXTENDS PinJournalProperties

CONSTANTS file1, file2, file3, file4, bytes1, bytes2, token1, token2, token3

=============================================================================
