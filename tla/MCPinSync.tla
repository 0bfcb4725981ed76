------------------------------ MODULE MCPinSync ------------------------------
(* Small instances of PinSync for TLC. *)
EXTENDS PinSyncProperties

CONSTANTS laptop, desktop, path1, path2, bytes1, bytes2

MCLocal  == [s \in Session |-> IF s = "first" THEN laptop ELSE desktop]
MCRemote == [s \in Session |-> IF s = "first" THEN desktop ELSE laptop]

\* The second path, if there is one, is made by an edit.
FirstPath ==
  /\ Init
  /\ tree \in [Machine -> {[p \in Path |-> IF p = path1 THEN v ELSE Absent] : v \in File}]

\* The owner at the laptop is the one who syncs and decides in the end.
FairPinSync == FirstPath /\ [][Next]_vars /\ Retries({"first"})

\* Once the other owner takes no more versions of the laptop, the trees and the
\* recorded baselines come to agree, whatever was lost before, or they stay in the one
\* state that no sync and no decision about a path leads out of: baselines that differ
\* while another path does.
Settles ==
  <>[][~\E s \in Session, p \in Path : s # "first" /\ Choose(s, p)]_vars
    => <>[](InSync \/ Unnamed)

=============================================================================
