------------------------ MODULE PinJournalProperties ------------------------
(***************************************************************************)
(* What PinJournal promises.                                               *)
(***************************************************************************)
EXTENDS PinJournal

JournalTypeOK ==
  /\ live \in File
  /\ held \in Name \union {"live", "gone"}
  /\ kept \in [Name -> File]
  /\ receipt \in [Name -> Receipt]
  /\ view \in View \union {NoView}
  /\ op \in Work
  /\ edits \in Nat
  /\ kills \in Nat

\* The versions there are, in the tree or in .clix-recovery.
Stored == ({live} \union {kept[n] : n \in Name}) \ {Absent}

\* "Replaced/deleted versions are retained locally": whatever the owner's
\* programs do meanwhile, and wherever the process is killed, no step of Clix but
\* the unlink of an ordered disposal takes the last copy of a version away; what
\* that one takes is DisposalInspected's.
NoVersionLost == [][edits' = edits /\ op.step # "dispose" => Stored \subseteq Stored']_vars

\* "New edits require another inspection": when recovery_discard goes on to its
\* unlink, the bytes in .clix-recovery are those its owner inspected under the
\* token, also when it is resumed with the old one, and from then on Clix changes
\* nothing there but to take that version away. Between the two, a program may
\* still write through a descriptor (edits): what it wrote is removed uninspected.
DisposalInspected ==
  [][/\ op.step # "dispose" /\ op'.step = "dispose" =>
          /\ receipt[op.name].version = view.receipt.version
          /\ kept[view.receipt.version] = view.file
     /\ op.step = "dispose" /\ edits' = edits =>
          kept' \in {kept, [kept EXCEPT ![view.receipt.version] = Absent]}]_vars

-----------------------------------------------------------------------------

Review ==
  /\ view # NoView
  /\ ~Sound(view.name)
  /\ KeepLive \/ (~Reviewable /\ Discard)

\* Operations run to their end, and the owner inspects what stops a sync and
\* decides on what he has inspected: he keeps both versions, and disposes only of
\* what has no path or is being disposed of.
FairPin ==
  /\ PinSpec
  /\ WF_vars(Working)
  /\ WF_vars(\E n \in Name : ~Sound(n) /\ Inspect(n))
  /\ SF_vars(Review)

\* Every interruption and every late write can be reviewed to an end, and what has
\* a path without giving a version up: keep-live settles it. What has none, and
\* what was written late into a version under an interrupted disposal, the owner
\* can only export and then dispose of.
ReviewEnds == ~SoundBut({}) ~> SoundBut({})

=============================================================================
