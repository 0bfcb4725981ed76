-------------------------- MODULE StorageProperties --------------------------
(***************************************************************************)
(* What the storage policy promises: admitted work can end, the owner can  *)
(* always make room, and what was given up does not come back.             *)
(***************************************************************************)
EXTENDS Storage

StorageTypeOK == s \in Disk

Fits(edit) == Accepts(Stored(edit), s)

\* "state capacity is reserved for admitted job outcomes": whatever was admitted,
\* heard, pruned or paired since, every run that is still going on can save any
\* outcome a command can have, and so can an answer about a run elsewhere. Only
\* a state that an upgrade found beyond the limit is exempt.
CompletionFits ==
  CompletionCharge(s) <= StateBytes =>
    \A j \in Pending(s) :
      /\ j \in Here => \A o \in Output : Fits(Completed(s, j, o))
      /\ j \in Sent => \A o \in {Empty, Printed[j]} : Fits(Replied(s, j, "final", o))

\* "Pruning cannot increase this capacity charge": clix prune never adds to what is
\* charged, so it is accepted, but for a state that an upgrade found beyond the
\* limit and that its receipts take over the size a state may have; and it leaves
\* the output of as many invocations as it was asked to keep.
PruneAccepted ==
  \A keep \in 0..Cardinality(Candidates(s)) :
    LET left == Stored(Pruned(s, keep)) IN
    /\ CompletionCharge(left) <= CompletionCharge(s)
    /\ CompletionCharge(s) <= StateBytes \/ Encoded(left) <= StateBytes => Accepts(left, s)
    /\ Cardinality(Candidates(left)) = keep

\* An invocation whose output came by two ways, with the reply and with a page,
\* stores it once, so that one invocation counts as one when output is kept.
StoredOnce == \A j \in Job : s.out[j] = Empty \/ s.copy[j] = Empty

Holds(t, j) == t.out[j] # Empty \/ t.copy[j] # Empty

\* Output that was given up does not come back with a late reply, or with a page
\* from a peer that kept it: a receipt takes its place and outlives it, and what
\* became of the invocation stays known.
PrunedStaysGone ==
  [][\A j \in Job :
       /\ Holds(s, j) /\ ~Holds(s', j) => j \in s'.historyPruned
       /\ j \in s.historyPruned =>
            j \in s'.historyPruned /\ ~Holds(s', j) /\ s'.fact[j] = s.fact[j]]_s

\* What makes room is the oldest output: none goes while an older one stays, and
\* a run that ends has its output to show.
OldestFirst ==
  [][/\ \A i, j \in Candidates(s) :
          Holds(s, i) /\ ~Holds(s', i) /\ Holds(s', j) => s.change[i] < s'.change[j]
     /\ \A j \in Here :
          s.row[j] = "active" /\ s'.row[j] = "ended" /\ s'.fact[j] = "final" =>
            s'.out[j] = s'.digest[j]]_s

=============================================================================
