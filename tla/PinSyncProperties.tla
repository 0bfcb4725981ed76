-------------------------- MODULE PinSyncProperties --------------------------
(***************************************************************************)
(* What PinSync promises.                                                  *)
(***************************************************************************)
EXTENDS PinSync

SyncTypeOK ==
  /\ tree \in [Machine -> Manifest]
  /\ base \in [Machine -> Manifest]
  /\ sync \in [Session -> Sync]
  /\ late \subseteq Put \union Commit
  /\ agreed \in [Machine -> [Path -> SUBSET File]]
  /\ edits \in Nat
  /\ breaks \in Nat

\* A path is replaced by a sync, and neither by a program of the owner nor by his
\* decision to take the version of the peer.
Replaced(m, p) ==
  /\ tree'[m][p] # tree[m][p]
  /\ edits' = edits
  /\ ~\E s \in Session : Take(s)

\* Whatever syncs run at once, break off or arrive late, a sync replaces or deletes
\* only a version that both machines have once recorded: what an owner has made since
\* stays in place, unless it is what was there before.
EditsSurvive ==
  [][\A m, o \in Machine, p \in Path : Replaced(m, p) => tree[m][p] \in agreed[o][p]]_vars

BothChanged(m, o, p) ==
  /\ base[m][p] = base[o][p]
  /\ base[m][p] \notin {tree[m][p], tree[o][p]}
  /\ tree[m][p] # tree[o][p]

\* "A normal sync never overwrites a path both machines changed since the last
\* sync": since the manifest they last recorded, in agreement.
BothChangedKept ==
  [][\A m, o \in Machine, p \in Path :
       m # o /\ BothChanged(m, o, p) => ~Replaced(m, p)]_vars

\* A sync stops with a conflict, alone, and the machines are as it has read them.
Stopped(s) ==
  /\ sync[s].step = "listed" /\ sync'[s] = NoSync /\ breaks' = breaks
  /\ \A r \in Session \ {s} : sync[r] = NoSync
  /\ sync[s].local = tree[Local[s]]
  /\ sync[s].remote = tree[Remote[s]]
  /\ sync[s].common = base[Remote[s]]

\* "It stops and names it": when a normal sync stops with a conflict, there is a path
\* that clix pin conflicts lists and its owner can decide on.
StopsNamePath ==
  [][\A s \in Session : Stopped(s) =>
       \E p \in Path : Conflicting(Local[s], Remote[s], p)]_vars

-----------------------------------------------------------------------------

\* The baselines and the trees differ, and no path is in conflict.
Unnamed ==
  \E m, o \in Machine :
    /\ base[m] # base[o]
    /\ tree[m] # tree[o]
    /\ \A p \in Path : ~Conflicting(m, o, p)

InSync == \A m, o \in Machine : tree[m] = tree[o] /\ base[m] = tree[o]

\* A sync under way goes on to its end, and the owners whose syncs are in S sync
\* again until the trees agree, and settle what is in conflict.
Retries(S) ==
  /\ \A s \in Session : WF_vars(Working(s))
  /\ \A s \in S : WF_vars(~InSync /\ Start(s)) /\ SF_vars(\E p \in Path : Choose(s, p))

=============================================================================
