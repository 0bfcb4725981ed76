------------------------------- MODULE PinSync -------------------------------
(***************************************************************************)
(* Synchronization of the pin trees of two paired machines, pin on at both.*)
(* Each machine records with its peer a baseline, the manifest both had at *)
(* the end of a sync. A sync of one machine plans with what it has read of *)
(* both, changes one path after the other on either side, and records the  *)
(* outcome as the new baseline, at the peer first. Nothing locks the two   *)
(* trees meanwhile: owners edit, and other syncs run, of this machine or   *)
(* of its peer. A call may fail, and be carried out late, or its answer be *)
(* lost; a crash, a refusal by the recovery journal (PinJournal), a failed *)
(* save or pin being turned off ends a sync like a failed call.            *)
(*                                                                         *)
(* A scan reads a tree at once, and what an owner inspects before he takes *)
(* a version of the peer is read at once. The last look at a path and its  *)
(* replacement are one step: an edit in between is a matter of PinJournal, *)
(* which keeps it for review. Excluded paths, and syncs with a third       *)
(* machine, which change the tree as edits do, are left out.               *)
(***************************************************************************)
EXTENDS Naturals, FiniteSets

CONSTANTS
  Machine,    \* the two machines
  Session,    \* syncs that may be under way at once
  Local,      \* [Session -> Machine]: where a sync runs
  Remote,     \* [Session -> Machine]: its peer
  Path,
  Version,    \* contents with their modes
  Absent,     \* no file under a path
  MaxEdit,    \* bound: changes by the owners' programs
  MaxBreak    \* bound: syncs that end early

ASSUME SyncShape ==
  /\ Local \in [Session -> Machine]
  /\ Remote \in [Session -> Machine]
  /\ \A s \in Session : Local[s] # Remote[s] /\ Machine = {Local[s], Remote[s]}
  /\ Absent \notin Version
ASSUME SyncBounds == MaxEdit \in Nat /\ MaxBreak \in Nat

File == Version \union {Absent}
Manifest == [Path -> File]

\* What a sync under way knows: the two trees as it read them, the baseline of
\* the peer and then the common one, the changes left to make, and the current.
Step == {"idle", "scanned", "asked", "listed", "apply", "putting", "fetched", "commit",
         "committed", "record", "taking"}
Sync == [step : Step, local : Manifest, remote : Manifest, common : Manifest,
         todo : SUBSET Path, at : SUBSET Path]

Put == [to : Machine, path : Path, expected : File, new : File]
Commit == [to : Machine, manifest : Manifest]

VARIABLES
  tree,     \* [Machine -> Manifest]
  base,     \* [Machine -> Manifest]: recorded with the peer, saved
  sync,     \* [Session -> Sync]
  late,     \* requests of ended syncs that may still arrive
  agreed,   \* history: [Machine -> [Path -> SUBSET File]], baselines so far
  edits, breaks

vars == <<tree, base, sync, late, agreed, edits, breaks>>

Empty == [p \in Path |-> Absent]
NoSync == [step |-> "idle", local |-> Empty, remote |-> Empty, common |-> Empty,
           todo |-> {}, at |-> {}]

\* Two machines that were just paired.
Init ==
  /\ tree \in [Machine -> Manifest]
  /\ base = [m \in Machine |-> Empty]
  /\ sync = [s \in Session |-> NoSync]
  /\ late = {}
  /\ agreed = [m \in Machine |-> [p \in Path |-> {Absent}]]
  /\ edits = 0
  /\ breaks = 0

\* The version the plan selects: a side that has not changed follows the other.
Selected(x, p) == IF x.local[p] = x.common[p] THEN x.remote[p] ELSE x.local[p]
Merged(x) == [p \in Path |-> Selected(x, p)]

Clash(x) ==
  \E p \in Path : /\ x.local[p] # x.remote[p]
                  /\ x.common[p] \notin {x.local[p], x.remote[p]}

Ends(s)    == sync' = [sync EXCEPT ![s] = NoSync]
Turns(s, x) == sync' = [sync EXCEPT ![s] = x]

\* record
Recorded(m, manifest) ==
  /\ base' = [base EXCEPT ![m] = manifest]
  /\ agreed' = [agreed EXCEPT ![m] = [p \in Path |-> agreed[m][p] \union {manifest[p]}]]

-----------------------------------------------------------------------------
(* sync_with_peer *)

Start(s) ==
  /\ sync[s] = NoSync
  /\ Turns(s, [NoSync EXCEPT !.step = "scanned", !.local = tree[Local[s]]])
  /\ UNCHANGED <<tree, base, late, agreed, edits, breaks>>

\* rpc_list_async reads the baseline of the peer, and then its tree.
Ask(s) ==
  /\ sync[s].step = "scanned"
  /\ Turns(s, [sync[s] EXCEPT !.step = "asked", !.common = base[Remote[s]]])
  /\ UNCHANGED <<tree, base, late, agreed, edits, breaks>>

List(s) ==
  /\ sync[s].step = "asked"
  /\ Turns(s, [sync[s] EXCEPT !.step = "listed", !.remote = tree[Remote[s]]])
  /\ UNCHANGED <<tree, base, late, agreed, edits, breaks>>

\* common_baseline: none if the machines disagree on it and on their trees.
\* Mutant: baselines that differ are a conflict even if the trees do not.
CommonStrict(s) == {c \in {base[Local[s]]} : c = sync[s].common}

Common(s) ==
  {c \in {base[Local[s]], sync[s].local} :
     \/ c = sync[s].common /\ c = base[Local[s]]
     \/ /\ base[Local[s]] # sync[s].common
        /\ sync[s].local = sync[s].remote
        /\ c = sync[s].local}

Planned(s, c) ==
  LET x == [sync[s] EXCEPT !.common = c] IN
  [x EXCEPT !.step = "apply", !.todo = {p \in Path : x.local[p] # x.remote[p]}]

Plan(s) ==
  /\ sync[s].step = "listed"
  /\ \/ \E c \in Common(s) : ~Clash([sync[s] EXCEPT !.common = c]) /\ Turns(s, Planned(s, c))
     \/ (\A c \in Common(s) : Clash([sync[s] EXCEPT !.common = c])) /\ Ends(s)
  /\ UNCHANGED <<tree, base, late, agreed, edits, breaks>>

ToRemote(x, p) == Selected(x, p) = x.local[p]

\* The content to send is read again.
Send(s, p) ==
  /\ sync[s].step = "apply"
  /\ p \in sync[s].todo
  /\ ToRemote(sync[s], p)
  /\ IF tree[Local[s]][p] = Selected(sync[s], p)
     THEN Turns(s, [sync[s] EXCEPT !.step = "putting", !.at = {p}])
     ELSE Ends(s)
  /\ UNCHANGED <<tree, base, late, agreed, edits, breaks>>

\* rpc_get_async, which a deletion does without.
Fetch(s, p) ==
  /\ sync[s].step = "apply"
  /\ p \in sync[s].todo
  /\ ~ToRemote(sync[s], p)
  /\ IF Selected(sync[s], p) \in {Absent, tree[Remote[s]][p]}
     THEN Turns(s, [sync[s] EXCEPT !.step = "fetched", !.at = {p}])
     ELSE Ends(s)
  /\ UNCHANGED <<tree, base, late, agreed, edits, breaks>>

Done(x) == [x EXCEPT !.step = "apply", !.todo = @ \ x.at, !.at = {}]

\* Mutant: the path is not read again before it is replaced.
ApplicableAlways(m, p, expected, new) == TRUE

\* Tree::apply: the path is as expected, or as wanted already.
Applicable(m, p, expected, new) == tree[m][p] \in {expected, new}

Apply(s) ==
  /\ sync[s].step = "fetched"
  /\ \E p \in sync[s].at :
       LET new == Selected(sync[s], p) IN
       IF Applicable(Local[s], p, sync[s].local[p], new)
       THEN tree' = [tree EXCEPT ![Local[s]][p] = new] /\ Turns(s, Done(sync[s]))
       ELSE Ends(s) /\ UNCHANGED tree
  /\ UNCHANGED <<base, late, agreed, edits, breaks>>

\* rpc_put at the peer, which goes by its own baseline.
Accepts(q) == /\ base[q.to][q.path] = q.expected
              /\ Applicable(q.to, q.path, q.expected, q.new)
PutOf(s, p) == [to |-> Remote[s], path |-> p, expected |-> sync[s].remote[p],
                new |-> Selected(sync[s], p)]

ServePut(s) ==
  /\ sync[s].step = "putting"
  /\ \E p \in sync[s].at :
       IF Accepts(PutOf(s, p))
       THEN /\ tree' = [tree EXCEPT ![Remote[s]][p] = Selected(sync[s], p)]
            /\ Turns(s, Done(sync[s]))
       ELSE Ends(s) /\ UNCHANGED tree
  /\ UNCHANGED <<base, late, agreed, edits, breaks>>

Check(s) ==
  /\ sync[s].step = "apply"
  /\ sync[s].todo = {}
  /\ IF tree[Local[s]] = Merged(sync[s]) THEN Turns(s, [sync[s] EXCEPT !.step = "commit"])
                                         ELSE Ends(s)
  /\ UNCHANGED <<tree, base, late, agreed, edits, breaks>>

\* rpc_commit at the peer.
CommitOf(s) == [to |-> Remote[s], manifest |-> Merged(sync[s])]
ServeCommit(s) ==
  /\ sync[s].step = "commit"
  /\ IF tree[Remote[s]] = Merged(sync[s])
     THEN /\ Recorded(Remote[s], Merged(sync[s]))
          /\ Turns(s, [sync[s] EXCEPT !.step = "committed"])
     ELSE Ends(s) /\ UNCHANGED <<base, agreed>>
  /\ UNCHANGED <<tree, late, edits, breaks>>

Recheck(s) ==
  /\ sync[s].step = "committed"
  /\ IF tree[Local[s]] = Merged(sync[s]) THEN Turns(s, [sync[s] EXCEPT !.step = "record"])
                                         ELSE Ends(s)
  /\ UNCHANGED <<tree, base, late, agreed, edits, breaks>>

Record(s) ==
  /\ sync[s].step = "record"
  /\ Recorded(Local[s], Merged(sync[s]))
  /\ Ends(s)
  /\ UNCHANGED <<tree, late, edits, breaks>>

-----------------------------------------------------------------------------
(* take_peer_conflict *)

Conflicting(m, o, p) ==
  /\ tree[m][p] # tree[o][p]
  /\ \/ base[m][p] # base[o][p]
     \/ base[m][p] \notin {tree[m][p], tree[o][p]}

\* The owner inspects the conflicts and takes the version of the peer.
Choose(s, p) ==
  /\ sync[s] = NoSync
  /\ Conflicting(Local[s], Remote[s], p)
  /\ Turns(s, [step |-> "taking", local |-> tree[Local[s]], remote |-> tree[Remote[s]],
               common |-> base[Local[s]], todo |-> {}, at |-> {p}])
  /\ UNCHANGED <<tree, base, late, agreed, edits, breaks>>

Take(s) ==
  /\ sync[s].step = "taking"
  /\ \E p \in sync[s].at :
       LET x == sync[s] IN
       IF /\ base[Local[s]][p] = x.common[p]
          /\ Applicable(Local[s], p, x.local[p], x.remote[p])
       THEN tree' = [tree EXCEPT ![Local[s]][p] = x.remote[p]]
       ELSE UNCHANGED tree
  /\ Ends(s)
  /\ UNCHANGED <<base, late, agreed, edits, breaks>>

-----------------------------------------------------------------------------

\* The owner of a machine, or a program of his, changes, makes or deletes a file.
Edit(m, p, v) ==
  /\ edits < MaxEdit
  /\ edits' = edits + 1
  /\ v # tree[m][p]
  /\ tree' = [tree EXCEPT ![m][p] = v]
  /\ UNCHANGED <<base, sync, late, agreed, breaks>>

\* A sync ends early; its request may still be carried out, or has been.
Requests(s) ==
  CASE sync[s].step = "putting" -> {PutOf(s, p) : p \in sync[s].at}
    [] sync[s].step = "commit"  -> {CommitOf(s)}
    [] OTHER                    -> {}

Break(s) ==
  /\ breaks < MaxBreak
  /\ breaks' = breaks + 1
  /\ sync[s].step # "idle"
  /\ Ends(s)
  /\ late' \in {late, late \union Requests(s)}
  /\ UNCHANGED <<tree, base, agreed, edits>>

LatePut(q) ==
  /\ Accepts(q)
  /\ tree' = [tree EXCEPT ![q.to][q.path] = q.new]
  /\ late' = late \ {q}
  /\ UNCHANGED <<base, sync, agreed, edits, breaks>>

LateCommit(q) ==
  /\ tree[q.to] = q.manifest
  /\ Recorded(q.to, q.manifest)
  /\ late' = late \ {q}
  /\ UNCHANGED <<tree, sync, edits, breaks>>

Working(s) ==
  \/ Ask(s) \/ List(s) \/ Plan(s)
  \/ \E p \in Path : Send(s, p) \/ Fetch(s, p)
  \/ Apply(s) \/ ServePut(s)
  \/ Check(s) \/ ServeCommit(s) \/ Recheck(s) \/ Record(s)
  \/ Take(s)

Next ==
  \/ \E s \in Session : Start(s) \/ Working(s) \/ Break(s)
  \/ \E s \in Session, p \in Path : Choose(s, p)
  \/ \E m \in Machine, p \in Path, v \in File : Edit(m, p, v)
  \/ \E q \in late \cap Put : LatePut(q)
  \/ \E q \in late \cap Commit : LateCommit(q)

SyncSpec == Init /\ [][Next]_vars

=============================================================================
