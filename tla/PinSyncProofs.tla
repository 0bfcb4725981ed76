---------------------------- MODULE PinSyncProofs ----------------------------
(***************************************************************************)
(* Proofs about PinSync, for any paths, versions, number of syncs at once, *)
(* edits and interruptions. What a sync is about to displace was a common  *)
(* baseline when it planned, and what was recorded stays in the history.   *)
(***************************************************************************)
EXTENDS PinSyncProperties, TLAPS

\* The version a planned change displaces.
Displaced(x, p) == IF ToRemote(x, p) THEN x.remote[p] ELSE x.local[p]

\* What a sync knows was recorded: first by the peer, once planned by both.
Known(s, x) ==
  /\ x.step \in {"asked", "listed"} => \A p \in Path : x.common[p] \in agreed[Remote[s]][p]
  /\ x.step \in {"apply", "putting", "fetched"} =>
       \A p \in x.todo \union x.at, o \in Machine : Displaced(x, p) \in agreed[o][p]
  /\ x.step \in {"scanned", "asked", "listed"} => x.at = {}
  /\ x.step = "putting" => \A p \in x.at : ToRemote(x, p)
  /\ x.step = "fetched" => \A p \in x.at : ~ToRemote(x, p)

Grounded ==
  /\ \A m \in Machine, p \in Path : base[m][p] \in agreed[m][p]
  /\ \A s \in Session : Known(s, sync[s])
  /\ \A q \in late \cap Put, o \in Machine : q.expected \in agreed[o][q.path]

SyncInv == SyncTypeOK /\ Grounded

LEMMA MachinesOf ==
  ASSUME NEW s \in Session
  PROVE  Local[s] \in Machine /\ Remote[s] \in Machine /\ Machine = {Local[s], Remote[s]}
  BY SyncShape

LEMMA SelectedTyped ==
  ASSUME NEW x \in Sync, NEW p \in Path
  PROVE  Selected(x, p) \in File /\ Selected(x, p) \in {x.local[p], x.remote[p]}
  BY DEF Selected, Sync, Manifest

LEMMA MergedTyped ==
  ASSUME NEW x \in Sync
  PROVE  Merged(x) \in Manifest
  BY SelectedTyped DEF Merged, Manifest

LEMMA NoSyncTyped == NoSync \in Sync /\ \A s \in Session : Known(s, NoSync)
  BY DEF NoSync, Sync, Step, Empty, Manifest, File, Known

\* A sync moves on with what it knows.
LEMMA TurnKeeps ==
  ASSUME SyncInv, NEW s \in Session, NEW x \in Sync, Known(s, x), Turns(s, x),
         tree' \in [Machine -> Manifest], UNCHANGED <<base, late, agreed>>,
         edits' \in Nat, breaks' \in Nat
  PROVE  SyncInv'
<1>1. sync' = [sync EXCEPT ![s] = x]
  BY DEF Turns
<1>2. SyncTypeOK'
  BY <1>1 DEF SyncInv, SyncTypeOK
<1>3. \A r \in Session : Known(r, sync'[r])
  BY <1>1 DEF SyncInv, SyncTypeOK, Grounded
<1>4. Grounded'
  BY <1>3 DEF SyncInv, Grounded, Known
<1>5. QED
  BY <1>2, <1>4 DEF SyncInv

\* A sync that ends knows nothing.
LEMMA EndKeeps ==
  ASSUME SyncInv, NEW s \in Session, Ends(s),
         tree' \in [Machine -> Manifest], UNCHANGED <<base, late, agreed>>,
         edits' \in Nat, breaks' \in Nat
  PROVE  SyncInv'
  BY NoSyncTyped, TurnKeeps DEF Ends, Turns

\* Recording only adds to the history.
LEMMA RecordKeeps ==
  ASSUME SyncInv, NEW m \in Machine, NEW manifest \in Manifest, Recorded(m, manifest),
         NEW s \in Session, NEW x \in Sync, Known(s, x), sync' \in {sync, [sync EXCEPT ![s] = x]},
         late' \subseteq late, UNCHANGED <<tree, edits, breaks>>
  PROVE  SyncInv'
<1>1. /\ base' = [base EXCEPT ![m] = manifest]
      /\ agreed' = [agreed EXCEPT ![m] = [p \in Path |-> agreed[m][p] \union {manifest[p]}]]
  BY DEF Recorded
<1>2. agreed' \in [Machine -> [Path -> SUBSET File]]
  BY <1>1 DEF SyncInv, SyncTypeOK, Manifest
<1>3. \A o \in Machine, p \in Path : agreed[o][p] \subseteq agreed'[o][p]
  BY <1>1 DEF SyncInv, SyncTypeOK
<1>4. SyncTypeOK'
  BY <1>1, <1>2 DEF SyncInv, SyncTypeOK
<1>5. \A o \in Machine, p \in Path : base'[o][p] \in agreed'[o][p]
  BY <1>1, <1>3 DEF SyncInv, SyncTypeOK, Grounded
<1>6. \A r \in Session : Known(r, sync'[r])
  BY DEF SyncInv, SyncTypeOK, Grounded
<1>7. \A r \in Session : sync'[r].todo \union sync'[r].at \subseteq Path
  BY <1>4 DEF SyncTypeOK, Sync
<1>8. \A r \in Session : Known(r, sync[r])'
  BY <1>3, <1>6, <1>7, MachinesOf DEF Known
<1>9. \A q \in late' \cap Put, o \in Machine : q.expected \in agreed'[o][q.path]
  BY <1>3 DEF SyncInv, Grounded, Put
<1>10. Grounded'
  BY <1>5, <1>8, <1>9 DEF Grounded
<1>11. QED
  BY <1>4, <1>10 DEF SyncInv

\* Reading both trees and the baselines.
LEMMA ReadKeeps ==
  ASSUME SyncInv, NEW s \in Session, Start(s) \/ Ask(s) \/ List(s)
  PROVE  SyncInv'
<1>0. sync[s] \in Sync /\ Known(s, sync[s]) /\ Local[s] \in Machine /\ Remote[s] \in Machine
  BY MachinesOf DEF SyncInv, SyncTypeOK, Grounded
<1>1. CASE Start(s)
  <2> DEFINE x == [NoSync EXCEPT !.step = "scanned", !.local = tree[Local[s]]]
  <2>1. x \in Sync /\ Known(s, x)
    BY <1>0, NoSyncTyped DEF NoSync, Known, Sync, Step, SyncInv, SyncTypeOK
  <2>2. Turns(s, x) /\ UNCHANGED <<tree, base, late, agreed, edits, breaks>>
    BY <1>1 DEF Start
  <2> HIDE DEF x
  <2>3. QED
    BY <2>1, <2>2, TurnKeeps DEF SyncInv, SyncTypeOK
<1>2. CASE Ask(s)
  <2> DEFINE x == [sync[s] EXCEPT !.step = "asked", !.common = base[Remote[s]]]
  <2>1. x \in Sync /\ Known(s, x)
    BY <1>0, <1>2 DEF Ask, Known, Sync, Step, SyncInv, SyncTypeOK, Grounded
  <2>2. Turns(s, x) /\ UNCHANGED <<tree, base, late, agreed, edits, breaks>>
    BY <1>2 DEF Ask
  <2> HIDE DEF x
  <2>3. QED
    BY <2>1, <2>2, TurnKeeps DEF SyncInv, SyncTypeOK
<1>3. CASE List(s)
  <2> DEFINE x == [sync[s] EXCEPT !.step = "listed", !.remote = tree[Remote[s]]]
  <2>1. x \in Sync /\ Known(s, x)
    BY <1>0, <1>3 DEF List, Known, Sync, Step, SyncInv, SyncTypeOK
  <2>2. Turns(s, x) /\ UNCHANGED <<tree, base, late, agreed, edits, breaks>>
    BY <1>3 DEF List
  <2> HIDE DEF x
  <2>3. QED
    BY <2>1, <2>2, TurnKeeps DEF SyncInv, SyncTypeOK
<1>4. QED
  BY <1>1, <1>2, <1>3

\* The plan displaces, on either side, what both have recorded.
LEMMA PlanKeeps ==
  ASSUME SyncInv, NEW s \in Session, Plan(s)
  PROVE  SyncInv'
<1>0. /\ sync[s] \in Sync /\ Known(s, sync[s]) /\ sync[s].step = "listed"
      /\ UNCHANGED <<tree, base, late, agreed, edits, breaks>>
  BY DEF Plan, SyncInv, SyncTypeOK, Grounded
<1>1. ASSUME NEW c \in Common(s), ~Clash([sync[s] EXCEPT !.common = c]),
             Turns(s, Planned(s, c))
      PROVE  SyncInv'
  <2> DEFINE x == Planned(s, c)
  <2>1. c \in Manifest
    BY <1>0, <1>1, MachinesOf DEF Common, Sync, SyncInv, SyncTypeOK
  <2>2. /\ x \in Sync
        /\ x.step = "apply" /\ x.local = sync[s].local /\ x.remote = sync[s].remote
        /\ x.common = c /\ x.at = sync[s].at
        /\ x.todo = {p \in Path : sync[s].local[p] # sync[s].remote[p]}
    BY <1>0, <2>1 DEF Planned, Sync, Step
  <2>3. ASSUME NEW p \in x.todo, NEW o \in Machine
        PROVE  Displaced(x, p) \in agreed[o][p]
    <3>1. p \in Path /\ x.local[p] # x.remote[p] /\ c[p] \in {x.local[p], x.remote[p]}
      BY <1>0, <1>1, <2>1, <2>2, <2>3 DEF Clash, Sync
    <3>2. Displaced(x, p) = c[p]
      BY <2>2, <3>1 DEF Displaced, ToRemote, Selected
    <3>3. c = base[Local[s]] /\ c = sync[s].common
      <4>1. sync[s].local # sync[s].remote
        BY <2>2, <3>1
      <4>2. QED
        BY <1>1, <4>1 DEF Common
    <3>4. c[p] \in agreed[Remote[s]][p] /\ c[p] \in agreed[Local[s]][p]
      BY <1>0, <3>1, <3>3, MachinesOf DEF Known, SyncInv, Grounded
    <3>5. QED
      BY <3>2, <3>4, MachinesOf
  <2>4. sync[s].at = {}
    BY <1>0 DEF SyncInv, Grounded, Known
  <2>5. Known(s, x) /\ Turns(s, x)
    BY <1>1, <2>2, <2>3, <2>4 DEF Known
  <2> HIDE DEF x
  <2>6. QED
    BY <1>0, <2>2, <2>5, TurnKeeps DEF SyncInv, SyncTypeOK
<1>2. CASE Ends(s)
  BY <1>0, <1>2, EndKeeps DEF SyncInv, SyncTypeOK
<1>3. QED
  BY <1>1, <1>2 DEF Plan

\* A change is sent, or its content fetched.
LEMMA ChangeKeeps ==
  ASSUME SyncInv, NEW s \in Session, NEW p \in Path, Send(s, p) \/ Fetch(s, p)
  PROVE  SyncInv'
<1>0. /\ sync[s] \in Sync /\ Known(s, sync[s]) /\ sync[s].step = "apply" /\ p \in sync[s].todo
      /\ UNCHANGED <<tree, base, late, agreed, edits, breaks>>
  BY DEF Send, Fetch, SyncInv, SyncTypeOK, Grounded
<1>1. ASSUME NEW to \in {"putting", "fetched"}, (to = "putting") = ToRemote(sync[s], p),
             Turns(s, [sync[s] EXCEPT !.step = to, !.at = {p}])
      PROVE  SyncInv'
  <2> DEFINE x == [sync[s] EXCEPT !.step = to, !.at = {p}]
  <2>1. /\ x \in Sync /\ x.step = to /\ x.at = {p} /\ x.todo = sync[s].todo
        /\ x.local = sync[s].local /\ x.remote = sync[s].remote /\ x.common = sync[s].common
    BY <1>0 DEF Sync, Step
  <2> HIDE DEF x
  <2>2. \A q \in Path : /\ Displaced(x, q) = Displaced(sync[s], q)
                        /\ ToRemote(x, q) = ToRemote(sync[s], q)
    BY <2>1 DEF Displaced, ToRemote, Selected
  <2>3. x.todo \union x.at \subseteq sync[s].todo /\ sync[s].todo \subseteq Path
    BY <1>0, <2>1 DEF Sync
  <2>4. \A q \in x.todo \union x.at, o \in Machine : Displaced(x, q) \in agreed[o][q]
    BY <1>0, <2>2, <2>3 DEF Known
  <2>5. Known(s, x)
    BY <1>1, <2>1, <2>2, <2>4 DEF Known
  <2>6. Turns(s, x)
    BY <1>1 DEF x
  <2>7. QED
    BY <1>0, <2>1, <2>5, <2>6, TurnKeeps DEF SyncInv, SyncTypeOK
<1>2. CASE Ends(s)
  BY <1>0, <1>2, EndKeeps DEF SyncInv, SyncTypeOK
<1>3. CASE Send(s, p)
  <2>1. \/ Turns(s, [sync[s] EXCEPT !.step = "putting", !.at = {p}]) /\ ToRemote(sync[s], p)
        \/ Ends(s)
    BY <1>3 DEF Send
  <2>2. QED
    BY <1>1, <1>2, <2>1
<1>4. CASE Fetch(s, p)
  <2>1. \/ Turns(s, [sync[s] EXCEPT !.step = "fetched", !.at = {p}]) /\ ~ToRemote(sync[s], p)
        \/ Ends(s)
    BY <1>4 DEF Fetch
  <2>2. ToRemote(sync[s], p) \in BOOLEAN
    BY DEF ToRemote
  <2>3. QED
    BY <1>1, <1>2, <2>1, <2>2
<1>5. QED
  BY <1>3, <1>4

\* A change that is done leaves the others planned.
LEMMA DoneKnown ==
  ASSUME NEW s \in Session, NEW x \in Sync, Known(s, x), x.step \in {"putting", "fetched"}
  PROVE  Done(x) \in Sync /\ Known(s, Done(x))
<1> DEFINE y == Done(x)
<1>1. /\ y \in Sync /\ y.step = "apply" /\ y.todo = x.todo \ x.at /\ y.at = {}
      /\ y.local = x.local /\ y.remote = x.remote /\ y.common = x.common
  BY DEF Done, Sync, Step
<1> HIDE DEF y
<1>2. \A q \in y.todo : q \in x.todo /\ Displaced(y, q) = Displaced(x, q)
  BY <1>1 DEF Displaced, ToRemote, Selected
<1>3. Known(s, y)
  BY <1>1, <1>2 DEF Known
<1>4. QED
  BY <1>1, <1>3 DEF y

\* Applied here, accepted by the peer, or taken by the owner: a path is replaced.
LEMMA ReplaceKeeps ==
  ASSUME SyncInv, NEW s \in Session, Apply(s) \/ ServePut(s) \/ Take(s)
  PROVE  SyncInv'
<1>0. /\ sync[s] \in Sync /\ Known(s, sync[s])
      /\ sync[s].step \in {"putting", "fetched", "taking"}
      /\ UNCHANGED <<base, late, agreed, edits, breaks>>
  BY DEF Apply, ServePut, Take, SyncInv, SyncTypeOK, Grounded
<1>1. \A p \in sync[s].at : /\ p \in Path
                            /\ Selected(sync[s], p) \in File
                            /\ sync[s].remote[p] \in File
  BY <1>0, SelectedTyped DEF Sync, Manifest
<1>2. tree' \in [Machine -> Manifest]
  <2>1. ASSUME NEW m \in Machine, NEW p \in Path, NEW v \in File
        PROVE  [tree EXCEPT ![m][p] = v] \in [Machine -> Manifest]
    BY DEF SyncInv, SyncTypeOK, Manifest
  <2>2. CASE UNCHANGED tree
    BY <2>2 DEF SyncInv, SyncTypeOK
  <2>3. CASE Apply(s)
    BY <1>1, <2>1, <2>2, <2>3, MachinesOf DEF Apply
  <2>4. CASE ServePut(s)
    BY <1>1, <2>1, <2>2, <2>4, MachinesOf DEF ServePut
  <2>5. CASE Take(s)
    BY <1>1, <2>1, <2>2, <2>5, MachinesOf DEF Take
  <2>6. QED
    BY <2>3, <2>4, <2>5
<1>3. CASE Ends(s)
  BY <1>0, <1>2, <1>3, EndKeeps DEF SyncInv, SyncTypeOK
<1>4. CASE Turns(s, Done(sync[s])) /\ sync[s].step \in {"putting", "fetched"}
  BY <1>0, <1>2, <1>4, DoneKnown, TurnKeeps DEF SyncInv, SyncTypeOK
<1>5. QED
  BY <1>3, <1>4 DEF Apply, ServePut, Take

\* The end of a sync: both trees are read again and the outcome is recorded.
LEMMA CommitKeeps ==
  ASSUME SyncInv, NEW s \in Session, Check(s) \/ ServeCommit(s) \/ Recheck(s) \/ Record(s)
  PROVE  SyncInv'
<1>0. /\ sync[s] \in Sync /\ Known(s, sync[s]) /\ UNCHANGED <<tree, late, edits, breaks>>
      /\ Local[s] \in Machine /\ Remote[s] \in Machine
  BY MachinesOf
  DEF Check, ServeCommit, Recheck, Record, SyncInv, SyncTypeOK, Grounded
<1>1. ASSUME NEW to \in {"commit", "committed", "record"}
      PROVE  /\ [sync[s] EXCEPT !.step = to] \in Sync
             /\ Known(s, [sync[s] EXCEPT !.step = to])
  BY <1>0 DEF Sync, Step, Known
<1>2. CASE Ends(s) /\ UNCHANGED <<base, agreed>>
  BY <1>0, <1>2, EndKeeps DEF SyncInv, SyncTypeOK
<1>3. CASE Check(s)
  BY <1>0, <1>1, <1>2, <1>3, TurnKeeps DEF Check, SyncInv, SyncTypeOK
<1>4. CASE Recheck(s)
  BY <1>0, <1>1, <1>2, <1>4, TurnKeeps DEF Recheck, SyncInv, SyncTypeOK
<1>5. CASE ServeCommit(s)
  BY <1>0, <1>1, <1>2, <1>5, MergedTyped, RecordKeeps DEF ServeCommit, Turns
<1>6. CASE Record(s)
  BY <1>0, <1>6, NoSyncTyped, MergedTyped, RecordKeeps DEF Record, Ends
<1>7. QED
  BY <1>3, <1>4, <1>5, <1>6

\* The owners edit and choose.
LEMMA OwnerKeeps ==
  ASSUME SyncInv,
         \/ \E s \in Session, p \in Path : Choose(s, p)
         \/ \E m \in Machine, p \in Path, v \in File : Edit(m, p, v)
  PROVE  SyncInv'
<1>1. ASSUME NEW s \in Session, NEW p \in Path, Choose(s, p)
      PROVE  SyncInv'
  <2> DEFINE x == [step |-> "taking", local |-> tree[Local[s]], remote |-> tree[Remote[s]],
                   common |-> base[Local[s]], todo |-> {}, at |-> {p}]
  <2>1. x \in Sync /\ Known(s, x)
    BY <1>1, MachinesOf DEF Sync, Step, Known, SyncInv, SyncTypeOK
  <2>2. Turns(s, x) /\ UNCHANGED <<tree, base, late, agreed, edits, breaks>>
    BY <1>1 DEF Choose
  <2> HIDE DEF x
  <2>3. QED
    BY <2>1, <2>2, TurnKeeps DEF SyncInv, SyncTypeOK
<1>2. ASSUME NEW m \in Machine, NEW p \in Path, NEW v \in File, Edit(m, p, v)
      PROVE  SyncInv'
  <2>1. /\ tree' = [tree EXCEPT ![m][p] = v] /\ edits' = edits + 1
        /\ UNCHANGED <<base, sync, late, agreed, breaks>>
    BY <1>2 DEF Edit
  <2>2. SyncTypeOK'
    BY <2>1 DEF SyncInv, SyncTypeOK, Manifest
  <2>3. Grounded'
    BY <2>1 DEF SyncInv, Grounded, Known
  <2>4. QED
    BY <2>2, <2>3 DEF SyncInv
<1>3. QED
  BY <1>1, <1>2

\* A request that is left over expects what was recorded by both.
LEMMA BreakKeeps ==
  ASSUME SyncInv, NEW s \in Session, Break(s)
  PROVE  SyncInv'
<1>1. /\ sync' = [sync EXCEPT ![s] = NoSync] /\ breaks' = breaks + 1
      /\ late' \in {late, late \union Requests(s)}
      /\ UNCHANGED <<tree, base, agreed, edits>>
  BY DEF Break, Ends
<1>2. /\ sync[s] \in Sync /\ Known(s, sync[s])
      /\ Local[s] \in Machine /\ Remote[s] \in Machine
  BY MachinesOf DEF SyncInv, SyncTypeOK, Grounded
<1>3. ASSUME NEW q \in Requests(s)
      PROVE  /\ q \in Put \union Commit
             /\ q \in Put => \A o \in Machine : q.expected \in agreed[o][q.path]
  <2>1. CASE sync[s].step = "putting"
    <3>1. PICK p \in sync[s].at : q = PutOf(s, p)
      BY <1>3, <2>1 DEF Requests
    <3>2. p \in Path /\ sync[s].remote[p] \in File /\ Selected(sync[s], p) \in File
      BY <1>2, SelectedTyped DEF Sync, Manifest
    <3>3. q \in Put /\ q.expected = sync[s].remote[p] /\ q.path = p
      BY <1>2, <3>1, <3>2 DEF PutOf, Put
    <3>4. Displaced(sync[s], p) = sync[s].remote[p]
      BY <1>2, <2>1 DEF Known, Displaced
    <3>5. QED
      BY <1>2, <2>1, <3>3, <3>4 DEF Known
  <2>2. CASE sync[s].step = "commit"
    <3>1. q = CommitOf(s) /\ q \in Commit
      BY <1>2, <1>3, <2>2, MergedTyped DEF Requests, CommitOf, Commit
    <3>2. q \notin Put
      BY <3>1 DEF CommitOf, Put
    <3>3. QED
      BY <3>1, <3>2
  <2>3. QED
    BY <1>3, <2>1, <2>2 DEF Requests
<1>4. late' \subseteq Put \union Commit
  BY <1>1, <1>3 DEF SyncInv, SyncTypeOK
<1>5. SyncTypeOK'
  BY <1>1, <1>4, NoSyncTyped DEF SyncInv, SyncTypeOK
<1>6. \A r \in Session : Known(r, sync'[r])
  BY <1>1, NoSyncTyped DEF SyncInv, SyncTypeOK, Grounded
<1>7. \A q \in late' \cap Put, o \in Machine : q.expected \in agreed[o][q.path]
  BY <1>1, <1>3 DEF SyncInv, Grounded
<1>8. Grounded'
  BY <1>1, <1>6, <1>7 DEF SyncInv, Grounded, Known
<1>9. QED
  BY <1>5, <1>8 DEF SyncInv

\* Late requests are carried out, or not, like others.
LEMMA LateKeeps ==
  ASSUME SyncInv,
         \/ \E q \in late \cap Put : LatePut(q)
         \/ \E q \in late \cap Commit : LateCommit(q)
  PROVE  SyncInv'
<1>1. ASSUME NEW q \in late \cap Put, LatePut(q)
      PROVE  SyncInv'
  <2>1. /\ tree' = [tree EXCEPT ![q.to][q.path] = q.new] /\ late' \subseteq late
        /\ UNCHANGED <<base, sync, agreed, edits, breaks>>
    BY <1>1 DEF LatePut
  <2>2. q.to \in Machine /\ q.path \in Path /\ q.new \in File
    BY <1>1 DEF Put
  <2>3. SyncTypeOK'
    BY <2>1, <2>2 DEF SyncInv, SyncTypeOK, Manifest
  <2>4. Grounded'
    BY <2>1 DEF SyncInv, Grounded, Known
  <2>5. QED
    BY <2>3, <2>4 DEF SyncInv
<1>2. ASSUME NEW q \in late \cap Commit, LateCommit(q)
      PROVE  SyncInv'
  <2>1. /\ q.to \in Machine /\ q.manifest \in Manifest /\ Recorded(q.to, q.manifest)
        /\ late' \subseteq late /\ UNCHANGED <<tree, sync, edits, breaks>>
    BY <1>2 DEF LateCommit, Commit
  <2>2. CASE Session = {}
    <3>1. \A m \in Machine, p \in Path : base'[m][p] \in agreed'[m][p]
      BY <2>1 DEF Recorded, SyncInv, SyncTypeOK, Grounded
    <3>2. \A m \in Machine, p \in Path : agreed[m][p] \subseteq agreed'[m][p]
      BY <2>1 DEF Recorded, SyncInv, SyncTypeOK
    <3>3. \A r \in late' \cap Put, o \in Machine : r.expected \in agreed'[o][r.path]
      BY <2>1, <3>2 DEF SyncInv, Grounded, Put
    <3>4. Grounded'
      BY <2>2, <3>1, <3>3 DEF Grounded
    <3>5. SyncTypeOK'
      BY <2>1 DEF Recorded, SyncInv, SyncTypeOK, Manifest
    <3>6. QED
      BY <3>4, <3>5 DEF SyncInv
  <2>3. ASSUME NEW s \in Session
        PROVE  SyncInv'
    <3>1. sync[s] \in Sync /\ Known(s, sync[s])
      BY DEF SyncInv, SyncTypeOK, Grounded
    <3>2. QED
      BY <2>1, <3>1, RecordKeeps
  <2>4. QED
    BY <2>2, <2>3
<1>3. QED
  BY <1>1, <1>2

LEMMA SyncInductive == SyncInv /\ [Next]_vars => SyncInv'
<1> SUFFICES ASSUME SyncInv, [Next]_vars PROVE SyncInv'
  OBVIOUS
<1>1. ASSUME NEW s \in Session, Start(s) \/ Working(s) \/ Break(s) PROVE SyncInv'
  BY <1>1, ReadKeeps, PlanKeeps, ChangeKeeps, ReplaceKeeps, CommitKeeps, BreakKeeps
  DEF Working
<1>2. CASE UNCHANGED vars
  BY <1>2 DEF vars, SyncInv, SyncTypeOK, Grounded, Known
<1>3. QED
  BY <1>1, <1>2, OwnerKeeps, LateKeeps DEF Next

LEMMA SyncInvariant == SyncSpec => []SyncInv
<1>1. Init => SyncInv
  <2> SUFFICES ASSUME Init PROVE SyncInv
    OBVIOUS
  <2>1. Empty \in Manifest
    BY DEF Empty, Manifest, File
  <2>2. SyncTypeOK
    BY <2>1, NoSyncTyped DEF Init, SyncTypeOK, File
  <2>3. Grounded
    BY NoSyncTyped DEF Init, Grounded, Empty
  <2>4. QED
    BY <2>2, <2>3 DEF SyncInv
<1>2. QED
  BY <1>1, SyncInductive, PTL DEF SyncSpec

-----------------------------------------------------------------------------

\* Every reachable state of the trees, the baselines and the syncs is well typed.
THEOREM SyncTypeCorrect == SyncSpec => []SyncTypeOK
<1>1. SyncInv => SyncTypeOK
  BY DEF SyncInv
<1>2. QED
  BY <1>1, SyncInvariant, PTL

\* sync_with_peer and rpc_put displace a common baseline and nothing else, with any
\* number of syncs at once, broken off or late.
THEOREM EditsKept == SyncSpec => EditsSurvive
<1>1. SyncInv /\ [Next]_vars
        => [\A m, o \in Machine, p \in Path : Replaced(m, p) => tree[m][p] \in agreed[o][p]]_vars
  <2> SUFFICES ASSUME SyncInv, [Next]_vars, NEW m \in Machine, NEW o \in Machine, NEW p \in Path,
                      Replaced(m, p)
               PROVE  tree[m][p] \in agreed[o][p]
    OBVIOUS
  <2>1. tree'[m][p] # tree[m][p] /\ edits' = edits /\ ~\E s \in Session : Take(s)
    BY DEF Replaced
  <2>2. tree \in [Machine -> Manifest] /\ edits \in Nat
    BY DEF SyncInv, SyncTypeOK
  <2>3. ASSUME NEW s \in Session, Apply(s)
        PROVE  tree[m][p] \in agreed[o][p]
    <3>1. PICK q \in sync[s].at :
            /\ Applicable(Local[s], q, sync[s].local[q], Selected(sync[s], q))
            /\ tree' = [tree EXCEPT ![Local[s]][q] = Selected(sync[s], q)]
      BY <2>1, <2>3 DEF Apply
    <3>2. sync[s].step = "fetched" /\ Known(s, sync[s])
      BY <2>3 DEF Apply, SyncInv, Grounded
    <3>3. Displaced(sync[s], q) = sync[s].local[q] /\ sync[s].local[q] \in agreed[o][q]
      BY <3>2 DEF Known, Displaced
    <3>4. m = Local[s] /\ p = q /\ tree'[m][p] = Selected(sync[s], q)
      BY <2>1, <2>2, <3>1, MachinesOf DEF Manifest
    <3>5. QED
      BY <2>1, <3>1, <3>3, <3>4 DEF Applicable
  <2>4. ASSUME NEW s \in Session, ServePut(s)
        PROVE  tree[m][p] \in agreed[o][p]
    <3>1. PICK q \in sync[s].at :
            /\ Accepts(PutOf(s, q))
            /\ tree' = [tree EXCEPT ![Remote[s]][q] = Selected(sync[s], q)]
      BY <2>1, <2>4 DEF ServePut
    <3>2. sync[s].step = "putting" /\ Known(s, sync[s])
      BY <2>4 DEF ServePut, SyncInv, Grounded
    <3>3. Displaced(sync[s], q) = sync[s].remote[q] /\ sync[s].remote[q] \in agreed[o][q]
      BY <3>2 DEF Known, Displaced
    <3>4. m = Remote[s] /\ p = q /\ tree'[m][p] = Selected(sync[s], q)
      BY <2>1, <2>2, <3>1, MachinesOf DEF Manifest
    <3>5. tree[m][p] \in {sync[s].remote[q], Selected(sync[s], q)}
      BY <3>1, <3>4 DEF Accepts, PutOf, Applicable
    <3>6. QED
      BY <2>1, <3>3, <3>4, <3>5
  <2>5. ASSUME NEW q \in late \cap Put, LatePut(q)
        PROVE  tree[m][p] \in agreed[o][p]
    <3>1. m = q.to /\ p = q.path /\ tree'[m][p] = q.new
      BY <2>1, <2>2, <2>5 DEF LatePut, Put, Manifest
    <3>2. tree[m][p] \in {q.expected, q.new}
      BY <2>5, <3>1 DEF LatePut, Accepts, Applicable
    <3>3. QED
      BY <2>1, <2>5, <3>1, <3>2 DEF SyncInv, Grounded
  <2>6. ~\E n \in Machine, q \in Path, v \in File : Edit(n, q, v)
    BY <2>1, <2>2 DEF Edit
  <2>7. ~UNCHANGED tree
    BY <2>1
  <2>8. \A s \in Session : ~Start(s) /\ ~Ask(s) /\ ~List(s) /\ ~Plan(s) /\ ~Check(s)
                           /\ ~ServeCommit(s) /\ ~Recheck(s) /\ ~Record(s) /\ ~Break(s)
    BY <2>7 DEF Start, Ask, List, Plan, Check, ServeCommit, Recheck, Record, Break
  <2>9. \A s \in Session, q \in Path : ~Send(s, q) /\ ~Fetch(s, q) /\ ~Choose(s, q)
    BY <2>7 DEF Send, Fetch, Choose
  <2>10. (\A q \in late : ~LateCommit(q)) /\ ~UNCHANGED vars
    BY <2>7 DEF LateCommit, vars
  <2>11. QED
    BY <2>1, <2>3, <2>4, <2>5, <2>6, <2>8, <2>9, <2>10 DEF Next, Working
<1>2. QED
  BY <1>1, SyncInvariant, PTL DEF SyncSpec, EditsSurvive

=============================================================================
