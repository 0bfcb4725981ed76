----------------------------- MODULE PinJournal -----------------------------
(***************************************************************************)
(* Publication of one file of a pin tree and its recovery journal: Clix    *)
(* replaces, creates or deletes the file through .clix-recovery, a step at *)
(* a time, while programs of the owner go on writing to it, also through   *)
(* descriptors opened before it was replaced. The process may be killed    *)
(* between any two steps; the file system stays. What is left over is for  *)
(* the owner, who inspects an entry and decides with the token he got.     *)
(*                                                                         *)
(* Other paths meet this one only in the journal they share. Inode numbers *)
(* and times, which make a token stricter, are left out. Operations hold   *)
(* the journal's lock; a killed process lets it go.                        *)
(***************************************************************************)
EXTENDS Naturals, FiniteSets

CONSTANTS
  Name,      \* names in .clix-recovery: receipt n.json and version n
  Version,   \* contents with their modes
  Absent,    \* no file
  Token,     \* inspection tokens
  NoToken,
  Reserve,   \* names a publication leaves free
  MaxEdit,   \* bound: changes by the owner's programs
  MaxKill    \* bound: kills of the process

ASSUME PinShape ==
  /\ Absent \notin Version
  /\ NoToken \notin Token
  /\ Name \cap {"live", "gone", "none"} = {}
ASSUME PinBounds == Reserve \in Nat /\ MaxEdit \in Nat /\ MaxKill \in Nat

File == Version \union {Absent}

\* A receipt: the version it expects under its name, and the token of a disposal.
State == {"none", "pending", "retained", "resolved", "discarding"}
Receipt == [state : State, expected : File, version : Name, token : Token \union {NoToken}]
NoReceipt(n) == [state |-> "none", expected |-> Absent, version |-> n, token |-> NoToken]

\* An operation under the lock: its step, the receipt it works on, what it puts,
\* the version it has seen, and the receipt a restoration is to close.
Step == {"idle", "stage", "swap", "settle", "compare", "dispose", "erase", "close"}
Work == [step : Step, name : Name \union {"none"}, new : File, seen : File,
         review : Name \union {"none"}]
Idle == [step |-> "idle", name |-> "none", new |-> Absent, seen |-> Absent, review |-> "none"]

\* What the owner has inspected last.
View == [name : Name, receipt : Receipt, live : File, file : File, token : Token]
NoView == [name |-> "none", token |-> NoToken]

VARIABLES
  live,     \* the file of the tree
  held,     \* where the file is that a program of the owner has open
  kept,     \* [Name -> File]: versions in .clix-recovery
  receipt,  \* [Name -> Receipt]
  view,     \* the owner's token and what it stands for
  op,       \* the operation under way
  edits,    \* changes by the owner's programs so far
  kills     \* kills so far

vars == <<live, held, kept, receipt, view, op, edits, kills>>

Init ==
  /\ live \in File
  /\ held = "gone"
  /\ kept = [n \in Name |-> Absent]
  /\ receipt = [n \in Name |-> NoReceipt(n)]
  /\ view = NoView
  /\ op = Idle
  /\ edits = 0
  /\ kills = 0

Recorded(n)   == receipt[n].state # "none"
Referenced(n) == \E m \in Name : Recorded(m) /\ receipt[m].version = n
Free(n) == kept[n] = Absent /\ ~Recorded(n) /\ ~Referenced(n) /\ view.name # n

\* Names and tokens are drawn at random: one that is free stands for them all.
Any(S) == IF S = {} THEN {} ELSE {CHOOSE x \in S : TRUE}
NewName  == Any({n \in Name : Free(n)})
NewToken == Any({t \in Token : \A n \in Name : receipt[n].token # t})

\* check_recovery_except: everything is settled and as it was left.
Sound(n) ==
  /\ Recorded(n) => /\ receipt[n].state \in {"retained", "resolved"}
                    /\ kept[receipt[n].version] = receipt[n].expected
  /\ kept[n] # Absent => Referenced(n)
SoundBut(ignored) == \A n \in Name \ ignored : Sound(n)

-----------------------------------------------------------------------------
(* Programs of the owner *)

Edit == edits < MaxEdit /\ edits' = edits + 1

Open ==
  /\ live # Absent
  /\ held' = "live"
  /\ UNCHANGED <<live, kept, receipt, view, op, edits, kills>>

\* Writes through the open descriptor, wherever its file is now.
Write(v) ==
  /\ Edit
  /\ held # "gone"
  /\ IF held = "live" THEN live' = v /\ UNCHANGED kept
                      ELSE kept' = [kept EXCEPT ![held] = v] /\ UNCHANGED live
  /\ UNCHANGED <<held, receipt, view, op, kills>>

\* Puts a new file under the path, or deletes it.
Replace(v) ==
  /\ Edit
  /\ live' = v
  /\ held' = IF held = "live" THEN "gone" ELSE held
  /\ UNCHANGED <<kept, receipt, view, op, kills>>

-----------------------------------------------------------------------------
(* Tree::apply_locked *)

\* admit_recovery
HasRoom == Cardinality({n \in Name : Free(n)}) > Reserve

\* The live version is as expected; the intention is written down first.
Journal(n, new, review, seen) ==
  /\ HasRoom
  /\ new # live
  /\ receipt' = [receipt EXCEPT ![n] = [state |-> "pending", expected |-> live,
                                        version |-> n, token |-> NoToken]]
  /\ op' = [step |-> IF new = Absent THEN "swap" ELSE "stage",
            name |-> n, new |-> new, seen |-> seen, review |-> review]
  /\ UNCHANGED <<live, held, kept, view, edits, kills>>

Publish(new) ==
  /\ op = Idle
  /\ SoundBut({})
  /\ \E n \in NewName : Journal(n, new, "none", Absent)

Stage ==
  /\ op.step = "stage"
  /\ kept' = [kept EXCEPT ![op.name] = op.new]
  /\ op' = [op EXCEPT !.step = "swap"]
  /\ UNCHANGED <<live, held, receipt, view, edits, kills>>

\* Where an open file is after the renames.
Moved(n) == CASE held = "live" -> n
              [] held = n      -> "live"
              [] OTHER         -> held

\* Mutant: renames over whatever is there.
SwapOver ==
  /\ op.step = "swap"
  /\ live' = kept[op.name]
  /\ kept' = [kept EXCEPT ![op.name] = IF receipt[op.name].expected = Absent THEN Absent
                                       ELSE live]
  /\ held' = Moved(op.name)
  /\ op' = [op EXCEPT !.step = "settle"]
  /\ UNCHANGED <<receipt, view, edits, kills>>

\* RENAME_EXCHANGE for a replacement, RENAME_NOREPLACE for a creation and for a
\* deletion: each fails if the file has come or gone since it was read.
Swap ==
  /\ op.step = "swap"
  /\ IF (live = Absent) = (receipt[op.name].expected = Absent)
     THEN /\ live' = kept[op.name]
          /\ kept' = [kept EXCEPT ![op.name] = live]
          /\ held' = Moved(op.name)
          /\ op' = [op EXCEPT !.step = "settle"]
     ELSE /\ op' = Idle
          /\ UNCHANGED <<live, kept, held>>
  /\ UNCHANGED <<receipt, view, edits, kills>>

\* The end of a publication: of a synchronization, or within a restoration.
Finished == IF op.review = "none" THEN Idle ELSE [op EXCEPT !.step = "close"]

\* The displaced version is the expected one, or the owner has to review it. A
\* creation displaces nothing and takes its receipt back.
Settle ==
  LET n == op.name IN
  /\ op.step = "settle"
  /\ IF receipt[n].expected = Absent
     THEN /\ receipt' = [receipt EXCEPT ![n].state = "resolved"]
          /\ op' = [op EXCEPT !.step = "erase"]
     ELSE IF kept[n] = receipt[n].expected
     THEN /\ receipt' = [receipt EXCEPT ![n].state = "retained"]
          /\ op' = Finished
     ELSE op' = Idle /\ UNCHANGED receipt
  /\ UNCHANGED <<live, held, kept, view, edits, kills>>

Erase ==
  /\ op.step = "erase"
  /\ receipt' = [receipt EXCEPT ![op.name] = NoReceipt(op.name)]
  /\ op' = Finished
  /\ UNCHANGED <<live, held, kept, view, edits, kills>>

-----------------------------------------------------------------------------
(* recovery_inspect, recovery_resolve and recovery_discard *)

\* An artifact has no path, and neither has the receipt of its disposal.
HasPath(n) == Recorded(n) /\ receipt[n].version = n
Inspectable(n) == Recorded(n) \/ (kept[n] # Absent /\ ~Referenced(n))
Snapshot(n, t) ==
  [name |-> n, receipt |-> receipt[n], live |-> IF HasPath(n) THEN live ELSE Absent,
   file |-> kept[receipt[n].version], token |-> t]

Inspect(n) ==
  /\ op = Idle
  /\ Inspectable(n)
  /\ \E t \in NewToken : view' = Snapshot(n, t)
  /\ UNCHANGED <<live, held, kept, receipt, op, edits, kills>>

\* Nothing of what the token stands for has changed.
Current ==
  /\ view # NoView
  /\ Inspectable(view.name)
  /\ view = Snapshot(view.name, view.token)

Reviewable == receipt[view.name].state \in {"pending", "retained", "resolved"}

Closed(n) ==
  [receipt EXCEPT ![n].state = "resolved", ![n].expected = kept[receipt[n].version]]

\* Mutant: acknowledges without recording the version that was inspected.
KeepLiveAsIs ==
  /\ op = Idle
  /\ Current
  /\ Reviewable
  /\ receipt' = [receipt EXCEPT ![view.name].state = "resolved"]
  /\ UNCHANGED <<live, held, kept, view, op, edits, kills>>

KeepLive ==
  /\ op = Idle
  /\ Current
  /\ Reviewable
  /\ receipt' = Closed(view.name)
  /\ UNCHANGED <<live, held, kept, view, op, edits, kills>>

\* The saved bytes are published under a receipt of their own, unless they are
\* in the tree already.
Restore ==
  /\ op = Idle
  /\ Current
  /\ Reviewable
  /\ view.file # Absent
  /\ SoundBut({view.name})
  /\ \/ /\ live = view.file
        /\ op' = [step |-> "close", name |-> "none", new |-> Absent, seen |-> view.file,
                  review |-> view.name]
        /\ UNCHANGED <<live, held, kept, receipt, view, edits, kills>>
     \/ \E n \in NewName : Journal(n, view.file, view.name, view.file)

Close ==
  /\ op.step = "close"
  /\ receipt' = IF kept[receipt[op.review].version] = op.seen THEN Closed(op.review)
                ELSE receipt
  /\ op' = Idle
  /\ UNCHANGED <<live, held, kept, view, edits, kills>>

\* A disposal that was interrupted goes on under the token it was ordered with.
Resumed == /\ view # NoView
           /\ receipt[view.name].state = "discarding"
           /\ receipt[view.name].token = view.token

\* Mutant: resumes whatever the retained version is by now.
DiscardAny ==
  LET v == receipt[view.name].version IN
  /\ op = Idle
  /\ Current \/ Resumed
  /\ receipt[view.name].state # "pending"
  /\ \E n \in IF Recorded(view.name) THEN {view.name} ELSE NewName :
       /\ receipt' = [receipt EXCEPT ![n] = [state |-> "discarding", expected |-> kept[v],
                                             version |-> v, token |-> view.token]]
       /\ op' = [Idle EXCEPT !.step = "compare", !.name = n, !.seen = kept[v]]
  /\ UNCHANGED <<live, held, kept, view, edits, kills>>

Discard ==
  LET v == receipt[view.name].version IN
  /\ op = Idle
  /\ \/ Current
     \/ Resumed /\ kept[v] \in {Absent, receipt[view.name].expected}
  /\ receipt[view.name].state # "pending"
  /\ \E n \in IF Recorded(view.name) THEN {view.name} ELSE NewName :
       /\ receipt' = [receipt EXCEPT ![n] = [state |-> "discarding", expected |-> kept[v],
                                             version |-> v, token |-> view.token]]
       /\ op' = [Idle EXCEPT !.step = "compare", !.name = n, !.seen = kept[v]]
  /\ UNCHANGED <<live, held, kept, view, edits, kills>>

Compare ==
  /\ op.step = "compare"
  /\ op' = IF kept[receipt[op.name].version] # op.seen THEN Idle
           ELSE [op EXCEPT !.step = IF op.seen = Absent THEN "erase" ELSE "dispose"]
  /\ UNCHANGED <<live, held, kept, receipt, view, edits, kills>>

Dispose ==
  LET v == receipt[op.name].version IN
  /\ op.step = "dispose"
  /\ kept' = [kept EXCEPT ![v] = Absent]
  /\ held' = IF held = v THEN "gone" ELSE held
  /\ op' = [op EXCEPT !.step = "erase"]
  /\ UNCHANGED <<live, receipt, view, edits, kills>>

-----------------------------------------------------------------------------

\* The process is killed. A version that was being staged may be there in part.
Kill ==
  /\ kills < MaxKill
  /\ kills' = kills + 1
  /\ op # Idle
  /\ op' = Idle
  /\ \/ UNCHANGED kept
     \/ /\ op.step = "stage"
        /\ \E part \in Version : kept' = [kept EXCEPT ![op.name] = part]
  /\ UNCHANGED <<live, held, receipt, view, edits>>

\* The process is killed while it writes a receipt: a temporary file stays.
Tear ==
  /\ kills < MaxKill
  /\ kills' = kills + 1
  /\ \/ op = Idle /\ (SoundBut({}) \/ Current \/ Resumed)
     \/ op.step \in {"settle", "close"}
  /\ op' = Idle
  /\ \E n \in NewName, bytes \in Version : kept' = [kept EXCEPT ![n] = bytes]
  /\ UNCHANGED <<live, held, receipt, view, edits>>

Working == Stage \/ Swap \/ Settle \/ Erase \/ Close \/ Compare \/ Dispose

Next ==
  \/ Open
  \/ \E v \in Version : Write(v)
  \/ \E v \in File : Replace(v) \/ Publish(v)
  \/ \E n \in Name : Inspect(n)
  \/ KeepLive \/ Restore \/ Discard
  \/ Working
  \/ Kill \/ Tear

PinSpec == Init /\ [][Next]_vars

=============================================================================
