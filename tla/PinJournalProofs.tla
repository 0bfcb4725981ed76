--------------------------- MODULE PinJournalProofs ---------------------------
(***************************************************************************)
(* Proofs about PinJournal, for any names, versions and tokens, edits and  *)
(* kills. A descriptor always has a file; a version is staged under a free *)
(* name; what is compared and disposed of was inspected under the token    *)
(* that ordered it, and a receipt remembers that token across kills.       *)
(***************************************************************************)
EXTENDS PinJournalProperties, TLAPS

\* An operation has the names it works under; staging overwrites nothing.
Placed ==
  /\ op.step \in {"stage", "swap", "settle", "compare", "dispose", "erase"} => op.name \in Name
  /\ op.step = "close" => op.review \in Name
  /\ op.step = "stage" => kept[op.name] = Absent /\ op.new # Absent
  /\ held = "live" => live # Absent
  /\ held \in Name => kept[held] # Absent

\* The version that is being disposed of, and the one a resumed disposal may.
Ordered ==
  /\ op.step \in {"compare", "dispose"} =>
       /\ view # NoView
       /\ receipt[op.name].version = view.receipt.version
       /\ op.seen \in {Absent, view.file}
  /\ op.step = "dispose" => op.seen # Absent
  /\ Resumed =>
       /\ receipt[view.name].version = view.receipt.version
       /\ receipt[view.name].expected \in {Absent, view.file}

JournalInv == JournalTypeOK /\ Placed /\ Ordered

\* A drawn name or token is a free one.
LEMMA AnyOf == ASSUME NEW S, NEW x \in Any(S) PROVE x \in S
  BY DEF Any

LEMMA FreeName ==
  ASSUME NEW n \in NewName
  PROVE  n \in Name /\ kept[n] = Absent /\ ~Recorded(n) /\ view.name # n
<1>1. n \in {m \in Name : Free(m)}
  BY AnyOf DEF NewName
<1>2. QED
  BY <1>1 DEF Free

LEMMA FreeToken ==
  ASSUME NEW t \in NewToken
  PROVE  t \in Token /\ \A n \in Name : receipt[n].token # t
<1>1. t \in {u \in Token : \A n \in Name : receipt[n].token # u}
  BY AnyOf DEF NewToken
<1>2. QED
  BY <1>1

\* The intention of a publication is a well-typed receipt under a new name.
LEMMA JournalFacts ==
  ASSUME JournalInv, NEW n \in NewName, NEW new \in File, NEW seen \in File,
         NEW review \in Name \union {"none"}, op = Idle, Journal(n, new, review, seen)
  PROVE  JournalInv'
<1>0. n \in Name /\ kept[n] = Absent /\ ~Recorded(n) /\ view.name # n
  BY FreeName
<1> DEFINE r == [state |-> "pending", expected |-> live, version |-> n, token |-> NoToken]
<1>1. /\ receipt' = [receipt EXCEPT ![n] = r]
      /\ op' = [step |-> IF new = Absent THEN "swap" ELSE "stage",
                name |-> n, new |-> new, seen |-> seen, review |-> review]
      /\ UNCHANGED <<live, held, kept, view, edits, kills>>
  BY DEF Journal
<1>2. r \in Receipt
  BY <1>0 DEF Receipt, State, JournalInv, JournalTypeOK
<1>3. JournalTypeOK'
  BY <1>0, <1>1, <1>2 DEF JournalInv, JournalTypeOK, Work, Step
<1>4. Placed'
  BY <1>0, <1>1 DEF JournalInv, JournalTypeOK, Placed
<1>5. Ordered'
  <2>1. op'.step \in {"swap", "stage"}
    BY <1>1
  <2>2. Resumed' => Resumed /\ receipt'[view.name] = receipt[view.name]
    BY <1>0, <1>1 DEF Resumed, JournalInv, JournalTypeOK, View
  <2>3. QED
    BY <1>1, <2>1, <2>2 DEF Ordered, JournalInv
<1>6. QED
  BY <1>3, <1>4, <1>5 DEF JournalInv

\* An acknowledged receipt is resolved under the same version.
LEMMA ClosedFacts ==
  ASSUME JournalInv, NEW n \in Name, receipt' = Closed(n),
         UNCHANGED <<live, held, kept, view, edits, kills>>, op' = Idle
  PROVE  JournalInv'
<1>0. kept[receipt[n].version] \in File /\ receipt[n] \in Receipt
  BY DEF JournalInv, JournalTypeOK, Receipt
<1> DEFINE r == [receipt[n] EXCEPT !.state = "resolved",
                                   !.expected = kept[receipt[n].version]]
<1>a. r \in Receipt /\ r.state = "resolved"
  BY <1>0 DEF Receipt, State
<1>b. receipt' = [receipt EXCEPT ![n] = r]
  BY DEF Closed, JournalInv, JournalTypeOK
<1> HIDE DEF r
<1>1. /\ receipt' \in [Name -> Receipt]
      /\ receipt'[n].state = "resolved"
      /\ \A m \in Name : m # n => receipt'[m] = receipt[m]
  BY <1>a, <1>b DEF JournalInv, JournalTypeOK
<1>2. JournalTypeOK'
  BY <1>1 DEF JournalInv, JournalTypeOK, Idle, Work, Step, File
<1>3. Placed'
  BY DEF JournalInv, Placed, Idle
<1>4. Resumed' => Resumed /\ receipt'[view.name] = receipt[view.name]
  BY <1>1 DEF Resumed, JournalInv, JournalTypeOK, View
<1>5. Ordered'
  BY <1>4 DEF JournalInv, Ordered, Idle
<1>6. QED
  BY <1>2, <1>3, <1>5 DEF JournalInv

\* Programs of the owner change contents; their descriptors keep their files.
LEMMA EditKeeps ==
  ASSUME JournalInv, Open \/ (\E v \in Version : Write(v)) \/ (\E v \in File : Replace(v))
  PROVE  JournalInv'
<1>1. CASE Open
  <2>1. JournalTypeOK'
    BY <1>1 DEF Open, JournalInv, JournalTypeOK
  <2>2. Placed' /\ Ordered'
    BY <1>1, PinShape DEF Open, JournalInv, Placed, Ordered, Resumed
  <2>3. QED
    BY <2>1, <2>2 DEF JournalInv
<1>2. ASSUME NEW v \in Version, Write(v)
      PROVE  JournalInv'
  <2>1. /\ UNCHANGED <<held, receipt, view, op, kills>>
        /\ edits' = edits + 1
        /\ \/ held = "live" /\ live' = v /\ UNCHANGED kept
           \/ held \in Name /\ kept' = [kept EXCEPT ![held] = v] /\ UNCHANGED live
    BY <1>2 DEF Write, Edit, JournalInv, JournalTypeOK
  <2>2. JournalTypeOK'
    BY <2>1 DEF JournalInv, JournalTypeOK, File
  <2>3. Placed'
    BY <2>1, PinShape DEF JournalInv, JournalTypeOK, Placed
  <2>4. Ordered'
    BY <2>1 DEF JournalInv, Ordered, Resumed
  <2>5. QED
    BY <2>2, <2>3, <2>4 DEF JournalInv
<1>3. ASSUME NEW v \in File, Replace(v)
      PROVE  JournalInv'
  <2>1. /\ UNCHANGED <<kept, receipt, view, op, kills>>
        /\ edits' = edits + 1
        /\ live' = v
        /\ held' = IF held = "live" THEN "gone" ELSE held
    BY <1>3 DEF Replace, Edit
  <2>2. JournalTypeOK'
    BY <2>1 DEF JournalInv, JournalTypeOK
  <2>3. Placed'
    BY <2>1, PinShape DEF JournalInv, JournalTypeOK, Placed
  <2>4. Ordered'
    BY <2>1 DEF JournalInv, Ordered, Resumed
  <2>5. QED
    BY <2>2, <2>3, <2>4 DEF JournalInv
<1>4. QED
  BY <1>1, <1>2, <1>3

\* The steps of an operation under the lock.
LEMMA WorkKeeps ==
  ASSUME JournalInv, Working
  PROVE  JournalInv'
<1> USE DEF JournalInv
<1>0. op.step \in {"stage", "swap", "settle", "compare", "dispose", "erase"} => op.name \in Name
  BY DEF Placed
<1>1. CASE Stage
  <2>1. JournalTypeOK'
    BY <1>0, <1>1 DEF Stage, JournalTypeOK, Work, Step
  <2>2. Placed'
    BY <1>0, <1>1, PinShape DEF Stage, JournalTypeOK, Placed, Work
  <2>3. Ordered'
    BY <1>1 DEF Stage, Ordered, Resumed, JournalTypeOK, Work
  <2>4. QED
    BY <2>1, <2>2, <2>3
<1>2. CASE Swap
  <2>0. UNCHANGED <<receipt, view, edits, kills>> /\ op.step = "swap" /\ op.name \in Name
    BY <1>0, <1>2 DEF Swap
  <2>1. CASE op' = Idle /\ UNCHANGED <<live, kept, held>>
    BY <2>0, <2>1 DEF JournalTypeOK, Placed, Ordered, Resumed, Idle, Work, Step, File
  <2>2. CASE /\ live' = kept[op.name]
             /\ kept' = [kept EXCEPT ![op.name] = live]
             /\ held' = Moved(op.name)
             /\ op' = [op EXCEPT !.step = "settle"]
    <3>1. \/ held = "live" /\ held' = op.name
          \/ held = op.name /\ held' = "live"
          \/ held \notin {"live", op.name} /\ held' = held
      BY <2>2, PinShape DEF Moved
    <3>2. JournalTypeOK'
      BY <2>0, <2>2, <3>1 DEF JournalTypeOK, Work, Step
    <3>3. Placed'
      BY <2>0, <2>2, <3>1, PinShape DEF JournalTypeOK, Placed, Work
    <3>4. Ordered'
      BY <2>0, <2>2 DEF Ordered, Resumed, JournalTypeOK, Work
    <3>5. QED
      BY <3>2, <3>3, <3>4
  <2>3. QED
    BY <1>2, <2>1, <2>2 DEF Swap
<1>3. CASE Settle
  <2>0. op.step = "settle" /\ op.name \in Name /\ UNCHANGED <<live, held, kept, view, edits, kills>>
    BY <1>0, <1>3 DEF Settle
  <2>1. /\ \/ UNCHANGED receipt
           \/ receipt' = [receipt EXCEPT ![op.name].state = "resolved"]
           \/ receipt' = [receipt EXCEPT ![op.name].state = "retained"]
        /\ op' \in {Idle, [op EXCEPT !.step = "erase"], [op EXCEPT !.step = "close"]}
        /\ op'.step = "close" => op.review # "none"
    BY <1>3, <2>0 DEF Settle, Finished, Idle, JournalTypeOK, Work
  <2>2. JournalTypeOK'
    BY <2>0, <2>1 DEF JournalTypeOK, Receipt, State, Work, Step, Idle, File
  <2>3. Placed'
    BY <2>0, <2>1 DEF JournalTypeOK, Placed, Idle, Work
  <2>4. Resumed' => Resumed /\ receipt'[view.name] = receipt[view.name]
    <3>1. receipt'[op.name].state # "discarding" \/ UNCHANGED receipt
      BY <2>0, <2>1 DEF JournalTypeOK, Receipt
    <3>2. \A m \in Name : m # op.name => receipt'[m] = receipt[m]
      BY <2>0, <2>1 DEF JournalTypeOK
    <3>3. QED
      BY <2>0, <3>1, <3>2 DEF Resumed, JournalTypeOK, View
  <2>5. Ordered'
    BY <2>0, <2>1, <2>4 DEF Ordered, Idle, JournalTypeOK, Work
  <2>6. QED
    BY <2>2, <2>3, <2>5
<1>4. CASE Erase
  <2>0. op.step = "erase" /\ op.name \in Name /\ UNCHANGED <<live, held, kept, view, edits, kills>>
    BY <1>0, <1>4 DEF Erase
  <2>1. /\ receipt' = [receipt EXCEPT ![op.name] = NoReceipt(op.name)]
        /\ op' \in {Idle, [op EXCEPT !.step = "close"]}
        /\ op'.step = "close" => op.review # "none"
    BY <1>4, <2>0 DEF Erase, Finished, Idle, JournalTypeOK, Work
  <2>2. JournalTypeOK'
    BY <2>0, <2>1 DEF JournalTypeOK, NoReceipt, Receipt, State, Work, Step, Idle, File
  <2>3. Placed'
    BY <2>0, <2>1 DEF JournalTypeOK, Placed, Idle, Work
  <2>4. Resumed' => Resumed /\ receipt'[view.name] = receipt[view.name]
    BY <2>0, <2>1 DEF Resumed, NoReceipt, JournalTypeOK, View
  <2>5. Ordered'
    BY <2>0, <2>1, <2>4 DEF Ordered, Idle, JournalTypeOK, Work
  <2>6. QED
    BY <2>2, <2>3, <2>5
<1>5. CASE Close
  <2>1. CASE receipt' = receipt
    BY <1>5, <2>1 DEF Close, JournalTypeOK, Placed, Ordered, Resumed, Idle, Work, Step, File
  <2>2. CASE receipt' = Closed(op.review)
    BY <1>5, <2>2, ClosedFacts DEF Close, Placed
  <2>3. QED
    BY <1>5, <2>1, <2>2 DEF Close
<1>6. CASE Compare
  <2>1. /\ op.step = "compare" /\ op.name \in Name
        /\ UNCHANGED <<live, held, kept, receipt, view, edits, kills>>
        /\ \/ op' = Idle
           \/ op' = [op EXCEPT !.step = "erase"]
           \/ op' = [op EXCEPT !.step = "dispose"] /\ op.seen # Absent
    BY <1>0, <1>6 DEF Compare
  <2>2. JournalTypeOK'
    BY <2>1 DEF JournalTypeOK, Work, Step, Idle, File
  <2>3. Placed'
    BY <2>1 DEF JournalTypeOK, Placed, Work, Idle
  <2>4. Ordered'
    BY <2>1 DEF JournalTypeOK, Ordered, Resumed, Work, Idle
  <2>5. QED
    BY <2>2, <2>3, <2>4
<1>7. CASE Dispose
  <2>1. /\ op.step = "dispose" /\ op.name \in Name
        /\ receipt[op.name].version \in Name
        /\ op' = [op EXCEPT !.step = "erase"]
        /\ UNCHANGED <<live, receipt, view, edits, kills>>
    BY <1>0, <1>7 DEF Dispose, JournalTypeOK, Receipt
  <2>2. JournalTypeOK'
    BY <1>7, <2>1 DEF Dispose, JournalTypeOK, Work, Step, File
  <2>3. Placed'
    BY <1>7, <2>1, PinShape DEF Dispose, JournalTypeOK, Placed, Work
  <2>4. Ordered'
    BY <2>1 DEF JournalTypeOK, Ordered, Resumed, Work
  <2>5. QED
    BY <2>2, <2>3, <2>4
<1>8. QED
  BY <1>1, <1>2, <1>3, <1>4, <1>5, <1>6, <1>7 DEF Working

\* A new token is in no receipt: nothing is resumed under it yet.
LEMMA InspectKeeps ==
  ASSUME JournalInv, NEW n \in Name, Inspect(n)
  PROVE  JournalInv'
<1>1. PICK t \in NewToken : view' = Snapshot(n, t)
  BY DEF Inspect
<1>2. t \in Token /\ \A m \in Name : receipt[m].token # t
  BY FreeToken
<1>3. op = Idle /\ UNCHANGED <<live, held, kept, receipt, op, edits, kills>>
  BY DEF Inspect
<1>4. receipt[n] \in Receipt /\ kept[receipt[n].version] \in File
  BY DEF JournalInv, JournalTypeOK, Receipt
<1>5. view' \in View /\ view'.name = n /\ view'.token = t
  BY <1>1, <1>2, <1>4 DEF Snapshot, View, File, JournalInv, JournalTypeOK
<1>6. JournalTypeOK'
  BY <1>3, <1>5 DEF JournalInv, JournalTypeOK
<1>7. Placed'
  BY <1>3 DEF JournalInv, Placed
<1>8. ~Resumed'
  BY <1>2, <1>3, <1>5 DEF Resumed
<1>9. Ordered'
  BY <1>3, <1>8 DEF Ordered, Idle
<1>10. QED
  BY <1>6, <1>7, <1>9 DEF JournalInv

\* A disposal takes the version its token stands for, or what is left of it.
LEMMA DiscardKeeps ==
  ASSUME JournalInv, Discard
  PROVE  JournalInv'
<1> DEFINE v == receipt[view.name].version
<1>1. /\ op = Idle /\ UNCHANGED <<live, held, kept, view, edits, kills>>
      /\ Current \/ (Resumed /\ kept[v] \in {Absent, receipt[view.name].expected})
  BY DEF Discard
<1>2. view # NoView /\ view \in View
  BY <1>1 DEF Current, Resumed, JournalInv, JournalTypeOK
<1>3. view.name \in Name /\ view.token \in Token
  BY <1>2 DEF View
<1>4. v \in Name /\ kept[v] \in File
  BY <1>3 DEF JournalInv, JournalTypeOK, Receipt
<1>5. v = view.receipt.version /\ kept[v] \in {Absent, view.file}
  <2>1. CASE Current
    BY <2>1 DEF Current, Snapshot
  <2>2. CASE Resumed /\ kept[v] \in {Absent, receipt[view.name].expected}
    BY <2>2 DEF JournalInv, Ordered
  <2>3. QED
    BY <1>1, <2>1, <2>2
<1> DEFINE r == [state |-> "discarding", expected |-> kept[v], version |-> v,
                 token |-> view.token]
<1>6. PICK n \in IF Recorded(view.name) THEN {view.name} ELSE NewName :
        /\ receipt' = [receipt EXCEPT ![n] = r]
        /\ op' = [Idle EXCEPT !.step = "compare", !.name = n, !.seen = kept[v]]
  BY DEF Discard
<1>7. n \in Name /\ (n = view.name \/ (view.name # n /\ ~Recorded(view.name)))
  BY <1>3, <1>6, FreeName
<1>8. r \in Receipt /\ r.version = v /\ r.expected = kept[v]
  BY <1>3, <1>4 DEF Receipt, State
<1>9. op'.step = "compare" /\ op'.name = n /\ op'.seen = kept[v] /\ op' \in Work
  BY <1>4, <1>6, <1>7 DEF Idle, Work, Step, File
<1> HIDE DEF r
<1>10. JournalTypeOK'
  BY <1>1, <1>6, <1>7, <1>8, <1>9 DEF JournalInv, JournalTypeOK
<1>11. Placed'
  BY <1>1, <1>7, <1>9 DEF JournalInv, Placed
<1>12. receipt'[n] = r /\ (view.name # n => receipt'[view.name] = receipt[view.name])
  BY <1>3, <1>6, <1>7 DEF JournalInv, JournalTypeOK
<1>13. view.name # n => ~Resumed'
  BY <1>1, <1>7, <1>12 DEF Resumed, Recorded
<1> HIDE DEF v
<1>14. Ordered'
  BY <1>1, <1>2, <1>5, <1>8, <1>9, <1>12, <1>13 DEF Ordered
<1>15. QED
  BY <1>10, <1>11, <1>14 DEF JournalInv

\* A kill ends the operation; what it leaves is under a name that was free.
LEMMA KillKeeps ==
  ASSUME JournalInv, Kill \/ Tear
  PROVE  JournalInv' /\ (\A n \in Name : kept[n] # Absent => kept'[n] = kept[n])
<1>1. /\ op' = Idle /\ kills' = kills + 1
      /\ UNCHANGED <<live, held, receipt, view, edits>>
  BY DEF Kill, Tear
<1>2. \/ UNCHANGED kept
      \/ \E n \in Name, part \in Version :
           kept[n] = Absent /\ kept' = [kept EXCEPT ![n] = part]
  <2>1. CASE Kill
    BY <2>1 DEF Kill, JournalInv, Placed
  <2>2. CASE Tear
    BY <2>2, FreeName DEF Tear
  <2>3. QED
    BY <2>1, <2>2
<1>3. /\ kept' \in [Name -> File]
      /\ \A n \in Name : kept[n] # Absent => kept'[n] = kept[n]
  BY <1>2 DEF JournalInv, JournalTypeOK, File
<1>4. JournalTypeOK'
  BY <1>1, <1>3 DEF JournalInv, JournalTypeOK, Idle, Work, Step, File
<1>5. Placed'
  BY <1>1, <1>3 DEF JournalInv, Placed, Idle
<1>6. Ordered'
  BY <1>1 DEF JournalInv, Ordered, Resumed, Idle
<1>7. QED
  BY <1>3, <1>4, <1>5, <1>6 DEF JournalInv

LEMMA JournalInductive == JournalInv /\ [Next]_vars => JournalInv'
<1> SUFFICES ASSUME JournalInv, [Next]_vars PROVE JournalInv'
  OBVIOUS
<1>1. CASE Open \/ (\E v \in Version : Write(v)) \/ (\E v \in File : Replace(v))
  BY <1>1, EditKeeps
<1>2. ASSUME NEW v \in File, Publish(v) PROVE JournalInv'
  BY <1>2, JournalFacts DEF Publish, File
<1>3. ASSUME NEW n \in Name, Inspect(n) PROVE JournalInv'
  BY <1>3, InspectKeeps
<1>4. ASSUME Current PROVE view \in View /\ view.name \in Name /\ view.file \in File
  BY <1>4 DEF Current, JournalInv, JournalTypeOK, View
<1>5. CASE KeepLive
  BY <1>4, <1>5, ClosedFacts DEF KeepLive
<1>6. CASE Restore
  <2>1. view.name \in Name /\ view.file \in File /\ op = Idle
    BY <1>4, <1>6 DEF Restore
  <2>2. CASE \E n \in NewName : Journal(n, view.file, view.name, view.file)
    BY <2>1, <2>2, JournalFacts
  <2>3. CASE /\ op' = [step |-> "close", name |-> "none", new |-> Absent,
                       seen |-> view.file, review |-> view.name]
             /\ UNCHANGED <<live, held, kept, receipt, view, edits, kills>>
    <3>1. JournalTypeOK'
      BY <2>1, <2>3 DEF JournalInv, JournalTypeOK, Work, Step, File
    <3>2. Placed' /\ Ordered'
      BY <2>1, <2>3 DEF JournalInv, Placed, Ordered, Resumed
    <3>3. QED
      BY <3>1, <3>2 DEF JournalInv
  <2>4. QED
    BY <1>6, <2>2, <2>3 DEF Restore
<1>7. CASE Discard
  BY <1>7, DiscardKeeps
<1>8. CASE Working
  BY <1>8, WorkKeeps
<1>9. CASE Kill \/ Tear
  BY <1>9, KillKeeps
<1>10. CASE UNCHANGED vars
  BY <1>10 DEF vars, JournalInv, JournalTypeOK, Placed, Ordered, Resumed
<1>11. QED
  BY <1>1, <1>2, <1>3, <1>5, <1>6, <1>7, <1>8, <1>9, <1>10 DEF Next

LEMMA JournalInvariant == PinSpec => []JournalInv
<1>1. Init => JournalInv
  <2> SUFFICES ASSUME Init PROVE JournalInv
    OBVIOUS
  <2>1. \A n \in Name : NoReceipt(n) \in Receipt
    BY DEF NoReceipt, Receipt, State, File
  <2>2. Idle \in Work
    BY DEF Idle, Work, Step, File
  <2>3. JournalTypeOK
    BY <2>1, <2>2 DEF Init, JournalTypeOK, File
  <2>4. Placed
    BY PinShape DEF Init, Placed, Idle
  <2>5. Ordered
    BY DEF Init, Ordered, Resumed, Idle
  <2>6. QED
    BY <2>3, <2>4, <2>5 DEF JournalInv
<1>2. QED
  BY <1>1, JournalInductive, PTL DEF PinSpec

-----------------------------------------------------------------------------

\* Every reachable state of a publication and of its journal is well formed.
THEOREM JournalTypeCorrect == PinSpec => []JournalTypeOK
<1>1. JournalInv => JournalTypeOK
  BY DEF JournalInv
<1>2. QED
  BY <1>1, JournalInvariant, PTL

\* recovery_discard goes on to its unlink only over the bytes that were inspected
\* under its token, which the receipt remembers across kills, and takes nothing
\* else away. It says nothing of what a program writes in between.
THEOREM OnlyInspectedDisposed == PinSpec => DisposalInspected
<1> DEFINE Compared == op.step # "dispose" /\ op'.step = "dispose" =>
                         /\ receipt[op.name].version = view.receipt.version
                         /\ kept[view.receipt.version] = view.file
           Taken == op.step = "dispose" /\ edits' = edits =>
                      kept' \in {kept, [kept EXCEPT ![view.receipt.version] = Absent]}
<1>1. JournalInv /\ [Next]_vars => [Compared /\ Taken]_vars
  <2> SUFFICES ASSUME JournalInv, [Next]_vars
               PROVE  Compared /\ Taken
    OBVIOUS
  <2>1. Compared
    <3> SUFFICES ASSUME op.step # "dispose", op'.step = "dispose"
                 PROVE  /\ receipt[op.name].version = view.receipt.version
                        /\ kept[view.receipt.version] = view.file
      OBVIOUS
    <3>1. op' # op /\ op' # Idle
      BY DEF Idle
    <3>2. op \in Work
      BY DEF JournalInv, JournalTypeOK
    <3>3. \A n, new, review, seen : ~Journal(n, new, review, seen)
      BY DEF Journal
    <3>4. ~(\E v \in File : Publish(v)) /\ ~Restore
      <4>1. ~\E v \in File : Publish(v)
        BY <3>3, Zenon DEF Publish
      <4>2. CASE Restore
        <5>1. op' = [step |-> "close", name |-> "none", new |-> Absent,
                     seen |-> view.file, review |-> view.name]
          BY <3>3, <4>2, Zenon DEF Restore
        <5>2. QED
          BY <5>1
      <4>3. QED
        BY <4>1, <4>2
    <3>5. ~Discard
      <4>1. CASE Discard
        <5>1. \E n, seen : op' = [Idle EXCEPT !.step = "compare", !.name = n, !.seen = seen]
          BY <4>1, Zenon DEF Discard
        <5>2. QED
          BY <5>1 DEF Idle
      <4>2. QED
        BY <4>1
    <3>6. ~Stage /\ ~Swap /\ ~Settle /\ ~Erase /\ ~Close /\ ~Dispose
      BY <3>1, <3>2 DEF Stage, Swap, Settle, Erase, Close, Dispose, Finished, Idle, Work
    <3>7. Compare
      BY <3>1, <3>4, <3>5, <3>6
      DEF Next, Open, Write, Replace, Inspect, KeepLive, Working, Kill, Tear, vars
    <3>8. QED
      BY <3>7 DEF Compare, Idle, JournalInv, Ordered
  <2>2. Taken
    <3> SUFFICES ASSUME op.step = "dispose", edits' = edits
                 PROVE  kept' \in {kept, [kept EXCEPT ![view.receipt.version] = Absent]}
      OBVIOUS
    <3>1. receipt[op.name].version = view.receipt.version
      BY DEF JournalInv, Ordered
    <3>2. op # Idle /\ ~Edit
      BY DEF Idle, Edit, JournalInv, JournalTypeOK
    <3>3. CASE Dispose
      BY <3>1, <3>3 DEF Dispose
    <3>4. CASE Kill
      BY <3>4 DEF Kill
    <3>5. QED
      BY <3>2, <3>3, <3>4
      DEF Next, Open, Write, Replace, Publish, Inspect, KeepLive, Restore, Discard,
          Working, Stage, Swap, Settle, Erase, Close, Compare, Tear, vars
  <2>3. QED
    BY <2>1, <2>2
<1>2. QED
  BY <1>1, JournalInvariant, PTL DEF PinSpec, DisposalInspected

\* A step that leaves the tree alone and fills only free names loses no version.
LEMMA NothingLost ==
  ASSUME UNCHANGED live, \A n \in Name : kept[n] # Absent => kept'[n] = kept[n]
  PROVE  Stored \subseteq Stored'
  BY DEF Stored

\* apply_locked exchanges and never overwrites: of the steps of Clix only an
\* ordered disposal takes the last copy of a version away.
THEOREM VersionsKept == PinSpec => NoVersionLost
<1>1. JournalInv /\ [Next]_vars
        => [edits' = edits /\ op.step # "dispose" => Stored \subseteq Stored']_vars
  <2> SUFFICES ASSUME JournalInv, [Next]_vars, edits' = edits, op.step # "dispose"
               PROVE  Stored \subseteq Stored'
    OBVIOUS
  <2>1. CASE UNCHANGED <<live, kept>>
    BY <2>1, NothingLost
  <2>2. CASE Stage
    BY <2>2, NothingLost DEF Stage, JournalInv, JournalTypeOK, Placed
  <2>3. CASE Swap
    <3>1. op.name \in Name /\ kept \in [Name -> File]
      BY <2>3 DEF Swap, JournalInv, JournalTypeOK, Placed
    <3>2. CASE live' = kept[op.name] /\ kept' = [kept EXCEPT ![op.name] = live]
      BY <3>1, <3>2 DEF Stored
    <3>3. QED
      BY <2>1, <2>3, <3>2 DEF Swap
  <2>4. CASE Kill \/ Tear
    BY <2>4, KillKeeps, NothingLost DEF Kill, Tear
  <2>5. ~Edit
    BY DEF Edit, JournalInv, JournalTypeOK
  <2>6. CASE Settle \/ Erase \/ Close \/ Compare
    BY <2>1, <2>6 DEF Settle, Erase, Close, Compare
  <2>7. CASE Open \/ KeepLive \/ Discard \/ (\E n \in Name : Inspect(n)) \/ UNCHANGED vars
    BY <2>1, <2>7 DEF Open, KeepLive, Discard, Inspect, vars
  <2>8. CASE Restore \/ \E v \in File : Publish(v)
    BY <2>1, <2>8 DEF Restore, Publish, Journal
  <2>9. QED
    BY <2>2, <2>3, <2>4, <2>5, <2>6, <2>7, <2>8 DEF Next, Write, Replace, Working, Dispose
<1>2. QED
  BY <1>1, JournalInvariant, PTL DEF PinSpec, NoVersionLost

=============================================================================
