---------------------------- MODULE HistoryProofs ----------------------------
(***************************************************************************)
(* No fact is shown that its author can still lose, no page is refused for *)
(* ever, no cursor passes what was not merged, and no log goes back.       *)
(*                                                                         *)
(* Whatever is held anywhere is a copy of what was held before, or the one *)
(* successor its author has just saved; only an unfinished fact has a      *)
(* successor, and it is further on (IInv). And every log only goes on, so  *)
(* what was once all a server had up to a number stays that (SeenInv).     *)
(***************************************************************************)
EXTENDS HistoryProperties, FiniteSetTheorems, WellFoundedInduction, TLAPS

(* Types *)

\* A set of invocations is finite.
LEMMA CountIsNat ==
  ASSUME NEW S \in SUBSET Job
  PROVE  Cardinality(S) \in Nat
  BY HistoryShape, FS_Subset, FS_CardinalityType

\* New numbers leave a store well typed and the facts alone.
LEMMA StampedTyped ==
  ASSUME NEW s \in HStore, NEW S \in SUBSET Job, NEW order
  PROVE  /\ Stamped(s, S, order) \in HStore
         /\ Stamped(s, S, order).record = s.record
<1> DEFINE count(j) == Cardinality({k \in S : order[k] <= order[j]})
           change   == [j \in Job |-> IF j \in S THEN s.clock + count(j) ELSE s.change[j]]
           clock    == s.clock + Cardinality(S)
<1>1. \A j \in Job : count(j) \in Nat
  <2> TAKE j \in Job
  <2>1. {k \in S : order[k] <= order[j]} \in SUBSET Job
    OBVIOUS
  <2>2. QED
    BY <2>1, CountIsNat
<1>2. Cardinality(S) \in Nat
  BY CountIsNat
<1>3. change \in [Job -> Nat] /\ clock \in Nat
  BY <1>1, <1>2 DEF HStore
<1>4. Stamped(s, S, order) = [s EXCEPT !.change = change, !.clock = clock]
  BY DEF Stamped
<1> HIDE DEF change, clock
<1>5. QED
  BY <1>3, <1>4 DEF HStore

\* A machine publishes in the roles it is the author of.
LEMMA RoleIsRole ==
  ASSUME NEW b, NEW j, NEW st, RoleOf(b, j, st) # "none"
  PROVE  RoleOf(b, j, st) \in Role /\ Author(j, RoleOf(b, j, st)) = b
  BY DEF RoleOf, Role, Author

\* What refresh_owned leaves alone.
LEMMA RefreshedRecord ==
  ASSUME NEW b, NEW next \in HStore, NEW old
  PROVE  LET U == Refreshed(b, next, old) IN
         /\ U.row = next.row
         /\ \A j \in Job, r \in Role :
              U.record[j][r] =
                IF j \in Owned(b, next, old) /\ r = RoleOf(b, j, next.row[j])
                THEN Successor(next.record[j][r], next.row[j]) ELSE next.record[j][r]
<1> DEFINE new == Owned(b, next, old)
           rec == [j \in Job |-> [r \in Role |->
                     IF j \in new /\ r = RoleOf(b, j, next.row[j])
                     THEN Successor(next.record[j][r], next.row[j])
                     ELSE next.record[j][r]]]
<1>1. Stamped(next, new, next.change) \in HStore
  BY StampedTyped DEF Owned
<1>2. WithFacts(b, next, new) = [Stamped(next, new, next.change) EXCEPT !.record = rec]
  BY DEF WithFacts
<1>3. Stamped(next, new, next.change).row = next.row
  BY DEF Stamped, HStore
<1> HIDE DEF rec
<1>4. WithFacts(b, next, new).row = next.row /\ WithFacts(b, next, new).record = rec
  BY <1>1, <1>2, <1>3 DEF HStore
<1>5. Refreshed(b, next, old).row = next.row /\ Refreshed(b, next, old).record = rec
  <2>1. WithFacts(b, next, new) \in [row : [Job -> Status], record : {rec}, change : [Job -> Nat],
           clock : Nat, trust : SUBSET Body, progress : [Body -> Progress]]
    BY <1>1, <1>2 DEF HStore
  <2>2. QED
    BY <1>4, <2>1 DEF Refreshed
<1>6. QED
  BY <1>5 DEF rec

\* What refresh_owned does to the facts: a successor to those it publishes.
LEMMA RefreshedTyped ==
  ASSUME NEW b, NEW next \in HStore, NEW old
  PROVE  /\ Refreshed(b, next, old) \in HStore
         /\ \A j \in Job, r \in Role :
              LET f == next.record[j][r]
                  g == Refreshed(b, next, old).record[j][r] IN
              \/ g = f
              \/ /\ Author(j, r) = b
                 /\ f.status \notin Terminal
                 /\ g.rev = f.rev + 1
<1> DEFINE new == Owned(b, next, old)
           s   == Stamped(next, new, next.change)
           rec == [j \in Job |-> [r \in Role |->
                     IF j \in new /\ r = RoleOf(b, j, next.row[j])
                     THEN Successor(next.record[j][r], next.row[j])
                     ELSE next.record[j][r]]]
           prg == IF next.trust # old.trust THEN [p \in Body |-> Unread] ELSE s.progress
<1>1. new \in SUBSET Job
  BY DEF Owned
<1>2. s \in HStore
  BY <1>1, StampedTyped
<1>3. rec \in [Job -> Record]
  BY DEF HStore, Record, Fact, Successor
<1>4. prg \in [Body -> Progress]
  BY <1>2 DEF HStore, Progress, Unread
<1>5. Refreshed(b, next, old) = [s EXCEPT !.record = rec, !.progress = prg]
  <2>1. WithFacts(b, next, new) = [s EXCEPT !.record = rec]
    BY DEF WithFacts
  <2>2. [s EXCEPT !.record = rec].progress = s.progress
    BY <1>2 DEF HStore
  <2> HIDE DEF s, rec, new
  <2>3. QED
    BY <1>2, <2>1, <2>2 DEF Refreshed, HStore, new
<1>6. \A j \in Job, r \in Role :
        \/ rec[j][r] = next.record[j][r]
        \/ /\ Author(j, r) = b
           /\ next.record[j][r].status \notin Terminal
           /\ rec[j][r].rev = next.record[j][r].rev + 1
  BY RoleIsRole DEF Owned, Successor
<1> HIDE DEF s, rec, prg
<1>7. QED
  BY <1>2, <1>3, <1>4, <1>5, <1>6 DEF HStore

\* What history::ingest does to the facts: a later one replaces an earlier one.
LEMMA IngestedTyped ==
  ASSUME NEW s \in HStore, NEW S, \A e \in S : e \in Published
  PROVE  /\ Ingested(s, S) \in HStore
         /\ \A j \in Job, r \in Role :
              LET f == s.record[j][r]
                  g == Ingested(s, S).record[j][r] IN
              \/ g = f
              \/ g.rev > f.rev /\ \E e \in S : e.job = j /\ g = e.record[r]
<1> DEFINE of(j) == CHOOSE e \in S : e.job = j
           rec == [j \in Job |-> [r \in Role |->
                     IF \E e \in S : e.job = j
                     THEN Merged(s.record[j][r], of(j).record[r])
                     ELSE s.record[j][r]]]
           order == [j \in Job |-> IF \E e \in S : e.job = j THEN of(j).change ELSE 0]
           S1 == {j \in Job : rec[j] # s.record[j]}
<1>1. Ingested(s, S) = [Stamped(s, S1, order) EXCEPT !.record = rec]
  BY DEF Ingested
<1>2. \A j \in Job : (\E e \in S : e.job = j) => of(j) \in S /\ of(j).job = j
  OBVIOUS
<1>3. \A j \in Job, r \in Role :
        /\ rec[j][r] \in Fact
        /\ \/ rec[j][r] = s.record[j][r]
           \/ /\ rec[j][r].rev > s.record[j][r].rev
              /\ \E e \in S : e.job = j /\ rec[j][r] = e.record[r]
  <2> TAKE j \in Job, r \in Role
  <2>1. s.record[j][r] \in Fact
    BY DEF HStore, Record
  <2>2. CASE \E e \in S : e.job = j
    <3>1. of(j) \in S /\ of(j).job = j /\ of(j).record[r] \in Fact
      BY <1>2, <2>2 DEF Published, Record
    <3>2. rec[j][r] = Merged(s.record[j][r], of(j).record[r])
      BY <2>2
    <3> HIDE DEF of, rec
    <3>3. QED
      BY <2>1, <3>1, <3>2 DEF Merged
  <2>3. CASE ~ \E e \in S : e.job = j
    BY <2>1, <2>3
  <2>4. QED
    BY <2>2, <2>3
<1>4. rec \in [Job -> Record]
  <2>1. rec \in [Job -> [Role -> Fact]]
    BY <1>3
  <2>2. QED
    BY <2>1 DEF Record
<1>5. Stamped(s, S1, order) \in HStore
  <2>1. S1 \in SUBSET Job
    OBVIOUS
  <2>2. QED
    BY <2>1, StampedTyped
<1> HIDE DEF rec, S1, order
<1>6. QED
  BY <1>1, <1>3, <1>4, <1>5 DEF HStore

\* Merging leaves the rows alone.
LEMMA IngestedRow ==
  ASSUME NEW s \in HStore, NEW S
  PROVE  Ingested(s, S).row = s.row
<1>1. PICK T, o, rec : Ingested(s, S) = [Stamped(s, T, o) EXCEPT !.record = rec]
  BY DEF Ingested
<1>2. Stamped(s, T, o) \in [row : {s.row}, record : {s.record},
        change : {Stamped(s, T, o).change}, clock : {Stamped(s, T, o).clock},
        trust : SUBSET Body, progress : [Body -> Progress]]
  BY DEF Stamped, HStore
<1>3. QED
  BY <1>1, <1>2

\* Taking back that a scan is complete leaves rows and facts alone.
LEMMA IncompleteTyped ==
  ASSUME NEW s \in HStore, NEW p \in Body
  PROVE  LET t == [s EXCEPT !.progress[p].complete = FALSE] IN
         t \in HStore /\ t.record = s.record /\ t.row = s.row
  BY DEF HStore, Progress

\* A bounded set of numbers that is not empty has a largest one.
LEMMA LargestExists ==
  ASSUME NEW S \in SUBSET Nat, S # {}, NEW n \in Nat, \A c \in S : c <= n
  PROVE  \E m \in S : \A c \in S : c <= m
<1> DEFINE U == {u \in Nat : \A c \in S : c <= u}
<1>1. PICK u \in U : \A v \in U : ~ (<<v, u>> \in OpToRel(<, Nat))
  <2>1. n \in U /\ U \subseteq Nat
    OBVIOUS
  <2> HIDE DEF U
  <2>2. QED
    BY <2>1, NatLessThanWellFounded, WFMin
<1>2. \A v \in U : ~ (v < u)
  BY <1>1 DEF OpToRel
<1>3. u \in S
  <2> SUFFICES ASSUME u \notin S PROVE FALSE
    OBVIOUS
  <2>1. PICK c \in S : TRUE
    OBVIOUS
  <2>2. u \in Nat /\ c <= u /\ c # u /\ c \in Nat
    BY <2>1
  <2>3. u - 1 \in U
    BY <2>2
  <2>4. QED
    BY <1>2, <2>2, <2>3
<1>4. QED
  BY <1>3

\* A page is well typed and carries the server's own facts.
LEMMA PageTyped ==
  ASSUME NEW s \in HStore, NEW p \in Progress, NEW trusted \in SUBSET Body
  PROVE  /\ PageOf(s, p, trusted) \in Page
         /\ \A e \in PageOf(s, p, trusted).entries : e.record = s.record[e.job]
<1> DEFINE reset == ~p.known \/ p.cursor > s.clock
           after == IF reset THEN 0 ELSE p.cursor
           high  == IF reset \/ p.complete \/ p.high > s.clock THEN s.clock ELSE p.high
           open  == {j \in Job : after < s.change[j] /\ s.change[j] <= high}
           sent  == {j \in open :
                       Cardinality({k \in open : s.change[k] <= s.change[j]}) <= PageRows}
           nums  == {after} \cup {s.change[j] : j \in sent}
           last  == CHOOSE c \in nums : \A j \in sent : s.change[j] <= c
           ents  == {[job |-> j, change |-> s.change[j], record |-> s.record[j]] : j \in sent}
<1>1. s.clock \in Nat /\ s.change \in [Job -> Nat] /\ s.record \in [Job -> Record]
  BY DEF HStore
<1>2. p.known \in BOOLEAN /\ p.cursor \in Nat /\ p.high \in Nat /\ p.complete \in BOOLEAN
  BY DEF Progress
<1>3. after \in Nat /\ high \in Nat /\ reset \in BOOLEAN
  BY <1>1, <1>2
<1>4. open \subseteq Job /\ sent \subseteq open /\ \A j \in open : s.change[j] <= high
  OBVIOUS
<1> HIDE DEF reset, after, high, open, sent
<1>5. last \in Nat
  <2>1. nums \in SUBSET Nat /\ nums # {}
    BY <1>1, <1>3, <1>4
  <2>2. \A c \in nums : c <= after + high
    BY <1>1, <1>3, <1>4
  <2>3. after + high \in Nat
    BY <1>3
  <2>4. PICK m \in nums : \A c \in nums : c <= m
    <3> HIDE DEF nums
    <3> QED BY <2>1, <2>2, <2>3, LargestExists
  <2>5. \E c \in nums : \A j \in sent : s.change[j] <= c
    BY <2>4
  <2>6. last \in nums
    <3> HIDE DEF nums
    <3> QED BY <2>5
  <2>7. QED
    BY <2>1, <2>6
<1>6. ents \subseteq Published /\ \A e \in ents : e.record = s.record[e.job]
  BY <1>1, <1>4 DEF Published
<1>7. PageOf(s, p, trusted) =
        [asked |-> p, trusted |-> trusted, reset |-> reset, high |-> high,
         next |-> IF sent = open THEN high ELSE last, complete |-> sent = open,
         entries |-> ents]
  BY DEF PageOf, reset, after, high, open, sent
<1> HIDE DEF last, ents
<1>8. QED
  BY <1>3, <1>5, <1>6, <1>7 DEF Page

-----------------------------------------------------------------------------
(* The inductive invariant *)

\* Two facts of one revision that go round are the same fact.
OneFact ==
  \A j \in Job, r \in Role : \A f, g \in Held(j, r) : f.rev = g.rev => f = g

\* A machine that can save shows what it has saved.
Agreed ==
  \A b \in Body : ~halted[b] =>
    /\ mem[b].record = disk[b].record
    /\ mem[b].row = disk[b].row

\* What goes round: everything that is held but what the author has on disk.
Copies(j, r) ==
  {mem[b].record[j][r] : b \in Body} \cup {disk[b].record[j][r] : b \in Body \ {Author(j, r)}}
    \cup UNION {{e.record[r] : e \in {x \in fetch[l].entries : x.job = j}} : l \in Link}

\* Nobody has seen more of a fact than its author shows: a save that failed may
\* have reached the disk, and then only the author's restart brings it up.
Behind ==
  \A j \in Job, r \in Role : \A f \in Copies(j, r) :
    f.rev <= mem[Author(j, r)].record[j][r].rev

\* How the row of a runner and what it has signed go together. A doubt may be
\* unsigned: the completion could not be saved.
LogRow(s, j) ==
  LET row    == s.row[j]
      origin == s.record[j]["origin"]
      runner == s.record[j]["runner"] IN
  \/ row = "absent" /\ runner = NoFact /\ (From[j] = Runs[j] => origin = NoFact)
  \/ row \in Waiting /\ runner = NoFact /\ From[j] = Runs[j] /\ origin.status = row
  \/ row \notin Waiting \cup {"absent"} /\ runner.status = row
  \/ row = "uncertain" /\ runner.status = "running"

\* How the row of an origin and what it has signed go together.
OriginRow(s, j) ==
  LET row    == s.row[j]
      origin == s.record[j]["origin"] IN
  /\ row = "absent" <=> origin = NoFact
  /\ row \in Waiting => origin.status = row
  /\ row = "running" => origin.status \in Waiting

\* The rows of the store s of b: nobody else has one.
LogRows(b, s) ==
  \A j \in Job :
    /\ Runs[j] = b => LogRow(s, j)
    /\ From[j] = b => OriginRow(s, j)
    /\ b \notin {From[j], Runs[j]} => s.row[j] = "absent"

Logged == \A b \in Body : LogRows(b, mem[b]) /\ LogRows(b, disk[b])

\* A later fact that goes round is further on.
FactsAdvance ==
  \A j \in Job, r \in Role : \A f, g \in Held(j, r) :
    f.rev < g.rev => Stage(f.status) < Stage(g.status)

\* No unsigned doubt.
Told(s, j) == s.row[j] = "uncertain" => s.record[j]["runner"].status = "uncertain"

RowsTold == \A j \in Job : Told(disk[Runs[j]], j)

\* The inductive invariant of facts and rows.
IInv ==
  /\ HistoryTypeOK /\ FactsAreDurable /\ OneFact /\ FactsAdvance /\ Agreed /\ Behind
  /\ Logged /\ RowsTold

\* The facts of an update before they are published: nothing is made up, and b
\* has its own ones as it saved them.
Fits(b, next) ==
  \A j \in Job, r \in Role :
    IF Author(j, r) = b THEN next.record[j][r] = disk[b].record[j][r]
                        ELSE next.record[j][r] \in Copies(j, r)

\* How the row p of b may become another row q.
RowMoves(b, j, p, q) ==
  /\ p # q /\ p \notin Terminal /\ q # "absent"
  /\ b \in {From[j], Runs[j]}
  /\ q \in Waiting => From[j] = b /\ p = IF q = "queued" THEN "absent" ELSE "queued"
  /\ From[j] = b /\ p = "absent" => q = "queued"
  /\ Runs[j] = b => p \in Waiting \cup {"absent"} \/ (p = "running" /\ q \in Outcome)

\* The rows of an update before they are published.
RowsFit(b, old, next) ==
  \A j \in Job : old.row[j] = next.row[j] \/ RowMoves(b, j, old.row[j], next.row[j])

\* What a machine that can save shows of its own runs does not go back.
RowsGoOn(b, m) ==
  ~halted[b] => \A j \in Job : Runs[j] = b =>
    m.row[j] = mem[b].row[j] \/ Stage(mem[b].row[j]) < Stage(m.row[j])

Same(s, t) == s.record = t.record /\ s.row = t.row

\* next is an update of what b has saved.
Derived(b, next, old) ==
  /\ b \in Body /\ next \in HStore
  /\ Same(old, disk[b]) \/ (Same(old, mem[b]) /\ ~halted[b])
  /\ Fits(b, next) /\ RowsFit(b, old, next)

\* What every step does to the two stores of one machine: m and d are the new
\* ones, and next is the update of old they come from.
Written(b, next, old, m, d) ==
  /\ Derived(b, next, old)
  /\ m \in HStore /\ d \in HStore /\ LogRows(b, m) /\ RowsGoOn(b, m)
  /\ mem' = [mem EXCEPT ![b] = m]
  /\ disk' = [disk EXCEPT ![b] = d]
  /\ Same(d, disk[b]) \/ Same(d, Refreshed(b, next, old))
  /\ m.record \in {d.record, mem[b].record, disk[b].record}
  /\ halted' \in [Body -> BOOLEAN]
  /\ \A c \in Body \ {b} : halted'[c] = halted[c]
  /\ ~halted'[b] => m.record = d.record /\ m.row = d.row

\* What every step does to the answers on their way.
Carried ==
  /\ fetch' \in [Link -> Page]
  /\ \A l \in Link : \A e \in fetch'[l].entries : \A r \in Role :
       e.record[r] \in Copies(e.job, r)

\* Every fact has an author.
LEMMA AuthorIsBody ==
  ASSUME NEW j \in Job, NEW r \in Role
  PROVE  Author(j, r) \in Body
  BY HistoryShape DEF Author

\* Whatever is held is a fact.
LEMMA HeldIsFact ==
  ASSUME HistoryTypeOK, NEW j \in Job, NEW r \in Role
  PROVE  Held(j, r) \subseteq Fact
<1>1. \A b \in Body : mem[b].record[j][r] \in Fact /\ disk[b].record[j][r] \in Fact
  BY DEF HistoryTypeOK, HStore, Record
<1>2. \A l \in Link : \A e \in fetch[l].entries : e.record[r] \in Fact
  BY DEF HistoryTypeOK, Page, Published, Record
<1>3. QED
  BY <1>1, <1>2 DEF Held

\* Copies are held.
LEMMA CopiesAreHeld ==
  ASSUME NEW j \in Job, NEW r \in Role
  PROVE  Copies(j, r) \subseteq Held(j, r)
  BY DEF Copies, Held

\* The facts of one role move on only by their author's next word.
LEMMA FactsMove ==
  ASSUME IInv, NEW b, NEW next, NEW old, NEW m, NEW d,
         Written(b, next, old, m, d), Carried, NEW j \in Job, NEW r \in Role
  PROVE  LET last == disk[Author(j, r)].record[j][r] IN
         /\ Held(j, r)' \subseteq Held(j, r) \cup {last'}
         /\ last \in Held(j, r) /\ last \in Fact /\ last' \in Fact
         /\ last' = last \/ (last.status \notin Terminal /\ last'.rev = last.rev + 1)
<1> DEFINE a == Author(j, r)
           last == disk[a].record[j][r]
           U == Refreshed(b, next, old)
<1>1. a \in Body /\ b \in Body /\ mem \in [Body -> HStore] /\ disk \in [Body -> HStore]
      /\ m \in HStore /\ d \in HStore /\ next \in HStore
  BY AuthorIsBody DEF IInv, HistoryTypeOK, Written, Derived
<1>2. /\ mem' = [mem EXCEPT ![b] = m]
      /\ disk' = [disk EXCEPT ![b] = d]
      /\ d.record = disk[b].record \/ d.record = U.record
      /\ m.record \in {d.record, mem[b].record, disk[b].record}
      /\ IF a = b THEN next.record[j][r] = last ELSE next.record[j][r] \in Copies(j, r)
  BY DEF Written, Derived, Same, Fits
<1>3. /\ last' = IF a = b THEN d.record[j][r] ELSE last
      /\ last \in Fact /\ last' \in Fact
  BY <1>1, <1>2 DEF HStore, Record
<1>4. /\ \A c \in Body : mem[c].record[j][r] \in Held(j, r) /\ disk[c].record[j][r] \in Held(j, r)
      /\ Copies(j, r) \subseteq Held(j, r)
  BY CopiesAreHeld DEF Held
<1>5. \/ U.record[j][r] = next.record[j][r]
      \/ /\ a = b
         /\ next.record[j][r].status \notin Terminal
         /\ U.record[j][r].rev = next.record[j][r].rev + 1
  BY <1>1, RefreshedTyped
<1> HIDE DEF U
<1>6. d.record[j][r] \in Held(j, r) \cup {last'}
  BY <1>1, <1>2, <1>3, <1>4, <1>5
<1>7. last' = last \/ (last.status \notin Terminal /\ last'.rev = last.rev + 1)
  BY <1>2, <1>3, <1>5
<1>8. \A c \in Body : /\ mem'[c].record[j][r] \in Held(j, r) \cup {last'}
                      /\ disk'[c].record[j][r] \in Held(j, r) \cup {last'}
  <2> TAKE c \in Body
  <2>1. CASE c = b
    <3>1. mem'[c] = m /\ disk'[c] = d
      BY <1>1, <1>2, <2>1
    <3>2. m.record[j][r] \in Held(j, r) \cup {last'}
      BY <1>1, <1>2, <1>4, <1>6
    <3>3. QED
      BY <1>6, <3>1, <3>2
  <2>2. CASE c # b
    BY <1>1, <1>2, <1>4, <2>2
  <2>3. QED
    BY <2>1, <2>2
<1>9. \A l \in Link : \A e \in {x \in fetch'[l].entries : x.job = j} :
        e.record[r] \in Held(j, r)
  BY <1>4 DEF Carried
<1>10. Held(j, r)' \subseteq Held(j, r) \cup {last'}
  <2> DEFINE H == Held(j, r) \cup {last'}
  <2>1. Held(j, r)' = {mem'[c].record[j][r] : c \in Body} \cup {disk'[c].record[j][r] : c \in Body}
         \cup UNION {{e.record[r] : e \in {x \in fetch'[l].entries : x.job = j}} : l \in Link}
    BY DEF Held
  <2>2. \A x \in UNION {{e.record[r] : e \in {x \in fetch'[l].entries : x.job = j}} : l \in Link} : x \in H
    BY <1>9
  <2> HIDE DEF last
  <2>3. QED
    BY <1>8, <2>1, <2>2
<1>11. QED
  BY <1>1, <1>3, <1>4, <1>7, <1>10

\* Nobody gets ahead of the author in a step.
LEMMA BehindKept ==
  ASSUME IInv, NEW b, NEW next, NEW old, NEW m, NEW d,
         Written(b, next, old, m, d), Carried
  PROVE  Behind'
<1> SUFFICES ASSUME NEW j \in Job, NEW r \in Role, NEW f \in Copies(j, r)'
             PROVE  f.rev <= (mem[Author(j, r)].record[j][r].rev)'
  BY DEF Behind
<1> DEFINE a   == Author(j, r)
           top == mem[a].record[j][r]
           U   == Refreshed(b, next, old)
<1>1. a \in Body /\ b \in Body /\ mem \in [Body -> HStore] /\ disk \in [Body -> HStore]
      /\ m \in HStore /\ d \in HStore /\ next \in HStore
  BY AuthorIsBody DEF IInv, HistoryTypeOK, Written, Derived
<1>2. /\ mem' = [mem EXCEPT ![b] = m] /\ disk' = [disk EXCEPT ![b] = d]
      /\ d.record = disk[b].record \/ d.record = U.record
      /\ m.record \in {d.record, mem[b].record, disk[b].record}
      /\ IF a = b THEN next.record[j][r] = disk[b].record[j][r] ELSE next.record[j][r] \in Copies(j, r)
  BY DEF Written, Derived, Same, Fits
<1>3. \A h \in Copies(j, r) : h \in Fact /\ h.rev <= top.rev
  BY HeldIsFact, CopiesAreHeld DEF IInv, Behind
<1>4. /\ \A c \in Body : mem[c].record[j][r] \in Copies(j, r)
      /\ \A c \in Body : c # a => disk[c].record[j][r] \in Copies(j, r)
  BY DEF Copies
<1>5. top \in Fact /\ top' \in Fact /\ top.rev <= top'.rev
  <2>1. top \in Fact /\ top' \in Fact
    BY <1>1, <1>2 DEF HStore, Record
  <2>2. CASE a # b
    <3>1. top' = top
      BY <1>1, <1>2, <2>2
    <3> HIDE DEF top
    <3>2. QED
      BY <2>1, <3>1 DEF Fact
  <2>3. CASE a = b
    <3> DEFINE last == disk[b].record[j][r]
    <3>1. last \in Fact /\ top.rev <= last.rev
      <4>1. top \in Held(j, r) /\ last \in Fact
        BY <1>1 DEF Held, HStore, Record
      <4>2. top = last \/ top.rev < last.rev
        BY <2>3, <4>1 DEF IInv, FactsAreDurable
      <4> HIDE DEF top, last
      <4>3. QED
        BY <2>1, <4>1, <4>2 DEF Fact
    <3>2. U.record[j][r] = last \/ U.record[j][r].rev = last.rev + 1
      BY <1>1, <1>2, <2>3, RefreshedTyped
    <3>3. d.record[j][r] = last \/ d.record[j][r].rev = last.rev + 1
      <4> HIDE DEF U
      <4> QED BY <1>2, <3>2
    <3>4. top' = m.record[j][r]
      BY <1>1, <1>2, <2>3
    <3>5. m.record[j][r] \in {d.record[j][r], top, last}
      BY <1>2, <2>3
    <3> HIDE DEF top, last
    <3>6. QED
      BY <2>1, <3>1, <3>3, <3>4, <3>5 DEF Fact
  <2>4. QED
    BY <2>2, <2>3
<1>6. a # b => U.record[j][r] = next.record[j][r]
  BY <1>1, RefreshedTyped
<1> HIDE DEF U
<1>7. \A c \in Body : mem'[c].record[j][r] \in Copies(j, r) \cup {top'}
  <2> TAKE c \in Body
  <2>1. CASE c = a
    BY <2>1
  <2>2. CASE c # a /\ c # b
    BY <1>1, <1>2, <1>4, <2>2
  <2>3. CASE c # a /\ c = b
    <3>1. d.record[j][r] \in Copies(j, r)
      BY <1>1, <1>2, <1>4, <1>6, <2>3
    <3>2. QED
      BY <1>1, <1>2, <1>4, <2>3, <3>1
  <2>4. QED
    BY <2>1, <2>2, <2>3
<1>8. \A c \in Body \ {a} : disk'[c].record[j][r] \in Copies(j, r)
  BY <1>1, <1>2, <1>4, <1>6
<1>9. \A l \in Link : \A e \in {x \in fetch'[l].entries : x.job = j} :
        e.record[r] \in Copies(j, r)
  BY DEF Carried
<1>10. f \in Copies(j, r) \cup {top'}
  <2>1. Copies(j, r)' = {mem'[c].record[j][r] : c \in Body}
         \cup {disk'[c].record[j][r] : c \in Body \ {a}}
         \cup UNION {{e.record[r] : e \in {x \in fetch'[l].entries : x.job = j}} : l \in Link}
    BY DEF Copies, Author
  <2> HIDE DEF top, a
  <2>2. QED
    BY <1>7, <1>8, <1>9, <2>1
<1>11. f.rev <= top'.rev
  <2> HIDE DEF top
  <2> QED BY <1>3, <1>5, <1>10 DEF Fact
<1>12. QED
  BY <1>11

\* Publishing keeps the rows and the facts of a runner together.
LEMMA RefreshedLogs ==
  ASSUME IInv, NEW b, NEW next, NEW old, Derived(b, next, old),
         NEW j \in Job, Runs[j] = b, LogRow(old, j)
  PROVE  /\ LogRow(Refreshed(b, next, old), j)
         /\ Told(old, j) => Told(Refreshed(b, next, old), j)
<1> DEFINE U == Refreshed(b, next, old)
<1>1. U.row = next.row
  BY RefreshedRecord DEF Derived
<1>2. \A r \in Role : U.record[j][r] =
        IF j \in Owned(b, next, old) /\ r = RoleOf(b, j, next.row[j])
        THEN Successor(next.record[j][r], next.row[j]) ELSE next.record[j][r]
  BY RefreshedRecord DEF Derived
<1>3. old.record = disk[b].record
  BY DEF Derived, Same, IInv, Agreed
<1>4. /\ next.record[j]["runner"] = old.record[j]["runner"]
      /\ From[j] = b => next.record[j]["origin"] = old.record[j]["origin"]
  BY <1>3 DEF Derived, Fits, Author, Role
<1>5. \/ next.row[j] = old.row[j]
      \/ /\ next.row[j] # "absent" /\ (next.row[j] \in Waiting => From[j] = b)
         /\ \/ old.row[j] \in Waiting \cup {"absent"}
            \/ old.row[j] = "running" /\ next.row[j] \in Outcome
  BY DEF Derived, RowsFit, RowMoves
<1> HIDE DEF U
<1>6. CASE next.row[j] = old.row[j]
  <2>1. \A r \in Role : U.record[j][r] = next.record[j][r]
    BY <1>2, <1>6 DEF Owned
  <2>2. QED
    BY <1>1, <1>4, <1>6, <2>1 DEF LogRow, Told, Role, U
<1>7. CASE next.row[j] # old.row[j] /\ next.row[j] \in Waiting
  <2>1. RoleOf(b, j, next.row[j]) = "origin" /\ From[j] = b
    BY <1>5, <1>7 DEF RoleOf
  <2>2. old.row[j] \in Waiting \cup {"absent"}
    BY <1>5, <1>7 DEF Outcome, Waiting
  <2>3. /\ old.record[j]["runner"] = NoFact
        /\ old.record[j]["origin"].status = old.row[j]
    BY <2>1, <2>2 DEF LogRow, NoFact, Waiting
  <2>4. j \in Owned(b, next, old)
    BY <1>4, <1>7, <2>1, <2>2, <2>3 DEF Owned, Terminal, Outcome, Waiting
  <2>5. U.record[j]["runner"] = NoFact /\ U.record[j]["origin"].status = next.row[j]
    BY <1>2, <1>4, <2>1, <2>3, <2>4 DEF Successor, Role
  <2>6. QED
    BY <1>1, <1>7, <2>1, <2>5 DEF LogRow, Told, U, Waiting
<1>8. CASE next.row[j] # old.row[j] /\ next.row[j] \notin Waiting
  <2>1. RoleOf(b, j, next.row[j]) = "runner" /\ next.row[j] # "absent"
    BY <1>5, <1>8 DEF RoleOf
  <2>2. old.record[j]["runner"].status \in {"absent", "running"} \ {next.row[j]}
    BY <1>5, <1>8, <2>1 DEF LogRow, NoFact, Outcome, Waiting
  <2>3. j \in Owned(b, next, old)
    BY <1>4, <1>8, <2>1, <2>2 DEF Owned, Terminal, Outcome
  <2>4. U.record[j]["runner"].status = next.row[j]
    BY <1>2, <2>1, <2>3 DEF Successor, Role
  <2>5. QED
    BY <1>1, <1>8, <2>1, <2>4 DEF LogRow, Told, U
<1>9. QED
  BY <1>6, <1>7, <1>8

\* Publishing keeps the rows and the facts of an origin together.
LEMMA RefreshedOrigins ==
  ASSUME IInv, NEW b, NEW next, NEW old, Derived(b, next, old),
         NEW j \in Job, From[j] = b, OriginRow(old, j)
  PROVE  OriginRow(Refreshed(b, next, old), j)
<1> DEFINE U == Refreshed(b, next, old)
           p == old.row[j]
           q == next.row[j]
           f == old.record[j]["origin"]
           g == U.record[j]["origin"]
<1>1. U.row = next.row /\ p \in Status
  <2>1. U.row = next.row
    BY RefreshedRecord DEF Derived
  <2>2. old.row = disk[b].row \/ old.row = mem[b].row
    BY DEF Derived, Same
  <2>3. QED
    BY <2>1, <2>2 DEF Derived, IInv, HistoryTypeOK, HStore
<1>2. \A r \in Role : U.record[j][r] =
        IF j \in Owned(b, next, old) /\ r = RoleOf(b, j, next.row[j])
        THEN Successor(next.record[j][r], next.row[j]) ELSE next.record[j][r]
  BY RefreshedRecord DEF Derived
<1>3. next.record[j]["origin"] = f
  BY DEF Derived, Same, IInv, Agreed, Fits, Author, Role
<1>4. g = IF j \in Owned(b, next, old) /\ RoleOf(b, j, q) = "origin"
          THEN Successor(f, q) ELSE f
  BY <1>2, <1>3 DEF Role
<1>5. p = q \/ RowMoves(b, j, p, q)
  BY DEF Derived, RowsFit
<1>6. /\ p = "absent" <=> f = NoFact
      /\ p \in Waiting => f.status = p
      /\ p = "running" => f.status \in Waiting
  BY DEF OriginRow
<1>7. (j \in Owned(b, next, old)) <=>
        (q # p /\ RoleOf(b, j, q) # "none"
               /\ next.record[j][RoleOf(b, j, q)].status \notin {q} \cup Terminal)
  BY DEF Owned
<1> HIDE DEF U, p, q, f, g
<1>8. /\ q = "absent" <=> g = NoFact
      /\ q \in Waiting => g.status = q
      /\ q = "running" => g.status \in Waiting
  <2>1. CASE p = q
    BY <1>4, <1>6, <1>7, <2>1
  <2>2. CASE RowMoves(b, j, p, q) /\ q \in Waiting
    <3>1. RoleOf(b, j, q) = "origin"
      BY <2>2 DEF RoleOf
    <3>2. f.status \in {"absent", "queued"} \ {q}
      BY <1>6, <2>2 DEF RowMoves, NoFact, Waiting
    <3>3. g = Successor(f, q)
      BY <1>3, <1>4, <1>7, <2>2, <3>1, <3>2 DEF RowMoves, Terminal, Outcome
    <3>4. QED
      BY <2>2, <3>3 DEF Successor, NoFact, Waiting
  <2>3. CASE RowMoves(b, j, p, q) /\ q = "running"
    <3>1. RoleOf(b, j, q) # "origin"
      BY <2>3 DEF RoleOf, Waiting
    <3>2. p \in Waiting \cup {"absent", "running"} => f # NoFact /\ f.status \in Waiting
      BY <1>6, <2>3 DEF RowMoves, Waiting
    <3>3. p \in Waiting \cup {"absent", "running"}
      BY <1>1, <2>3 DEF RowMoves, Status
    <3>4. QED
      BY <1>4, <2>3, <3>1, <3>2, <3>3 DEF Waiting
  <2>4. CASE RowMoves(b, j, p, q) /\ q \notin Waiting \cup {"running"}
    <3>1. f # NoFact /\ q # "absent"
      BY <1>6, <2>4 DEF RowMoves, Waiting
    <3>2. QED
      BY <1>4, <2>4, <3>1 DEF Successor, NoFact
  <2>5. QED
    BY <1>5, <2>1, <2>2, <2>3, <2>4
<1>9. QED
  BY <1>1, <1>8 DEF OriginRow, U, q, g

\* What an update starts from is as Logged wants it.
LEMMA OldRows ==
  ASSUME IInv, NEW b, NEW next, NEW old, Derived(b, next, old)
  PROVE  LogRows(b, old) /\ old.record = disk[b].record /\ old.row \in [Job -> Status]
<1>1. b \in Body /\ LogRows(b, mem[b]) /\ LogRows(b, disk[b])
      /\ mem[b] \in HStore /\ disk[b] \in HStore
  BY DEF IInv, HistoryTypeOK, Logged, Derived
<1>2. Same(old, disk[b]) \/ (Same(old, mem[b]) /\ mem[b].record = disk[b].record)
  BY <1>1 DEF IInv, Agreed, Derived
<1>3. old.row = disk[b].row \/ old.row = mem[b].row
  BY <1>2 DEF Same
<1>4. LogRows(b, old)
  BY <1>1, <1>2 DEF Same, LogRows, LogRow, OriginRow
<1>5. QED
  BY <1>1, <1>2, <1>3, <1>4 DEF Same, HStore

\* Publishing keeps all rows of a machine as Logged wants them.
LEMMA RefreshedRows ==
  ASSUME IInv, NEW b, NEW next, NEW old, Derived(b, next, old)
  PROVE  LogRows(b, Refreshed(b, next, old))
<1> SUFFICES ASSUME NEW j \in Job
             PROVE  LET U == Refreshed(b, next, old) IN
                    /\ Runs[j] = b => LogRow(U, j)
                    /\ From[j] = b => OriginRow(U, j)
                    /\ b \notin {From[j], Runs[j]} => U.row[j] = "absent"
  BY DEF LogRows
<1>1. /\ Runs[j] = b => LogRow(old, j)
      /\ From[j] = b => OriginRow(old, j)
      /\ b \notin {From[j], Runs[j]} => old.row[j] = "absent"
  BY OldRows DEF LogRows
<1>2. b \notin {From[j], Runs[j]} => Refreshed(b, next, old).row[j] = "absent"
  BY <1>1, RefreshedRecord DEF Derived, RowsFit, RowMoves
<1>3. QED
  BY <1>1, <1>2, RefreshedLogs, RefreshedOrigins

\* A row that moves, moves on.
LEMMA MovesAdvance ==
  ASSUME NEW b, NEW j, NEW p \in Status, NEW q \in Status, RowMoves(b, j, p, q)
  PROVE  Stage(p) < Stage(q)
<1>1. p \in {"absent", "queued", "waiting", "running"}
  BY DEF RowMoves, Status, Waiting
<1>2. q \in {"queued", "waiting", "running"} \cup Terminal
  BY DEF RowMoves, Status, Waiting
<1>3. CASE q \in Terminal
  BY <1>1, <1>3 DEF Stage, Terminal, Outcome
<1>4. CASE q \notin Terminal
  BY <1>1, <1>2, <1>4 DEF RowMoves, Stage, Waiting, Outcome, Terminal
<1>5. QED
  BY <1>3, <1>4

\* The next word of an author is further on than its last.
LEMMA WordAdvances ==
  ASSUME IInv, NEW b, NEW next, NEW old, Derived(b, next, old),
         NEW j \in Job, NEW r \in Role, Author(j, r) = b
  PROVE  LET last == disk[b].record[j][r]
             word == Refreshed(b, next, old).record[j][r]
         IN  word = last \/ Stage(last.status) < Stage(word.status)
<1> DEFINE last == disk[b].record[j][r]
           word == Refreshed(b, next, old).record[j][r]
           p == old.row[j]
           q == next.row[j]
<1>1. /\ next.record[j][r] = last /\ next \in HStore
      /\ p = q \/ RowMoves(b, j, p, q)
  BY DEF Derived, Fits, RowsFit
<1>2. /\ LogRows(b, old) /\ old.record[j][r] = last /\ p \in Status /\ q \in Status
  BY <1>1, OldRows DEF HStore
<1>3. word = IF j \in Owned(b, next, old) /\ r = RoleOf(b, j, q)
             THEN Successor(last, q) ELSE last
  BY <1>1, RefreshedRecord
<1>4. SUFFICES ASSUME j \in Owned(b, next, old), r = RoleOf(b, j, q)
               PROVE  Stage(last.status) < Stage(q)
  BY <1>3 DEF Successor
<1>5. RowMoves(b, j, p, q)
  BY <1>1, <1>4 DEF Owned
<1> HIDE DEF last, word, p, q
<1>6. Stage(p) < Stage(q) /\ q # "absent"
  BY <1>2, <1>5, MovesAdvance DEF RowMoves
<1>7. CASE r = "runner"
  <2>1. Runs[j] = b /\ LogRow(old, j) /\ q \notin Waiting
    BY <1>2, <1>4, <1>7 DEF Author, RoleOf, LogRows
  <2>2. p \in Waiting \cup {"absent"} \/ (p = "running" /\ q \in Outcome)
    BY <1>5, <2>1 DEF RowMoves
  <2>3. last.status \in {"absent", "running"} /\ (last.status = "running" => p = "running")
    BY <1>2, <1>7, <2>1, <2>2 DEF LogRow, NoFact, Waiting, p
  <2>4. Stage("absent") = 0 /\ Stage(q) > 0
    BY <1>2, <1>6 DEF Stage, Status, Waiting, Terminal, Outcome
  <2>5. QED
    BY <1>6, <2>3, <2>4
<1>8. CASE r = "origin"
  <2>1. From[j] = b /\ OriginRow(old, j) /\ q \in Waiting \cup {"failed"}
    BY <1>2, <1>4, <1>8 DEF Author, RoleOf, LogRows
  <2>2. p \in {"absent", "queued", "waiting", "running"}
    BY <1>2, <1>5 DEF RowMoves, Status, Waiting
  <2>3. \/ p = "absent" /\ last = NoFact
        \/ p \in Waiting /\ last.status = p
        \/ p = "running" /\ last.status \in Waiting
    BY <1>2, <1>8, <2>1, <2>2 DEF OriginRow, Waiting, p
  <2>4. last.status \in {"absent", "queued", "waiting"} /\ Stage(last.status) <= Stage(p)
    BY <2>3 DEF Stage, NoFact, Waiting
  <2>5. Stage(p) \in Nat /\ Stage(q) \in Nat /\ Stage(last.status) \in Nat
    BY DEF Stage
  <2>6. QED
    BY <1>6, <2>4, <2>5
<1>9. QED
  BY <1>7, <1>8 DEF Role

\* So of two facts of one role before or after a step the later is further on.
LEMMA LaterIsFurther ==
  ASSUME IInv, NEW b, NEW next, NEW old, NEW m, NEW d,
         Written(b, next, old, m, d), Carried, NEW j \in Job, NEW r \in Role,
         NEW f \in Held(j, r) \cup Held(j, r)', NEW g \in Held(j, r) \cup Held(j, r)'
  PROVE  /\ f.rev = g.rev => f = g
         /\ f.rev < g.rev => Stage(f.status) < Stage(g.status)
<1> DEFINE a    == Author(j, r)
           last == disk[a].record[j][r]
<1>1. /\ f \in Held(j, r) \cup {last'} /\ g \in Held(j, r) \cup {last'}
      /\ last \in Held(j, r) /\ last \in Fact /\ last' \in Fact
      /\ last' = last \/ last'.rev = last.rev + 1
  BY FactsMove
<1>2. \A h \in Held(j, r) : h \in Fact /\ (h = last \/ h.rev < last.rev)
  BY HeldIsFact DEF IInv, FactsAreDurable
<1>3. /\ \A h, i \in Held(j, r) : h.rev = i.rev => h = i
      /\ \A h, i \in Held(j, r) : h.rev < i.rev => Stage(h.status) < Stage(i.status)
  BY DEF IInv, FactsAdvance, OneFact
<1>4. last' = last \/ Stage(last.status) < Stage(last'.status)
  <2>1. Derived(b, next, old) /\ b \in Body /\ a \in Body
    BY AuthorIsBody DEF Written, Derived
  <2>2. a # b => last' = last
    BY <2>1 DEF Written, IInv, HistoryTypeOK
  <2>3. a = b => last' = last \/ last' = Refreshed(b, next, old).record[j][r]
    BY <2>1 DEF Written, IInv, HistoryTypeOK, Same
  <2>4. QED
    BY <2>1, <2>2, <2>3, WordAdvances
<1>5. \A x : Stage(x) \in Nat
  BY DEF Stage
<1> HIDE DEF last, a
<1>6. CASE f \in Held(j, r) /\ g \in Held(j, r)
  BY <1>3, <1>6
<1>7. CASE f \in Held(j, r) /\ g = last' /\ last' # last
  <2>1. /\ f = last \/ Stage(f.status) < Stage(last.status)
        /\ f \in Fact /\ (f = last \/ f.rev < last.rev) /\ last'.rev = last.rev + 1
    BY <1>1, <1>2, <1>3, <1>7
  <2>2. Stage(f.status) < Stage(g.status)
    BY <1>4, <1>5, <1>7, <2>1
  <2>3. f.rev # g.rev
    BY <1>1, <1>7, <2>1 DEF Fact
  <2>4. QED
    BY <2>2, <2>3
<1>8. CASE f = last' /\ last' # last
  <2>1. g = last' \/ (g \in Fact /\ g.rev <= last.rev)
    BY <1>1, <1>2 DEF Fact
  <2>2. g = last' \/ g.rev < f.rev
    BY <1>1, <1>8, <2>1 DEF Fact
  <2>3. QED
    BY <1>1, <1>8, <2>1, <2>2 DEF Fact
<1>9. QED
  BY <1>1, <1>6, <1>7, <1>8

\* What goes round after a step is ordered as before.
LEMMA AdvanceKept ==
  ASSUME IInv, NEW b, NEW next, NEW old, NEW m, NEW d,
         Written(b, next, old, m, d), Carried
  PROVE  FactsAdvance'
<1> SUFFICES ASSUME NEW j \in Job, NEW r \in Role, NEW f \in Held(j, r)', NEW g \in Held(j, r)',
                    f.rev < g.rev
             PROVE  Stage(f.status) < Stage(g.status)
  BY DEF FactsAdvance, Stage
<1>1. QED
  BY LaterIsFurther

\* Rows and facts stay together in a step.
LEMMA LoggedKept ==
  ASSUME IInv, NEW b, NEW next, NEW old, NEW m, NEW d, Written(b, next, old, m, d)
  PROVE  Logged'
<1>1. /\ mem \in [Body -> HStore] /\ disk \in [Body -> HStore] /\ b \in Body
      /\ mem' = [mem EXCEPT ![b] = m] /\ disk' = [disk EXCEPT ![b] = d]
      /\ Same(d, disk[b]) \/ Same(d, Refreshed(b, next, old))
      /\ LogRows(b, m) /\ Derived(b, next, old)
  BY DEF IInv, HistoryTypeOK, Written, Derived
<1>2. LogRows(b, d)
  <2>1. LogRows(b, disk[b]) /\ LogRows(b, Refreshed(b, next, old))
    BY <1>1, RefreshedRows DEF IInv, Logged
  <2>2. QED
    BY <1>1, <2>1 DEF Same, LogRows, LogRow, OriginRow
<1>3. \A c \in Body : LogRows(c, mem'[c]) /\ LogRows(c, disk'[c])
  BY <1>1, <1>2 DEF IInv, Logged
<1>4. QED
  BY <1>3 DEF Logged, LogRows, LogRow, OriginRow

\* What Logged says of one invocation.
LEMMA RowsHere ==
  ASSUME IInv, NEW j \in Job
  PROVE  \A s \in {mem, disk} :
           /\ LogRow(s[Runs[j]], j) /\ OriginRow(s[From[j]], j)
           /\ \A b \in Body \ {From[j], Runs[j]} : s[b].row[j] = "absent"
BY HistoryShape DEF IInv, Logged, LogRows

\* The inductive invariant in every step that writes one machine.
LEMMA WrittenKeeps ==
  ASSUME IInv, NEW b, NEW next, NEW old, NEW m, NEW d,
         Written(b, next, old, m, d), Carried, faults' \in Nat, plan' = plan
  PROVE  IInv'
<1>1. mem \in [Body -> HStore] /\ disk \in [Body -> HStore] /\ b \in Body
      /\ m \in HStore /\ d \in HStore /\ next \in HStore
      /\ mem' = [mem EXCEPT ![b] = m] /\ disk' = [disk EXCEPT ![b] = d]
  BY DEF IInv, HistoryTypeOK, Written, Derived
<1>2. HistoryTypeOK'
  BY <1>1 DEF IInv, HistoryTypeOK, Written, Carried
<1>3. FactsAreDurable'
  <2> SUFFICES ASSUME NEW j \in Job, NEW r \in Role, NEW f \in Held(j, r)'
               PROVE  LET last == disk[Author(j, r)].record[j][r] IN
                      f = last' \/ (f.rev < last'.rev /\ f.status \notin Terminal)
    BY DEF FactsAreDurable, Author
  <2> DEFINE last == disk[Author(j, r)].record[j][r]
  <2>1. /\ f = last' \/ f \in Held(j, r)
        /\ last \in Fact /\ last' \in Fact
        /\ last' = last \/ (last.status \notin Terminal /\ last'.rev = last.rev + 1)
    BY FactsMove
  <2>2. f \in Held(j, r) => /\ f \in Fact
                            /\ f = last \/ (f.rev < last.rev /\ f.status \notin Terminal)
    BY HeldIsFact DEF IInv, FactsAreDurable
  <2> HIDE DEF last
  <2>3. f = last' \/ (f.rev < last'.rev /\ f.status \notin Terminal)
    BY <2>1, <2>2 DEF Fact
  <2>4. QED
    BY <2>3 DEF last
<1>4. OneFact'
  <2> SUFFICES ASSUME NEW j \in Job, NEW r \in Role,
                      NEW f \in Held(j, r)', NEW g \in Held(j, r)', f.rev = g.rev
               PROVE  f = g
    BY DEF OneFact
  <2> DEFINE last == disk[Author(j, r)].record[j][r]
  <2>1. /\ f = last' \/ f \in Held(j, r)
        /\ g = last' \/ g \in Held(j, r)
        /\ last \in Held(j, r)
        /\ last' = last \/ last'.rev = last.rev + 1
    BY FactsMove
  <2>2. \A h \in Held(j, r) : h \in Fact /\ h.rev <= last.rev
    <3>1. \A h \in Held(j, r) : h = last \/ h.rev < last.rev
      BY DEF IInv, FactsAreDurable
    <3>2. Held(j, r) \subseteq Fact
      BY HeldIsFact DEF IInv
    <3> HIDE DEF last
    <3>3. QED
      BY <2>1, <3>1, <3>2 DEF Fact
  <2>3. f \in Held(j, r) /\ g \in Held(j, r) => f = g
    BY DEF IInv, OneFact
  <2> HIDE DEF last
  <2>4. QED
    BY <2>1, <2>2, <2>3 DEF Fact
<1>5. Agreed'
  <2> SUFFICES ASSUME NEW c \in Body, ~halted'[c]
               PROVE  /\ mem'[c].record = disk'[c].record
                      /\ mem'[c].row = disk'[c].row
    BY DEF Agreed
  <2>1. CASE c = b
    BY <1>1, <2>1 DEF Written
  <2>2. CASE c # b
    BY <1>1, <2>2 DEF Written, IInv, Agreed
  <2>3. QED
    BY <2>1, <2>2
<1>6. Behind'
  BY BehindKept
<1>7. FactsAdvance'
  BY AdvanceKept
<1>8. Logged'
  BY LoggedKept
<1>9. RowsTold'
  <2> SUFFICES ASSUME NEW j \in Job
               PROVE  Told(disk'[Runs[j]], j)
    BY DEF RowsTold, Told
  <2>1. /\ LogRow(mem[Runs[j]], j) /\ LogRow(disk[Runs[j]], j) /\ Runs[j] \in Body
        /\ Told(disk[Runs[j]], j)
    BY RowsHere, HistoryShape DEF IInv, RowsTold
  <2>2. CASE Runs[j] # b
    BY <1>1, <2>1, <2>2
  <2>3. CASE Runs[j] = b
    <3> DEFINE U == Refreshed(b, next, old)
    <3>1. disk'[b] = d
      BY <1>1
    <3>2. Same(d, disk[b]) \/ Same(d, U)
      BY DEF Written
    <3>3. LogRow(old, j) /\ Told(old, j)
      <4>1. CASE Same(old, disk[b])
        BY <2>1, <2>3, <4>1 DEF Same, LogRow, Told
      <4>2. CASE Same(old, mem[b]) /\ ~halted[b]
        <5>1. mem[b].record = disk[b].record /\ mem[b].row = disk[b].row
          BY <1>1, <4>2 DEF IInv, Agreed
        <5>2. QED
          BY <2>1, <2>3, <4>2, <5>1 DEF Same, LogRow, Told
      <4>3. QED
        BY <4>1, <4>2 DEF Written, Derived
    <3>4. Told(U, j)
      BY <2>3, <3>3, RefreshedLogs DEF Written
    <3> HIDE DEF U
    <3>5. Told(d, j)
      BY <2>1, <2>3, <3>2, <3>4 DEF Same, Told
    <3>6. QED
      BY <2>3, <3>1, <3>5
  <2>4. QED
    BY <2>2, <2>3
<1>10. QED
  BY <1>2, <1>3, <1>4, <1>5, <1>6, <1>7, <1>8, <1>9 DEF IInv

-----------------------------------------------------------------------------
(* Every step is of that kind *)

\* Some machine is written as WrittenKeeps wants it.
Writes == \E b, next, old, m, d : Written(b, next, old, m, d)

\* What is shown may stay as it is.
LEMMA ShownStays ==
  ASSUME IInv, NEW b \in Body, NEW m, Same(m, mem[b])
  PROVE  LogRows(b, m) /\ RowsGoOn(b, m)
<1>1. LogRows(b, mem[b])
  BY DEF IInv, Logged
<1>2. QED
  BY <1>1 DEF Same, LogRows, LogRow, OriginRow, RowsGoOn

\* Answers that stay or are taken carry nothing new.
LEMMA CarriedOn ==
  ASSUME IInv, \A l \in Link : fetch'[l] \in {fetch[l], NoPage}, fetch' \in [Link -> Page]
  PROVE  Carried
<1> SUFFICES ASSUME NEW l \in Link, NEW e \in fetch'[l].entries, NEW r \in Role
             PROVE  e.record[r] \in Copies(e.job, r)
  BY DEF Carried
<1>1. e \in fetch[l].entries
  BY DEF NoPage
<1>2. e \in {x \in fetch[l].entries : x.job = e.job}
  BY <1>1
<1>3. QED
  BY <1>2 DEF Copies

\* No answer is an empty one.
LEMMA NoPageIsPage == NoPage \in Page
  BY DEF NoPage, Page, Progress, Unread

\* What is saved is an update of itself.
LEMMA OwnDiskFits ==
  ASSUME IInv, NEW b \in Body
  PROVE  Derived(b, disk[b], disk[b])
  BY DEF IInv, HistoryTypeOK, Derived, Same, Fits, RowsFit, Copies

\* So is what a machine that can save shows.
LEMMA CopiesFit ==
  ASSUME IInv, NEW b \in Body, ~halted[b], NEW next, next.record = mem[b].record
  PROVE  Fits(b, next)
<1>1. next.record = disk[b].record
  BY DEF IInv, Agreed
<1>2. QED
  BY <1>1 DEF Fits, Copies

\* Merging what others hold leaves a machine's own facts alone.
LEMMA MergesFit ==
  ASSUME IInv, NEW b \in Body, ~halted[b], NEW S,
         \A e \in S : e \in Published /\ \A r \in Role : e.record[r] \in Copies(e.job, r)
  PROVE  /\ Ingested(mem[b], S) \in HStore
         /\ \A next : next.record = Ingested(mem[b], S).record => Fits(b, next)
<1>1. mem[b] \in HStore /\ mem[b].record = disk[b].record
  BY DEF IInv, HistoryTypeOK, Agreed
<1> DEFINE s == Ingested(mem[b], S)
<1>2. /\ s \in HStore
      /\ \A j \in Job, r \in Role :
           LET f == mem[b].record[j][r]
               g == s.record[j][r] IN
           g = f \/ (g.rev > f.rev /\ \E e \in S : e.job = j /\ g = e.record[r])
  BY <1>1, IngestedTyped
<1> HIDE DEF s
<1>3. ASSUME NEW j \in Job, NEW r \in Role
      PROVE  IF Author(j, r) = b THEN s.record[j][r] = disk[b].record[j][r]
                                 ELSE s.record[j][r] \in Copies(j, r)
  <2> DEFINE f == mem[b].record[j][r]
             g == s.record[j][r]
  <2>1. f \in Copies(j, r)
    BY DEF Copies
  <2>2. g = f \/ (g.rev > f.rev /\ g \in Copies(j, r))
    BY <1>2
  <2>3. Copies(j, r) \subseteq Fact
    BY CopiesAreHeld, HeldIsFact DEF IInv
  <2>4. Author(j, r) = b => \A h \in Copies(j, r) : h.rev <= f.rev
    BY DEF IInv, Behind
  <2> HIDE DEF f, g
  <2>5. Author(j, r) = b => g = f
    BY <2>1, <2>2, <2>3, <2>4 DEF Fact
  <2>6. QED
    BY <1>1, <2>1, <2>2, <2>5 DEF f, g
<1>4. QED
  BY <1>2, <1>3 DEF Fits, s

\* Store::update is a step of that kind.
LEMMA UpdateWrites ==
  ASSUME IInv, NEW b \in Body, NEW next \in HStore, NEW shown \in HStore,
         shown.record = mem[b].record, LogRows(b, shown), RowsGoOn(b, shown),
         Fits(b, next), RowsFit(b, mem[b], next),
         Saved(b, next) \/ SaveFailed(b, next, shown)
  PROVE  Writes /\ faults' \in Nat
<1> DEFINE U == Refreshed(b, next, mem[b])
<1>1. U \in HStore /\ mem \in [Body -> HStore] /\ disk \in [Body -> HStore]
      /\ halted \in [Body -> BOOLEAN] /\ faults \in Nat
  BY RefreshedTyped DEF IInv, HistoryTypeOK
<1>2. ~halted[b] /\ Derived(b, next, mem[b])
  BY DEF Saved, SaveFailed, Derived, Same
<1>3. CASE Saved(b, next)
  <2>1. mem' = [mem EXCEPT ![b] = U] /\ disk' = [disk EXCEPT ![b] = U]
        /\ halted' = halted /\ faults' = faults
    BY <1>3 DEF Saved
  <2>2. Same(U, U) /\ LogRows(b, U) /\ RowsGoOn(b, U)
    <3>1. U.row = next.row
      BY RefreshedRecord
    <3>2. \A j \in Job : mem[b].row[j] \in Status /\ next.row[j] \in Status
      BY <1>1 DEF HStore
    <3> HIDE DEF U
    <3>3. RowsGoOn(b, U)
      BY <3>1, <3>2, MovesAdvance DEF RowsGoOn, RowsFit
    <3>4. QED
      BY <1>2, <3>3, RefreshedRows DEF Same, U
  <2> HIDE DEF U
  <2>3. Written(b, next, mem[b], U, U)
    BY <1>1, <1>2, <2>1, <2>2 DEF Written, U
  <2>4. QED
    BY <1>1, <2>1, <2>3 DEF Writes
<1>4. CASE SaveFailed(b, next, shown)
  <2>1. mem' = [mem EXCEPT ![b] = shown]
        /\ halted' = [halted EXCEPT ![b] = TRUE] /\ faults' = faults + 1
    BY <1>4 DEF SaveFailed
  <2>2. PICK d \in {disk[b], U} : disk' = [disk EXCEPT ![b] = d]
    BY <1>1, <1>4 DEF SaveFailed
  <2> HIDE DEF U
  <2>3. Same(d, disk[b]) \/ Same(d, U)
    BY <2>2 DEF Same
  <2>4. Written(b, next, mem[b], shown, d)
    BY <1>1, <1>2, <2>1, <2>2, <2>3 DEF Written, U
  <2>5. QED
    BY <1>1, <2>1, <2>4 DEF Writes
<1>5. QED
  BY <1>3, <1>4

\* A changed row is well typed.
LEMMA RowTyped ==
  ASSUME IInv, NEW b \in Body, NEW j \in Job, NEW st \in Status
  PROVE  /\ mem[b] \in HStore
         /\ Row(b, j, st) \in HStore
         /\ Row(b, j, st).record = mem[b].record
         /\ Row(b, j, st).row = [mem[b].row EXCEPT ![j] = st]
<1>1. mem[b] \in HStore
  BY DEF IInv, HistoryTypeOK
<1>2. QED
  BY <1>1 DEF Row, HStore

\* A change of one row, as an owner action or the course of a run makes it.
LEMMA RowUpdate ==
  ASSUME IInv, NEW b \in Body, NEW j \in Job, NEW st \in Status, NEW shown \in HStore,
         shown.record = mem[b].record, LogRows(b, shown), RowsGoOn(b, shown),
         RowMoves(b, j, mem[b].row[j], st),
         Saved(b, Row(b, j, st)) \/ SaveFailed(b, Row(b, j, st), shown),
         fetch' = fetch
  PROVE  Writes /\ Carried /\ faults' \in Nat
<1>0. /\ mem[b] \in HStore
      /\ Row(b, j, st) \in HStore
      /\ Row(b, j, st).record = mem[b].record
      /\ Row(b, j, st).row = [mem[b].row EXCEPT ![j] = st]
  BY RowTyped
<1>1. ~halted[b]
  BY DEF Saved, SaveFailed
<1>2. RowsFit(b, mem[b], Row(b, j, st))
  <2>1. \A k \in Job : Row(b, j, st).row[k] = IF k = j THEN st ELSE mem[b].row[k]
    BY <1>0 DEF HStore
  <2>2. QED
    BY <2>1 DEF RowsFit
<1>3. Writes /\ faults' \in Nat
  <2>1. Fits(b, Row(b, j, st))
    BY <1>0, <1>1, CopiesFit
  <2> DEFINE next == Row(b, j, st)
  <2> HIDE DEF next
  <2>2. QED
    BY <1>0, <1>2, <2>1, UpdateWrites DEF next
<1>4. Carried
  BY CarriedOn DEF IInv, HistoryTypeOK
<1>5. QED
  BY <1>3, <1>4

\* What happens at the origin.
LEMMA OriginSteps ==
  ASSUME IInv, NEW j \in Job, Order(j) \/ Delay(j) \/ GiveUp(j)
  PROVE  Writes /\ Carried /\ faults' \in Nat
<1> DEFINE b == From[j]
<1>1. b \in Body /\ mem[b] \in HStore /\ LogRows(b, mem[b]) /\ RowsGoOn(b, mem[b])
  BY HistoryShape, ShownStays DEF IInv, HistoryTypeOK, Same
<1>2. fetch' = fetch
  BY DEF Order, Delay, GiveUp
<1>3. PICK st \in {"queued", "waiting", "failed"} :
        /\ Update(b, Row(b, j, st))
        /\ RowMoves(b, j, mem[b].row[j], st)
  <2>1. CASE Order(j)
    <3>1. mem[b].row[j] = "absent" /\ Update(b, Row(b, j, "queued"))
      BY <2>1 DEF Order
    <3>2. RowMoves(b, j, mem[b].row[j], "queued")
      BY <3>1 DEF RowMoves, Terminal, Outcome, Waiting
    <3>3. QED
      BY <3>1, <3>2
  <2>2. CASE Delay(j)
    <3>1. mem[b].row[j] = "queued" /\ Update(b, Row(b, j, "waiting"))
      BY <2>2 DEF Delay
    <3>2. RowMoves(b, j, mem[b].row[j], "waiting")
      BY <3>1 DEF RowMoves, Terminal, Outcome, Waiting
    <3>3. QED
      BY <3>1, <3>2
  <2>3. CASE GiveUp(j)
    <3>1. /\ mem[b].row[j] \in Waiting \/ (b # Runs[j] /\ mem[b].row[j] = "running")
          /\ Update(b, Row(b, j, "failed"))
      BY <2>3 DEF GiveUp
    <3>2. RowMoves(b, j, mem[b].row[j], "failed")
      BY <3>1 DEF RowMoves, Terminal, Outcome, Waiting
    <3>3. QED
      BY <3>1, <3>2
  <2>4. QED
    BY <2>1, <2>2, <2>3
<1>4. st \in Status
  BY DEF Status, Waiting, Terminal, Outcome
<1>5. Saved(b, Row(b, j, st)) \/ SaveFailed(b, Row(b, j, st), mem[b])
  BY <1>3 DEF Update
<1> HIDE DEF b
<1>6. QED
  BY <1>1, <1>2, <1>3, <1>4, <1>5, RowUpdate

\* exec::submit.
LEMMA AdmitStep ==
  ASSUME IInv, NEW j \in Job, Admit(j)
  PROVE  Writes /\ Carried /\ faults' \in Nat
<1> DEFINE b == Runs[j]
<1>1. b \in Body /\ mem[b] \in HStore /\ LogRows(b, mem[b]) /\ RowsGoOn(b, mem[b])
  BY HistoryShape, ShownStays DEF IInv, HistoryTypeOK, Same
<1>2. PICK st \in {"running", "denied"} : Update(b, Row(b, j, st))
  BY DEF Admit
<1>3. /\ fetch' = fetch
      /\ IF From[j] = b THEN mem[b].row[j] \in Waiting ELSE mem[b].row[j] = "absent"
  BY DEF Admit
<1>4. st \in Status /\ RowMoves(b, j, mem[b].row[j], st)
  BY <1>3 DEF Status, Terminal, Outcome, Waiting, RowMoves
<1>5. Saved(b, Row(b, j, st)) \/ SaveFailed(b, Row(b, j, st), mem[b])
  BY <1>2 DEF Update
<1> HIDE DEF b
<1>6. QED
  BY <1>1, <1>3, <1>4, <1>5, RowUpdate

\* exec::finish: the doubt it cannot save is shown and never published.
LEMMA SettleStep ==
  ASSUME IInv, NEW j \in Job, Settle(j)
  PROVE  Writes /\ Carried /\ faults' \in Nat
<1> DEFINE b == Runs[j]
           doubt == Row(b, j, "uncertain")
<1>1. b \in Body
  BY HistoryShape
<1>2. /\ mem \in [Body -> HStore] /\ disk \in [Body -> HStore]
      /\ halted \in [Body -> BOOLEAN] /\ fetch \in [Link -> Page] /\ faults \in Nat
  BY DEF IInv, HistoryTypeOK
<1>3. Outcome \subseteq Status /\ "uncertain" \in Outcome /\ "absent" \notin Outcome
  BY DEF Status, Terminal, Outcome
<1>4. /\ doubt \in HStore /\ doubt.record = mem[b].record /\ mem[b] \in HStore
      /\ doubt.row = [mem[b].row EXCEPT ![j] = "uncertain"]
  BY <1>1, <1>3, RowTyped
<1>5. mem[b].row[j] = "running" /\ fetch' = fetch
  BY DEF Settle
<1>5a. LogRows(b, doubt) /\ RowsGoOn(b, doubt)
  <2>1. \A k \in Job : doubt.row[k] = IF k = j THEN "uncertain" ELSE mem[b].row[k]
    BY <1>4 DEF HStore
  <2>2. LogRows(b, mem[b])
    BY <1>1 DEF IInv, Logged
  <2> HIDE DEF doubt
  <2>3. ASSUME NEW k \in Job
        PROVE  /\ Runs[k] = b => LogRow(doubt, k)
               /\ From[k] = b => OriginRow(doubt, k)
               /\ b \notin {From[k], Runs[k]} => doubt.row[k] = "absent"
    <3>1. /\ Runs[k] = b => LogRow(mem[b], k)
          /\ From[k] = b => OriginRow(mem[b], k)
          /\ b \notin {From[k], Runs[k]} => mem[b].row[k] = "absent"
      BY <2>2 DEF LogRows
    <3>2. CASE k # j
      BY <1>4, <2>1, <3>1, <3>2 DEF LogRow, OriginRow
    <3>3. CASE k = j
      <4>1. doubt.row[k] = "uncertain" /\ mem[b].row[k] = "running" /\ Runs[k] = b
        BY <1>5, <2>1, <3>3
      <4>2. LogRow(doubt, k)
        BY <1>4, <3>1, <4>1 DEF LogRow, Waiting
      <4>3. From[k] = b => OriginRow(doubt, k)
        BY <1>4, <3>1, <4>1 DEF OriginRow, Waiting
      <4>4. QED
        BY <4>1, <4>2, <4>3
    <3>4. QED
      BY <3>2, <3>3
  <2>4. Stage("running") < Stage("uncertain")
    BY DEF Stage
  <2>5. QED
    BY <1>5, <2>1, <2>3, <2>4 DEF LogRows, RowsGoOn
<1>6. PICK st \in Outcome :
        \/ Saved(b, Row(b, j, st)) \/ SaveFailed(b, Row(b, j, st), doubt)
        \/ /\ halted[b]
           /\ mem' = [mem EXCEPT ![b] = doubt]
           /\ UNCHANGED <<disk, halted, faults>>
  BY DEF Settle
<1>7. CASE Saved(b, Row(b, j, st)) \/ SaveFailed(b, Row(b, j, st), doubt)
  <2>1. st \in Status /\ RowMoves(b, j, mem[b].row[j], st)
    BY <1>3, <1>5 DEF RowMoves, Terminal, Outcome, Waiting
  <2> HIDE DEF b, doubt
  <2>2. QED
    BY <1>1, <1>4, <1>5, <1>7, <1>5a, <2>1, RowUpdate
<1>8. CASE /\ halted[b]
           /\ mem' = [mem EXCEPT ![b] = doubt]
           /\ UNCHANGED <<disk, halted, faults>>
  <2> HIDE DEF doubt
  <2>1. Derived(b, disk[b], disk[b])
    BY <1>1, OwnDiskFits
  <2>2. Written(b, disk[b], disk[b], doubt, disk[b])
    BY <1>1, <1>2, <1>4, <1>8, <1>5a, <2>1 DEF Written, Same, IInv, Agreed
  <2>3. Carried
    BY <1>2, <1>5, CarriedOn
  <2>4. QED
    BY <1>2, <1>8, <2>2, <2>3 DEF Writes
<1>9. QED
  BY <1>6, <1>7, <1>8

\* accept_runner_reply: the row of the origin takes the runner's word.
LEMMA LearnStep ==
  ASSUME IInv, NEW j \in Job, Learn(j)
  PROVE  Writes /\ Carried /\ faults' \in Nat
<1> DEFINE b == From[j]
           e == [job |-> j, change |-> mem[Runs[j]].change[j], record |-> mem[Runs[j]].record[j]]
           s == Ingested(mem[b], {e})
           st == e.record["runner"].status
           next == [s EXCEPT !.row[j] = st]
<1>1. b \in Body /\ Runs[j] \in Body /\ mem[b] \in HStore /\ mem[Runs[j]] \in HStore
      /\ b # Runs[j] /\ fetch' = fetch /\ Update(b, next)
  BY HistoryShape DEF IInv, HistoryTypeOK, Learn
<1>2. ~halted[b]
  BY <1>1 DEF Update, Saved, SaveFailed
<1>3. e \in Published /\ st \in Status /\ \A r \in Role : e.record[r] \in Copies(e.job, r)
  <2>1. e \in Published
    BY <1>1 DEF HStore, Published
  <2>2. st \in Status
    BY <1>1 DEF HStore, Record, Fact, Role
  <2>3. \A r \in Role : e.record[r] \in Copies(e.job, r)
    BY <1>1 DEF Copies
  <2>4. QED
    BY <2>1, <2>2, <2>3
<1>4. s \in HStore /\ \A n : n.record = s.record => Fits(b, n)
  <2> HIDE DEF e
  <2>1. QED
    BY <1>1, <1>2, <1>3, MergesFit
<1>5. s.row = mem[b].row
  BY <1>1, IngestedRow
<1> HIDE DEF e, st, s
<1>6. /\ next \in HStore /\ next.record = s.record
      /\ next.row = [mem[b].row EXCEPT ![j] = st]
  BY <1>3, <1>4, <1>5 DEF HStore
<1>7. RowsFit(b, mem[b], next)
  <2>1. \A k \in Job : next.row[k] = IF k = j THEN st ELSE mem[b].row[k]
    BY <1>1, <1>6 DEF HStore
  <2>2. st \in {"running"} \cup Terminal
    <3>1. LogRow(mem[Runs[j]], j) /\ mem[Runs[j]].row[j] \in Status
      BY <1>1, RowsHere DEF HStore
    <3>2. /\ mem[Runs[j]].record[j]["runner"] # NoFact
          /\ st = mem[Runs[j]].record[j]["runner"].status
      BY DEF Learn, st, e
    <3>3. QED
      BY <3>1, <3>2 DEF LogRow, Status, Waiting, Terminal, Outcome
  <2>3. mem[b].row[j] \notin Terminal \cup {"absent"}
    BY DEF Learn
  <2>4. mem[b].row[j] # st => RowMoves(b, j, mem[b].row[j], st)
    BY <1>1, <2>2, <2>3 DEF RowMoves, Waiting, Terminal, Outcome
  <2>5. QED
    BY <2>1, <2>4 DEF RowsFit
<1>8. Fits(b, next)
  BY <1>4, <1>6
<1> HIDE DEF next
<1>9. Writes /\ faults' \in Nat
  <2>1. LogRows(b, mem[b]) /\ RowsGoOn(b, mem[b])
    BY <1>1, ShownStays DEF Same
  <2>2. Saved(b, next) \/ SaveFailed(b, next, mem[b])
    BY <1>1 DEF Update
  <2> HIDE DEF b
  <2>3. QED
    BY <1>1, <1>6, <1>7, <1>8, <2>1, <2>2, UpdateWrites
<1>10. Carried
  BY <1>1, CarriedOn DEF IInv, HistoryTypeOK
<1>11. QED
  BY <1>9, <1>10

\* A new pairing changes no fact.
LEMMA PairStep ==
  ASSUME IInv, NEW b \in Body, NEW p \in Body, Pair(b, p)
  PROVE  Writes /\ Carried /\ faults' \in Nat
<1> DEFINE next == [mem[b] EXCEPT !.trust = @ \cup {p}]
<1>1. mem[b] \in HStore /\ fetch' = fetch /\ Update(b, next)
  BY DEF IInv, HistoryTypeOK, Pair
<1>2. next \in HStore /\ next.record = mem[b].record /\ next.row = mem[b].row
  BY <1>1 DEF HStore
<1>3. ~halted[b]
  BY <1>1 DEF Update, Saved, SaveFailed
<1> HIDE DEF next
<1>4. Fits(b, next)
  BY <1>2, <1>3, CopiesFit
<1>5. RowsFit(b, mem[b], next) /\ LogRows(b, mem[b]) /\ RowsGoOn(b, mem[b])
  BY <1>2, ShownStays DEF RowsFit, Same
<1>6. Writes /\ faults' \in Nat
  BY <1>1, <1>2, <1>4, <1>5, UpdateWrites DEF Update
<1>7. Carried
  BY <1>1, CarriedOn DEF IInv, HistoryTypeOK
<1>8. QED
  BY <1>6, <1>7

\* A start publishes the doubt of the runs it finds interrupted.
LEMMA RebootStep ==
  ASSUME IInv, NEW b \in Body, Reboot(b)
  PROVE  Writes /\ Carried /\ faults' \in Nat
<1> DEFINE s == disk[b]
           next == Recovered(b, s)
           U == Refreshed(b, next, s)
<1>1. /\ mem \in [Body -> HStore] /\ disk \in [Body -> HStore] /\ s \in HStore
      /\ halted \in [Body -> BOOLEAN] /\ fetch \in [Link -> Page] /\ faults \in Nat
  BY DEF IInv, HistoryTypeOK
<1>2. /\ next \in HStore /\ next.record = s.record
      /\ \A j \in Job : next.row[j] = IF Runs[j] = b /\ s.row[j] = "running"
                                      THEN "uncertain" ELSE s.row[j]
  BY <1>1 DEF Recovered, HStore, Status, Terminal, Outcome
<1>3. Derived(b, next, s)
  <2>1. Same(s, disk[b]) /\ Fits(b, next)
    BY <1>2 DEF Same, Fits, Copies
  <2>2. RowsFit(b, s, next)
    <3> SUFFICES ASSUME NEW j \in Job, s.row[j] # next.row[j]
                 PROVE  RowMoves(b, j, s.row[j], next.row[j])
      BY DEF RowsFit
    <3>1. Runs[j] = b /\ s.row[j] = "running" /\ next.row[j] = "uncertain"
      BY <1>2
    <3>2. QED
      BY <3>1 DEF RowMoves, Terminal, Outcome, Waiting
  <2>3. QED
    BY <1>2, <2>1, <2>2 DEF Derived
<1>4. LogRows(b, next)
  <2> SUFFICES ASSUME NEW j \in Job
               PROVE  /\ Runs[j] = b => LogRow(next, j)
                      /\ From[j] = b => OriginRow(next, j)
                      /\ b \notin {From[j], Runs[j]} => next.row[j] = "absent"
    BY DEF LogRows
  <2>1. /\ Runs[j] = b => LogRow(s, j)
        /\ From[j] = b => OriginRow(s, j)
        /\ b \notin {From[j], Runs[j]} => s.row[j] = "absent"
    BY DEF IInv, Logged, LogRows
  <2> HIDE DEF next, s
  <2>2. Runs[j] = b => LogRow(next, j)
    BY <1>2, <2>1 DEF LogRow, Waiting
  <2>3. From[j] = b => OriginRow(next, j)
    BY <1>2, <2>1 DEF OriginRow, Waiting
  <2>4. QED
    BY <1>2, <2>1, <2>2, <2>3
\* Between what is shown and what is saved there may only be a doubt.
<1>4a. RowsGoOn(b, next)
  <2> SUFFICES ASSUME ~halted[b], NEW j \in Job, Runs[j] = b
               PROVE  LET p == mem[b].row[j]
                          q == next.row[j]
                      IN  p = q \/ Stage(p) < Stage(q)
    BY DEF RowsGoOn
  <2> DEFINE p == mem[b].row[j]
  <2>1. LogRow(mem[b], j) /\ LogRow(s, j) /\ mem[b].record = s.record
    BY DEF IInv, Logged, LogRows, Agreed
  <2>2. p = s.row[j] \/ (p \in {"running", "uncertain"} /\ s.row[j] \in {"running", "uncertain"})
    <3> HIDE DEF s
    <3>1. QED
      BY <2>1 DEF LogRow, NoFact, Waiting
  <2>3. Stage("running") < Stage("uncertain")
    BY DEF Stage
  <2> HIDE DEF next, s, p
  <2>4. QED
    BY <1>2, <2>2, <2>3 DEF p
<1> HIDE DEF next
<1>5. U \in HStore
  BY <1>2, RefreshedTyped
<1>6. Carried
  <2>1. \A l \in Link : fetch'[l] \in {fetch[l], NoPage}
    BY DEF Reboot
  <2>2. fetch' \in [Link -> Page]
    BY <1>1, NoPageIsPage DEF Reboot
  <2>3. QED
    BY <2>1, <2>2, CarriedOn
<1>7. faults' \in Nat
  BY <1>1 DEF Reboot
<1>8. CASE /\ mem' = [mem EXCEPT ![b] = U]
           /\ disk' = [disk EXCEPT ![b] = U]
           /\ halted' = [halted EXCEPT ![b] = FALSE]
  <2>1. Same(U, U) /\ LogRows(b, U) /\ RowsGoOn(b, U)
    <3>1. U.row = next.row
      BY <1>2, RefreshedRecord
    <3>2. RowsGoOn(b, U)
      BY <1>4a, <3>1 DEF RowsGoOn
    <3>3. QED
      BY <1>3, <3>2, RefreshedRows DEF Same
  <2> HIDE DEF U
  <2>2. Written(b, next, s, U, U)
    BY <1>1, <1>2, <1>3, <1>4, <1>5, <1>8, <2>1 DEF Written, U
  <2>3. QED
    BY <1>6, <1>7, <2>2 DEF Writes
<1>9. CASE /\ mem' = [mem EXCEPT ![b] = next]
           /\ disk' \in {disk, [disk EXCEPT ![b] = U]}
           /\ halted' = [halted EXCEPT ![b] = TRUE]
  <2>1. PICK d \in {disk[b], U} : disk' = [disk EXCEPT ![b] = d]
    BY <1>1, <1>9
  <2>2. Same(d, disk[b]) \/ Same(d, U)
    BY <2>1 DEF Same
  <2> HIDE DEF U
  <2>3. Written(b, next, s, next, d)
    BY <1>1, <1>2, <1>3, <1>4, <1>5, <1>9, <1>4a, <2>1, <2>2 DEF Written, U
  <2>4. QED
    BY <1>6, <1>7, <2>3 DEF Writes
<1>10. QED
  BY <1>8, <1>9 DEF Reboot, next, U

\* What a step does to the progress of a reader disturbs nothing.
LEMMA QuietWrites ==
  ASSUME IInv, NEW b \in Body, NEW m \in HStore, Same(m, mem[b]),
         mem' = [mem EXCEPT ![b] = m], UNCHANGED <<disk, halted>>
  PROVE  Writes
<1>1. /\ disk[b] \in HStore /\ disk' = [disk EXCEPT ![b] = disk[b]]
      /\ halted \in [Body -> BOOLEAN]
  BY DEF IInv, HistoryTypeOK
<1>2. Derived(b, disk[b], disk[b]) /\ LogRows(b, m) /\ RowsGoOn(b, m)
  BY OwnDiskFits, ShownStays
<1>3. Written(b, disk[b], disk[b], m, disk[b])
  BY <1>1, <1>2 DEF Written, Same, IInv, Agreed
<1>4. QED
  BY <1>3 DEF Writes

\* A link is between machines.
LEMMA LinkEnds ==
  ASSUME NEW l \in Link
  PROVE  l[1] \in Body /\ l[2] \in Body
  BY HistoryShape

\* So does taking back that a scan is complete.
LEMMA IncompleteWrites ==
  ASSUME IInv, NEW r \in Body, NEW s \in Body,
         mem' = Incomplete(r, s), UNCHANGED <<disk, halted>>
  PROVE  Writes
<1> DEFINE m == [mem[r] EXCEPT !.progress[s].complete = FALSE]
<1>1. mem \in [Body -> HStore] /\ mem[r] \in HStore
  BY DEF IInv, HistoryTypeOK
<1>2. mem' = [mem EXCEPT ![r] = m]
  BY <1>1 DEF Incomplete
<1>3. m \in HStore /\ Same(m, mem[r])
  BY <1>1, IncompleteTyped DEF Same
<1> HIDE DEF m
<1>4. QED
  BY <1>2, <1>3, QuietWrites

\* history::page hands out what is shown.
LEMMA FetchStep ==
  ASSUME IInv, NEW l \in Link, Fetch(l)
  PROVE  Writes /\ Carried /\ faults' \in Nat
<1> DEFINE r == l[1]
           s == l[2]
           p == PageOf(mem[s], mem[r].progress[s], mem[r].trust)
<1>1. r \in Body /\ s \in Body
  BY LinkEnds
<1>2. /\ mem \in [Body -> HStore] /\ fetch \in [Link -> Page] /\ faults \in Nat
      /\ mem[r] \in HStore /\ mem[s] \in HStore
  BY <1>1 DEF IInv, HistoryTypeOK
<1>3. mem[r].progress[s] \in Progress /\ mem[r].trust \in SUBSET Body
  BY <1>1, <1>2 DEF HStore
<1>4. p \in Page /\ \A e \in p.entries : e.record = mem[s].record[e.job]
  BY <1>2, <1>3, PageTyped
<1>5. fetch' = [fetch EXCEPT ![l] = p] /\ UNCHANGED <<mem, disk, halted, faults>>
  BY DEF Fetch
<1> HIDE DEF p
<1>6. Writes
  <2>1. mem' = [mem EXCEPT ![r] = mem[r]]
    BY <1>2, <1>5
  <2>2. QED
    BY <1>1, <1>2, <1>5, <2>1, QuietWrites DEF Same
<1>7. Carried
  <2>1. fetch' \in [Link -> Page]
    BY <1>2, <1>4, <1>5
  <2>2. ASSUME NEW k \in Link, NEW e \in fetch'[k].entries, NEW q \in Role
        PROVE  e.record[q] \in Copies(e.job, q)
    <3>1. CASE k = l
      BY <1>1, <1>2, <1>4, <1>5, <3>1 DEF Copies
    <3>2. CASE k # l
      <4>1. e \in {x \in fetch[k].entries : x.job = e.job}
        BY <1>2, <1>5, <3>2
      <4>2. QED
        BY <4>1 DEF Copies
    <3>3. QED
      BY <3>1, <3>2
  <2>3. QED
    BY <2>1, <2>2 DEF Carried
<1>8. QED
  BY <1>2, <1>5, <1>6, <1>7

\* A lost call.
LEMMA LoseStep ==
  ASSUME IInv, NEW l \in Link, Lose(l)
  PROVE  Writes /\ Carried /\ faults' \in Nat
<1>1. fetch \in [Link -> Page] /\ faults \in Nat
  BY DEF IInv, HistoryTypeOK
<1>2. /\ fetch' = [fetch EXCEPT ![l] = NoPage]
      /\ mem' = Incomplete(l[1], l[2]) /\ UNCHANGED <<disk, halted>>
      /\ faults' \in Nat
  BY <1>1 DEF Lose
<1>3. Writes
  BY <1>2, LinkEnds, IncompleteWrites
<1>4. Carried
  BY <1>1, <1>2, NoPageIsPage, CarriedOn
<1>5. QED
  BY <1>2, <1>3, <1>4

\* history::ingest and the cursor, saved or refused.
LEMMA ApplyStep ==
  ASSUME IInv, NEW l \in Link, Apply(l)
  PROVE  Writes /\ Carried /\ faults' \in Nat
<1> DEFINE r     == l[1]
           s     == l[2]
           page  == fetch[l]
           next  == Advanced(r, s, page)
           shown == [mem[r] EXCEPT !.progress[s].complete = FALSE]
<1>1. r \in Body /\ s \in Body
  BY LinkEnds
<1>2. /\ mem \in [Body -> HStore] /\ mem[r] \in HStore /\ fetch \in [Link -> Page]
      /\ page \in Page /\ faults \in Nat
  BY <1>1 DEF IInv, HistoryTypeOK
<1>3. fetch' = [fetch EXCEPT ![l] = NoPage]
  BY DEF Apply
<1>4. Carried
  BY <1>2, <1>3, NoPageIsPage, CarriedOn
<1>5. CASE UNCHANGED <<mem, disk, halted, faults>>
  <2>1. mem' = [mem EXCEPT ![r] = mem[r]]
    BY <1>2, <1>5
  <2>2. QED
    BY <1>1, <1>2, <1>4, <1>5, <2>1, QuietWrites DEF Same
<1>6. CASE mem' = Incomplete(r, s) /\ UNCHANGED <<disk, halted, faults>>
  BY <1>1, <1>2, <1>4, <1>6, IncompleteWrites
<1>7. CASE Saved(r, next) \/ SaveFailed(r, next, shown)
  <2> DEFINE known == {e \in page.entries : AuthorsKnown(r, mem[r], e.job)}
             got   == Ingested(mem[r], known)
             prog  == [known |-> TRUE, cursor |-> page.next, high |-> page.high,
                       complete |-> page.complete,
                       unknown |-> (~page.reset /\ page.asked.unknown) \/ known # page.entries]
  <2>1. ~halted[r]
    BY <1>7 DEF Saved, SaveFailed
  <2>2. \A e \in known : e \in Published /\ \A q \in Role : e.record[q] \in Copies(e.job, q)
    <3> SUFFICES ASSUME NEW e \in known, NEW q \in Role
                 PROVE  e \in Published /\ e.record[q] \in Copies(e.job, q)
      BY <1>2 DEF Page
    <3>1. e \in {x \in fetch[l].entries : x.job = e.job}
      OBVIOUS
    <3>2. e \in Published
      BY <1>2 DEF Page
    <3>3. QED
      BY <3>1, <3>2 DEF Copies
  <2>3. got \in HStore /\ \A n : n.record = got.record => Fits(r, n)
    <3> HIDE DEF known
    <3> QED BY <1>1, <2>1, <2>2, MergesFit
  <2>4. prog \in Progress
    BY <1>2 DEF Page, Progress
  <2>5. next = [got EXCEPT !.progress[s] = prog]
    BY DEF Advanced
  <2>6. got.row = mem[r].row
    <3> HIDE DEF known
    <3> QED BY <1>2, IngestedRow
  <2> HIDE DEF got, prog, next
  <2>7. next \in HStore /\ next.record = got.record /\ next.row = mem[r].row
    BY <1>1, <2>3, <2>4, <2>5, <2>6 DEF HStore
  <2>8. RowsFit(r, mem[r], next)
    BY <2>7 DEF RowsFit
  <2>9. Fits(r, next)
    BY <2>3, <2>7
  <2>10. /\ shown \in HStore /\ shown.record = mem[r].record
         /\ LogRows(r, shown) /\ RowsGoOn(r, shown)
    <3>1. shown \in HStore /\ shown.record = mem[r].record /\ shown.row = mem[r].row
      BY <1>1, <1>2, IncompleteTyped
    <3> HIDE DEF shown
    <3>2. QED
      BY <1>1, <3>1, ShownStays DEF Same
  <2> HIDE DEF shown, r
  <2>11. Writes /\ faults' \in Nat
    BY <1>1, <1>7, <2>7, <2>8, <2>9, <2>10, UpdateWrites
  <2>12. QED
    BY <1>4, <2>11
<1>8. QED
  <2> HIDE DEF next, shown
  <2>1. \/ UNCHANGED <<mem, disk, halted, faults>>
        \/ mem' = Incomplete(r, s) /\ UNCHANGED <<disk, halted, faults>>
        \/ Saved(r, next) \/ SaveFailed(r, next, shown)
    BY DEF Apply, next, shown
  <2>2. QED
    BY <1>5, <1>6, <1>7, <2>1 DEF next, shown

-----------------------------------------------------------------------------

\* All steps together.
LEMMA NextWrites ==
  ASSUME IInv, Next
  PROVE  Writes /\ Carried /\ faults' \in Nat /\ plan' = plan
<1>1. plan' = plan /\ Step
  BY DEF Next
<1>2. Writes /\ Carried /\ faults' \in Nat
  <2>1. CASE \E j \in Job : Order(j) \/ Delay(j) \/ GiveUp(j) \/ Admit(j) \/ Settle(j) \/ Learn(j)
    BY <2>1, OriginSteps, AdmitStep, SettleStep, LearnStep
  <2>2. CASE \E b \in Body : Reboot(b) \/ \E p \in Body : Pair(b, p)
    BY <2>2, RebootStep, PairStep
  <2>3. CASE \E l \in Link : Sync(l) \/ Lose(l)
    BY <2>3, FetchStep, ApplyStep, LoseStep DEF Sync
  <2>4. QED
    BY <1>1, <2>1, <2>2, <2>3 DEF Step
<1>3. QED
  BY <1>1, <1>2

\* The inductive invariant holds in every reachable state.
LEMMA Invariance == HistorySpec => []IInv
<1>1. Init => IInv
  <2> SUFFICES ASSUME Init PROVE IInv
    OBVIOUS
  <2>1. \A b \in Body : EmptyHistory(b) \in HStore
    BY HistoryShape DEF EmptyHistory, HStore, Record, Fact, NoFact, Status, Progress, Unread
  <2>2. HistoryTypeOK
    BY <2>1, NoPageIsPage, HistoryBounds DEF Init, HistoryTypeOK
  <2>3. \A b \in Body, j \in Job, r \in Role :
          mem[b].record[j][r] = NoFact /\ disk[b].record[j][r] = NoFact
    BY DEF Init, EmptyHistory
  <2>4. \A j \in Job, r \in Role : Held(j, r) \subseteq {NoFact}
    BY <2>3 DEF Init, NoPage, Held
  <2>5. FactsAreDurable /\ OneFact
    BY <2>3, <2>4, AuthorIsBody DEF FactsAreDurable, OneFact
  <2>6. Agreed
    BY DEF Init, Agreed
  <2>7. Logged /\ RowsTold
    <3>1. \A j \in Job, b \in Body : mem[b].row[j] = "absent" /\ disk[b].row[j] = "absent"
      BY HistoryShape DEF Init, EmptyHistory
    <3>2. QED
      BY <2>3, <3>1, HistoryShape DEF Logged, LogRows, LogRow, OriginRow, RowsTold, Told, Role, Waiting
  <2>8. Behind
    <3>1. \A j \in Job, r \in Role : Copies(j, r) \subseteq {NoFact}
      BY <2>4, CopiesAreHeld
    <3>2. QED
      BY <2>3, <3>1, AuthorIsBody DEF Behind, NoFact
  <2>9. FactsAdvance
    BY <2>4 DEF FactsAdvance, NoFact
  <2>10. QED
    BY <2>2, <2>5, <2>6, <2>7, <2>8, <2>9 DEF IInv
<1>2. IInv /\ [Next]_vars => IInv'
  <2> SUFFICES ASSUME IInv, [Next]_vars PROVE IInv'
    OBVIOUS
  <2>1. CASE UNCHANGED vars
    <3>1. HistoryTypeOK' /\ FactsAreDurable' /\ OneFact' /\ Agreed'
      BY <2>1 DEF vars, IInv, HistoryTypeOK, FactsAreDurable, OneFact, Held, Agreed
    <3>2. Behind'
      BY <2>1 DEF vars, IInv, Behind, Copies, Author
    <3>3. Logged' /\ RowsTold'
      BY <2>1 DEF vars, IInv, Logged, LogRows, LogRow, OriginRow, RowsTold, Told
    <3>4. FactsAdvance'
      BY <2>1 DEF vars, IInv, FactsAdvance, Held, Stage
    <3>5. QED
      BY <3>1, <3>2, <3>3, <3>4 DEF IInv
  <2>2. CASE Next
    BY <2>2, NextWrites, WrittenKeeps DEF Writes
  <2>3. QED
    BY <2>1, <2>2
<1>3. QED
  BY <1>1, <1>2, PTL DEF HistorySpec

\* Every reachable state of the shared history is well typed: pages and cursors,
\* as history::page computes them, too.
THEOREM HistoryTypeCorrect == HistorySpec => []HistoryTypeOK
<1>1. IInv => HistoryTypeOK
  BY DEF IInv
<1>2. QED
  BY <1>1, Invariance, PTL

\* "Publish state only after its durable replacement succeeds": nothing a machine
\* shows or relays can be lost by the author, whatever crashes and failed saves.
THEOREM FactsDurable == HistorySpec => []FactsAreDurable
<1>1. IInv => FactsAreDurable
  BY DEF IInv
<1>2. QED
  BY <1>1, Invariance, PTL

\* history::ingest never refuses a page: the facts on it agree with those the
\* reader has, and none goes on from an end.
THEOREM PagesAccepted == HistorySpec => []PagesMerge
<1>1. IInv => PagesMerge
  <2> SUFFICES ASSUME IInv, NEW l \in Link, NEW e \in fetch[l].entries, NEW r \in Role
               PROVE  ~Conflicts(mem[l[1]].record[e.job][r], e.record[r])
    BY DEF PagesMerge, Refuses
  <2> DEFINE mine   == mem[l[1]].record[e.job][r]
             theirs == e.record[r]
             last   == disk[Author(e.job, r)].record[e.job][r]
  <2>1. e.job \in Job /\ l[1] \in Body
    BY LinkEnds DEF IInv, HistoryTypeOK, Page, Published
  <2>2. e \in {x \in fetch[l].entries : x.job = e.job}
    OBVIOUS
  <2>3. mine \in Held(e.job, r) /\ theirs \in Held(e.job, r) /\ last \in Held(e.job, r)
    BY <2>1, <2>2, AuthorIsBody DEF Held
  <2>4. mine \in Fact /\ theirs \in Fact /\ last \in Fact
    BY <2>1, <2>3, HeldIsFact DEF IInv
  <2>5. mine.rev = theirs.rev => mine = theirs
    BY <2>1, <2>3 DEF IInv, OneFact
  <2>6. /\ mine = last \/ mine.status \notin Terminal
        /\ theirs = last \/ theirs.rev < last.rev
    BY <2>1, <2>3 DEF IInv, FactsAreDurable
  <2> HIDE DEF mine, theirs, last
  <2>7. ~Conflicts(mine, theirs)
    BY <2>4, <2>5, <2>6 DEF Conflicts, Fact
  <2>8. QED
    BY <2>7 DEF mine, theirs
<1>2. QED
  BY <1>1, Invariance, PTL

\* exec::finish and the recovery of jobs save no outcome without its signed fact,
\* also where an earlier save has failed and its doubt is in memory only.
THEOREM OutcomesPublished == HistorySpec => []OutcomePublished
<1>1. IInv => OutcomePublished
  <2> SUFFICES ASSUME IInv, NEW j \in Job, disk[Runs[j]].row[j] \in Terminal
               PROVE  disk[Runs[j]].record[j]["runner"].status = disk[Runs[j]].row[j]
    BY DEF OutcomePublished
  <2>1. LogRow(disk[Runs[j]], j) /\ Told(disk[Runs[j]], j)
    BY RowsHere DEF IInv, RowsTold
  <2>2. QED
    BY <2>1 DEF LogRow, Told, Terminal, Outcome, Waiting
<1>2. QED
  BY <1>1, Invariance, PTL

\* history::projected_views: the log of the runner says what its row says, and two
\* logs that show a verified end show the same one, even where a completion could
\* not be saved and its doubt is shown instead of the signed fact.
THEOREM LogsAlwaysAgree == HistorySpec => []LogsAgree
<1>1. IInv => LogsAgree
  <2> SUFFICES ASSUME IInv, NEW j \in Job
               PROVE  /\ mem[Runs[j]].row[j] # "absent" =>
                           Shown(Runs[j], j) = mem[Runs[j]].row[j]
                      /\ \A b, c \in Body :
                           (\A m \in {b, c} : Verified(m, j) /\ Shown(m, j) \in Terminal) =>
                             Shown(b, j) = Shown(c, j)
    BY DEF LogsAgree
  <2> DEFINE a    == Runs[j]
             row  == mem[a].row[j]
             mine == mem[a].record[j]["runner"]
             last == disk[a].record[j]["runner"]
             said == IF row = "uncertain" THEN "uncertain" ELSE last.status
  <2>1. a \in Body /\ LogRow(mem[a], j)
    BY HistoryShape, RowsHere
  <2>2. row # "absent" => Shown(a, j) = row
    BY <2>1 DEF Shown, Selected, LogRow, NoFact, Waiting
  <2>3. ASSUME NEW b \in Body, Verified(b, j), Shown(b, j) \in Terminal
        PROVE  Shown(b, j) = said
    <3> DEFINE f == mem[b].record[j]["runner"]
    <3>1. CASE b = a /\ row = "uncertain"
      BY <3>1 DEF Shown
    <3>2. CASE ~(b = a /\ row = "uncertain")
      <4>1. Shown(b, j) = f.status
        BY <2>3, <3>2 DEF Shown, Selected, Verified
      <4>2. f \in Held(j, "runner") /\ f \in Copies(j, "runner") /\ mine \in Held(j, "runner")
        BY <2>1 DEF Held, Copies
      <4>3. f = last
        BY <2>3, <4>1, <4>2 DEF IInv, FactsAreDurable, Author, Role
      <4>4. row = "uncertain" => f.status = "uncertain"
        <5> SUFFICES ASSUME row = "uncertain" PROVE f.status = "uncertain"
          OBVIOUS
        <5>1. f \in Fact /\ mine \in Fact
          BY <4>2, HeldIsFact DEF IInv, Role
        <5>2. f.rev <= mine.rev
          BY <4>2 DEF IInv, Behind, Author, Role
        <5>3. mine = last \/ mine.rev < last.rev
          BY <4>2 DEF IInv, FactsAreDurable, Author, Role
        <5>4. mine.status \in {"running", "uncertain"}
          BY <2>1 DEF LogRow, Waiting
        <5> HIDE DEF f, mine, last
        <5>5. mine = f
          BY <4>3, <5>1, <5>2, <5>3 DEF Fact
        <5>6. QED
          BY <2>3, <4>1, <5>4, <5>5 DEF Terminal, Outcome
      <4>5. QED
        BY <4>1, <4>3, <4>4
    <3>3. QED
      BY <3>1, <3>2
  <2>4. QED
    BY <2>2, <2>3
<1>2. QED
  BY <1>1, Invariance, PTL

-----------------------------------------------------------------------------
(* Logs and their numbers *)

\* What is known of the parts of a store.
LEMMA LogTyped ==
  ASSUME NEW s \in HStore
  PROVE  /\ s.clock \in Nat /\ s.change \in [Job -> Nat] /\ s.record \in [Job -> Record]
         /\ s.trust \in SUBSET Body /\ s.progress \in [Body -> Progress]
         /\ \A j \in Job : s.change[j] \in Nat /\ s.record[j] \in [Role -> Fact]
         /\ \A j \in Job, r \in Role : s.record[j][r] \in Fact /\ s.record[j][r].rev \in Nat
  BY DEF HStore, Record, Fact

\* An entry that is stamped gets a number above the clock, and the clock goes on.
LEMMA StampedNumbers ==
  ASSUME NEW s \in HStore, NEW S \in SUBSET Job, NEW order \in [Job -> Nat], Clocked(s)
  PROVE  LET t == Stamped(s, S, order) IN
         /\ s.clock <= t.clock
         /\ \A j \in Job : IF j \in S THEN s.clock < t.change[j] /\ t.change[j] <= t.clock
                                      ELSE t.change[j] = s.change[j]
         /\ Clocked(t)
         /\ t.trust = s.trust /\ t.progress = s.progress
  <1> DEFINE count(j) == Cardinality({k \in S : order[k] <= order[j]})
             change   == [j \in Job |-> IF j \in S THEN s.clock + count(j) ELSE s.change[j]]
             clock    == s.clock + Cardinality(S)
             t        == Stamped(s, S, order)
  <1>1. IsFiniteSet(S) /\ Cardinality(S) \in Nat
    BY HistoryShape, FS_Subset, FS_CardinalityType
  <1>2. ASSUME NEW j \in S
        PROVE  count(j) \in Nat /\ 0 < count(j) /\ count(j) <= Cardinality(S)
    <2> DEFINE T == {k \in S : order[k] <= order[j]}
    <2>1. T \subseteq S /\ j \in T
      OBVIOUS
    <2> HIDE DEF T
    <2>2. IsFiniteSet(T) /\ Cardinality(T) \in Nat /\ Cardinality(T) <= Cardinality(S)
      BY <1>1, <2>1, FS_Subset, FS_CardinalityType
    <2>3. Cardinality(T) # 0
      BY <2>1, <2>2, FS_EmptySet
    <2>4. QED
      BY <2>2, <2>3 DEF T
  <1>3. s.clock \in Nat /\ \A j \in Job : s.change[j] \in Nat
    BY LogTyped
  <1> HIDE DEF count
  <1>4. t = [s EXCEPT !.change = change, !.clock = clock]
    BY DEF Stamped, count
  <1> HIDE DEF change, clock, t
  <1>5. t.change = change /\ t.clock = clock /\ t.trust = s.trust /\ t.progress = s.progress
    BY <1>4 DEF HStore
  <1>6. /\ s.clock <= t.clock
        /\ \A j \in Job : IF j \in S THEN s.clock < t.change[j] /\ t.change[j] <= t.clock
                                     ELSE t.change[j] = s.change[j]
    BY <1>1, <1>2, <1>3, <1>5 DEF change, clock
  <1>7. Clocked(t)
    BY <1>1, <1>3, <1>5, <1>6 DEF Clocked, clock
  <1>8. QED
    BY <1>5, <1>6, <1>7 DEF t

\* A store with the same log follows and is followed.
LEMMA FollowsSelf ==
  ASSUME NEW x \in HStore, NEW y, y.clock = x.clock, y.change = x.change, y.record = x.record
  PROVE  Follows(x, y) /\ Follows(y, x) /\ (Clocked(x) => Clocked(y))
  BY LogTyped DEF Follows, Clocked

\* To go on is transitive.
LEMMA FollowsOn ==
  ASSUME NEW x \in HStore, NEW y \in HStore, NEW z \in HStore, Follows(x, y), Follows(y, z)
  PROVE  Follows(x, z)
  <1>1. x.clock \in Nat /\ y.clock \in Nat /\ z.clock \in Nat
    BY LogTyped
  <1>2. x.clock <= z.clock
    BY <1>1 DEF Follows
  <1>3. ASSUME NEW j \in Job
        PROVE  \/ z.change[j] = x.change[j] /\ z.record[j] = x.record[j]
               \/ /\ z.change[j] > x.clock
                  /\ \A r \in Role : x.record[j][r].rev <= z.record[j][r].rev
    <2>1. /\ x.change[j] \in Nat /\ y.change[j] \in Nat /\ z.change[j] \in Nat
          /\ \A r \in Role : x.record[j][r].rev \in Nat /\ y.record[j][r].rev \in Nat
                             /\ z.record[j][r].rev \in Nat
      BY LogTyped
    <2>2. CASE z.change[j] = y.change[j] /\ z.record[j] = y.record[j]
      BY <2>2 DEF Follows
    <2>3. CASE y.change[j] = x.change[j] /\ y.record[j] = x.record[j]
      BY <1>1, <2>1, <2>3 DEF Follows
    <2>4. CASE /\ y.change[j] > x.clock /\ z.change[j] > y.clock
               /\ \A r \in Role : x.record[j][r].rev <= y.record[j][r].rev
               /\ \A r \in Role : y.record[j][r].rev <= z.record[j][r].rev
      <3>1. \A r \in Role : x.record[j][r].rev <= z.record[j][r].rev
        BY <2>1, <2>4
      <3>2. z.change[j] > x.clock
        BY <1>1, <2>1, <2>4 DEF Follows
      <3>3. QED
        BY <3>1, <3>2
    <2>5. QED
      BY <2>2, <2>3, <2>4 DEF Follows
  <1>4. QED
    BY <1>2, <1>3 DEF Follows

\* history::refresh_owned only goes on from the log it is given.
LEMMA RefreshedFollows ==
  ASSUME NEW b, NEW next \in HStore, NEW old, Clocked(next)
  PROVE  LET U == Refreshed(b, next, old) IN
         /\ Follows(next, U) /\ Clocked(U) /\ U.trust = next.trust
         /\ U.progress = IF next.trust # old.trust THEN [p \in Body |-> Unread] ELSE next.progress
  <1> DEFINE new == Owned(b, next, old)
             t   == Stamped(next, new, next.change)
             U   == Refreshed(b, next, old)
  <1>1. new \in SUBSET Job /\ next.change \in [Job -> Nat]
    BY LogTyped DEF Owned
  <1> HIDE DEF new
  <1>2. /\ t \in HStore /\ t.record = next.record
        /\ next.clock <= t.clock
        /\ \A j \in Job : IF j \in new THEN next.clock < t.change[j] /\ t.change[j] <= t.clock
                                       ELSE t.change[j] = next.change[j]
        /\ Clocked(t)
        /\ t.trust = next.trust /\ t.progress = next.progress
    BY <1>1, StampedTyped, StampedNumbers
  <1>3. /\ U.change = t.change /\ U.clock = t.clock /\ U.trust = t.trust
        /\ U.progress = IF next.trust # old.trust THEN [p \in Body |-> Unread] ELSE t.progress
    <2> HIDE DEF t
    <2>1. QED
      BY <1>2 DEF Refreshed, WithFacts, HStore, t, new
  <1>4. U \in HStore /\ \A j \in Job, r \in Role :
           U.record[j][r] = IF j \in new /\ r = RoleOf(b, j, next.row[j])
                            THEN Successor(next.record[j][r], next.row[j]) ELSE next.record[j][r]
    BY RefreshedRecord, RefreshedTyped DEF new
  <1>5. \A j \in Job, r \in Role :
          U.record[j][r] = next.record[j][r] \/ U.record[j][r].rev = next.record[j][r].rev + 1
    BY RefreshedTyped
  <1> HIDE DEF t, U
  <1>6. ASSUME NEW j \in Job
        PROVE  \/ U.change[j] = next.change[j] /\ U.record[j] = next.record[j]
               \/ /\ U.change[j] > next.clock
                  /\ \A r \in Role : next.record[j][r].rev <= U.record[j][r].rev
    <2>1. /\ U.record[j] \in [Role -> Fact] /\ next.record[j] \in [Role -> Fact]
          /\ next.clock \in Nat /\ t.change[j] \in Nat
          /\ \A r \in Role : next.record[j][r].rev \in Nat
      BY <1>2, <1>4, LogTyped
    <2>2. CASE j \in new
      <3>1. \A r \in Role : next.record[j][r].rev <= U.record[j][r].rev
        BY <1>5, <2>1
      <3>2. U.change[j] > next.clock
        BY <1>2, <1>3, <2>1, <2>2
      <3>3. QED
        BY <3>1, <3>2
    <2>3. CASE j \notin new
      <3>1. \A r \in Role : U.record[j][r] = next.record[j][r]
        BY <1>4, <2>3
      <3>2. U.record[j] = next.record[j]
        BY <2>1, <3>1
      <3>3. QED
        BY <1>2, <1>3, <2>3, <3>2
    <2>4. QED
      BY <2>2, <2>3
  <1>7. Follows(next, U) /\ Clocked(U)
    BY <1>2, <1>3, <1>6 DEF Follows, Clocked
  <1>8. QED
    BY <1>2, <1>3, <1>7 DEF U

\* history::ingest only goes on from the log it is given, and then has what was
\* on the page.
LEMMA IngestedFollows ==
  ASSUME NEW s \in HStore, NEW S, \A e \in S : e \in Published, Clocked(s)
  PROVE  LET t == Ingested(s, S) IN
         /\ Follows(s, t) /\ Clocked(t) /\ t.trust = s.trust /\ t.progress = s.progress
         /\ (\A e, f \in S : e.job = f.job => e = f) =>
              \A e \in S, r \in Role : e.record[r].rev <= t.record[e.job][r].rev
  <1> DEFINE of(j) == CHOOSE e \in S : e.job = j
             rec == [j \in Job |-> [r \in Role |->
                       IF \E e \in S : e.job = j
                       THEN Merged(s.record[j][r], of(j).record[r])
                       ELSE s.record[j][r]]]
             order == [j \in Job |-> IF \E e \in S : e.job = j THEN of(j).change ELSE 0]
             new == {j \in Job : rec[j] # s.record[j]}
             u == Stamped(s, new, order)
             t == Ingested(s, S)
  <1>1. t = [u EXCEPT !.record = rec]
    BY DEF Ingested
  <1>2. \A j \in Job : (\E e \in S : e.job = j) => of(j) \in S /\ of(j).job = j
    OBVIOUS
  <1>3. order \in [Job -> Nat] /\ new \in SUBSET Job
    BY <1>2 DEF Published
  <1>4. /\ t \in HStore
        /\ \A j \in Job, r \in Role :
             t.record[j][r] = s.record[j][r] \/ t.record[j][r].rev > s.record[j][r].rev
    BY IngestedTyped
  <1>5. \A e \in S, r \in Role : (\A f \in S : e.job = f.job => e = f) =>
          rec[e.job][r] = Merged(s.record[e.job][r], e.record[r])
    <2> SUFFICES ASSUME NEW e \in S, NEW r \in Role, \A f \in S : e.job = f.job => e = f
                 PROVE  rec[e.job][r] = Merged(s.record[e.job][r], e.record[r])
      OBVIOUS
    <2>1. e.job \in Job
      BY DEF Published
    <2>2. of(e.job) = e
      BY <1>2, <2>1
    <2> HIDE DEF of
    <2>3. QED
      BY <2>1, <2>2
  <1> HIDE DEF order
  <1>6. /\ u \in HStore /\ s.clock <= u.clock
        /\ \A j \in Job : IF j \in new THEN s.clock < u.change[j] /\ u.change[j] <= u.clock
                                       ELSE u.change[j] = s.change[j]
        /\ Clocked(u) /\ u.trust = s.trust /\ u.progress = s.progress
    <2> HIDE DEF new
    <2>1. QED
      BY <1>3, StampedTyped, StampedNumbers
  <1>7. \A j \in Job : j \notin new => rec[j] = s.record[j]
    OBVIOUS
  <1> HIDE DEF rec, u, new, t
  <1>8. /\ t.record = rec /\ t.change = u.change /\ t.clock = u.clock
        /\ t.trust = u.trust /\ t.progress = u.progress
    BY <1>1, <1>6 DEF HStore
  <1>9. Follows(s, t) /\ Clocked(t)
    <2>1. ASSUME NEW j \in Job
          PROVE  \/ t.change[j] = s.change[j] /\ t.record[j] = s.record[j]
                 \/ /\ t.change[j] > s.clock
                    /\ \A r \in Role : s.record[j][r].rev <= t.record[j][r].rev
      <3>1. /\ s.clock \in Nat /\ t.change[j] \in Nat
            /\ \A r \in Role : s.record[j][r].rev \in Nat /\ t.record[j][r].rev \in Nat
        BY <1>4, LogTyped
      <3>2. \A r \in Role : s.record[j][r].rev <= t.record[j][r].rev
        BY <1>4, <3>1
      <3>3. QED
        BY <1>6, <1>7, <1>8, <3>1, <3>2
    <2>2. QED
      BY <1>6, <1>8, <2>1 DEF Follows, Clocked
  <1>10. ASSUME \A e, f \in S : e.job = f.job => e = f, NEW e \in S, NEW r \in Role
         PROVE  e.record[r].rev <= t.record[e.job][r].rev
    <2>1. e.job \in Job /\ e.record[r] \in Fact
      BY DEF Published, Record
    <2>2. s.record[e.job][r] \in Fact
      BY <2>1, LogTyped
    <2>3. t.record[e.job][r] = Merged(s.record[e.job][r], e.record[r])
      BY <1>5, <1>8, <1>10
    <2>4. QED
      BY <2>1, <2>2, <2>3 DEF Merged, Fact
  <1>11. QED
    BY <1>6, <1>8, <1>9, <1>10 DEF t

-----------------------------------------------------------------------------
(* Receipts and answers *)

\* A receipt stays good while the server's log goes on.
LEMMA ReceiptStands ==
  ASSUME NEW r, NEW s, NEW x \in HStore, NEW y \in HStore, NEW z \in HStore, s \in Body,
         Receipt(r, x, s, y), Follows(y, z)
  PROVE  Receipt(r, x, s, z)
  <1> SUFFICES ASSUME x.progress[s].known
               PROVE  /\ x.progress[s].cursor <= z.clock
                      /\ \A j \in Job : 0 < z.change[j] /\ z.change[j] <= x.progress[s].cursor =>
                           \/ \A q \in Role : z.record[j][q].rev <= x.record[j][q].rev
                           \/ ~AuthorsKnown(r, x, j) /\ x.progress[s].unknown
    BY DEF Receipt
  <1>1. x.progress[s].cursor \in Nat /\ y.clock \in Nat /\ z.clock \in Nat
    BY LogTyped DEF Progress
  <1>2. x.progress[s].cursor <= y.clock /\ y.clock <= z.clock
    BY DEF Receipt, Follows
  <1>3. ASSUME NEW j \in Job, 0 < z.change[j], z.change[j] <= x.progress[s].cursor
        PROVE  \/ \A q \in Role : z.record[j][q].rev <= x.record[j][q].rev
               \/ ~AuthorsKnown(r, x, j) /\ x.progress[s].unknown
    <2>1. z.change[j] \in Nat
      BY LogTyped
    <2>2. z.change[j] = y.change[j] /\ z.record[j] = y.record[j]
      BY <1>1, <1>2, <1>3, <2>1 DEF Follows
    <2>3. QED
      BY <1>3, <2>2 DEF Receipt
  <1>4. QED
    BY <1>1, <1>2, <1>3

\* What a reader keeps of its receipts when its store goes from x to y.
Keeps(x, y, s) ==
  /\ \A j \in Job, q \in Role : x.record[j][q].rev <= y.record[j][q].rev
  /\ \/ ~y.progress[s].known
     \/ /\ y.trust = x.trust
        /\ \A k \in {"known", "cursor", "unknown"} : y.progress[s][k] = x.progress[s][k]

\* A receipt is kept with what it was given for.
LEMMA ReceiptKept ==
  ASSUME NEW r, NEW s \in Body, NEW x \in HStore, NEW x2 \in HStore, NEW y \in HStore,
         Receipt(r, x, s, y), Keeps(x, x2, s)
  PROVE  Receipt(r, x2, s, y)
  <1> SUFFICES ASSUME x2.progress[s].known
               PROVE  /\ x2.progress[s].cursor <= y.clock
                      /\ \A j \in Job : 0 < y.change[j] /\ y.change[j] <= x2.progress[s].cursor =>
                           \/ \A q \in Role : y.record[j][q].rev <= x2.record[j][q].rev
                           \/ ~AuthorsKnown(r, x2, j) /\ x2.progress[s].unknown
    BY DEF Receipt
  <1>1. /\ x2.trust = x.trust /\ x.progress[s].known
        /\ x2.progress[s].cursor = x.progress[s].cursor
        /\ x2.progress[s].unknown = x.progress[s].unknown
    BY DEF Keeps
  <1>2. \A j \in Job, q \in Role :
          /\ y.record[j][q].rev \in Nat /\ x.record[j][q].rev \in Nat
          /\ x2.record[j][q].rev \in Nat /\ x.record[j][q].rev <= x2.record[j][q].rev
    BY LogTyped DEF Keeps
  <1>3. x.progress[s].cursor <= y.clock
    BY <1>1 DEF Receipt
  <1>4. ASSUME NEW j \in Job, 0 < y.change[j], y.change[j] <= x.progress[s].cursor
        PROVE  \/ \A q \in Role : y.record[j][q].rev <= x.record[j][q].rev
               \/ ~AuthorsKnown(r, x, j) /\ x.progress[s].unknown
    BY <1>1, <1>4 DEF Receipt
  <1>5. ASSUME NEW j \in Job, 0 < y.change[j], y.change[j] <= x.progress[s].cursor
        PROVE  \/ \A q \in Role : y.record[j][q].rev <= x2.record[j][q].rev
               \/ ~AuthorsKnown(r, x2, j) /\ x2.progress[s].unknown
    <2>1. CASE \A q \in Role : y.record[j][q].rev <= x.record[j][q].rev
      BY <1>2, <2>1
    <2>2. CASE ~AuthorsKnown(r, x, j) /\ x.progress[s].unknown
      BY <1>1, <2>2 DEF AuthorsKnown
    <2>3. QED
      BY <1>4, <1>5, <2>1, <2>2
  <1>6. QED
    BY <1>1, <1>3, <1>5

\* An answer keeps its promise while the server's log goes on.
LEMMA AnswerStands ==
  ASSUME NEW page \in Page, NEW y \in HStore, NEW z \in HStore, Answers(page, y), Follows(y, z)
  PROVE  Answers(page, z)
  <1>1. page.next \in Nat /\ y.clock \in Nat /\ z.clock \in Nat
    BY LogTyped DEF Page
  <1>2. page.next <= y.clock /\ y.clock <= z.clock
    BY DEF Answers, Follows
  <1>3. ASSUME NEW j \in Job, 0 < z.change[j], z.change[j] <= page.next
        PROVE  \/ ~page.reset /\ z.change[j] <= page.asked.cursor
               \/ \E e \in page.entries :
                    e.job = j /\ \A q \in Role : z.record[j][q].rev <= e.record[q].rev
    <2>1. z.change[j] \in Nat
      BY LogTyped
    <2>2. z.change[j] = y.change[j] /\ z.record[j] = y.record[j]
      BY <1>1, <1>2, <1>3, <2>1 DEF Follows
    <2>3. QED
      BY <1>3, <2>2 DEF Answers
  <1>4. QED
    BY <1>1, <1>2, <1>3 DEF Answers

\* history::page answers all that the log has after the reader's cursor, up to
\* the cursor it gives back.
LEMMA PageAnswers ==
  ASSUME NEW s \in HStore, NEW p \in Progress, NEW trusted, Clocked(s),
         p.known => p.cursor <= s.clock
  PROVE  Answers(PageOf(s, p, trusted), s)
  <1> DEFINE reset == ~p.known \/ p.cursor > s.clock
             after == IF reset THEN 0 ELSE p.cursor
             high  == IF reset \/ p.complete \/ p.high > s.clock THEN s.clock ELSE p.high
             open  == {j \in Job : after < s.change[j] /\ s.change[j] <= high}
             upTo(j) == {k \in open : s.change[k] <= s.change[j]}
             sent  == {j \in open : Cardinality(upTo(j)) <= PageRows}
             nums  == {after} \cup {s.change[j] : j \in sent}
             last  == CHOOSE c \in nums : \A j \in sent : s.change[j] <= c
             ents  == {[job |-> j, change |-> s.change[j], record |-> s.record[j]] : j \in sent}
             next  == IF sent = open THEN high ELSE last
  <1>1. PageOf(s, p, trusted) =
          [asked |-> p, trusted |-> trusted, reset |-> reset, high |-> high,
           next |-> next, complete |-> sent = open, entries |-> ents]
    BY DEF PageOf
  <1>2. /\ s.clock \in Nat /\ p.cursor \in Nat /\ p.high \in Nat /\ p.known \in BOOLEAN
        /\ \A j \in Job : s.change[j] \in Nat /\ s.change[j] <= s.clock
    BY LogTyped DEF Progress, Clocked
  <1>3. /\ after \in Nat /\ high \in Nat /\ after <= s.clock /\ high <= s.clock
        /\ (reset => after = 0) /\ (~reset => after = p.cursor /\ p.known)
    BY <1>2
  <1>4. /\ open \subseteq Job /\ sent \subseteq open
        /\ \A j \in Job : j \in open <=> after < s.change[j] /\ s.change[j] <= high
    OBVIOUS
  <1>5. ASSUME NEW j \in open, NEW k \in sent, s.change[j] <= s.change[k]
        PROVE  j \in sent
    <2>1. IsFiniteSet(open) /\ upTo(k) \subseteq open
      BY <1>4, HistoryShape, FS_Subset
    <2>2. upTo(j) \subseteq upTo(k)
      BY <1>2, <1>4, <1>5
    <2>3. Cardinality(upTo(k)) <= PageRows
      OBVIOUS
    <2> HIDE DEF upTo, open
    <2>4. /\ Cardinality(upTo(j)) <= Cardinality(upTo(k))
          /\ Cardinality(upTo(j)) \in Nat /\ Cardinality(upTo(k)) \in Nat
      <3>1. IsFiniteSet(upTo(k))
        BY <2>1, FS_Subset
      <3>2. QED
        BY <2>2, <3>1, FS_Subset, FS_CardinalityType
    <2>5. QED
      BY <2>3, <2>4, HistoryBounds
  <1> HIDE DEF reset, after, high, upTo, open, sent
  <1>6. last \in nums
    <2>1. nums \in SUBSET Nat /\ nums # {} /\ \A c \in nums : c <= s.clock
      BY <1>2, <1>3, <1>4
    <2>2. PICK m \in nums : \A c \in nums : c <= m
      <3> HIDE DEF nums
      <3>1. QED
        BY <1>2, <2>1, LargestExists
    <2>3. \E c \in nums : \A j \in sent : s.change[j] <= c
      BY <2>2
    <2> HIDE DEF nums
    <2>4. QED
      BY <2>3
  <1> HIDE DEF last
  <1>7. next <= s.clock
    BY <1>2, <1>3, <1>4, <1>6
  <1>8. ASSUME NEW j \in Job, 0 < s.change[j], s.change[j] <= next
        PROVE  \/ ~reset /\ s.change[j] <= p.cursor
               \/ \E e \in ents :
                    e.job = j /\ \A q \in Role : s.record[j][q].rev <= e.record[q].rev
    <2>1. CASE s.change[j] <= after
      BY <1>2, <1>3, <1>8, <2>1
    <2>2. CASE after < s.change[j]
      <3>1. j \in sent
        <4>1. CASE sent = open
          BY <1>4, <1>8, <2>2, <4>1
        <4>2. CASE sent # open
          <5>1. last # after /\ s.change[j] <= last
            BY <1>2, <1>3, <1>8, <2>2, <4>2
          <5>2. PICK k \in sent : last = s.change[k]
            BY <1>6, <5>1
          <5>3. j \in open
            BY <1>2, <1>3, <1>4, <2>2, <5>1, <5>2
          <5>4. QED
            BY <1>5, <5>1, <5>2, <5>3
        <4>3. QED
          BY <4>1, <4>2
      <3>2. PICK e \in ents : e = [job |-> j, change |-> s.change[j], record |-> s.record[j]]
        BY <3>1
      <3>3. \A q \in Role : s.record[j][q].rev \in Nat
        BY LogTyped
      <3>4. e.job = j /\ \A q \in Role : s.record[j][q].rev <= e.record[q].rev
        BY <3>2, <3>3
      <3>5. QED
        BY <3>4
    <2>3. QED
      BY <1>2, <1>3, <2>1, <2>2
  <1>9. \A e, f \in ents : e.job = f.job => e = f
    OBVIOUS
  <1> HIDE DEF next, ents
  <1>10. QED
    BY <1>1, <1>3, <1>7, <1>8, <1>9 DEF Answers

\* history::ingest_page: the receipt it writes is good for what it merged.
LEMMA AdvancedReceipt ==
  ASSUME NEW r \in Body, NEW s \in Body, NEW page \in Page, NEW y \in HStore,
         mem[r] \in HStore, Clocked(mem[r]), Answers(page, y),
         page.asked = mem[r].progress[s], Receipt(r, mem[r], s, y)
  PROVE  LET next == Advanced(r, s, page) IN
         /\ next \in HStore /\ Clocked(next) /\ Follows(mem[r], next)
         /\ next.trust = mem[r].trust
         /\ \A p \in Body \ {s} : next.progress[p] = mem[r].progress[p]
         /\ Receipt(r, next, s, y)
  <1> DEFINE x     == mem[r]
             known == {e \in page.entries : AuthorsKnown(r, mem[r], e.job)}
             got   == Ingested(mem[r], known)
             doubt == (~page.reset /\ page.asked.unknown) \/ known # page.entries
             prog  == [known |-> TRUE, cursor |-> page.next, high |-> page.high,
                       complete |-> page.complete, unknown |-> doubt]
             next  == Advanced(r, s, page)
  <1>1. next = [got EXCEPT !.progress[s] = prog]
    BY DEF Advanced
  <1>2. /\ \A e \in page.entries : e \in Published
        /\ \A e, f \in page.entries : e.job = f.job => e = f
        /\ page.next \in Nat /\ page.asked \in Progress /\ page.reset \in BOOLEAN
    BY DEF Page, Answers
  <1>3. prog \in Progress
    BY DEF Page, Progress
  <1>4. /\ got \in HStore /\ Follows(x, got) /\ Clocked(got)
        /\ got.trust = x.trust /\ got.progress = x.progress
        /\ \A e \in known, q \in Role : e.record[q].rev <= got.record[e.job][q].rev
        /\ \A j \in Job, q \in Role :
             got.record[j][q] = x.record[j][q] \/ got.record[j][q].rev > x.record[j][q].rev
    <2>1. known \subseteq page.entries
      OBVIOUS
    <2> HIDE DEF known
    <2>2. (\A e \in known : e \in Published) /\ \A e, f \in known : e.job = f.job => e = f
      BY <1>2, <2>1
    <2>3. QED
      BY <2>2, IngestedFollows, IngestedTyped
  <1>5. prog.known /\ prog.cursor = page.next /\ prog.unknown = doubt
    OBVIOUS
  <1> HIDE DEF got, prog
  <1>6. /\ next \in HStore /\ next.record = got.record /\ next.change = got.change
        /\ next.clock = got.clock /\ next.trust = got.trust
        /\ next.progress = [got.progress EXCEPT ![s] = prog]
    <2> HIDE DEF next
    <2>1. QED
      BY <1>1, <1>3, <1>4 DEF HStore
  <1>7. next.progress[s] = prog /\ \A p \in Body \ {s} : next.progress[p] = x.progress[p]
    BY <1>4, <1>6, LogTyped
  <1>8. Follows(x, next) /\ Clocked(next)
    <2>1. Follows(got, next) /\ Clocked(next)
      BY <1>4, <1>6, FollowsSelf
    <2>2. QED
      BY <1>4, <1>6, <2>1, FollowsOn
  <1> HIDE DEF next, known, doubt
  <1>9. ASSUME NEW j \in Job, 0 < y.change[j], y.change[j] <= page.next
        PROVE  \/ \A q \in Role : y.record[j][q].rev <= got.record[j][q].rev
               \/ ~AuthorsKnown(r, x, j) /\ doubt
    <2>1. \A q \in Role : /\ y.record[j][q].rev \in Nat /\ x.record[j][q].rev \in Nat
                          /\ got.record[j][q].rev \in Nat
                          /\ x.record[j][q].rev <= got.record[j][q].rev
      <3> TAKE q \in Role
      <3>1. y.record[j][q].rev \in Nat
        BY LogTyped
      <3>2. x.record[j][q].rev \in Nat
        BY LogTyped
      <3>3. got.record[j][q].rev \in Nat
        BY <1>4, LogTyped
      <3>4. got.record[j][q] = x.record[j][q] \/ got.record[j][q].rev > x.record[j][q].rev
        BY <1>4
      <3> HIDE DEF x
      <3>5. QED
        BY <3>1, <3>2, <3>3, <3>4
    <2>2. CASE ~page.reset /\ y.change[j] <= page.asked.cursor
      <3>1. x.progress[s].known /\ y.change[j] <= x.progress[s].cursor
        BY <2>2 DEF Answers
      <3>2. \/ \A q \in Role : y.record[j][q].rev <= x.record[j][q].rev
            \/ ~AuthorsKnown(r, x, j) /\ x.progress[s].unknown
        BY <1>9, <3>1 DEF Receipt
      <3>3. QED
        BY <2>1, <2>2, <3>2 DEF doubt
    <2>3. ASSUME NEW e \in page.entries, e.job = j,
                 \A q \in Role : y.record[j][q].rev <= e.record[q].rev
          PROVE  \/ \A q \in Role : y.record[j][q].rev <= got.record[j][q].rev
                 \/ ~AuthorsKnown(r, x, j) /\ doubt
      <3>1. CASE e \in known
        <4>1. \A q \in Role : e.record[q].rev \in Nat
          BY <1>2 DEF Published, Record, Fact
        <4>2. QED
          BY <1>4, <2>1, <2>3, <3>1, <4>1
      <3>2. CASE e \notin known
        BY <2>3, <3>2 DEF known, doubt
      <3>3. QED
        BY <3>1, <3>2
    <2>4. QED
      BY <1>9, <2>2, <2>3 DEF Answers
  <1>10. Receipt(r, next, s, y)
    <2>1. /\ next.progress[s].known /\ next.progress[s].cursor = page.next
          /\ next.progress[s].unknown = doubt
      BY <1>5, <1>7
    <2>2. page.next <= y.clock
      BY DEF Answers
    <2>3. \A j \in Job : AuthorsKnown(r, next, j) <=> AuthorsKnown(r, x, j)
      BY <1>4, <1>6 DEF AuthorsKnown
    <2>4. QED
      BY <1>6, <1>9, <2>1, <2>2, <2>3 DEF Receipt
  <1>11. QED
    BY <1>4, <1>6, <1>7, <1>8, <1>10 DEF next

-----------------------------------------------------------------------------
(* The receipts in every step *)

\* The inductive invariant of the receipts.
SeenInv == DiskFollows /\ Receipts /\ PagesAnswer

\* Every log only goes on, and the receipts stay good.
SeenOn ==
  /\ SeenInv'
  /\ \A b \in Body : Follows(mem[b], mem'[b])

\* A step writes the stores of one machine: its log goes on.
Onward(b, m, d) ==
  /\ b \in Body /\ m \in HStore /\ d \in HStore
  /\ mem' = [mem EXCEPT ![b] = m]
  /\ disk' = [disk EXCEPT ![b] = d]
  /\ Clocked(m) /\ Clocked(d) /\ Follows(mem[b], m) /\ Follows(m, d)

\* Its new stores have receipts for the logs as they were.
Receives(b, m, d) ==
  \A l \in Link : l[1] = b =>
    \A x \in {m, d} : Receipt(b, x, l[2], mem[l[2]])

\* The answers on their way are good for the logs as they were.
Promises ==
  \A l \in Link : fetch'[l] # NoPage =>
    /\ fetch'[l] \in Page
    /\ Answers(fetch'[l], mem[l[2]])
    /\ Asked(fetch'[l], mem'[l[1]], l[2])

\* What every step comes down to: one log goes on, its receipts and the answers
\* on their way are good for the logs as they were, and so for those as they are.
LEMMA OnwardKeeps ==
  ASSUME HistoryTypeOK, SeenInv, NEW b, NEW m, NEW d,
         Onward(b, m, d), Receives(b, m, d), Promises
  PROVE  SeenOn
  <1>1. /\ mem \in [Body -> HStore] /\ disk \in [Body -> HStore] /\ fetch \in [Link -> Page]
        /\ b \in Body /\ m \in HStore /\ d \in HStore
        /\ mem' = [mem EXCEPT ![b] = m] /\ disk' = [disk EXCEPT ![b] = d]
    BY DEF HistoryTypeOK, Onward
  <1>2. /\ mem'[b] = m /\ disk'[b] = d
        /\ \A c \in Body \ {b} : mem'[c] = mem[c] /\ disk'[c] = disk[c]
    BY <1>1
  <1>3. \A c \in Body : mem[c] \in HStore /\ disk[c] \in HStore /\ mem'[c] \in HStore
    BY <1>1
  <1>4. \A c \in Body : Follows(mem[c], mem'[c])
    <2> TAKE c \in Body
    <2>1. CASE c = b
      BY <1>2, <2>1 DEF Onward
    <2>2. CASE c # b
      <3>1. mem'[c] = mem[c] /\ mem[c] \in HStore
        BY <1>2, <1>3, <2>2
      <3>2. QED
        BY <3>1, FollowsSelf
    <2>3. QED
      BY <2>1, <2>2
  <1>5. DiskFollows'
    <2> SUFFICES ASSUME NEW c \in Body
                 PROVE  Clocked(mem'[c]) /\ Clocked(disk'[c]) /\ Follows(mem'[c], disk'[c])
      BY DEF DiskFollows, Clocked, Follows
    <2>1. CASE c = b
      BY <1>2, <2>1 DEF Onward
    <2>2. CASE c # b
      BY <1>2, <2>2 DEF SeenInv, DiskFollows
    <2>3. QED
      BY <2>1, <2>2
  <1>6. Receipts'
    <2> SUFFICES ASSUME NEW l \in Link, NEW x \in {mem'[l[1]], disk'[l[1]]}
                 PROVE  Receipt(l[1], x, l[2], mem'[l[2]])
      BY DEF Receipts, Receipt, AuthorsKnown
    <2>1. l[1] \in Body /\ l[2] \in Body
      BY LinkEnds
    <2>2. Receipt(l[1], x, l[2], mem[l[2]]) /\ x \in HStore
      <3>1. CASE l[1] = b
        BY <1>1, <1>2, <3>1 DEF Receives
      <3>2. CASE l[1] # b
        BY <1>2, <1>3, <2>1, <3>2 DEF SeenInv, Receipts
      <3>3. QED
        BY <3>1, <3>2
    <2>3. mem[l[2]] \in HStore /\ mem'[l[2]] \in HStore /\ Follows(mem[l[2]], mem'[l[2]])
      BY <1>3, <1>4, <2>1
    <2>4. QED
      BY <2>1, <2>2, <2>3, ReceiptStands
  <1>7. PagesAnswer'
    <2> SUFFICES ASSUME NEW l \in Link, fetch'[l] # NoPage
                 PROVE  Answers(fetch'[l], mem'[l[2]]) /\ Asked(fetch'[l], mem'[l[1]], l[2])
      BY DEF PagesAnswer, Answers, Asked, NoPage
    <2>1. l[1] \in Body /\ l[2] \in Body
      BY LinkEnds
    <2>2. mem[l[2]] \in HStore /\ mem'[l[2]] \in HStore /\ Follows(mem[l[2]], mem'[l[2]])
      BY <1>3, <1>4, <2>1
    <2>3. fetch'[l] \in Page /\ Answers(fetch'[l], mem[l[2]]) /\ Asked(fetch'[l], mem'[l[1]], l[2])
      BY DEF Promises
    <2>4. QED
      BY <2>2, <2>3, AnswerStands
  <1>8. QED
    BY <1>4, <1>5, <1>6, <1>7 DEF SeenInv, SeenOn

\* What an answer on its way is worth, and what is saved here.
LEMMA SeenHere ==
  ASSUME HistoryTypeOK, SeenInv, NEW b \in Body
  PROVE  /\ mem[b] \in HStore /\ disk[b] \in HStore
         /\ Clocked(mem[b]) /\ Clocked(disk[b]) /\ Follows(mem[b], disk[b])
         /\ \A l \in Link : l[1] = b =>
              \A x \in {mem[b], disk[b]} : Receipt(b, x, l[2], mem[l[2]])
         /\ \A l \in Link : fetch[l] # NoPage =>
              /\ fetch[l] \in Page /\ Answers(fetch[l], mem[l[2]])
              /\ Asked(fetch[l], mem[l[1]], l[2])
  BY DEF HistoryTypeOK, SeenInv, DiskFollows, Receipts, PagesAnswer

\* No answer has come on the way, and what b has asked for it did with what m has read.
StillAsked(b, m) ==
  \A l \in Link : fetch'[l] # NoPage =>
    /\ fetch'[l] = fetch[l]
    /\ l[1] = b /\ m.trust = mem[b].trust => m.progress[l[2]] = mem[b].progress[l[2]]

\* The answers on their way, when a step writes m into the memory of b and takes
\* no answer but those it may: they were asked for with what m has read.
LEMMA PromisesKept ==
  ASSUME HistoryTypeOK, SeenInv, NEW b \in Body, NEW m \in HStore,
         mem' = [mem EXCEPT ![b] = m], mem[b].trust \subseteq m.trust,
         StillAsked(b, m)
  PROVE  Promises
  <1> SUFFICES ASSUME NEW l \in Link, fetch'[l] # NoPage
               PROVE  /\ fetch'[l] \in Page /\ Answers(fetch'[l], mem[l[2]])
                      /\ Asked(fetch'[l], mem'[l[1]], l[2])
    BY DEF Promises
  <1>1. /\ fetch'[l] = fetch[l] /\ mem \in [Body -> HStore] /\ l[1] \in Body
        /\ fetch[l] \in Page /\ Answers(fetch[l], mem[l[2]])
        /\ Asked(fetch[l], mem[l[1]], l[2])
    BY SeenHere, LinkEnds DEF HistoryTypeOK, StillAsked
  <1>2. CASE l[1] # b
    BY <1>1, <1>2
  <1>3. CASE l[1] = b
    <2>1. mem'[l[1]] = m
      BY <1>1, <1>3
    <2>2. Asked(fetch[l], m, l[2])
      <3>1. /\ fetch[l].trusted \subseteq mem[b].trust
            /\ fetch[l].trusted = mem[b].trust => fetch[l].asked = mem[b].progress[l[2]]
        BY <1>1, <1>3 DEF Asked
      <3>2. m.trust = mem[b].trust => m.progress[l[2]] = mem[b].progress[l[2]]
        BY <1>3 DEF StillAsked
      <3>3. QED
        BY <3>1, <3>2 DEF Asked
    <2>3. QED
      BY <1>1, <2>1, <2>2
  <1>4. QED
    BY <1>2, <1>3

\* y has the log, the pairings and the cursors of x. Only that a scan is complete
\* may have been taken back.
Reads(x, y) ==
  /\ y.clock = x.clock /\ y.change = x.change /\ y.record = x.record /\ y.trust = x.trust
  /\ \A s \in Body : \A k \in {"known", "cursor", "unknown"} :
       y.progress[s][k] = x.progress[s][k]

\* A store that only takes back that a scan is complete keeps every receipt.
LEMMA ReadsKeeps ==
  ASSUME NEW x \in HStore, NEW y \in HStore, Reads(x, y), Clocked(x)
  PROVE  /\ Follows(x, y) /\ Follows(y, x) /\ Clocked(y)
         /\ \A s \in Body : Keeps(x, y, s)
  <1>1. \A j \in Job, q \in Role : x.record[j][q].rev \in Nat
    BY LogTyped
  <1>2. \A s \in Body : Keeps(x, y, s)
    BY <1>1 DEF Reads, Keeps
  <1>3. QED
    BY <1>2, FollowsSelf DEF Reads

\* The successor that refresh_owned makes of a store keeps its receipts, or has
\* forgotten them all.
LEMMA RefreshedReceives ==
  ASSUME NEW b \in Body, NEW next \in HStore, NEW old, NEW s \in Body, NEW y \in HStore,
         Clocked(next), next.trust = old.trust => Receipt(b, next, s, y)
  PROVE  Receipt(b, Refreshed(b, next, old), s, y)
  <1> DEFINE U == Refreshed(b, next, old)
  <1>1. U \in HStore /\ \A j \in Job, r \in Role :
          U.record[j][r] = next.record[j][r] \/ U.record[j][r].rev = next.record[j][r].rev + 1
    BY RefreshedTyped
  <1>2. /\ U.trust = next.trust
        /\ U.progress = IF next.trust # old.trust THEN [p \in Body |-> Unread] ELSE next.progress
    BY RefreshedFollows
  <1> HIDE DEF U
  <1>3. CASE next.trust # old.trust
    BY <1>2, <1>3 DEF Receipt, Unread, U
  <1>4. CASE next.trust = old.trust
    <2>1. \A j \in Job, q \in Role : next.record[j][q].rev <= U.record[j][q].rev
      <3> TAKE j \in Job, q \in Role
      <3>1. next.record[j][q].rev \in Nat
        BY LogTyped
      <3>2. U.record[j][q] = next.record[j][q] \/ U.record[j][q].rev = next.record[j][q].rev + 1
        BY <1>1
      <3>3. QED
        BY <3>1, <3>2
    <2>2. U.progress = next.progress
      BY <1>2, <1>4
    <2>3. Keeps(next, U, s)
      BY <1>2, <2>1, <2>2 DEF Keeps
    <2>4. QED
      BY <1>1, <1>4, <2>3, ReceiptKept DEF U
  <1>5. QED
    BY <1>3, <1>4

\* Store::update, when the log of next goes on from the one in memory and next
\* has its receipts.
LEMMA UpdateSeen ==
  ASSUME HistoryTypeOK, SeenInv, NEW b \in Body, NEW next \in HStore, NEW shown \in HStore,
         Follows(mem[b], next), Clocked(next), mem[b].trust \subseteq next.trust,
         next.trust = mem[b].trust =>
           \A l \in Link : l[1] = b => Receipt(b, next, l[2], mem[l[2]]),
         Reads(mem[b], shown),
         StillAsked(b, next), StillAsked(b, shown),
         Saved(b, next) \/ SaveFailed(b, next, shown)
  PROVE  SeenOn
  <1> DEFINE x == mem[b]
             U == Refreshed(b, next, mem[b])
  <1>1. /\ x \in HStore /\ disk[b] \in HStore /\ Clocked(x) /\ Clocked(disk[b])
        /\ Follows(x, disk[b])
        /\ \A l \in Link : l[1] = b =>
             Receipt(b, x, l[2], mem[l[2]]) /\ Receipt(b, disk[b], l[2], mem[l[2]])
    BY SeenHere
  <1>2. \A l \in Link : mem[l[2]] \in HStore /\ l[2] \in Body
    BY LinkEnds DEF HistoryTypeOK
  <1>3. /\ U \in HStore /\ Follows(next, U) /\ Clocked(U) /\ U.trust = next.trust
        /\ U.progress = IF next.trust # x.trust THEN [p \in Body |-> Unread] ELSE next.progress
    <2>1. U \in HStore
      BY RefreshedTyped
    <2>2. QED
      BY <2>1, RefreshedFollows
  <1>4. \A l \in Link : l[1] = b => Receipt(b, U, l[2], mem[l[2]])
    BY <1>2, RefreshedReceives
  <1>5. /\ Follows(x, shown) /\ Follows(shown, x) /\ Clocked(shown)
        /\ \A s \in Body : Keeps(x, shown, s)
    BY <1>1, ReadsKeeps
  <1>6. \A l \in Link : l[1] = b => Receipt(b, shown, l[2], mem[l[2]])
    BY <1>1, <1>2, <1>5, ReceiptKept
  <1>7. shown.trust = x.trust
    BY DEF Reads
  <1> HIDE DEF U
  <1>8. Follows(x, U)
    BY <1>1, <1>3, FollowsOn
  <1>9. CASE Saved(b, next)
    <2>1. mem' = [mem EXCEPT ![b] = U] /\ disk' = [disk EXCEPT ![b] = U]
      BY <1>9 DEF Saved, U
    <2>2. Onward(b, U, U)
      BY <1>3, <1>8, <2>1, FollowsSelf DEF Onward
    <2>3. Receives(b, U, U)
      BY <1>4 DEF Receives
    <2>4. Promises
      <3>1. mem[b].trust \subseteq U.trust
        BY <1>3
      <3>2. StillAsked(b, U)
        BY <1>3 DEF StillAsked
      <3>3. QED
        BY <1>3, <2>1, <3>1, <3>2, PromisesKept
    <2>5. QED
      BY <2>2, <2>3, <2>4, OnwardKeeps
  <1>10. CASE SaveFailed(b, next, shown)
    <2>1. /\ mem' = [mem EXCEPT ![b] = shown]
          /\ disk' = disk \/ disk' = [disk EXCEPT ![b] = U]
      BY <1>10 DEF SaveFailed, U
    <2>2. PICK d \in {disk[b], U} : disk' = [disk EXCEPT ![b] = d]
      BY <2>1 DEF HistoryTypeOK
    <2>3. /\ d \in HStore /\ Clocked(d) /\ Follows(x, d)
          /\ \A l \in Link : l[1] = b => Receipt(b, d, l[2], mem[l[2]])
      BY <1>1, <1>3, <1>4, <1>8, <2>2
    <2>4. Follows(shown, d)
      BY <1>1, <1>5, <2>3, FollowsOn
    <2>5. Onward(b, shown, d)
      BY <1>5, <2>1, <2>2, <2>3, <2>4 DEF Onward
    <2>6. Receives(b, shown, d)
      BY <1>6, <2>3 DEF Receives
    <2>7. Promises
      <3>1. mem[b].trust \subseteq shown.trust
        BY <1>7
      <3>2. QED
        BY <2>1, <3>1, PromisesKept
    <2>8. QED
      BY <2>5, <2>6, <2>7, OnwardKeeps
  <1>11. QED
    BY <1>9, <1>10

\* A step that only takes back that a scan is complete, or changes a row, in memory.
LEMMA QuietSeen ==
  ASSUME HistoryTypeOK, SeenInv, NEW b \in Body, NEW m \in HStore, Reads(mem[b], m),
         StillAsked(b, m),
         mem' = [mem EXCEPT ![b] = m], disk' = disk
  PROVE  SeenOn
  <1>1. /\ mem[b] \in HStore /\ disk[b] \in HStore /\ Clocked(mem[b]) /\ Clocked(disk[b])
        /\ Follows(mem[b], disk[b])
        /\ \A l \in Link : l[1] = b =>
             Receipt(b, mem[b], l[2], mem[l[2]]) /\ Receipt(b, disk[b], l[2], mem[l[2]])
    BY SeenHere
  <1>2. \A l \in Link : mem[l[2]] \in HStore /\ l[2] \in Body
    BY LinkEnds DEF HistoryTypeOK
  <1>3. /\ Follows(mem[b], m) /\ Follows(m, mem[b]) /\ Clocked(m)
        /\ \A s \in Body : Keeps(mem[b], m, s)
    BY <1>1, ReadsKeeps
  <1>4. disk' = [disk EXCEPT ![b] = disk[b]]
    BY DEF HistoryTypeOK
  <1>5. Onward(b, m, disk[b])
    BY <1>1, <1>3, <1>4, FollowsOn DEF Onward
  <1>6. Receives(b, m, disk[b])
    BY <1>1, <1>2, <1>3, ReceiptKept DEF Receives
  <1>7. Promises
    <2>1. mem[b].trust \subseteq m.trust
      BY DEF Reads
    <2>2. QED
      BY <2>1, PromisesKept
  <1>8. QED
    BY <1>5, <1>6, <1>7, OnwardKeeps

\* A changed row is nothing a reader notices.
LEMMA RowReads ==
  ASSUME HistoryTypeOK, NEW b \in Body, NEW j \in Job, NEW st \in Status
  PROVE  /\ Row(b, j, st) \in HStore
         /\ Reads(mem[b], Row(b, j, st))
         /\ Row(b, j, st).progress = mem[b].progress
  <1>1. mem[b] \in HStore
    BY DEF HistoryTypeOK
  <1>2. Row(b, j, st) = [mem[b] EXCEPT !.row[j] = st]
    BY DEF Row
  <1>3. QED
    BY <1>1, <1>2 DEF HStore, Reads

\* Where no cursor moves, what was asked for stands.
LEMMA StillAskedUnmoved ==
  ASSUME NEW b, NEW m, m.progress = mem[b].progress, fetch' = fetch
  PROVE  StillAsked(b, m)
  BY DEF StillAsked

\* A row changes, and with it what is published of it.
LEMMA RowSeen ==
  ASSUME HistoryTypeOK, SeenInv, NEW b \in Body, NEW j \in Job, NEW st \in Status,
         NEW shown \in HStore, Reads(mem[b], shown), shown.progress = mem[b].progress,
         fetch' = fetch,
         Saved(b, Row(b, j, st)) \/ SaveFailed(b, Row(b, j, st), shown)
  PROVE  SeenOn
  <1> DEFINE next == Row(b, j, st)
  <1>1. next \in HStore /\ Reads(mem[b], next) /\ next.progress = mem[b].progress
    BY RowReads
  <1>2. /\ mem[b] \in HStore /\ Clocked(mem[b])
        /\ \A l \in Link : l[1] = b => Receipt(b, mem[b], l[2], mem[l[2]])
    BY SeenHere
  <1>3. \A l \in Link : mem[l[2]] \in HStore /\ l[2] \in Body
    BY LinkEnds DEF HistoryTypeOK
  <1> HIDE DEF next
  <1>4. /\ Follows(mem[b], next) /\ Clocked(next)
        /\ \A s \in Body : Keeps(mem[b], next, s)
    BY <1>1, <1>2, ReadsKeeps
  <1>5. \A l \in Link : l[1] = b => Receipt(b, next, l[2], mem[l[2]])
    BY <1>1, <1>2, <1>3, <1>4, ReceiptKept
  <1>6. mem[b].trust \subseteq next.trust
    BY <1>1 DEF Reads
  <1>7. StillAsked(b, next) /\ StillAsked(b, shown)
    BY <1>1, StillAskedUnmoved
  <1>8. Saved(b, next) \/ SaveFailed(b, next, shown)
    BY DEF next
  <1>9. QED
    BY <1>1, <1>4, <1>5, <1>6, <1>7, <1>8, UpdateSeen

\* The same for an update that shows nothing when it fails.
LEMMA RowUpdateSeen ==
  ASSUME HistoryTypeOK, SeenInv, NEW b \in Body, NEW j \in Job, NEW st \in Status,
         fetch' = fetch, Update(b, Row(b, j, st))
  PROVE  SeenOn
  <1>1. mem[b] \in HStore /\ Reads(mem[b], mem[b])
    BY DEF HistoryTypeOK, Reads
  <1>2. QED
    BY <1>1, RowSeen DEF Update

\* The course of an invocation.
LEMMA JobSeen ==
  ASSUME HistoryTypeOK, SeenInv, NEW j \in Job,
         Order(j) \/ Delay(j) \/ GiveUp(j) \/ Admit(j) \/ Settle(j)
  PROVE  SeenOn
  <1>1. From[j] \in Body /\ Runs[j] \in Body /\ fetch' = fetch
    BY HistoryShape DEF Order, Delay, GiveUp, Admit, Settle
  <1>2. Outcome \subseteq Status /\ {"queued", "waiting", "failed", "running", "denied"} \subseteq Status
    BY DEF Status, Terminal, Outcome, Waiting
  <1>3. CASE Order(j) \/ Delay(j) \/ GiveUp(j)
    <2>1. \E st \in Status : Update(From[j], Row(From[j], j, st))
      BY <1>2, <1>3 DEF Order, Delay, GiveUp
    <2>2. QED
      BY <1>1, <2>1, RowUpdateSeen
  <1>4. CASE Admit(j)
    <2>1. \E st \in Status : Update(Runs[j], Row(Runs[j], j, st))
      BY <1>2, <1>4 DEF Admit
    <2>2. QED
      BY <1>1, <2>1, RowUpdateSeen
  <1>5. CASE Settle(j)
    <2> DEFINE b     == Runs[j]
               doubt == Row(b, j, "uncertain")
    <2>1. doubt \in HStore /\ Reads(mem[b], doubt) /\ doubt.progress = mem[b].progress
      BY <1>1, <1>2, RowReads DEF Outcome
    <2>2. PICK st \in Outcome :
            \/ Saved(b, Row(b, j, st)) \/ SaveFailed(b, Row(b, j, st), doubt)
            \/ mem' = [mem EXCEPT ![b] = doubt] /\ disk' = disk
      BY <1>5 DEF Settle
    <2> HIDE DEF doubt
    <2>3. CASE Saved(b, Row(b, j, st)) \/ SaveFailed(b, Row(b, j, st), doubt)
      BY <1>1, <1>2, <2>1, <2>3, RowSeen
    <2>4. CASE mem' = [mem EXCEPT ![b] = doubt] /\ disk' = disk
      BY <1>1, <2>1, <2>4, StillAskedUnmoved, QuietSeen
    <2>5. QED
      BY <2>2, <2>3, <2>4
  <1>6. QED
    BY <1>3, <1>4, <1>5

\* A new pairing forgets the cursors, and no answer asked for before is taken.
LEMMA PairSeen ==
  ASSUME HistoryTypeOK, SeenInv, NEW b \in Body, NEW p \in Body, Pair(b, p)
  PROVE  SeenOn
  <1> DEFINE next == [mem[b] EXCEPT !.trust = @ \cup {p}]
  <1>1. mem[b] \in HStore /\ Clocked(mem[b]) /\ Reads(mem[b], mem[b])
    BY SeenHere DEF Reads
  <1>2. /\ next \in HStore /\ next.clock = mem[b].clock /\ next.change = mem[b].change
        /\ next.record = mem[b].record /\ next.trust = mem[b].trust \cup {p}
        /\ next.progress = mem[b].progress
    BY <1>1 DEF HStore
  <1>3. p \notin mem[b].trust /\ fetch' = fetch /\ Update(b, next)
    BY DEF Pair
  <1> HIDE DEF next
  <1>4. Follows(mem[b], next) /\ Clocked(next)
    BY <1>1, <1>2, FollowsSelf
  <1>5. next.trust # mem[b].trust /\ mem[b].trust \subseteq next.trust
    BY <1>2, <1>3
  <1>6. StillAsked(b, next) /\ StillAsked(b, mem[b])
    BY <1>2, <1>3, StillAskedUnmoved
  <1>7. QED
    BY <1>1, <1>2, <1>3, <1>4, <1>5, <1>6, UpdateSeen DEF Update

\* accept_runner_reply: the log of the origin goes on with the runner's facts.
LEMMA LearnSeen ==
  ASSUME HistoryTypeOK, SeenInv, NEW j \in Job, Learn(j)
  PROVE  SeenOn
  <1> DEFINE b == From[j]
             e == [job |-> j, change |-> mem[Runs[j]].change[j], record |-> mem[Runs[j]].record[j]]
             s == Ingested(mem[b], {e})
             st == e.record["runner"].status
             next == [s EXCEPT !.row[j] = st]
  <1>1. /\ b \in Body /\ Runs[j] \in Body /\ mem[Runs[j]] \in HStore
        /\ fetch' = fetch /\ Update(b, next)
    BY HistoryShape DEF HistoryTypeOK, Learn
  <1>2. /\ mem[b] \in HStore /\ Clocked(mem[b]) /\ Reads(mem[b], mem[b])
        /\ \A l \in Link : l[1] = b => Receipt(b, mem[b], l[2], mem[l[2]])
    BY <1>1, SeenHere DEF Reads
  <1>3. e \in Published /\ st \in Status
    <2>1. e \in Published
      BY <1>1 DEF HStore, Published
    <2>2. st \in Status
      BY <1>1 DEF HStore, Record, Fact, Role
    <2>3. QED
      BY <2>1, <2>2
  <1>4. /\ s \in HStore /\ Follows(mem[b], s) /\ Clocked(s)
        /\ s.trust = mem[b].trust /\ s.progress = mem[b].progress
        /\ \A k \in Job, q \in Role :
             s.record[k][q] = mem[b].record[k][q] \/ s.record[k][q].rev > mem[b].record[k][q].rev
    <2> HIDE DEF e
    <2>1. \A x \in {e} : x \in Published
      BY <1>3
    <2>2. QED
      BY <1>2, <2>1, IngestedTyped, IngestedFollows
  <1> HIDE DEF e, st, s
  <1>5. /\ next \in HStore /\ next.clock = s.clock /\ next.change = s.change
        /\ next.record = s.record /\ next.trust = s.trust /\ next.progress = s.progress
    BY <1>3, <1>4 DEF HStore
  <1> HIDE DEF next
  <1>6. Follows(mem[b], next) /\ Clocked(next)
    BY <1>2, <1>4, <1>5, FollowsSelf, FollowsOn
  <1>7. \A c \in Body : Keeps(mem[b], next, c)
    <2>1. ASSUME NEW k \in Job, NEW q \in Role
          PROVE  mem[b].record[k][q].rev <= next.record[k][q].rev
      <3>1. mem[b].record[k][q].rev \in Nat
        BY <1>2, LogTyped
      <3>2. next.record[k][q].rev \in Nat
        BY <1>5, LogTyped
      <3>3. \/ next.record[k][q] = mem[b].record[k][q]
            \/ next.record[k][q].rev > mem[b].record[k][q].rev
        BY <1>4, <1>5
      <3>4. QED
        BY <3>1, <3>2, <3>3
    <2>2. next.trust = mem[b].trust /\ next.progress = mem[b].progress
      BY <1>4, <1>5
    <2>3. QED
      BY <2>1, <2>2 DEF Keeps
  <1>8. \A l \in Link : l[1] = b => Receipt(b, next, l[2], mem[l[2]])
    <2>1. \A l \in Link : mem[l[2]] \in HStore /\ l[2] \in Body
      BY LinkEnds DEF HistoryTypeOK
    <2>2. QED
      BY <1>2, <1>5, <1>7, <2>1, ReceiptKept
  <1>9. StillAsked(b, next) /\ StillAsked(b, mem[b]) /\ mem[b].trust \subseteq next.trust
    BY <1>1, <1>4, <1>5, StillAskedUnmoved
  <1>10. QED
    BY <1>1, <1>2, <1>5, <1>6, <1>8, <1>9, UpdateSeen DEF Update

\* The start of a daemon: its log goes on from the file, which no answer crosses.
LEMMA RebootSeen ==
  ASSUME HistoryTypeOK, SeenInv, NEW b \in Body, Reboot(b)
  PROVE  SeenOn
  <1> DEFINE s == disk[b]
             next == Recovered(b, s)
             U == Refreshed(b, next, s)
  <1>1. /\ s \in HStore /\ mem[b] \in HStore /\ Clocked(s) /\ Follows(mem[b], s)
        /\ \A l \in Link : l[1] = b => Receipt(b, s, l[2], mem[l[2]])
    BY SeenHere
  <1>2. next \in HStore /\ Reads(s, next)
    BY <1>1 DEF Recovered, HStore, Reads, Status, Terminal, Outcome
  <1>3. \A l \in Link : mem[l[2]] \in HStore /\ l[2] \in Body
    BY LinkEnds DEF HistoryTypeOK
  <1> HIDE DEF next
  <1>4. /\ Follows(s, next) /\ Follows(next, s) /\ Clocked(next)
        /\ \A c \in Body : Keeps(s, next, c)
    BY <1>1, <1>2, ReadsKeeps
  <1>5. \A l \in Link : l[1] = b => Receipt(b, next, l[2], mem[l[2]])
    BY <1>1, <1>2, <1>3, <1>4, ReceiptKept
  <1>6. U \in HStore /\ Follows(next, U) /\ Clocked(U)
    <2>1. U \in HStore
      BY <1>2, RefreshedTyped
    <2>2. QED
      BY <1>2, <1>4, <2>1, RefreshedFollows
  <1>7. \A l \in Link : l[1] = b => Receipt(b, U, l[2], mem[l[2]])
    BY <1>2, <1>3, <1>4, <1>5, RefreshedReceives
  <1> HIDE DEF U
  <1>8. Follows(mem[b], next)
    BY <1>1, <1>2, <1>4, FollowsOn
  <1>9. Follows(mem[b], U) /\ Follows(U, U)
    BY <1>1, <1>2, <1>6, <1>8, FollowsOn, FollowsSelf
  <1>10. Promises
    <2> SUFFICES ASSUME NEW l \in Link, fetch'[l] # NoPage
                 PROVE  /\ fetch'[l] \in Page /\ Answers(fetch'[l], mem[l[2]])
                        /\ Asked(fetch'[l], mem'[l[1]], l[2])
      BY DEF Promises
    <2>1. fetch'[l] = fetch[l] /\ l[1] # b
      BY DEF Reboot
    <2>2. mem'[l[1]] = mem[l[1]]
      BY <2>1, LinkEnds DEF Reboot, HistoryTypeOK
    <2>3. QED
      BY <2>1, <2>2, SeenHere
  <1>11. \E m \in {U, next}, d \in {U, s} :
            /\ mem' = [mem EXCEPT ![b] = m] /\ disk' = [disk EXCEPT ![b] = d]
            /\ m = next \/ d = U
    <2>1. disk = [disk EXCEPT ![b] = s]
      BY DEF HistoryTypeOK
    <2>2. \/ mem' = [mem EXCEPT ![b] = U] /\ disk' = [disk EXCEPT ![b] = U]
          \/ /\ mem' = [mem EXCEPT ![b] = next]
             /\ disk' = disk \/ disk' = [disk EXCEPT ![b] = U]
      BY DEF Reboot, U, next
    <2> HIDE DEF s
    <2>3. QED
      BY <2>1, <2>2
  <1>12. PICK m \in {U, next}, d \in {U, s} :
            /\ mem' = [mem EXCEPT ![b] = m] /\ disk' = [disk EXCEPT ![b] = d]
            /\ m = next \/ d = U
    BY <1>11
  <1> HIDE DEF s
  <1>13. Onward(b, m, d)
    BY <1>1, <1>2, <1>4, <1>6, <1>8, <1>9, <1>12 DEF Onward
  <1>14. Receives(b, m, d)
    BY <1>1, <1>5, <1>7, <1>12 DEF Receives
  <1>15. QED
    BY <1>10, <1>13, <1>14, OnwardKeeps

\* history::page: what is asked for with a receipt continues it.
LEMMA FetchSeen ==
  ASSUME HistoryTypeOK, SeenInv, NEW l \in Link, Fetch(l)
  PROVE  SeenOn
  <1> DEFINE r == l[1]
             s == l[2]
             p == PageOf(mem[s], mem[r].progress[s], mem[r].trust)
  <1>1. r \in Body /\ s \in Body
    BY LinkEnds
  <1>2. /\ mem[r] \in HStore /\ disk[r] \in HStore /\ Clocked(mem[r]) /\ Clocked(disk[r])
        /\ Follows(mem[r], disk[r])
        /\ \A k \in Link : k[1] = r =>
             \A x \in {mem[r], disk[r]} : Receipt(r, x, k[2], mem[k[2]])
    BY <1>1, SeenHere
  <1>3. mem[s] \in HStore /\ Clocked(mem[s])
    BY <1>1, SeenHere
  <1>4. mem[r].progress[s] \in Progress /\ mem[r].trust \in SUBSET Body
    BY <1>1, <1>2, LogTyped
  <1>5. mem[r].progress[s].known => mem[r].progress[s].cursor <= mem[s].clock
    BY <1>2 DEF Receipt
  <1>6. Answers(p, mem[s])
    BY <1>3, <1>4, <1>5, PageAnswers
  <1>7. p \in Page /\ p.asked = mem[r].progress[s] /\ p.trusted = mem[r].trust
    <2>1. p \in Page
      BY <1>3, <1>4, PageTyped
    <2>2. p.asked = mem[r].progress[s] /\ p.trusted = mem[r].trust
      BY DEF PageOf
    <2>3. QED
      BY <2>1, <2>2
  <1>8. fetch' = [fetch EXCEPT ![l] = p] /\ mem' = mem /\ disk' = disk
    BY DEF Fetch
  <1>9. fetch \in [Link -> Page] /\ mem \in [Body -> HStore] /\ disk \in [Body -> HStore]
    BY DEF HistoryTypeOK
  <1> HIDE DEF p
  <1>10. Promises
    <2> SUFFICES ASSUME NEW k \in Link, fetch'[k] # NoPage
                 PROVE  /\ fetch'[k] \in Page /\ Answers(fetch'[k], mem[k[2]])
                        /\ Asked(fetch'[k], mem'[k[1]], k[2])
      BY DEF Promises
    <2>1. CASE k = l
      <3>1. fetch'[k] = p
        BY <1>8, <1>9, <2>1
      <3>2. Asked(p, mem[r], s)
        BY <1>7 DEF Asked
      <3>3. QED
        BY <1>6, <1>7, <1>8, <2>1, <3>1, <3>2
    <2>2. CASE k # l
      <3>1. fetch'[k] = fetch[k]
        BY <1>8, <1>9, <2>2
      <3>2. QED
        BY <1>1, <1>8, <3>1, SeenHere
    <2>3. QED
      BY <2>1, <2>2
  <1>11. Onward(r, mem[r], disk[r])
    <2>1. mem' = [mem EXCEPT ![r] = mem[r]] /\ disk' = [disk EXCEPT ![r] = disk[r]]
      BY <1>8, <1>9
    <2>2. Follows(mem[r], mem[r])
      BY <1>2, FollowsSelf
    <2>3. QED
      BY <1>1, <1>2, <2>1, <2>2 DEF Onward
  <1>12. Receives(r, mem[r], disk[r])
    BY <1>2 DEF Receives
  <1>13. QED
    BY <1>10, <1>11, <1>12, OnwardKeeps

\* The answer of s to r is taken: what it was asked for may change.
LEMMA StillAskedTaken ==
  ASSUME HistoryTypeOK, NEW l \in Link, NEW m,
         fetch' = [fetch EXCEPT ![l] = NoPage],
         \A c \in Body \ {l[2]} : m.progress[c] = mem[l[1]].progress[c]
  PROVE  StillAsked(l[1], m)
  <1> SUFFICES ASSUME NEW k \in Link, fetch'[k] # NoPage
               PROVE  /\ fetch'[k] = fetch[k]
                      /\ k[1] = l[1] => m.progress[k[2]] = mem[l[1]].progress[k[2]]
    BY DEF StillAsked
  <1>1. fetch'[k] = fetch[k] /\ k # l
    BY DEF HistoryTypeOK
  <1>2. k[2] \in Body /\ (k[1] = l[1] => k[2] # l[2])
    BY <1>1, HistoryShape
  <1>3. QED
    BY <1>1, <1>2

\* Taking back that a scan is complete takes back no receipt.
LEMMA IncompleteReads ==
  ASSUME NEW x \in HStore, NEW s \in Body
  PROVE  LET m == [x EXCEPT !.progress[s].complete = FALSE] IN
         /\ m \in HStore /\ Reads(x, m)
         /\ \A c \in Body \ {s} : m.progress[c] = x.progress[c]
  <1> DEFINE m == [x EXCEPT !.progress[s].complete = FALSE]
             p == [x.progress[s] EXCEPT !.complete = FALSE]
  <1>1. x.progress \in [Body -> Progress] /\ x.progress[s] \in Progress
    BY LogTyped
  <1>2. /\ p \in Progress /\ p.known = x.progress[s].known
        /\ p.cursor = x.progress[s].cursor /\ p.unknown = x.progress[s].unknown
    BY <1>1 DEF Progress
  <1> HIDE DEF p
  <1>3. m = [x EXCEPT !.progress = [x.progress EXCEPT ![s] = p]]
    BY DEF p
  <1>4. /\ m \in HStore /\ m.clock = x.clock /\ m.change = x.change /\ m.record = x.record
        /\ m.trust = x.trust /\ m.progress = [x.progress EXCEPT ![s] = p]
    BY <1>1, <1>2, <1>3 DEF HStore
  <1> HIDE DEF m
  <1>5. \A c \in Body : m.progress[c] = IF c = s THEN p ELSE x.progress[c]
    BY <1>1, <1>4
  <1>6. QED
    BY <1>2, <1>4, <1>5 DEF Reads, m

\* An answer that is lost or no longer current changes no receipt.
LEMMA TakenSeen ==
  ASSUME HistoryTypeOK, SeenInv, NEW l \in Link,
         fetch' = [fetch EXCEPT ![l] = NoPage], disk' = disk,
         mem' = mem \/ mem' = Incomplete(l[1], l[2])
  PROVE  SeenOn
  <1> DEFINE r == l[1]
             s == l[2]
             shown == [mem[r] EXCEPT !.progress[s].complete = FALSE]
  <1>1. r \in Body /\ s \in Body /\ mem \in [Body -> HStore] /\ mem[r] \in HStore
    BY LinkEnds DEF HistoryTypeOK
  <1>2. CASE mem' = mem
    <2>1. mem' = [mem EXCEPT ![r] = mem[r]] /\ Reads(mem[r], mem[r])
      BY <1>1, <1>2 DEF Reads
    <2>2. StillAsked(r, mem[r])
      BY StillAskedTaken
    <2>3. QED
      BY <1>1, <2>1, <2>2, QuietSeen
  <1>3. CASE mem' = Incomplete(r, s)
    <2>1. mem' = [mem EXCEPT ![r] = shown]
      BY <1>1, <1>3 DEF Incomplete
    <2>2. /\ shown \in HStore /\ Reads(mem[r], shown)
          /\ \A c \in Body \ {s} : shown.progress[c] = mem[r].progress[c]
      BY <1>1, IncompleteReads
    <2> HIDE DEF shown
    <2>3. StillAsked(r, shown)
      BY <2>2, StillAskedTaken
    <2>4. QED
      BY <1>1, <2>1, <2>2, <2>3, QuietSeen
  <1>4. QED
    BY <1>2, <1>3

\* A page is merged and its cursor saved in one update: the receipt is good.
LEMMA AppliedSeen ==
  ASSUME HistoryTypeOK, SeenInv, NEW l \in Link, fetch[l] # NoPage,
         Current(l[1], l[2], fetch[l]), fetch' = [fetch EXCEPT ![l] = NoPage],
         LET next  == Advanced(l[1], l[2], fetch[l])
             shown == [mem[l[1]] EXCEPT !.progress[l[2]].complete = FALSE]
         IN  Saved(l[1], next) \/ SaveFailed(l[1], next, shown)
  PROVE  SeenOn
  <1> DEFINE r     == l[1]
             s     == l[2]
             page  == fetch[l]
             next  == Advanced(r, s, page)
             shown == [mem[r] EXCEPT !.progress[s].complete = FALSE]
  <1>1. r \in Body /\ s \in Body
    BY LinkEnds
  <1>2. /\ mem[r] \in HStore /\ Clocked(mem[r]) /\ mem[s] \in HStore
        /\ \A k \in Link : k[1] = r => Receipt(r, mem[r], k[2], mem[k[2]])
    BY <1>1, SeenHere
  <1>3. page \in Page /\ Answers(page, mem[s]) /\ Asked(page, mem[r], s)
    BY <1>1, SeenHere
  <1>4. page.asked = mem[r].progress[s]
    BY <1>3 DEF Asked, Current
  <1>5. /\ next \in HStore /\ Clocked(next) /\ Follows(mem[r], next)
        /\ next.trust = mem[r].trust
        /\ \A p \in Body \ {s} : next.progress[p] = mem[r].progress[p]
        /\ Receipt(r, next, s, mem[s])
    BY <1>1, <1>2, <1>3, <1>4, AdvancedReceipt
  <1>6. /\ shown \in HStore /\ Reads(mem[r], shown)
        /\ \A c \in Body \ {s} : shown.progress[c] = mem[r].progress[c]
    BY <1>1, <1>2, IncompleteReads
  <1>7. Saved(r, next) \/ SaveFailed(r, next, shown)
    OBVIOUS
  <1>8. \A j \in Job, q \in Role : mem[r].record[j][q].rev <= next.record[j][q].rev
    <2> HIDE DEF next
    <2> TAKE j \in Job, q \in Role
    <2>1. mem[r].record[j][q].rev \in Nat
      BY <1>2, LogTyped
    <2>2. next.record[j][q].rev \in Nat
      BY <1>5, LogTyped
    <2>3. \/ next.record[j] = mem[r].record[j]
          \/ mem[r].record[j][q].rev <= next.record[j][q].rev
      BY <1>5 DEF Follows
    <2>4. QED
      BY <2>1, <2>2, <2>3
  <1> HIDE DEF next, shown
  <1>9. \A k \in Link : k[1] = r => Receipt(r, next, k[2], mem[k[2]])
    <2> SUFFICES ASSUME NEW k \in Link, k[1] = r PROVE Receipt(r, next, k[2], mem[k[2]])
      OBVIOUS
    <2>1. k[2] \in Body /\ mem[k[2]] \in HStore /\ Receipt(r, mem[r], k[2], mem[k[2]])
      BY <1>2, LinkEnds DEF HistoryTypeOK
    <2>2. CASE k[2] = s
      BY <1>5, <2>2
    <2>3. CASE k[2] # s
      <3>1. Keeps(mem[r], next, k[2])
        BY <1>5, <1>8, <2>1, <2>3 DEF Keeps
      <3>2. QED
        BY <1>2, <1>5, <2>1, <3>1, ReceiptKept
    <2>4. QED
      BY <2>2, <2>3
  <1>10. StillAsked(r, next) /\ StillAsked(r, shown)
    BY <1>5, <1>6, StillAskedTaken
  <1>11. QED
    BY <1>1, <1>2, <1>5, <1>6, <1>7, <1>9, <1>10, UpdateSeen

\* Apply, whichever way it goes.
LEMMA ApplySeen ==
  ASSUME HistoryTypeOK, SeenInv, NEW l \in Link, Apply(l)
  PROVE  SeenOn
  <1> DEFINE next  == Advanced(l[1], l[2], fetch[l])
             shown == [mem[l[1]] EXCEPT !.progress[l[2]].complete = FALSE]
  <1>1. fetch[l] # NoPage /\ fetch' = [fetch EXCEPT ![l] = NoPage]
    BY DEF Apply
  <1>2. \/ mem' = mem /\ disk' = disk
        \/ mem' = Incomplete(l[1], l[2]) /\ disk' = disk
        \/ /\ Current(l[1], l[2], fetch[l])
           /\ Saved(l[1], next) \/ SaveFailed(l[1], next, shown)
    BY DEF Apply
  <1>3. CASE (mem' = mem \/ mem' = Incomplete(l[1], l[2])) /\ disk' = disk
    BY <1>1, <1>3, TakenSeen
  <1>4. CASE /\ Current(l[1], l[2], fetch[l])
             /\ Saved(l[1], next) \/ SaveFailed(l[1], next, shown)
    BY <1>1, <1>4, AppliedSeen
  <1>5. QED
    BY <1>2, <1>3, <1>4

\* Every step keeps the receipts.
LEMMA SeenStep ==
  ASSUME HistoryTypeOK, SeenInv, [Next]_vars
  PROVE  SeenOn
  <1>1. CASE UNCHANGED vars
    <2>1. DiskFollows'
      BY <1>1 DEF vars, SeenInv, DiskFollows, Clocked, Follows
    <2>2. Receipts'
      BY <1>1 DEF vars, SeenInv, Receipts, Receipt, AuthorsKnown
    <2>3. PagesAnswer'
      BY <1>1 DEF vars, SeenInv, PagesAnswer, Answers, Asked, NoPage
    <2>4. \A b \in Body : Follows(mem[b], mem'[b])
      <3> TAKE b \in Body
      <3>1. mem[b] \in HStore /\ mem'[b] = mem[b]
        BY <1>1 DEF vars, HistoryTypeOK
      <3>2. QED
        BY <3>1, FollowsSelf
    <2>5. QED
      BY <2>1, <2>2, <2>3, <2>4 DEF SeenInv, SeenOn
  <1>2. CASE Next
    <2>1. CASE \E j \in Job : Order(j) \/ Delay(j) \/ GiveUp(j) \/ Admit(j) \/ Settle(j) \/ Learn(j)
      BY <2>1, JobSeen, LearnSeen
    <2>2. CASE \E b \in Body : Reboot(b) \/ \E p \in Body : Pair(b, p)
      BY <2>2, RebootSeen, PairSeen
    <2>3. CASE \E l \in Link : Sync(l)
      BY <2>3, FetchSeen, ApplySeen DEF Sync
    <2>4. CASE \E l \in Link : Lose(l)
      BY <2>4, TakenSeen DEF Lose
    <2>5. QED
      BY <1>2, <2>1, <2>2, <2>3, <2>4 DEF Next, Step
  <1>3. QED
    BY <1>1, <1>2

\* The receipts are good in every reachable state.
LEMMA SeenAlways == HistorySpec => []SeenInv
  <1>1. Init => SeenInv
    <2> SUFFICES ASSUME Init PROVE SeenInv
      OBVIOUS
    <2>1. \A b \in Body :
            /\ mem[b] = EmptyHistory(b) /\ disk[b] = EmptyHistory(b)
            /\ mem[b].clock = 0 /\ \A j \in Job : mem[b].change[j] = 0
            /\ \A s \in Body : mem[b].progress[s] = Unread
      BY DEF Init, EmptyHistory
    <2>2. DiskFollows
      BY <2>1 DEF DiskFollows, Clocked, Follows
    <2>3. Receipts
      <3> SUFFICES ASSUME NEW l \in Link, NEW x \in {mem[l[1]], disk[l[1]]}
                   PROVE  Receipt(l[1], x, l[2], mem[l[2]])
        BY DEF Receipts
      <3>1. x.progress[l[2]] = Unread
        BY <2>1, LinkEnds
      <3>2. QED
        BY <3>1 DEF Receipt, Unread
    <2>4. PagesAnswer
      BY DEF PagesAnswer, Init
    <2>5. QED
      BY <2>2, <2>3, <2>4 DEF SeenInv
  <1>2. IInv /\ SeenInv /\ [Next]_vars => SeenInv'
    BY SeenStep DEF IInv, SeenOn
  <1>3. QED
    BY <1>1, <1>2, Invariance, PTL DEF HistorySpec

\* history::sync_peer never skips anything: what a peer has up to the saved cursor
\* has been merged here, through relays, lost calls, late pairings, crashes and
\* failed saves of both, or its authors are not paired here and the history is
\* said to be incomplete.
THEOREM CursorsAreReceipts == HistorySpec => []CursorMeansSeen
  <1>1. SeenInv => CursorMeansSeen
    <2> SUFFICES ASSUME SeenInv, NEW l \in Link
                 PROVE  Receipt(l[1], mem[l[1]], l[2], mem[l[2]]) =>
                        \A j \in Job :
                          LET p == mem[l[1]].progress[l[2]]
                              c == mem[l[2]].change[j] IN
                          p.known /\ 0 < c /\ c <= p.cursor =>
                            \/ \A role \in Role : mem[l[2]].record[j][role].rev
                                                  <= mem[l[1]].record[j][role].rev
                            \/ ~AuthorsKnown(l[1], mem[l[1]], j) /\ p.unknown
      BY DEF SeenInv, Receipts, CursorMeansSeen
    <2>1. QED
      BY DEF Receipt
  <1>2. QED
    BY <1>1, SeenAlways, PTL

-----------------------------------------------------------------------------
(* What a log shows *)

\* What projected_views comes down to: a runner shows its row, and everybody else
\* the selected fact.
ShownIs ==
  \A b \in Body, j \in Job :
    Shown(b, j) = IF Runs[j] = b /\ mem[b].row[j] # "absent"
                  THEN mem[b].row[j] ELSE Selected(mem[b], j).status

\* The log of every machine is that, in every state of the invariant.
LEMMA ShownAsFacts ==
  ASSUME IInv
  PROVE  ShownIs
<1> SUFFICES ASSUME NEW b \in Body, NEW j \in Job
             PROVE  Shown(b, j) = IF Runs[j] = b /\ mem[b].row[j] # "absent"
                                  THEN mem[b].row[j] ELSE Selected(mem[b], j).status
  BY DEF ShownIs
<1>1. /\ Runs[j] = b => LogRow(mem[b], j)
      /\ From[j] = b => OriginRow(mem[b], j)
      /\ b \notin {From[j], Runs[j]} => mem[b].row[j] = "absent"
  BY DEF IInv, Logged, LogRows
<1> DEFINE row    == mem[b].row[j]
           origin == mem[b].record[j]["origin"]
           runner == mem[b].record[j]["runner"]
<1>2. Selected(mem[b], j) = IF runner # NoFact THEN runner ELSE origin
  BY DEF Selected
<1>3. CASE Runs[j] = b /\ row # "absent"
  <2>1. \/ row \in Waiting /\ runner = NoFact /\ origin.status = row
        \/ row \notin Waiting \cup {"absent"} /\ runner.status = row
        \/ row = "uncertain"
    BY <1>1, <1>3 DEF LogRow
  <2> HIDE DEF row, origin, runner
  <2>2. CASE row = "uncertain"
    BY <1>3, <2>2 DEF Shown, row
  <2>3. CASE row # "uncertain"
    <3>1. Shown(b, j) = IF Selected(mem[b], j) # NoFact THEN Selected(mem[b], j).status ELSE row
      BY <2>3 DEF Shown, row
    <3>2. runner.status = row => runner # NoFact
      BY <1>3 DEF NoFact
    <3>3. QED
      BY <1>2, <1>3, <2>1, <2>3, <3>1, <3>2 DEF NoFact, Waiting, row
  <2>4. QED
    BY <2>2, <2>3
<1>4. CASE ~(Runs[j] = b /\ row # "absent")
  <2>1. Selected(mem[b], j) = NoFact => row = "absent"
    BY <1>1, <1>2, <1>4 DEF OriginRow, NoFact
  <2>2. Shown(b, j) = IF Selected(mem[b], j) # NoFact THEN Selected(mem[b], j).status ELSE row
    BY <1>4 DEF Shown
  <2>3. QED
    BY <1>4, <2>1, <2>2 DEF NoFact
<1>5. QED
  BY <1>3, <1>4

\* A machine's facts only go on, each to a later one that is further on.
LEMMA FactsGoOn ==
  ASSUME IInv, Next, SeenOn, NEW b \in Body, NEW j \in Job, NEW r \in Role
  PROVE  LET f == mem[b].record[j][r]
             g == mem'[b].record[j][r]
         IN  f = g \/ (f.rev < g.rev /\ Stage(f.status) < Stage(g.status))
<1> DEFINE f == mem[b].record[j][r]
           g == mem'[b].record[j][r]
<1>1. PICK c, next, old, m, d : Written(c, next, old, m, d) /\ Carried
  BY NextWrites DEF Writes
<1>2. f \in Held(j, r) /\ g \in Held(j, r)'
  BY DEF Held
<1>3. f.rev = g.rev => f = g
  BY <1>1, <1>2, LaterIsFurther
<1>4. f.rev < g.rev => Stage(f.status) < Stage(g.status)
  BY <1>1, <1>2, LaterIsFurther
<1>5. f.rev \in Nat /\ g.rev \in Nat
  <2>1. mem[b] \in HStore /\ mem'[b] \in HStore
    BY <1>1 DEF IInv, HistoryTypeOK, Written, Derived
  <2>2. QED
    BY <2>1, LogTyped
<1>6. f = g \/ f.rev <= g.rev
  BY DEF SeenOn, Follows
<1> HIDE DEF f, g
<1>7. f = g \/ (f.rev < g.rev /\ Stage(f.status) < Stage(g.status))
  BY <1>3, <1>4, <1>5, <1>6
<1>8. QED
  BY <1>7 DEF f, g

\* What a runner that can save shows does not go back.
LEMMA OwnRowsGoOn ==
  ASSUME IInv, Next, NEW j \in Job, ~halted[Runs[j]]
  PROVE  LET p == mem[Runs[j]].row[j]
             q == mem'[Runs[j]].row[j]
         IN  p = q \/ Stage(p) < Stage(q)
<1>1. PICK c, next, old, m, d : Written(c, next, old, m, d)
  BY NextWrites DEF Writes
<1>2. /\ mem \in [Body -> HStore] /\ mem' = [mem EXCEPT ![c] = m] /\ c \in Body
      /\ RowsGoOn(c, m) /\ Runs[j] \in Body
  BY <1>1, HistoryShape DEF IInv, HistoryTypeOK, Written, Derived
<1>3. CASE Runs[j] = c
  BY <1>2, <1>3 DEF RowsGoOn
<1>4. CASE Runs[j] # c
  BY <1>2, <1>4
<1>5. QED
  BY <1>3, <1>4

\* So what a log shows only goes on, in every step.
LEMMA ShownStep ==
  ASSUME IInv, IInv', ShownIs, ShownIs', Next, SeenOn, NEW b \in Body, NEW j \in Job
  PROVE  LET old == Shown(b, j)
             new == Shown(b, j)'
         IN  \/ old = new
             \/ Stage(old) < Stage(new)
             \/ ~Verified(b, j) /\ Verified(b, j)'
             \/ Runs[j] = b /\ halted[b]
<1> DEFINE p == mem[b].row[j]
           q == mem'[b].row[j]
           o1 == mem[b].record[j]["origin"]
           o2 == mem'[b].record[j]["origin"]
           r1 == mem[b].record[j]["runner"]
           r2 == mem'[b].record[j]["runner"]
           s1 == IF r1 # NoFact THEN r1 ELSE o1
           s2 == IF r2 # NoFact THEN r2 ELSE o2
<1>1. /\ Shown(b, j) = IF Runs[j] = b /\ p # "absent" THEN p ELSE s1.status
      /\ Shown(b, j)' = IF Runs[j] = b /\ q # "absent" THEN q ELSE s2.status
      /\ Verified(b, j) <=> r1 # NoFact
      /\ Verified(b, j)' <=> r2 # NoFact
  BY DEF ShownIs, Selected, Verified
<1>2. /\ r1 = r2 \/ (r1.rev < r2.rev /\ Stage(r1.status) < Stage(r2.status))
      /\ o1 = o2 \/ (o1.rev < o2.rev /\ Stage(o1.status) < Stage(o2.status))
  BY FactsGoOn DEF Role
<1>3. r1.rev \in Nat /\ r2.rev \in Nat
  BY LogTyped DEF IInv, HistoryTypeOK, Role
<1>4. Runs[j] = b /\ ~halted[b] => p = q \/ Stage(p) < Stage(q)
  BY OwnRowsGoOn
<1>5. Runs[j] = b => LogRow(mem[b], j) /\ LogRow(mem'[b], j)
  BY DEF IInv, Logged, LogRows, LogRow
<1>6. q \in Status
  BY DEF IInv, HistoryTypeOK, HStore
<1>7. /\ Runs[j] = b /\ p = "absent" => r1 = NoFact /\ (From[j] = b => o1 = NoFact)
      /\ Runs[j] = b /\ q # "absent" /\ From[j] # b => r2 # NoFact
  <2>1. Runs[j] = b /\ p = "absent" => r1 = NoFact /\ (From[j] = b => o1 = NoFact)
    BY <1>5 DEF LogRow, Waiting
  <2>2. Runs[j] = b /\ q # "absent" /\ From[j] # b => r2 # NoFact
    BY <1>5 DEF LogRow, NoFact
  <2>3. QED
    BY <2>1, <2>2
<1>8. Stage("absent") = 0 /\ \A st \in Status : st # "absent" => 0 < Stage(st)
  BY DEF Stage, Status, Waiting, Terminal, Outcome
<1> HIDE DEF p, q, o1, o2, r1, r2
<1>9. \/ s1.status = s2.status \/ Stage(s1.status) < Stage(s2.status)
      \/ r1 = NoFact /\ r2 # NoFact
  BY <1>2, <1>3 DEF NoFact
<1>10. CASE ~(Runs[j] = b /\ p # "absent") /\ ~(Runs[j] = b /\ q # "absent")
  BY <1>1, <1>9, <1>10
<1>11. CASE Runs[j] = b /\ p # "absent" /\ ~halted[b]
  <2>1. q # "absent"
    BY <1>4, <1>8, <1>11 DEF Stage
  <2>2. QED
    BY <1>1, <1>4, <1>11, <2>1
<1>12. CASE Runs[j] = b /\ p = "absent" /\ q # "absent"
  <2>1. CASE From[j] = b
    <3>1. Shown(b, j) = "absent" /\ Shown(b, j)' = q
      BY <1>1, <1>7, <1>12, <2>1 DEF NoFact
    <3>2. QED
      BY <1>6, <1>8, <1>12, <3>1
  <2>2. CASE From[j] # b
    BY <1>1, <1>7, <1>12, <2>2
  <2>3. QED
    BY <2>1, <2>2
<1>13. QED
  BY <1>10, <1>11, <1>12

\* history::projected_views: what clix log shows of an invocation only advances,
\* an end stands, and the exceptions are those of merging and of recovery: the
\* runner's first word, and a runner whose storage has failed.
THEOREM LogsOnlyAdvance == HistorySpec => ShownAdvances
<1>1. IInv => ShownIs
  BY ShownAsFacts
<1>2. IInv /\ IInv' /\ ShownIs /\ ShownIs' /\ SeenInv /\ [Next]_vars =>
        [\A b \in Body, j \in Job :
           LET old == Shown(b, j)
               new == Shown(b, j)' IN
           \/ old = new
           \/ Stage(old) < Stage(new)
           \/ ~Verified(b, j) /\ Verified(b, j)'
           \/ Runs[j] = b /\ halted[b]]_vars
  <2> SUFFICES ASSUME IInv, IInv', ShownIs, ShownIs', SeenInv, [Next]_vars, vars' # vars,
                      NEW b \in Body, NEW j \in Job
               PROVE  LET old == Shown(b, j)
                          new == Shown(b, j)' IN
                      \/ old = new
                      \/ Stage(old) < Stage(new)
                      \/ ~Verified(b, j) /\ Verified(b, j)'
                      \/ Runs[j] = b /\ halted[b]
    OBVIOUS
  <2>1. SeenOn
    BY SeenStep DEF IInv
  <2>2. Next
    OBVIOUS
  <2>3. QED
    BY <2>1, <2>2, ShownStep
<1>3. QED
  BY <1>1, <1>2, Invariance, SeenAlways, PTL DEF HistorySpec, ShownAdvances

=============================================================================
