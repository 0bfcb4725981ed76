------------------------------- MODULE History -------------------------------
(***************************************************************************)
(* Signed history between clix machines. Each machine publishes the facts  *)
(* it owns about an invocation (the origin what it saw of the delivery,    *)
(* the runner acceptance and outcome) in the durable update that changes   *)
(* the row. Other machines fetch them page by page from a peer they are    *)
(* paired with, and serve on what they merged, so a fact can arrive        *)
(* through a relay while its author is offline.                            *)
(*                                                                         *)
(* A signature is modelled by what it guarantees: a fact is merged only if *)
(* the receiver is paired with its authors, and nobody else makes one.     *)
(* Pre-upgrade records are left out; captured output is in Storage.        *)
(***************************************************************************)
EXTENDS Naturals, FiniteSets

CONSTANTS
  Body,        \* machines
  Job,         \* invocations
  From,        \* [Job -> Body]: the machine that asked for it
  Runs,        \* [Job -> Body]: the machine that runs it
  Link,        \* <<r, s>>: r knows an address of s
  Paired,      \* [Body -> SUBSET Body]: the pairings to begin with
  PageRows,    \* history::PAGE_ROWS
  Plans,       \* bound: the courses of events looked at, each a [Job -> SUBSET Status]:
               \* the statuses a job may go through, {} for one never ordered
  MaxFault     \* bound: crashes, failed saves and lost calls

ASSUME HistoryShape ==
  /\ IsFiniteSet(Job)
  /\ From \in [Job -> Body]
  /\ Runs \in [Job -> Body]
  /\ Link \subseteq Body \X Body
  /\ Paired \in [Body -> SUBSET Body]

Role == {"origin", "runner"}

\* "waiting" stands for WaitingBody and WaitingCapacity, "done" for an exit.
Waiting  == {"queued", "waiting"}
Outcome  == {"done", "failed", "uncertain"}
Terminal == Outcome \cup {"denied"}
Status   == Waiting \cup {"absent", "running"} \cup Terminal

ASSUME HistoryBounds ==
  /\ PageRows \in Nat \ {0}
  /\ Plans \subseteq [Job -> SUBSET Status]
  /\ MaxFault \in Nat

\* The latest fact of one role; revision 0 means there is none.
Fact   == [rev : Nat, status : Status]
NoFact == [rev |-> 0, status |-> "absent"]
Record == [Role -> Fact]

\* What r has read of the history of s. known is a recorded epoch.
Progress == [known : BOOLEAN, cursor : Nat, high : Nat, complete : BOOLEAN,
             unknown : BOOLEAN]
Unread   == [known |-> FALSE, cursor |-> 0, high |-> 0, complete |-> FALSE,
             unknown |-> FALSE]

\* row is this machine's admitted job, record and change the replicated entry
\* (change 0: no entry), trust the paired machines.
HStore == [row      : [Job -> Status],
           record   : [Job -> Record],
           change   : [Job -> Nat],
           clock    : Nat,
           trust    : SUBSET Body,
           progress : [Body -> Progress]]

Published == [job : Job, change : Nat, record : Record]

\* A history_page call of r: what r knew when it asked, and the answer.
Page == [asked : Progress, trusted : SUBSET Body, reset : BOOLEAN, high : Nat,
         next : Nat, complete : BOOLEAN, entries : SUBSET Published]
NoPage == [asked |-> Unread, trusted |-> {}, reset |-> FALSE, high |-> 0,
           next |-> 0, complete |-> FALSE, entries |-> {}]

VARIABLES
  plan,     \* the course of events, chosen once
  mem,      \* [Body -> HStore]: the Store behind the mutex
  disk,     \* [Body -> HStore]: state.json
  halted,   \* [Body -> BOOLEAN]: Store::write_error is set
  fetch,    \* [Link -> Page]: the answer on its way to r, or NoPage
  faults    \* crashes, failed saves and lost calls so far

vars == <<plan, mem, disk, halted, fetch, faults>>

EmptyHistory(b) ==
  [row      |-> [j \in Job |-> "absent"],
   record   |-> [j \in Job |-> [r \in Role |-> NoFact]],
   change   |-> [j \in Job |-> 0],
   clock    |-> 0,
   trust    |-> Paired[b],
   progress |-> [s \in Body |-> Unread]]

Init ==
  /\ plan \in Plans
  /\ mem = [b \in Body |-> EmptyHistory(b)]
  /\ disk = mem
  /\ halted = [b \in Body |-> FALSE]
  /\ fetch = [l \in Link |-> NoPage]
  /\ faults = 0

-----------------------------------------------------------------------------
(* Store::update with history::refresh_owned *)

\* The entries of S get the next change numbers, in the order they had. An
\* entry created and published in one update takes one number here.
Stamped(s, S, order) ==
  [s EXCEPT !.change = [j \in Job |->
               IF j \in S
               THEN s.clock + Cardinality({k \in S : order[k] <= order[j]})
               ELSE s.change[j]],
            !.clock = @ + Cardinality(S)]

\* The role in which b publishes a row of status st; "none" publishes nothing.
RoleOf(b, j, st) ==
  IF b = Runs[j] /\ st \notin Waiting                THEN "runner"
  ELSE IF b = From[j] /\ st \in Waiting \cup {"failed"} THEN "origin"
  ELSE "none"

\* Mutant: publishes a row once.
OwnedOnce(b, next, old) ==
  {j \in Job :
     LET r == RoleOf(b, j, next.row[j]) IN
     next.row[j] # old.row[j] /\ r # "none" /\ next.record[j][r] = NoFact}

\* The rows the update changed that have something to publish: a fact never
\* repeats itself and a terminal one stays as it is.
Owned(b, next, old) ==
  {j \in Job :
     LET r == RoleOf(b, j, next.row[j]) IN
     /\ next.row[j] # old.row[j]
     /\ r # "none"
     /\ next.record[j][r].status \notin {next.row[j]} \cup Terminal}

\* Mutant: signs a new status under the revision that is already out.
Resigned(f, st) == [rev |-> IF f.rev = 0 THEN 1 ELSE f.rev, status |-> st]

Successor(f, st) == [rev |-> f.rev + 1, status |-> st]

\* next with the facts b owns brought up to date.
WithFacts(b, next, new) ==
  [Stamped(next, new, next.change) EXCEPT
    !.record = [j \in Job |-> [r \in Role |->
       IF j \in new /\ r = RoleOf(b, j, next.row[j])
       THEN Successor(next.record[j][r], next.row[j])
       ELSE next.record[j][r]]]]

\* Mutant: a new pairing does not start the scan over.
RefreshedOnly(b, next, old) == WithFacts(b, next, Owned(b, next, old))

\* A change of the pairings forgets how far every peer was read.
Refreshed(b, next, old) ==
  [WithFacts(b, next, Owned(b, next, old)) EXCEPT
    !.progress = IF next.trust # old.trust THEN [p \in Body |-> Unread] ELSE @]

\* Mutant: publishes before the file is written.
SavedLater(b, next) ==
  /\ ~halted[b]
  /\ mem' = [mem EXCEPT ![b] = Refreshed(b, next, mem[b])]
  /\ UNCHANGED <<disk, halted, faults>>

Saved(b, next) ==
  /\ ~halted[b]
  /\ \E s \in {Refreshed(b, next, mem[b])} :
       /\ mem' = [mem EXCEPT ![b] = s]
       /\ disk' = [disk EXCEPT ![b] = s]
  /\ UNCHANGED <<halted, faults>>

SaveFailed(b, next, shown) ==
  /\ ~halted[b]
  /\ faults < MaxFault
  /\ mem' = [mem EXCEPT ![b] = shown]
  /\ disk' \in {disk, [disk EXCEPT ![b] = Refreshed(b, next, mem[b])]}
  /\ halted' = [halted EXCEPT ![b] = TRUE]
  /\ faults' = faults + 1

Update(b, next) == Saved(b, next) \/ SaveFailed(b, next, mem[b])

Row(b, j, st) == [mem[b] EXCEPT !.row[j] = st]

-----------------------------------------------------------------------------
(* What happens to an invocation, as far as it is published *)

\* rpc_exec: the origin signs the invocation and queues it.
Order(j) ==
  /\ plan[j] # {}
  /\ mem[From[j]].row[j] = "absent"
  /\ disk[From[j]].row[j] = "absent"
  /\ Update(From[j], Row(From[j], j, "queued"))
  /\ UNCHANGED fetch

\* The runner could not be reached or had no capacity.
Delay(j) ==
  /\ "waiting" \in plan[j]
  /\ mem[From[j]].row[j] = "queued"
  /\ Update(From[j], Row(From[j], j, "waiting"))
  /\ UNCHANGED fetch

\* dispatch_one: any other error fails the origin's row.
GiveUp(j) ==
  /\ "failed" \in plan[j]
  /\ mem[From[j]].row[j] \in Waiting \/ (From[j] # Runs[j] /\ mem[From[j]].row[j] = "running")
  /\ Update(From[j], Row(From[j], j, "failed"))
  /\ UNCHANGED fetch

\* exec::submit with bind_admission: the origin has saved the invocation before
\* it sends it, and the two machines are paired.
Admit(j) ==
  LET b == Runs[j] IN
  /\ IF From[j] = b THEN mem[b].row[j] \in Waiting
     ELSE /\ mem[b].row[j] = "absent"
          /\ mem[From[j]].row[j] # "absent"
          /\ From[j] \in mem[b].trust
          /\ b \in mem[From[j]].trust
  /\ \E st \in {"running", "denied"} \cap plan[j] : Update(b, Row(b, j, st))
  /\ UNCHANGED fetch

\* exec::finish: a completion that cannot be saved is uncertain in memory only.
Settle(j) ==
  LET b == Runs[j]
      doubt == Row(b, j, "uncertain") IN
  /\ mem[b].row[j] = "running"
  /\ \E st \in Outcome \cap plan[j] :
       \/ Saved(b, Row(b, j, st))
       \/ SaveFailed(b, Row(b, j, st), doubt)
       \/ /\ halted[b]
          /\ mem' = [mem EXCEPT ![b] = doubt]
          /\ UNCHANGED <<disk, halted, faults>>
  /\ UNCHANGED fetch

\* Crash and next start of b: calls are lost, interrupted runs are recovered.
Recovered(b, s) ==
  [s EXCEPT !.row = [j \in Job |-> IF Runs[j] = b /\ s.row[j] = "running"
                                   THEN "uncertain" ELSE s.row[j]]]

Reboot(b) ==
  LET s    == disk[b]
      next == Recovered(b, s) IN
  /\ faults < MaxFault
  /\ faults' = faults + 1
  /\ fetch' = [l \in Link |-> IF b \in {l[1], l[2]} THEN NoPage ELSE fetch[l]]
  /\ \/ /\ mem' = [mem EXCEPT ![b] = Refreshed(b, next, s)]
        /\ disk' = [disk EXCEPT ![b] = Refreshed(b, next, s)]
        /\ halted' = [halted EXCEPT ![b] = FALSE]
     \/ /\ next # s                                         \* recovery_failed
        /\ mem' = [mem EXCEPT ![b] = next]
        /\ disk' \in {disk, [disk EXCEPT ![b] = Refreshed(b, next, s)]}
        /\ halted' = [halted EXCEPT ![b] = TRUE]

-----------------------------------------------------------------------------
(* history::page, history::ingest and history::sync_peer *)

AuthorsKnown(b, s, j) == {From[j], Runs[j]} \subseteq s.trust \cup {b}

\* The answer of a server in state s to a reader that has got to p.
PageOf(s, p, trusted) ==
  LET reset == ~p.known \/ p.cursor > s.clock
      after == IF reset THEN 0 ELSE p.cursor
      high  == IF reset \/ p.complete \/ p.high > s.clock THEN s.clock ELSE p.high
      open  == {j \in Job : after < s.change[j] /\ s.change[j] <= high}
      sent  == {j \in open :
                  Cardinality({k \in open : s.change[k] <= s.change[j]}) <= PageRows}
      last  == CHOOSE c \in {after} \cup {s.change[j] : j \in sent} :
                 \A j \in sent : s.change[j] <= c
  IN [asked    |-> p,
      trusted  |-> trusted,
      reset    |-> reset,
      high     |-> high,
      next     |-> IF sent = open THEN high ELSE last,
      complete |-> sent = open,
      entries  |-> {[job |-> j, change |-> s.change[j], record |-> s.record[j]] :
                      j \in sent}]

\* merge_fact: an older revision says nothing new; the same revision must be the
\* same fact and a terminal fact has no successor.
Conflicts(mine, theirs) ==
  \/ theirs.rev = mine.rev /\ theirs # mine
  \/ theirs.rev > mine.rev /\ mine.status \in Terminal

\* Mutant: takes what arrives.
MergedAsItCame(mine, theirs) == IF theirs.rev > 0 THEN theirs ELSE mine

Merged(mine, theirs) == IF theirs.rev > mine.rev THEN theirs ELSE mine

Refuses(s, e) == \E r \in Role : Conflicts(s.record[e.job][r], e.record[r])

Ingested(s, S) ==
  LET merged == [j \in Job |-> [r \in Role |->
        IF \E e \in S : e.job = j
        THEN Merged(s.record[j][r], (CHOOSE e \in S : e.job = j).record[r])
        ELSE s.record[j][r]]]
      order == [j \in Job |-> IF \E e \in S : e.job = j
                              THEN (CHOOSE e \in S : e.job = j).change ELSE 0]
  IN [Stamped(s, {j \in Job : merged[j] # s.record[j]}, order)
      EXCEPT !.record = merged]

\* r asks s for what follows its cursor. Both must be paired with each other.
Fetch(l) ==
  LET r == l[1]
      s == l[2] IN
  /\ fetch[l] = NoPage
  /\ ~halted[r]
  /\ s \in mem[r].trust
  /\ r \in mem[s].trust
  /\ fetch' = [fetch EXCEPT ![l] = PageOf(mem[s], mem[r].progress[s], mem[r].trust)]
  /\ UNCHANGED <<mem, disk, halted, faults>>

\* What the reader was when it asked, it must still be.
Current(r, s, page) ==
  LET now == mem[r].progress[s] IN
  /\ mem[r].trust = page.trusted
  /\ now.known = page.asked.known
  /\ now.cursor = page.asked.cursor
  /\ now.high = page.asked.high

\* Mutant: the last page decides whether authors were missing.
AdvancedForgetful(r, s, page) ==
  LET known == {e \in page.entries : AuthorsKnown(r, mem[r], e.job)} IN
  [Ingested(mem[r], known) EXCEPT !.progress[s] =
     [known |-> TRUE, cursor |-> page.next, high |-> page.high,
      complete |-> page.complete, unknown |-> known # page.entries]]

\* The page and the new cursor are one update.
Advanced(r, s, page) ==
  LET known == {e \in page.entries : AuthorsKnown(r, mem[r], e.job)} IN
  [Ingested(mem[r], known) EXCEPT !.progress[s] =
     [known    |-> TRUE,
      cursor   |-> page.next,
      high     |-> page.high,
      complete |-> page.complete,
      unknown  |-> (~page.reset /\ page.asked.unknown) \/ known # page.entries]]

Changes(page) ==
  \/ page.reset
  \/ page.entries # {}
  \/ page.next # page.asked.cursor
  \/ page.complete # page.asked.complete
  \/ page.high # page.asked.high

Incomplete(r, s) == [mem EXCEPT ![r].progress[s].complete = FALSE]

Apply(l) ==
  LET r    == l[1]
      s    == l[2]
      page == fetch[l] IN
  /\ page # NoPage
  /\ fetch' = [fetch EXCEPT ![l] = NoPage]
  /\ IF ~Current(r, s, page) \/ ~Changes(page)
     THEN UNCHANGED <<mem, disk, halted, faults>>
     ELSE IF halted[r] \/ \E e \in page.entries :
                            AuthorsKnown(r, mem[r], e.job) /\ Refuses(mem[r], e)
     THEN mem' = Incomplete(r, s) /\ UNCHANGED <<disk, halted, faults>>
     ELSE \E next \in {Advanced(r, s, page)} :
            \/ Saved(r, next)
            \/ SaveFailed(r, next, [mem[r] EXCEPT !.progress[s].complete = FALSE])

\* The call fails, or storage has: saved history may be stale, and the
\* dispatcher says so.
Lose(l) ==
  /\ \/ /\ fetch[l] # NoPage
        /\ faults < MaxFault
        /\ faults' = faults + 1
     \/ /\ fetch[l] = NoPage
        /\ halted[l[1]]
        /\ UNCHANGED faults
  /\ fetch' = [fetch EXCEPT ![l] = NoPage]
  /\ mem' = Incomplete(l[1], l[2])
  /\ UNCHANGED <<disk, halted>>

\* accept_runner_reply: the runner's answer carries its signed fact. A row that
\* has ended stays as it is.
Learn(j) ==
  LET b == From[j]
      e == [job |-> j, change |-> mem[Runs[j]].change[j], record |-> mem[Runs[j]].record[j]]
      s == Ingested(mem[b], {e})
      st == e.record["runner"].status IN
  /\ b # Runs[j]
  /\ Runs[j] \in mem[b].trust
  /\ e.record["runner"] # NoFact
  /\ mem[b].row[j] \notin Terminal \cup {"absent"}
  /\ ~Refuses(mem[b], e)
  /\ Update(b, [s EXCEPT !.row[j] = st])
  /\ UNCHANGED fetch

\* An explicit pairing adds an author to those b trusts.
Pair(b, p) ==
  /\ p \notin mem[b].trust \cup {b}
  /\ Update(b, [mem[b] EXCEPT !.trust = @ \cup {p}])
  /\ UNCHANGED fetch

-----------------------------------------------------------------------------
(* history::projected_views: what clix log shows on a machine *)

\* Record::selected: the runner's word, or else what the origin saw.
Selected(s, j) ==
  s.record[j][IF s.record[j]["runner"] # NoFact THEN "runner" ELSE "origin"]

\* Mutant: a run whose end could not be saved is shown as its last fact.
ShownAsSigned(b, j) ==
  LET f == Selected(mem[b], j) IN
  IF f # NoFact THEN f.status ELSE mem[b].row[j]

\* A run here whose end could not be saved is shown as uncertain; then the signed
\* facts go before the row.
Shown(b, j) ==
  LET f == Selected(mem[b], j) IN
  IF Runs[j] = b /\ mem[b].row[j] = "uncertain" THEN "uncertain"
  ELSE IF f # NoFact THEN f.status ELSE mem[b].row[j]

\* The provenance "verified runner result".
Verified(b, j) == mem[b].record[j]["runner"] # NoFact

-----------------------------------------------------------------------------

Sync(l) == (Fetch(l) \/ Apply(l)) /\ UNCHANGED plan

Step ==
  \/ \E j \in Job : Order(j) \/ Delay(j) \/ GiveUp(j) \/ Admit(j) \/ Settle(j) \/ Learn(j)
  \/ \E b \in Body : Reboot(b) \/ \E p \in Body : Pair(b, p)
  \/ \E l \in Link : Sync(l) \/ Lose(l)

Next == Step /\ UNCHANGED plan

HistorySpec == Init /\ [][Next]_vars

=============================================================================
