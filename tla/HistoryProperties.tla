-------------------------- MODULE HistoryProperties --------------------------
(***************************************************************************)
(* What History promises: authority, order, honest cursors, convergence.   *)
(***************************************************************************)
EXTENDS History

HistoryTypeOK ==
  /\ plan \in Plans
  /\ mem \in [Body -> HStore]
  /\ disk \in [Body -> HStore]
  /\ halted \in [Body -> BOOLEAN]
  /\ fetch \in [Link -> Page]
  /\ faults \in Nat

Author(j, r) == IF r = "origin" THEN From[j] ELSE Runs[j]

\* The facts about j in role r that anybody holds, serves or has on the wire.
Held(j, r) ==
  {mem[b].record[j][r] : b \in Body} \cup {disk[b].record[j][r] : b \in Body}
    \cup UNION {{e.record[r] : e \in {x \in fetch[l].entries : x.job = j}} : l \in Link}

\* "Publish state only after its durable replacement succeeds": every fact a
\* machine shows or relays is one its author has saved, or an earlier one that
\* had not ended. No crash lets two facts of one revision go round.
FactsAreDurable ==
  \A j \in Job, r \in Role : \A f \in Held(j, r) :
    LET last == disk[Author(j, r)].record[j][r] IN
    \/ f = last
    \/ f.rev < last.rev /\ f.status \notin Terminal

\* A fetched page is never refused: merge_fact's "conflicting history facts" and
\* "cannot rewrite a terminal fact" would refuse the whole page, at every retry.
PagesMerge ==
  \A l \in Link : \A e \in fetch[l].entries :
    AuthorsKnown(l[1], mem[l[1]], e.job) => ~Refuses(mem[l[1]], e)

\* A cursor is a receipt: whatever the peer has up to it has been merged, or its
\* authors are not paired here and the history is said to be incomplete.
CursorMeansSeen ==
  \A l \in Link : \A j \in Job :
    LET r == l[1]
        s == l[2]
        p == mem[r].progress[s]
        c == mem[s].change[j] IN
    p.known /\ 0 < c /\ c <= p.cursor =>
      \/ \A role \in Role :
           mem[s].record[j][role].rev <= mem[r].record[j][role].rev
      \/ ~AuthorsKnown(r, mem[r], j) /\ p.unknown

\* An end a runner has saved is in the fact it has signed: its log needs no row to
\* say what it says. A completion that could not be saved leaves both at running,
\* and the recovery signs its doubt.
OutcomePublished ==
  \A j \in Job :
    LET s == disk[Runs[j]] IN
    s.row[j] \in Terminal => s.record[j]["runner"].status = s.row[j]

\* "A failed completion save must not make a dead local process appear to remain
\* Running": the log of the runner says what its row says, through failed saves
\* and restarts, and wherever the verified end of a run is shown, it is the same.
LogsAgree ==
  \A j \in Job :
    /\ mem[Runs[j]].row[j] # "absent" => Shown(Runs[j], j) = mem[Runs[j]].row[j]
    /\ \A b, c \in Body :
         (\A m \in {b, c} : Verified(m, j) /\ Shown(m, j) \in Terminal) =>
           Shown(b, j) = Shown(c, j)

-----------------------------------------------------------------------------
(* What CursorMeansSeen rests on: the parts of its inductive invariant *)

\* y is a later state of the log x: what is not as it was has got a number that
\* nobody can have read up to, and no revision is taken back.
Follows(x, y) ==
  /\ x.clock <= y.clock
  /\ \A j \in Job :
       \/ y.change[j] = x.change[j] /\ y.record[j] = x.record[j]
       \/ /\ y.change[j] > x.clock
          /\ \A r \in Role : x.record[j][r].rev <= y.record[j][r].rev

Clocked(s) == \A j \in Job : s.change[j] <= s.clock

\* What a failed save left on disk is a later state of what is shown.
DiskFollows ==
  \A b \in Body : Clocked(mem[b]) /\ Clocked(disk[b]) /\ Follows(mem[b], disk[b])

\* What reader r with store x has a receipt for, of server s with store y.
Receipt(r, x, s, y) ==
  LET p == x.progress[s] IN
  p.known =>
    /\ p.cursor <= y.clock
    /\ \A j \in Job : 0 < y.change[j] /\ y.change[j] <= p.cursor =>
         \/ \A q \in Role : y.record[j][q].rev <= x.record[j][q].rev
         \/ ~AuthorsKnown(r, x, j) /\ p.unknown

Receipts ==
  \A l \in Link : \A x \in {mem[l[1]], disk[l[1]]} : Receipt(l[1], x, l[2], mem[l[2]])

\* What an answer on its way to r promises of the log y of its server: together
\* with what r had read when it asked, all up to its cursor.
Answers(page, y) ==
  /\ page.next <= y.clock
  /\ ~page.reset => page.asked.known
  /\ \A j \in Job : 0 < y.change[j] /\ y.change[j] <= page.next =>
       \/ ~page.reset /\ y.change[j] <= page.asked.cursor
       \/ \E e \in page.entries :
            e.job = j /\ \A q \in Role : y.record[j][q].rev <= e.record[q].rev
  /\ \A e, f \in page.entries : e.job = f.job => e = f

\* A reader's pairings only grow, and while they are what they were when it
\* asked, so is what it has read of that server.
Asked(page, x, s) ==
  /\ page.trusted \subseteq x.trust
  /\ page.trusted = x.trust => page.asked = x.progress[s]

PagesAnswer ==
  \A l \in Link : fetch[l] # NoPage =>
    Answers(fetch[l], mem[l[2]]) /\ Asked(fetch[l], mem[l[1]], l[2])

-----------------------------------------------------------------------------
(* Action properties and liveness *)

Stage(st) ==
  CASE st = "absent"  -> 0 [] st = "queued"  -> 1 [] st = "waiting" -> 2
    [] st = "running" -> 3 [] OTHER          -> 4

\* "An earlier delivery error remains an origin observation. Replicated runner
\* facts can settle the displayed result": what a log shows of an invocation only
\* advances and an end stands, whatever arrives late, twice or by another way. The
\* runner's first word corrects a delivery that failed, and the restart of a
\* runner the doubt it could not save.
ShownAdvances ==
  [][\A b \in Body, j \in Job :
       LET old == Shown(b, j)
           new == Shown(b, j)' IN
       \/ old = new
       \/ Stage(old) < Stage(new)
       \/ ~Verified(b, j) /\ Verified(b, j)'
       \/ Runs[j] = b /\ halted[b]]_vars

\* The dispatcher calls every peer again and again, and a page that has come is
\* applied. Nothing is assumed of owners, jobs or crashes.
FairHistory == HistorySpec /\ \A l \in Link : WF_vars(Sync(l))

\* Everybody is paired with the authors of j, and neighbours with each other.
AllKnow(j) ==
  /\ \A b \in Body : AuthorsKnown(b, mem[b], j)
  /\ \A l \in Link : l[2] \in mem[l[1]].trust /\ l[1] \in mem[l[2]].trust

\* An outcome its runner has published is shown on every machine, through relays
\* and late pairings, unless storage has failed somewhere. The links of the
\* instance lead from every machine to the runner.
Converges ==
  \A j \in Job :
    AllKnow(j) /\ disk[Runs[j]].record[j]["runner"].status \in Terminal ~>
      \/ \A b \in Body : Shown(b, j) = disk[Runs[j]].record[j]["runner"].status
      \/ \E b \in Body : halted[b]

=============================================================================
