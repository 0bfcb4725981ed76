------------------------------- MODULE Storage -------------------------------
(***************************************************************************)
(* The storage policy of one machine: what Store::update accepts when the  *)
(* state is nearly full, which saved output it gives up for it, and the    *)
(* space it keeps free so that an admitted run can always be completed.    *)
(*                                                                         *)
(* A row, a fact, a receipt and an output are what they weigh in           *)
(* state.json. Saves that fail are modelled elsewhere; here an update is   *)
(* accepted or refused. Requests and pre-upgrade rows are left out.        *)
(***************************************************************************)
EXTENDS Naturals, FiniteSets, FiniteSetsExt

CONSTANTS
  Job,         \* invocations
  Here,        \* the ones this machine runs
  Sent,        \* the ones it sends to a peer; of the others it only hears
  Text, Empty, \* captured output: some, or none
  Raw, Json,   \* [Output -> Nat]: bytes captured, bytes of the JSON array
  Printed,     \* [Job -> Output]: what the commands of other machines print
  RowBytes, EntryBytes, OpenBytes, EndBytes, IdBytes, \* what the parts weigh
  Radix, Width,       \* a change number is written in Radix and has up to Width digits
  MaxJobs, MaxHistory, StateBytes, OutputLimit, CompletionReserve, Blowup,
  Weights      \* bound: what everything else weighs: peers, grants, pins, requests

Output == Text \cup {Empty}

ASSUME StorageShape ==
  /\ IsFiniteSet(Job) /\ Here \subseteq Job /\ Sent \subseteq Job /\ Here \cap Sent = {}
  /\ Empty \notin Text
  /\ Raw \in [Output -> Nat] /\ Json \in [Output -> Nat]
  /\ \A o \in Output : (o = Empty) = (Raw[o] = 0)
  /\ Json[Empty] = 0
  /\ Printed \in [Job -> Output]
  /\ Weights \subseteq Nat
  /\ {RowBytes, EntryBytes, OpenBytes, EndBytes, IdBytes, Radix} \subseteq Nat
  /\ {MaxJobs, MaxHistory, StateBytes, OutputLimit, CompletionReserve, Blowup} \subseteq Nat
  /\ Width \in Nat \ {0}

\* The constants of storage.rs: the widest byte takes Blowup characters, two
\* streams fit into the output budget, and a completion replaces an open fact
\* and the status of its row within the reserve.
ASSUME StoragePolicy ==
  /\ \A o \in Output : Json[o] <= Blowup * Raw[o] /\ Raw[o] <= OutputLimit
  /\ 2 * EndBytes <= 2 * OpenBytes + CompletionReserve

Row     == {"absent", "active", "ended"}
\* Whose fact Record::selected is, and whether it is terminal.
Fact    == {"none", "waiting", "failed", "running", "final"}
EndFact == {"failed", "final"}

VARIABLE s  \* the Store

Disk ==
  [row : [Job -> Row], out : [Job -> Output],
   fact : [Job -> Fact], digest : [Job -> Output], copy : [Job -> Output],
   change : [Job -> Nat], clock : Nat,
   outputPruned : SUBSET Job, historyPruned : SUBSET Job, other : Nat]

-----------------------------------------------------------------------------
(* Sizes: encode, output_bytes and completion_charge *)

Rows(t)    == {j \in Job : t.row[j] # "absent"}
Entries(t) == {j \in Job : t.change[j] # 0}
Pending(t) == {j \in Job : t.row[j] = "active"}

Digits(n) == 1 + Cardinality({d \in 1..Width - 1 : Radix^d <= n})

OutputBytes(t) == SumFunction([j \in Job |-> Raw[t.out[j]] + Raw[t.copy[j]]])
Payload(t)     == SumFunction([j \in Job |-> Json[t.out[j]] + Json[t.copy[j]]])

FactBytes(f) == IF f = "none" THEN 0 ELSE IF f \in EndFact THEN EndBytes ELSE OpenBytes

\* A JSON array of IDs: a comma between two of them.
IdArray(S) == Cardinality(S) * IdBytes + (IF S = {} THEN 0 ELSE Cardinality(S) - 1)

RowSize(t, j) ==
  IF t.row[j] = "absent" THEN 0
  ELSE RowBytes + (IF t.row[j] = "ended" THEN EndBytes ELSE OpenBytes)

EntrySize(t, j) ==
  IF t.change[j] = 0 THEN 0
  ELSE EntryBytes + FactBytes(t.fact[j]) + Digits(t.change[j])

Metadata(t) ==
  SumFunction([j \in Job |-> RowSize(t, j) + EntrySize(t, j)])
    + Digits(t.clock) + t.other
    + IdArray(t.outputPruned) + IdArray(t.historyPruned)

Encoded(t) == Metadata(t) + Payload(t)

\* What a change number has not taken of its full width.
Headroom(t, j) == IF t.change[j] = 0 THEN 0 ELSE Width - Digits(t.change[j])

\* Without the output there is, with a receipt for every ID, with a full output
\* budget and every number at its full width.
SettledCharge(t) ==
  Metadata(t)
    + Cardinality(Rows(t) \ t.outputPruned) * (IdBytes + 1)
    + Cardinality(Entries(t) \ t.historyPruned) * (IdBytes + 1)
    + (Width - Digits(t.clock))
    + SumFunction([j \in Job |-> Headroom(t, j)])
    + OutputLimit * Blowup

\* Mutant: forgets the receipts that pruning will leave.
ChargeUnreceipted(t) ==
  SettledCharge(t) + Cardinality(Pending(t)) * CompletionReserve
    - Cardinality(Rows(t) \ t.outputPruned) * (IdBytes + 1)
    - Cardinality(Entries(t) \ t.historyPruned) * (IdBytes + 1)

\* And with the completions of the runs that are still going on.
CompletionCharge(t) ==
  SettledCharge(t) + Cardinality(Pending(t)) * CompletionReserve

-----------------------------------------------------------------------------
(* Pruning: candidates, remove_payload and prune *)

Local(t)   == {j \in Job : t.row[j] = "ended" /\ t.out[j] # Empty /\ t.fact[j] # "none"}
Replica(t) == {j \in Job : t.copy[j] # Empty /\ t.fact[j] \in EndFact}
Candidates(t) == Local(t) \cup Replica(t)

Age(t, S, j) == Cardinality({i \in S : t.change[i] <= t.change[j]})

\* Mutant: gives up the newest first.
NewestOf(t, S, k) == {j \in S : Age(t, S, j) > Cardinality(S) - k}

OldestOf(t, S, k) == {j \in S : Age(t, S, j) <= k}

\* Mutant: leaves no receipt in the history for the output of a row.
RemoveUnreceipted(t, S) ==
  [t EXCEPT !.out  = [j \in Job |-> IF j \in S \cap Local(t) THEN Empty ELSE t.out[j]],
            !.copy = [j \in Job |-> IF j \in S THEN Empty ELSE t.copy[j]],
            !.outputPruned  = @ \cup (S \cap Local(t)),
            !.historyPruned = @ \cup (S \ Local(t)),
            !.change = [j \in Job |-> IF j \in S THEN t.clock + Age(t, S, j) ELSE t.change[j]],
            !.clock  = @ + Cardinality(S)]

\* The payloads of S go, one invocation once wherever it is kept, and receipts
\* of that remain.
RemovePayloads(t, S) ==
  [t EXCEPT !.out  = [j \in Job |-> IF j \in S \cap Local(t) THEN Empty ELSE t.out[j]],
            !.copy = [j \in Job |-> IF j \in S THEN Empty ELSE t.copy[j]],
            !.outputPruned  = @ \cup (S \cap Local(t)),
            !.historyPruned = @ \cup S,
            !.change = [j \in Job |-> IF j \in S THEN t.clock + Age(t, S, j) ELSE t.change[j]],
            !.clock  = @ + Cardinality(S)]

Pruned(t, keep) ==
  LET c == Candidates(t)
      n == Cardinality(c) IN
  RemovePayloads(t, OldestOf(t, c, IF n > keep THEN n - keep ELSE 0))

-----------------------------------------------------------------------------
(* Store::update: normalize_output, prepare, encode, reserve_completion *)

\* Mutant: leaves what a reply has brought back.
NormalizedCopies(t) ==
  [t EXCEPT !.copy = [j \in Job |-> IF j \in t.historyPruned THEN Empty ELSE t.copy[j]]]

Normalized(t) ==
  [t EXCEPT
     !.copy = [j \in Job |->
        IF j \in t.historyPruned
           \/ (t.row[j] # "absent" /\ j \notin t.outputPruned /\ t.copy[j] = t.out[j])
        THEN Empty ELSE t.copy[j]],
     !.out = [j \in Job |->
        IF t.row[j] # "absent" /\ j \in t.historyPruned THEN Empty ELSE t.out[j]],
     !.outputPruned = @ \cup {j \in t.historyPruned :
                                t.row[j] # "absent" /\ t.digest[j] # Empty}]

\* The oldest payloads go until the rest is within the budget.
Trimmed(t) ==
  LET c    == Candidates(t)
      n    == Cardinality(c)
      left(k) == RemovePayloads(t, OldestOf(t, c, k))
      enough  == {k \in 0..n : OutputBytes(left(k)) <= OutputLimit} IN
  left(IF enough = {} THEN n ELSE Min(enough))

Stored(t) == Trimmed(Normalized(t))

\* A table beyond its limit may stay as it is or shrink.
Within(next, old, max) == next <= Max({max, old})

Accepts(next, old) ==
  /\ Within(Cardinality(Rows(next)), Cardinality(Rows(old)), MaxJobs)
  /\ Within(Cardinality(Entries(next)), Cardinality(Entries(old)), MaxHistory)
  /\ OutputBytes(next) <= OutputLimit
  /\ Encoded(next) <= StateBytes
  /\ Within(CompletionCharge(next), CompletionCharge(old), StateBytes)

\* An update that is refused changes nothing.
Update(edit) == Accepts(Stored(edit), s) /\ s' = Stored(edit)

-----------------------------------------------------------------------------
(* What is written: rows, facts and payloads *)

Stamped(t, j) == [t EXCEPT !.change[j] = t.clock + 1, !.clock = @ + 1]

\* bind_admission or certificate, and the first fact of a row in refresh_owned.
Admitted(t, j, row) ==
  LET bound == IF t.change[j] = 0 THEN Stamped(t, j) ELSE t IN
  Stamped([bound EXCEPT !.row[j] = row,
                        !.fact[j] = IF row = "ended" THEN "final"
                                    ELSE IF j \in Here THEN "running" ELSE "waiting"], j)

\* finish: the outcome with its signed fact.
Completed(t, j, o) ==
  Stamped([t EXCEPT !.row[j] = "ended", !.out[j] = o, !.fact[j] = "final",
                    !.digest[j] = o, !.copy[j] = Empty], j)

\* ingest: the runner's fact, and its output unless it is here or was pruned.
Ingested(t, j, fact, o) ==
  LET f     == IF t.fact[j] = "final" THEN "final" ELSE fact
      d     == IF f = "final" THEN Printed[j] ELSE Empty
      local == t.row[j] # "absent" /\ j \notin t.outputPruned /\ t.out[j] = d
      kept  == IF local THEN Empty
               ELSE IF o = d /\ j \notin t.historyPruned THEN o
               ELSE IF t.copy[j] = d THEN t.copy[j] ELSE Empty
      next  == [t EXCEPT !.fact[j] = f, !.digest[j] = d, !.copy[j] = kept] IN
  IF next = t THEN t ELSE Stamped(next, j)

\* accept_runner_reply: a row that has ended stays as it is; a payload that was
\* given up here does not come back.
Replied(t, j, fact, o) ==
  LET n    == Ingested(t, j, fact, o)
      gone == j \in n.historyPruned \cup n.outputPruned IN
  IF t.row[j] # "active" THEN n
  ELSE [n EXCEPT !.row[j] = IF fact = "final" THEN "ended" ELSE "active",
                 !.out[j] = IF gone THEN Empty ELSE o,
                 !.outputPruned =
                    IF (gone \/ o = Empty) /\ fact = "final" /\ Printed[j] # Empty
                    THEN @ \cup {j} ELSE @]

-----------------------------------------------------------------------------

Fresh(weight) ==
  [row |-> [j \in Job |-> "absent"], out |-> [j \in Job |-> Empty],
   fact |-> [j \in Job |-> "none"], digest |-> [j \in Job |-> Empty],
   copy |-> [j \in Job |-> Empty], change |-> [j \in Job |-> 0], clock |-> 0,
   outputPruned |-> {}, historyPruned |-> {}, other |-> weight]

\* A fresh store, or one an upgrade finds with an order that is still open, and
\* perhaps with more in it than the policy would have let in, if it can be read.
Init ==
  /\ \E weight \in Weights :
       \/ s = Fresh(weight)
       \/ \E j \in Sent : s = Admitted(Fresh(weight), j, "active")
  /\ Encoded(s) <= StateBytes

\* exec::submit runs or denies it; rpc_exec orders it from a peer.
Admit(j) ==
  /\ j \in Here \cup Sent
  /\ s.row[j] = "absent"
  /\ \E row \in {"active"} \cup (IF j \in Here THEN {"ended"} ELSE {}) :
       Update(Admitted(s, j, row))

\* The run ends, whatever it has printed. Runner has what a save that fails does.
Complete(j) ==
  /\ j \in Here
  /\ s.row[j] = "active"
  /\ \E o \in Output : Update(Completed(s, j, o))

\* The delivery fails for good before the runner has said anything.
GiveUp(j) ==
  /\ j \in Sent
  /\ s.row[j] = "active" /\ s.fact[j] = "waiting"
  /\ Update(Stamped([s EXCEPT !.row[j] = "ended", !.fact[j] = "failed"], j))

\* What the runner says: it runs, or it has ended with the output it still has.
Said(j) == {<<"running", Empty>>, <<"final", Empty>>, <<"final", Printed[j]>>}

Poll(j) ==
  /\ j \in Sent
  /\ s.row[j] # "absent"
  /\ \E m \in Said(j) : Update(Replied(s, j, m[1], m[2]))

\* A page of a peer's history brings the origin's fact or the runner's.
Fetch(j) ==
  /\ j \notin Here
  /\ j \in Sent => s.row[j] # "absent"
  /\ \E m \in Said(j) : Update(Ingested(s, j, m[1], m[2]))

\* clix prune; a larger keep leaves everything as it is.
Prune ==
  \E keep \in 0..Cardinality(Candidates(s)) : Update(Pruned(s, keep))

\* Peers, grants, requests and pins come and go.
Others ==
  \E weight \in Weights : Update([s EXCEPT !.other = weight])

Next ==
  \/ \E j \in Job : Admit(j) \/ Complete(j) \/ GiveUp(j) \/ Poll(j) \/ Fetch(j)
  \/ Prune
  \/ Others

StorageSpec == Init /\ [][Next]_s

=============================================================================
