------------------------------ MODULE Dispatcher ------------------------------
(***************************************************************************)
(* The loop that makes every attempt of one machine: deliveries of jobs    *)
(* and requests, readmissions and history pages. A turn joins a task that  *)
(* has ended, if that is what woke the loop, and starts tasks for the rows *)
(* behind the cursor that wait, while there are slots. The select that     *)
(* ends a turn and the scan that begins the next one are one step, since   *)
(* nobody else sees what lies between.                                     *)
(***************************************************************************)
EXTENDS Naturals, FiniteSets

CONSTANTS
  Key,    \* rows an attempt can be made for
  Rank,   \* [Key -> 1..Cardinality(Key)]: the order of their names
  Slots   \* limits::DISPATCH

ASSUME DispatchShape ==
  /\ IsFiniteSet(Key)
  /\ Rank \in [Key -> 1..Cardinality(Key)]
  /\ \A j, k \in Key : Rank[j] = Rank[k] => j = k
  /\ Slots \in Nat \ {0}

Task == {"none", "running", "ended"}

VARIABLES
  task,     \* [Key -> Task]: tasks and active; one that has ended is not joined yet
  cooling,  \* rows whose next_attempt is still to come
  cursor    \* the rank of the row that was started last

dispatchVars == <<task, cooling, cursor>>

Loop ==
  /\ task = [k \in Key |-> "none"]
  /\ cooling = {}
  /\ cursor = 0

\* Mutant: begins with the first row at every turn.
DistanceFromFirst(k) == Rank[k]

\* The rows are visited in their order, from the one behind the cursor on.
Distance(k) ==
  IF Rank[k] > cursor THEN Rank[k] - cursor ELSE Rank[k] + Cardinality(Key) - cursor

\* S are the first n of the rows that are due, or all of them.
Foremost(S, due, n) ==
  /\ S = due \/ Cardinality(S) = n
  /\ Cardinality(S) <= n
  /\ \A j \in due \ S, k \in S : Distance(k) < Distance(j)

\* Mutant: a task that was joined stays active.
JoinedActive(done) == task

Joined(done) == [k \in Key |-> IF k \in done THEN "none" ELSE task[k]]

\* The rows without a task whose next attempt has come.
Due(candidates, done) ==
  {k \in candidates \ cooling : Joined(done)[k] = "none"}

Free(done) == Slots - Cardinality({k \in Key : Joined(done)[k] # "none"})

\* done is the task that was joined, or empty after the poll interval or a wake.
Turn(candidates, done) ==
  /\ \A k \in done : task[k] = "ended"
  /\ \E started \in SUBSET Due(candidates, done) :
       /\ Foremost(started, Due(candidates, done), Free(done))
       /\ task' = [k \in Key |-> IF k \in started THEN "running" ELSE Joined(done)[k]]
       /\ cooling' = (cooling \cap candidates) \cup started
       /\ IF started = {} THEN UNCHANGED cursor
          ELSE \E last \in started :
                 /\ \A k \in started : Distance(k) <= Distance(last)
                 /\ cursor' = Rank[last]

\* The poll interval since the start of the last attempt is over.
Warm(k) ==
  /\ k \in cooling
  /\ cooling' = cooling \ {k}
  /\ UNCHANGED <<task, cursor>>

End(k) ==
  /\ task[k] = "running"
  /\ task' = [task EXCEPT ![k] = "ended"]
  /\ UNCHANGED <<cooling, cursor>>

=============================================================================
