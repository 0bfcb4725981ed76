---------------------------- MODULE StorageProofs ----------------------------
(***************************************************************************)
(* The storage policy, whatever the sizes and the limits are.  First what  *)
(* an accepted update has become by the time it is saved, without looking  *)
(* at what a state weighs: what was given up stays given up, and output is *)
(* stored once.  Then the weights: sums over a finite set, the charge as   *)
(* one of them, the numbers that give entries their age, and with these    *)
(* that a run can always save how it ended, that room is made from the     *)
(* oldest, and when a prune is accepted.                                   *)
(***************************************************************************)
EXTENDS StorageProperties, FiniteSetTheorems, TLAPS

\* What holds of a store, and of an edit of it that is not normalized yet.
Sound(t) ==
  /\ t \in Disk
  /\ \A j \in Job :
       /\ t.out[j] # Empty => t.row[j] = "ended" /\ t.out[j] = t.digest[j]
                              /\ j \notin t.outputPruned
       /\ t.copy[j] # Empty => t.copy[j] = t.digest[j]
       /\ t.digest[j] # Empty => t.fact[j] = "final"
       /\ j \notin Here /\ t.fact[j] = "final" => t.digest[j] = Printed[j]
       /\ j \in t.historyPruned \cup t.outputPruned => t.fact[j] = "final"
       /\ j \in Here /\ t.row[j] = "active" => t.fact[j] = "running"
       /\ j \in Here \cup Sent /\ t.row[j] = "absent" => t.fact[j] = "none"

\* What holds once it is: receipts have been applied, and one copy is left.
Clean(t) ==
  \A j \in Job :
    /\ j \in t.historyPruned => ~Holds(t, j)
    /\ t.out[j] = Empty \/ t.copy[j] = Empty

IInv == Sound(s) /\ Clean(s)

\* What an edit and each stage after it may do to what was stored.
Keeps(t, u) ==
  \A j \in Job :
    /\ Holds(t, j) /\ ~Holds(u, j) => j \in u.historyPruned
    /\ j \in t.historyPruned => j \in u.historyPruned /\ u.fact[j] = t.fact[j]

LEMMA KeepsTransitive ==
  ASSUME NEW t, NEW u, NEW v, Keeps(t, u), Keeps(u, v)
  PROVE  Keeps(t, v)
  BY DEF Keeps

LEMMA AgeIsNat ==
  ASSUME NEW t, NEW S \in SUBSET Job, NEW j
  PROVE  Age(t, S, j) \in Nat
  BY StorageShape, FS_Subset, FS_CardinalityType DEF Age

LEMMA StampedSound ==
  ASSUME NEW t \in Disk, NEW j \in Job
  PROVE  /\ Stamped(t, j) \in Disk
         /\ Sound(t) => Sound(Stamped(t, j))
         /\ Keeps(t, Stamped(t, j))
<1> DEFINE u == Stamped(t, j)
<1>1. u \in Disk
  <2>1. t.clock + 1 \in Nat
    BY DEF Disk
  <2>2. [t.change EXCEPT ![j] = t.clock + 1] \in [Job -> Nat]
    BY <2>1 DEF Disk
  <2>3. u = [t EXCEPT !.change = [t.change EXCEPT ![j] = t.clock + 1],
                      !.clock = t.clock + 1]
    BY DEF Stamped
  <2> HIDE DEF u
  <2>4. QED
    BY <2>1, <2>2, <2>3 DEF Disk
<1>2. /\ u.row = t.row /\ u.fact = t.fact /\ u.digest = t.digest /\ u.out = t.out
      /\ u.copy = t.copy /\ u.outputPruned = t.outputPruned
      /\ u.historyPruned = t.historyPruned
  BY DEF Stamped, Disk
<1>3. QED
  BY <1>1, <1>2 DEF Sound, Keeps, Holds

\* Removing payloads of ended invocations leaves their facts and their receipts.
LEMMA RemoveSound ==
  ASSUME NEW t, Sound(t), NEW S \in SUBSET Candidates(t)
  PROVE  /\ Sound(RemovePayloads(t, S))
         /\ Clean(t) => Clean(RemovePayloads(t, S))
         /\ Keeps(t, RemovePayloads(t, S))
<1> DEFINE u == RemovePayloads(t, S)
<1>1. S \in SUBSET Job /\ IsFiniteSet(S)
  BY StorageShape, FS_Subset DEF Candidates, Local, Replica
<1>2. Cardinality(S) \in Nat /\ \A j \in S : Age(t, S, j) \in Nat
  BY <1>1, FS_CardinalityType, AgeIsNat
<1> DEFINE change == [j \in Job |-> IF j \in S THEN t.clock + Age(t, S, j) ELSE t.change[j]]
           clock  == t.clock + Cardinality(S)
           out    == [j \in Job |-> IF j \in S \cap Local(t) THEN Empty ELSE t.out[j]]
           copy   == [j \in Job |-> IF j \in S THEN Empty ELSE t.copy[j]]
<1>3. u \in Disk
  <2>1. t \in Disk
    BY DEF Sound
  <2>2. /\ out \in [Job -> Output] /\ copy \in [Job -> Output]
        /\ t.outputPruned \cup (S \cap Local(t)) \in SUBSET Job
        /\ t.historyPruned \cup S \in SUBSET Job
    BY <1>1, <2>1 DEF Disk, Output
  <2>3. change \in [Job -> Nat] /\ clock \in Nat
    BY <1>1, <1>2, <2>1 DEF Disk
  <2> HIDE DEF out, copy, change, clock
  <2>4. u = [t EXCEPT !.out = out, !.copy = copy,
                      !.outputPruned = t.outputPruned \cup (S \cap Local(t)),
                      !.historyPruned = t.historyPruned \cup S,
                      !.change = change, !.clock = clock]
    BY DEF RemovePayloads, out, copy, change, clock
  <2> HIDE DEF u
  <2>5. QED
    BY <2>1, <2>2, <2>3, <2>4 DEF Disk
<1>4. /\ u.row = t.row /\ u.fact = t.fact /\ u.digest = t.digest
      /\ \A j \in Job : /\ u.out[j] = IF j \in S \cap Local(t) THEN Empty ELSE t.out[j]
                       /\ u.copy[j] = IF j \in S THEN Empty ELSE t.copy[j]
      /\ u.outputPruned = t.outputPruned \cup (S \cap Local(t))
      /\ u.historyPruned = t.historyPruned \cup S
  BY DEF Sound, Disk, RemovePayloads
<1>5. \A j \in S : t.fact[j] = "final"
  BY <1>1 DEF Candidates, Local, Replica, Sound
<1>6. \A j \in S : t.out[j] # Empty => j \in Local(t)
  BY <1>1, <1>5 DEF Local, Sound
<1>7. Sound(u)
  BY <1>3, <1>4, <1>5 DEF Sound
<1>8. Keeps(t, u)
  BY <1>4 DEF Keeps, Holds
<1>9. Clean(t) => Clean(u)
  BY <1>4, <1>6 DEF Clean, Holds
<1>10. QED
  BY <1>7, <1>8, <1>9

\* Normalization applies the receipts and leaves one of two equal copies.
LEMMA NormalizedSound ==
  ASSUME NEW t, Sound(t)
  PROVE  /\ Sound(Normalized(t)) /\ Clean(Normalized(t))
         /\ Keeps(t, Normalized(t))
<1> DEFINE u == Normalized(t)
<1>1. u \in Disk
  BY StorageShape DEF Sound, Disk, Normalized, Output
<1>2. /\ u.row = t.row /\ u.fact = t.fact /\ u.digest = t.digest
      /\ u.historyPruned = t.historyPruned
      /\ \A j \in Job :
           /\ u.copy[j] = IF j \in t.historyPruned
                            \/ (t.row[j] # "absent" /\ j \notin t.outputPruned
                                  /\ t.copy[j] = t.out[j])
                         THEN Empty ELSE t.copy[j]
           /\ u.out[j] = IF t.row[j] # "absent" /\ j \in t.historyPruned
                        THEN Empty ELSE t.out[j]
      /\ u.outputPruned = t.outputPruned \cup
            {j \in t.historyPruned : t.row[j] # "absent" /\ t.digest[j] # Empty}
  BY DEF Sound, Disk, Normalized
<1>3. Sound(u)
  BY <1>1, <1>2 DEF Sound
<1>4. Clean(u)
  BY <1>2 DEF Sound, Clean, Holds
<1>5. Keeps(t, u)
  BY <1>2 DEF Keeps, Holds
<1>6. QED
  BY <1>3, <1>4, <1>5

LEMMA StoredSound ==
  ASSUME NEW t, Sound(t)
  PROVE  Sound(Stored(t)) /\ Clean(Stored(t)) /\ Keeps(t, Stored(t))
<1> DEFINE n == Normalized(t)
<1>1. Sound(n) /\ Clean(n) /\ Keeps(t, n)
  BY NormalizedSound
<1>2. PICK k : Trimmed(n) = RemovePayloads(n, OldestOf(n, Candidates(n), k))
  BY DEF Trimmed
<1>3. OldestOf(n, Candidates(n), k) \in SUBSET Candidates(n)
  BY DEF OldestOf
<1>4. Sound(Trimmed(n)) /\ Clean(Trimmed(n)) /\ Keeps(n, Trimmed(n))
  BY <1>1, <1>2, <1>3, RemoveSound
<1>5. QED
  BY <1>1, <1>4, KeepsTransitive DEF Stored

LEMMA UpdateKeeps ==
  ASSUME NEW edit, Sound(edit), Keeps(s, edit), Update(edit)
  PROVE  IInv' /\ Keeps(s, s')
  BY StoredSound, KeepsTransitive DEF Update, IInv

-----------------------------------------------------------------------------
(* The edits *)

LEMMA FreshSound ==
  ASSUME NEW weight \in Weights
  PROVE  Sound(Fresh(weight)) /\ Clean(Fresh(weight))
  BY StorageShape DEF Fresh, Sound, Clean, Holds, Disk, Row, Fact, EndFact, Output

LEMMA AdmittedSound ==
  ASSUME NEW t, Sound(t), NEW j \in Here \cup Sent, t.row[j] = "absent",
         NEW row \in {"active"} \cup (IF j \in Here THEN {"ended"} ELSE {})
  PROVE  /\ Sound(Admitted(t, j, row)) /\ Keeps(t, Admitted(t, j, row))
         /\ Clean(t) => Clean(Admitted(t, j, row))
<1> DEFINE b    == IF t.change[j] = 0 THEN Stamped(t, j) ELSE t
           fact == IF row = "ended" THEN "final"
                   ELSE IF j \in Here THEN "running" ELSE "waiting"
           u    == [b EXCEPT !.row[j] = row, !.fact[j] = fact]
<1>1. j \in Job
  BY StorageShape
<1>2. Sound(b) /\ Keeps(t, b) /\ b.row = t.row /\ (Clean(t) => Clean(b))
  <2>1. /\ Stamped(t, j).row = t.row /\ Stamped(t, j).out = t.out
        /\ Stamped(t, j).copy = t.copy
        /\ Stamped(t, j).historyPruned = t.historyPruned
    BY DEF Stamped, Sound, Disk
  <2>2. t \in Disk
    BY DEF Sound
  <2>3. Sound(Stamped(t, j)) /\ Keeps(t, Stamped(t, j))
    BY <1>1, <2>2, StampedSound
  <2>4. Clean(t) => Clean(Stamped(t, j))
    BY <2>1 DEF Clean, Holds
  <2>5. Keeps(t, t)
    BY DEF Keeps
  <2>6. QED
    BY <2>1, <2>3, <2>4, <2>5
<1> HIDE DEF b
<1>3. b.fact[j] = "none" /\ b.row[j] = "absent"
  BY <1>1, <1>2 DEF Sound
<1>4. /\ u.row = [b.row EXCEPT ![j] = row] /\ u.fact = [b.fact EXCEPT ![j] = fact]
      /\ u.digest = b.digest /\ u.out = b.out /\ u.copy = b.copy
      /\ u.outputPruned = b.outputPruned /\ u.historyPruned = b.historyPruned
  BY <1>2 DEF Sound, Disk
<1>5. u \in Disk
  <2>1. fact \in Fact /\ row \in Row
    BY DEF Fact, Row
  <2>2. QED
    BY <1>2, <2>1 DEF Sound, Disk
<1>6. Sound(u)
  <2>1. \A i \in Job : i # j => u.row[i] = b.row[i] /\ u.fact[i] = b.fact[i]
    BY <1>2, <1>4 DEF Sound, Disk
  <2>2. u.row[j] = row /\ u.fact[j] = fact
    BY <1>1, <1>2, <1>4 DEF Sound, Disk
  <2>3. b.digest[j] = Empty /\ b.out[j] = Empty /\ b.copy[j] = Empty
        /\ j \notin b.historyPruned \cup b.outputPruned
    BY <1>1, <1>2, <1>3 DEF Sound
  <2>4. /\ row = "active" \/ (row = "ended" /\ j \in Here)
        /\ j \in Here /\ row = "active" => fact = "running"
        /\ j \notin Here => fact = "waiting"
    OBVIOUS
  <2> HIDE DEF u, fact
  <2>5. QED
    BY <1>2, <1>4, <1>5, <2>1, <2>2, <2>3, <2>4 DEF Sound
<1>7. Keeps(b, u) /\ (Clean(b) => Clean(u))
  BY <1>1, <1>2, <1>3, <1>4 DEF Sound, Disk, Keeps, Clean, Holds
<1>8. Admitted(t, j, row) = Stamped(u, j)
  BY DEF Admitted, b
<1>9. Stamped(u, j).out = u.out /\ Stamped(u, j).copy = u.copy
      /\ Stamped(u, j).historyPruned = u.historyPruned
  BY <1>5 DEF Stamped, Disk
<1> HIDE DEF u
<1>10. Sound(Stamped(u, j)) /\ Keeps(u, Stamped(u, j)) /\ (Clean(u) => Clean(Stamped(u, j)))
  BY <1>1, <1>5, <1>6, <1>9, StampedSound DEF Clean, Holds
<1>11. QED
  BY <1>2, <1>7, <1>8, <1>10, KeepsTransitive

LEMMA CompletedSound ==
  ASSUME NEW t, Sound(t), NEW j \in Here, t.row[j] = "active", NEW o \in Output
  PROVE  Sound(Completed(t, j, o)) /\ Keeps(t, Completed(t, j, o))
<1> DEFINE u == [t EXCEPT !.row[j] = "ended", !.out[j] = o, !.fact[j] = "final",
                          !.digest[j] = o, !.copy[j] = Empty]
<1>1. j \in Job /\ t.fact[j] = "running"
  BY StorageShape DEF Sound
<1>2. t.copy[j] = Empty /\ j \notin t.historyPruned \cup t.outputPruned /\ t.out[j] = Empty
  BY <1>1 DEF Sound
<1>3. /\ u.row = [t.row EXCEPT ![j] = "ended"] /\ u.fact = [t.fact EXCEPT ![j] = "final"]
      /\ u.digest = [t.digest EXCEPT ![j] = o] /\ u.out = [t.out EXCEPT ![j] = o]
      /\ u.copy = [t.copy EXCEPT ![j] = Empty]
      /\ u.outputPruned = t.outputPruned /\ u.historyPruned = t.historyPruned
  BY DEF Sound, Disk
<1>4. u \in Disk
  BY DEF Sound, Disk, Row, Fact, EndFact, Output
<1>5. \A i \in Job : i # j => u.row[i] = t.row[i] /\ u.fact[i] = t.fact[i]
                   /\ u.digest[i] = t.digest[i] /\ u.out[i] = t.out[i] /\ u.copy[i] = t.copy[i]
  BY <1>3 DEF Sound, Disk
<1>6. u.row[j] = "ended" /\ u.fact[j] = "final" /\ u.digest[j] = o /\ u.out[j] = o
      /\ u.copy[j] = Empty
  BY <1>1, <1>3 DEF Sound, Disk
<1>7. Completed(t, j, o) = Stamped(u, j)
  BY DEF Completed
<1> HIDE DEF u
<1>8. Sound(u)
  BY <1>2, <1>3, <1>4, <1>5, <1>6 DEF Sound
<1>9. Keeps(t, u)
  BY <1>1, <1>2, <1>3, <1>5, <1>6 DEF Keeps, Holds
<1>10. QED
  BY <1>1, <1>4, <1>7, <1>8, <1>9, StampedSound, KeepsTransitive

LEMMA GaveUpSound ==
  ASSUME NEW t, Sound(t), NEW j \in Sent, t.row[j] = "active", t.fact[j] = "waiting"
  PROVE  LET u == Stamped([t EXCEPT !.row[j] = "ended", !.fact[j] = "failed"], j)
         IN Sound(u) /\ Keeps(t, u)
<1> DEFINE u == [t EXCEPT !.row[j] = "ended", !.fact[j] = "failed"]
<1>1. j \in Job
  BY StorageShape
<1>2. t.digest[j] = Empty /\ t.copy[j] = Empty /\ t.out[j] = Empty
      /\ j \notin t.historyPruned \cup t.outputPruned
  BY <1>1 DEF Sound
<1>3. u \in Disk
  BY DEF Sound, Disk, Row, Fact, EndFact
<1>4. /\ u.row = [t.row EXCEPT ![j] = "ended"] /\ u.fact = [t.fact EXCEPT ![j] = "failed"]
      /\ u.digest = t.digest /\ u.out = t.out /\ u.copy = t.copy
      /\ u.outputPruned = t.outputPruned /\ u.historyPruned = t.historyPruned
  BY DEF Sound, Disk
<1>5. /\ u.row[j] = "ended" /\ u.fact[j] = "failed"
      /\ \A i \in Job : i # j => u.row[i] = t.row[i] /\ u.fact[i] = t.fact[i]
  BY <1>1, <1>4 DEF Sound, Disk
<1> HIDE DEF u
<1>6. Sound(u)
  BY <1>2, <1>3, <1>4, <1>5 DEF Sound
<1>7. Keeps(t, u)
  BY <1>2, <1>4, <1>5 DEF Keeps, Holds
<1>8. QED
  BY <1>1, <1>3, <1>6, <1>7, StampedSound, KeepsTransitive DEF u

\* A fact and the output that comes with it, for an invocation that runs elsewhere.
LEMMA IngestedSound ==
  ASSUME NEW t, Sound(t), Clean(t), NEW j \in Job \ Here, j \in Sent => t.row[j] # "absent",
         NEW fact \in {"running", "final"}, NEW o \in {Empty, Printed[j]}
  PROVE  LET u == Ingested(t, j, fact, o) IN
         /\ Sound(u) /\ Keeps(t, u)
         /\ u.row = t.row /\ u.out = t.out /\ u.outputPruned = t.outputPruned
         /\ fact = "final" => u.fact[j] = "final"
<1> DEFINE f     == IF t.fact[j] = "final" THEN "final" ELSE fact
           d     == IF f = "final" THEN Printed[j] ELSE Empty
           local == t.row[j] # "absent" /\ j \notin t.outputPruned /\ t.out[j] = d
           kept  == IF local THEN Empty
                    ELSE IF o = d /\ j \notin t.historyPruned THEN o
                    ELSE IF t.copy[j] = d THEN t.copy[j] ELSE Empty
           n     == [t EXCEPT !.fact[j] = f, !.digest[j] = d, !.copy[j] = kept]
<1>1. f \in {"running", "final"} /\ f \in Fact /\ d \in Output /\ kept \in {Empty, d}
      /\ (t.fact[j] = "final" => f = "final") /\ (fact = "final" => f = "final")
  BY StorageShape DEF Fact, EndFact, Output
<1>2. t.copy[j] # Empty => t.copy[j] = d /\ f = "final"
  BY DEF Sound
<1>3. t.out[j] # Empty => t.out[j] = d /\ f = "final"
  BY DEF Sound
<1>4. Holds(t, j) => t.out[j] # Empty \/ kept # Empty
  BY <1>2, <1>3 DEF Holds
<1>5. kept \in Output
  BY <1>1 DEF Output
<1>6. d # Empty => f = "final"
  OBVIOUS
<1>7. f = "final" => d = Printed[j]
  OBVIOUS
<1> HIDE DEF f, d, local, kept
<1>8. /\ n.row = t.row /\ n.out = t.out /\ n.outputPruned = t.outputPruned
      /\ n.historyPruned = t.historyPruned
      /\ n.fact = [t.fact EXCEPT ![j] = f] /\ n.digest = [t.digest EXCEPT ![j] = d]
      /\ n.copy = [t.copy EXCEPT ![j] = kept]
  BY DEF Sound, Disk
<1>9. n \in Disk
  BY <1>1, <1>5 DEF Sound, Disk
<1>10. /\ n.fact[j] = f /\ n.digest[j] = d /\ n.copy[j] = kept
       /\ \A i \in Job : i # j => n.fact[i] = t.fact[i] /\ n.digest[i] = t.digest[i]
                                /\ n.copy[i] = t.copy[i]
  BY <1>8 DEF Sound, Disk
<1>11. Ingested(t, j, fact, o) = IF n = t THEN t ELSE Stamped(n, j)
  BY DEF Ingested, f, d, local, kept
<1> HIDE DEF n
<1>12. Sound(n)
  BY <1>1, <1>3, <1>6, <1>7, <1>8, <1>9, <1>10 DEF Sound
<1>13. Keeps(t, n)
  BY <1>1, <1>4, <1>8, <1>10 DEF Sound, Keeps, Holds
<1>14. Sound(Stamped(n, j)) /\ Keeps(t, Stamped(n, j))
  BY <1>9, <1>12, <1>13, StampedSound, KeepsTransitive
<1>15. /\ Stamped(n, j).row = n.row /\ Stamped(n, j).out = n.out
       /\ Stamped(n, j).outputPruned = n.outputPruned /\ Stamped(n, j).fact = n.fact
  BY <1>9 DEF Stamped, Disk
<1>16. QED
  BY <1>1, <1>8, <1>10, <1>11, <1>12, <1>13, <1>14, <1>15

LEMMA RepliedSound ==
  ASSUME NEW t, Sound(t), Clean(t), NEW j \in Sent, t.row[j] # "absent", NEW m \in Said(j)
  PROVE  Sound(Replied(t, j, m[1], m[2])) /\ Keeps(t, Replied(t, j, m[1], m[2]))
<1> DEFINE n    == Ingested(t, j, m[1], m[2])
           gone == j \in n.historyPruned \cup n.outputPruned
           row  == IF m[1] = "final" THEN "ended" ELSE "active"
           out  == IF gone THEN Empty ELSE m[2]
           op   == IF (gone \/ m[2] = Empty) /\ m[1] = "final" /\ Printed[j] # Empty
                   THEN n.outputPruned \cup {j} ELSE n.outputPruned
           u    == [n EXCEPT !.row[j] = row, !.out[j] = out, !.outputPruned = op]
<1>1. /\ m[1] \in {"running", "final"} /\ m[2] \in {Empty, Printed[j]}
      /\ (m[2] # Empty => m[1] = "final" /\ m[2] = Printed[j])
  BY DEF Said
<1>2. j \in Job \ Here
  BY StorageShape
<1>3. /\ Sound(n) /\ Keeps(t, n) /\ n.row = t.row /\ n.out = t.out
      /\ n.outputPruned = t.outputPruned /\ (m[1] = "final" => n.fact[j] = "final")
  BY <1>1, <1>2, IngestedSound
<1>4. CASE t.row[j] # "active"
  BY <1>3, <1>4 DEF Replied
<1>5. CASE t.row[j] = "active"
  <2>1. Replied(t, j, m[1], m[2]) = u
    BY <1>5 DEF Replied
  <2>2. row \in Row /\ out \in Output /\ op \in SUBSET Job
    BY <1>1, <1>2, <1>3, StorageShape DEF Row, Output, Sound, Disk
  <2>3. out # Empty => /\ row = "ended" /\ out = Printed[j] /\ n.fact[j] = "final"
                       /\ j \notin op
    BY <1>1, <1>3
  <2>4. n.outputPruned \subseteq op /\ (j \in op => j \in n.outputPruned \/ n.fact[j] = "final")
        /\ (\A i \in Job : i # j => (i \in op <=> i \in n.outputPruned))
    BY <1>3
  <2>5. t.out[j] = Empty
    BY <1>2, <1>5 DEF Sound
  <2>6. row # "absent"
    OBVIOUS
  <2> HIDE DEF n, row, out, op, gone
  <2>7. /\ u.fact = n.fact /\ u.digest = n.digest /\ u.copy = n.copy
        /\ u.historyPruned = n.historyPruned /\ u.outputPruned = op
        /\ u.row = [n.row EXCEPT ![j] = row] /\ u.out = [n.out EXCEPT ![j] = out]
    BY <1>3 DEF Sound, Disk
  <2>8. u \in Disk
    BY <1>3, <2>2 DEF Sound, Disk
  <2>9. /\ u.row[j] = row /\ u.out[j] = out
        /\ \A i \in Job : i # j => u.row[i] = n.row[i] /\ u.out[i] = n.out[i]
    BY <1>2, <1>3, <2>7 DEF Sound, Disk
  <2> HIDE DEF u
  <2>10. Sound(u)
    BY <1>2, <1>3, <2>3, <2>4, <2>6, <2>7, <2>8, <2>9 DEF Sound
  <2>11. Keeps(t, u)
    BY <1>3, <2>5, <2>7, <2>9 DEF Keeps, Holds
  <2>12. QED
    BY <2>1, <2>10, <2>11
<1>6. QED
  BY <1>4, <1>5

-----------------------------------------------------------------------------
(* The invariant and what follows from it *)

LEMMA InitSound == Init => IInv
<1> SUFFICES ASSUME NEW weight \in Weights,
                    s = Fresh(weight) \/ \E j \in Sent : s = Admitted(Fresh(weight), j, "active")
             PROVE  IInv
  BY DEF Init
<1>1. CASE s = Fresh(weight)
  BY <1>1, FreshSound DEF IInv
<1>2. CASE \E j \in Sent : s = Admitted(Fresh(weight), j, "active")
  <2>1. PICK j \in Sent : s = Admitted(Fresh(weight), j, "active")
    BY <1>2
  <2>2. Fresh(weight).row[j] = "absent"
    BY StorageShape DEF Fresh
  <2>3. QED
    BY <2>1, <2>2, FreshSound, AdmittedSound DEF IInv
<1>3. QED
  BY <1>1, <1>2

\* Every step, whatever it saves, keeps the invariant and the receipts.
LEMMA StepSound ==
  ASSUME IInv, Next
  PROVE  IInv' /\ Keeps(s, s')
<1> USE DEF IInv
<1>1. ASSUME NEW j \in Job, Admit(j) PROVE IInv' /\ Keeps(s, s')
  <2>1. PICK row \in {"active"} \cup (IF j \in Here THEN {"ended"} ELSE {}) :
          Update(Admitted(s, j, row))
    BY <1>1 DEF Admit
  <2>2. QED
    BY <1>1, <2>1, AdmittedSound, UpdateKeeps DEF Admit
<1>2. ASSUME NEW j \in Job, Complete(j) PROVE IInv' /\ Keeps(s, s')
  BY <1>2, CompletedSound, UpdateKeeps DEF Complete
<1>3. ASSUME NEW j \in Job, GiveUp(j) PROVE IInv' /\ Keeps(s, s')
  BY <1>3, GaveUpSound, UpdateKeeps DEF GiveUp
<1>4. ASSUME NEW j \in Job, Poll(j) PROVE IInv' /\ Keeps(s, s')
  BY <1>4, RepliedSound, UpdateKeeps DEF Poll
<1>5. ASSUME NEW j \in Job, Fetch(j) PROVE IInv' /\ Keeps(s, s')
  <2>1. PICK m \in Said(j) : Update(Ingested(s, j, m[1], m[2]))
    BY <1>5 DEF Fetch
  <2>2. m[1] \in {"running", "final"} /\ m[2] \in {Empty, Printed[j]}
    BY DEF Said
  <2>3. Sound(Ingested(s, j, m[1], m[2])) /\ Keeps(s, Ingested(s, j, m[1], m[2]))
    BY <1>5, <2>2, IngestedSound DEF Fetch
  <2>4. QED
    BY <2>1, <2>3, UpdateKeeps
<1>6. ASSUME Prune PROVE IInv' /\ Keeps(s, s')
  <2>1. PICK keep : Update(Pruned(s, keep))
    BY <1>6 DEF Prune
  <2>2. PICK k : Pruned(s, keep) = RemovePayloads(s, OldestOf(s, Candidates(s), k))
    BY DEF Pruned
  <2>3. OldestOf(s, Candidates(s), k) \in SUBSET Candidates(s)
    BY DEF OldestOf
  <2>4. QED
    BY <2>1, <2>2, <2>3, RemoveSound, UpdateKeeps
<1>7. ASSUME Others PROVE IInv' /\ Keeps(s, s')
  <2>1. PICK weight \in Weights : Update([s EXCEPT !.other = weight])
    BY <1>7 DEF Others
  <2>2. Sound([s EXCEPT !.other = weight]) /\ Keeps(s, [s EXCEPT !.other = weight])
    BY StorageShape DEF Sound, Disk, Keeps, Holds
  <2>3. QED
    BY <2>1, <2>2, UpdateKeeps
<1>8. QED
  BY <1>1, <1>2, <1>3, <1>4, <1>5, <1>6, <1>7 DEF Next

\* The store keeps its shape: every row, fact, output, receipt and number of it.
THEOREM StorageTyped == StorageSpec => []StorageTypeOK
<1>1. IInv /\ [Next]_s => IInv'
  BY StepSound DEF IInv
<1>2. IInv => StorageTypeOK
  BY DEF IInv, Sound, StorageTypeOK
<1>3. QED
  BY InitSound, <1>1, <1>2, PTL DEF StorageSpec

\* One copy of an output is stored, whether it came with the run, with a reply
\* or with a page: normalization drops the second before any update is saved.
THEOREM OutputStoredOnce == StorageSpec => []StoredOnce
<1>1. IInv /\ [Next]_s => IInv'
  BY StepSound DEF IInv
<1>2. IInv => StoredOnce
  BY DEF IInv, Clean, StoredOnce
<1>3. QED
  BY InitSound, <1>1, <1>2, PTL DEF StorageSpec

\* What was given up is receipted and does not come back, by any reply or page.
THEOREM PrunedOutputStaysGone == StorageSpec => PrunedStaysGone
<1> DEFINE Step ==
      \A j \in Job :
        /\ Holds(s, j) /\ ~Holds(s', j) => j \in s'.historyPruned
        /\ j \in s.historyPruned =>
             j \in s'.historyPruned /\ ~Holds(s', j) /\ s'.fact[j] = s.fact[j]
<1>1. IInv /\ [Next]_s => IInv'
  BY StepSound DEF IInv
<1>2. IInv /\ [Next]_s => [Step]_s
  <2> SUFFICES ASSUME IInv, Next PROVE Step
    OBVIOUS
  <2>1. IInv' /\ Keeps(s, s')
    BY StepSound
  <2>2. QED
    BY <2>1 DEF IInv, Clean, Keeps
<1>3. QED
  BY InitSound, <1>1, <1>2, PTL DEF StorageSpec, PrunedStaysGone

-----------------------------------------------------------------------------
(* Sums over a finite set.  The library states no fact of SumFunction, and   *)
(* its induction theorems take an operator: here the induction hypothesis is *)
(* a set of parts, and SubsetInduction says that it holds them all.          *)


One(U)  == CHOOSE x \in U : TRUE
Rest(U) == U \ {One(U)}

\* A step of the sum over U, given the sums h of smaller sets.
AddUp(h, f, U) ==
  IF U = {} THEN 0 ELSE LET x == CHOOSE x \in U : TRUE IN f[x] + h[U \ {x}]

\* The recursive function that SumFunction chooses, as a predicate.
IsPartialSums(h, f, J) == h = [U \in SUBSET J |-> AddUp(h, f, U)]

\* ... and as the value that is chosen.
PartialSums(f, J) == CHOOSE h : IsPartialSums(h, f, J)

\* SumFunction is the sum over its whole domain.
LEMMA SumIsPartial ==
  ASSUME NEW J, NEW f \in [J -> Nat]
  PROVE  SumFunction(f) = PartialSums(f, J)[J]
<1>1. DOMAIN f = J
  OBVIOUS
<1>2. SumFunction(f) = PartialSums(f, DOMAIN f)[DOMAIN f]
  BY Zenon DEF SumFunction, SumFunctionOnSet, FoldFunctionOnSet, MapThenFoldSet,
               PartialSums, IsPartialSums, AddUp
<1>3. QED
  BY <1>1, <1>2

\* Any set of naturals that is not empty has a least one.
LEMMA LeastNumber ==
  ASSUME NEW T \in SUBSET Nat, T # {}
  PROVE  \E n \in T : \A m \in T : n <= m
<1>1. PICK n \in T : \A m \in T : ~(<<m, n>> \in OpToRel(<, Nat))
  BY NatLessThanWellFounded, WFMin
<1>2. \A m \in T : <<m, n>> \in OpToRel(<, Nat) <=> m < n
  BY DEF OpToRel
<1>3. \A m \in T : m \in Nat
  OBVIOUS
<1>4. n \in Nat /\ \A m \in T : m \in Nat /\ ~(m < n)
  BY <1>1, <1>2, <1>3
<1>5. QED
  BY <1>4

\* Taking one member out leaves a part with one member less.
LEMMA RestIsSmaller ==
  ASSUME NEW J, IsFiniteSet(J), NEW U \in SUBSET J, U # {}
  PROVE  /\ One(U) \in U
         /\ Rest(U) \in SUBSET J
         /\ Cardinality(U) \in Nat /\ Cardinality(Rest(U)) \in Nat
         /\ Cardinality(U) = Cardinality(Rest(U)) + 1
<1>1. One(U) \in U
  BY DEF One
<1>2. IsFiniteSet(U)
  BY FS_Subset
<1>3. /\ IsFiniteSet(Rest(U))
      /\ Cardinality(Rest(U)) = Cardinality(U) - 1
  BY <1>1, <1>2, FS_RemoveElement DEF Rest
<1>4. Cardinality(U) \in Nat /\ Cardinality(Rest(U)) \in Nat
  BY <1>2, <1>3, FS_CardinalityType
<1>5. Rest(U) \in SUBSET J
  BY DEF Rest
<1>6. QED
  BY <1>1, <1>3, <1>4, <1>5

\* An argument over the subsets of a finite set: what is true of the empty set,
\* and of a set when it is true of the rest, is true of all.
LEMMA SubsetInduction ==
  ASSUME NEW J, IsFiniteSet(J), NEW G \in SUBSET (SUBSET J),
         {} \in G,
         \A U \in SUBSET J : U # {} /\ Rest(U) \in G => U \in G
  PROVE  G = SUBSET J
<1> DEFINE T == {Cardinality(U) : U \in {U \in SUBSET J : U \notin G}}
<1>1. T \in SUBSET Nat
  BY FS_Subset, FS_CardinalityType
<1>2. SUFFICES ASSUME T # {} PROVE FALSE
  OBVIOUS
<1>3. PICK n \in T : \A m \in T : n <= m
  BY <1>1, <1>2, LeastNumber
<1>4. PICK U \in SUBSET J : U \notin G /\ n = Cardinality(U)
  BY <1>3
<1>5. U # {}
  BY <1>4
<1>6. Rest(U) \notin G /\ Rest(U) \in SUBSET J /\ Cardinality(Rest(U)) < n
  BY <1>4, <1>5, RestIsSmaller
<1>7. Cardinality(Rest(U)) \in T
  BY <1>6
<1>8. QED
  BY <1>1, <1>3, <1>6, <1>7

\* The sums of the parts of J are well defined.
LEMMA PartialSumsAdd ==
  ASSUME NEW J, IsFiniteSet(J), NEW f \in [J -> Nat]
  PROVE  /\ PartialSums(f, J) \in [SUBSET J -> Nat]
         /\ \A U \in SUBSET J : PartialSums(f, J)[U] = AddUp(PartialSums(f, J), f, U)
<1> DEFINE Good(h, n) == /\ h \in [SUBSET J -> Nat]
                         /\ \A U \in SUBSET J : Cardinality(U) <= n => h[U] = AddUp(h, f, U)
           T == {n \in Nat : ~ \E h : Good(h, n)}
<1>1. \E h : Good(h, 0)
  <2> DEFINE h == [U \in SUBSET J |-> 0]
  <2>1. \A U \in SUBSET J : Cardinality(U) <= 0 => U = {}
    BY FS_Subset, FS_EmptySet, FS_CardinalityType
  <2>2. Good(h, 0)
    BY <2>1 DEF AddUp
  <2>3. QED
    BY <2>2
<1>2. ASSUME NEW n \in Nat, NEW h, Good(h, n)
      PROVE  \E g : Good(g, n + 1)
  <2> DEFINE g == [U \in SUBSET J |-> AddUp(h, f, U)]
  <2>1. \A U \in SUBSET J : AddUp(h, f, U) \in Nat
    <3> TAKE U \in SUBSET J
    <3>1. U # {} => One(U) \in J /\ Rest(U) \in SUBSET J
      BY RestIsSmaller
    <3>2. QED
      BY <1>2, <3>1 DEF AddUp, One, Rest
  <2>2. \A U \in SUBSET J : Cardinality(U) <= n => g[U] = h[U]
    BY <1>2
  <2>3. ASSUME NEW U \in SUBSET J, Cardinality(U) <= n + 1
        PROVE  g[U] = AddUp(g, f, U)
    <3>1. CASE U = {}
      BY <3>1 DEF AddUp
    <3>2. CASE U # {}
      <4>1. Rest(U) \in SUBSET J /\ Cardinality(Rest(U)) <= n
        BY <2>3, <3>2, RestIsSmaller
      <4>2. g[Rest(U)] = h[Rest(U)]
        BY <2>2, <4>1
      <4>3. QED
        BY <3>2, <4>2 DEF AddUp, One, Rest
    <3>3. QED
      BY <3>1, <3>2
  <2>4. Good(g, n + 1)
    BY <2>1, <2>3
  <2>5. QED
    BY <2>4
<1>3. T = {}
  <2>1. SUFFICES ASSUME T # {} PROVE FALSE
    OBVIOUS
  <2>2. T \in SUBSET Nat
    OBVIOUS
  <2> HIDE DEF T
  <2>3. PICK n \in T : \A m \in T : n <= m
    BY <2>1, <2>2, LeastNumber
  <2> USE DEF T
  <2>4. n \in Nat /\ n # 0
    BY <1>1, <2>3
  <2>5. n - 1 \in Nat /\ n - 1 \notin T
    <3>1. n - 1 \in Nat /\ ~(n <= n - 1)
      BY <2>4
    <3>2. QED
      BY <2>3, <3>1
  <2>6. \E h : Good(h, n - 1)
    BY <2>5
  <2>7. \E h : Good(h, (n - 1) + 1)
    BY <1>2, <2>5, <2>6
  <2>8. QED
    BY <2>3, <2>4, <2>7
<1>4. Cardinality(J) \in Nat
  BY FS_CardinalityType
<1>5. PICK h : Good(h, Cardinality(J))
  BY <1>3, <1>4
<1>6. \A U \in SUBSET J : Cardinality(U) <= Cardinality(J)
  BY FS_Subset
<1>7. IsPartialSums(h, f, J)
  BY <1>5, <1>6 DEF IsPartialSums
<1>8. IsPartialSums(PartialSums(f, J), f, J)
  BY <1>7 DEF PartialSums
<1> DEFINE p == PartialSums(f, J)
<1>9. \A U \in SUBSET J : p[U] = AddUp(p, f, U)
  BY <1>8 DEF IsPartialSums
<1>10. p \in [SUBSET J -> Nat]
  <2>1. p = [U \in SUBSET J |-> p[U]]
    BY <1>8 DEF IsPartialSums
  <2> HIDE DEF p
  <2> DEFINE G == {U \in SUBSET J : p[U] \in Nat}
  <2>2. {} \in G
    <3>1. AddUp(p, f, {}) = 0
      BY DEF AddUp
    <3>2. p[{}] = 0
      BY <1>9, <3>1
    <3>3. QED
      BY <3>2
  <2>3. ASSUME NEW U \in SUBSET J, U # {}, Rest(U) \in G
        PROVE  U \in G
    <3>1. f[One(U)] \in Nat
      BY <2>3, RestIsSmaller
    <3>2. p[U] = f[One(U)] + p[Rest(U)]
      BY <1>9, <2>3 DEF AddUp, One, Rest
    <3>3. QED
      BY <2>3, <3>1, <3>2
  <2>4. G \in SUBSET (SUBSET J)
    OBVIOUS
  <2> HIDE DEF G
  <2>5. G = SUBSET J
    BY <2>2, <2>3, <2>4, SubsetInduction
  <2> USE DEF G
  <2>6. \A U \in SUBSET J : p[U] \in Nat
    BY <2>5
  <2> QED
    BY <2>1, <2>6
<1>11. QED
  BY <1>9, <1>10

\* p gives the sum of f over each part of J.
Sums(p, f, J) ==
  /\ p \in [SUBSET J -> Nat]
  /\ p[J] = SumFunction(f)
  /\ p[{}] = 0
  /\ \A U \in SUBSET J : U # {} => p[U] = f[One(U)] + p[Rest(U)]

\* The sum as steps over the parts: nothing for the empty set, and one more
\* value than the rest for any other.
LEMMA SumSteps ==
  ASSUME NEW J, IsFiniteSet(J), NEW f \in [J -> Nat]
  PROVE  \E p : Sums(p, f, J)
<1> DEFINE p == PartialSums(f, J)
<1>1. p \in [SUBSET J -> Nat] /\ \A U \in SUBSET J : p[U] = AddUp(p, f, U)
  BY PartialSumsAdd
<1>2. p[J] = SumFunction(f)
  BY SumIsPartial
<1> HIDE DEF p
<1>3. AddUp(p, f, {}) = 0
  BY DEF AddUp
<1>4. \A U \in SUBSET J : U # {} => AddUp(p, f, U) = f[One(U)] + p[Rest(U)]
  BY DEF AddUp, One, Rest
<1>5. QED
  BY <1>1, <1>2, <1>3, <1>4 DEF Sums

\* A sum of naturals is one.
LEMMA SumIsNat ==
  ASSUME NEW J, IsFiniteSet(J), NEW f \in [J -> Nat]
  PROVE  SumFunction(f) \in Nat
<1>1. PICK p : Sums(p, f, J)
  BY SumSteps
<1>2. QED
  BY <1>1 DEF Sums

\* A sum of sums, term by term.
LEMMA SumPlus ==
  ASSUME NEW J, IsFiniteSet(J), NEW f \in [J -> Nat], NEW g \in [J -> Nat],
         NEW h \in [J -> Nat], \A x \in J : h[x] = f[x] + g[x]
  PROVE  SumFunction(h) = SumFunction(f) + SumFunction(g)
<1>1. PICK p : Sums(p, f, J)
  BY SumSteps
<1>2. PICK q : Sums(q, g, J)
  BY SumSteps
<1>3. PICK r : Sums(r, h, J)
  BY SumSteps
<1> USE DEF Sums
<1> DEFINE G == {U \in SUBSET J : r[U] = p[U] + q[U]}
<1>4. {} \in G
  BY <1>1, <1>2, <1>3
<1>5. ASSUME NEW U \in SUBSET J, U # {}, Rest(U) \in G
      PROVE  U \in G
  <2> DEFINE x == One(U)
  <2>1. x \in J /\ Rest(U) \in SUBSET J
    BY <1>5, RestIsSmaller
  <2>2. p[U] = f[x] + p[Rest(U)] /\ q[U] = g[x] + q[Rest(U)] /\ r[U] = h[x] + r[Rest(U)]
    BY <1>1, <1>2, <1>3, <1>5
  <2> HIDE DEF x
  <2>3. r[Rest(U)] = p[Rest(U)] + q[Rest(U)] /\ h[x] = f[x] + g[x]
    BY <1>5, <2>1
  <2>4. p[Rest(U)] \in Nat /\ q[Rest(U)] \in Nat /\ f[x] \in Nat /\ g[x] \in Nat
    BY <1>1, <1>2, <2>1
  <2>5. QED
    BY <2>2, <2>3, <2>4
<1>6. G \in SUBSET (SUBSET J)
  OBVIOUS
<1> HIDE DEF G
<1>7. G = SUBSET J
  BY <1>4, <1>5, <1>6, SubsetInduction
<1> USE DEF G
<1>8. r[J] = p[J] + q[J]
  BY <1>7
<1>9. QED
  BY <1>1, <1>2, <1>3, <1>8

\* What bounds each term bounds the sum: with c = 1, sums grow with their terms.
LEMMA SumWithin ==
  ASSUME NEW J, IsFiniteSet(J), NEW c \in Nat, NEW f \in [J -> Nat], NEW g \in [J -> Nat],
         \A x \in J : f[x] <= c * g[x]
  PROVE  SumFunction(f) <= c * SumFunction(g)
<1>1. PICK p : Sums(p, f, J)
  BY SumSteps
<1>2. PICK q : Sums(q, g, J)
  BY SumSteps
<1> USE DEF Sums
<1> DEFINE G == {U \in SUBSET J : p[U] <= c * q[U]}
<1>3. {} \in G
  BY <1>1, <1>2
<1>4. ASSUME NEW U \in SUBSET J, U # {}, Rest(U) \in G
      PROVE  U \in G
  <2> DEFINE x == One(U)
  <2>1. x \in J /\ Rest(U) \in SUBSET J
    BY <1>4, RestIsSmaller
  <2>2. p[U] = f[x] + p[Rest(U)] /\ q[U] = g[x] + q[Rest(U)]
    BY <1>1, <1>2, <1>4
  <2> HIDE DEF x
  <2>3. p[Rest(U)] <= c * q[Rest(U)] /\ f[x] <= c * g[x]
    BY <1>4, <2>1
  <2>4. p[Rest(U)] \in Nat /\ q[Rest(U)] \in Nat /\ f[x] \in Nat /\ g[x] \in Nat
    BY <1>1, <1>2, <2>1
  <2>5. \A a, b, d, e \in Nat : d <= c * a /\ e <= c * b => d + e <= c * (a + b)
    OBVIOUS
  <2>6. f[x] + p[Rest(U)] <= c * (g[x] + q[Rest(U)])
    BY <2>3, <2>4, <2>5
  <2>7. QED
    BY <2>2, <2>6
<1>5. G \in SUBSET (SUBSET J)
  OBVIOUS
<1> HIDE DEF G
<1>6. G = SUBSET J
  BY <1>3, <1>4, <1>5, SubsetInduction
<1> USE DEF G
<1>7. p[J] <= c * q[J]
  BY <1>6
<1>8. QED
  BY <1>1, <1>2, <1>7

\* A sum of equal terms over a part counts it.
LEMMA SumCount ==
  ASSUME NEW J, IsFiniteSet(J), NEW S \in SUBSET J, NEW c \in Nat, NEW f \in [J -> Nat],
         \A x \in J : f[x] = IF x \in S THEN c ELSE 0
  PROVE  SumFunction(f) = Cardinality(S) * c
<1>1. PICK p : Sums(p, f, J)
  BY SumSteps
<1> USE DEF Sums
<1> DEFINE G == {U \in SUBSET J : p[U] = Cardinality(U \cap S) * c}
<1>2. {} \in G
  <2>1. {} \cap S = {} /\ Cardinality({}) = 0
    BY FS_EmptySet
  <2>2. QED
    BY <1>1, <2>1
<1>3. ASSUME NEW U \in SUBSET J, U # {}, Rest(U) \in G
      PROVE  U \in G
  <2> DEFINE x == One(U)
  <2>1. x \in U /\ x \in J /\ Rest(U) \in SUBSET J
    BY <1>3, RestIsSmaller
  <2>2. p[U] = f[x] + p[Rest(U)]
    BY <1>1, <1>3
  <2>3. Rest(U) = U \ {x}
    BY DEF Rest
  <2> HIDE DEF x
  <2>4. IsFiniteSet(U \cap S) /\ IsFiniteSet(Rest(U) \cap S)
    BY <2>1, FS_Subset
  <2>5. Cardinality(U \cap S) \in Nat /\ Cardinality(Rest(U) \cap S) \in Nat
    BY <2>4, FS_CardinalityType
  <2>6. CASE x \in S
    <3>1. Rest(U) \cap S = (U \cap S) \ {x}
      BY <2>3
    <3>2. Cardinality(Rest(U) \cap S) = Cardinality(U \cap S) - 1
      <4>1. x \in U \cap S
        BY <2>1, <2>6
      <4>2. Cardinality((U \cap S) \ {x})
              = IF x \in U \cap S THEN Cardinality(U \cap S) - 1 ELSE Cardinality(U \cap S)
        BY <2>4, FS_RemoveElement
      <4>3. QED
        BY <3>1, <4>1, <4>2
    <3>3. p[U] = c + Cardinality(Rest(U) \cap S) * c
      BY <1>3, <2>1, <2>2, <2>6
    <3>4. \A m \in Nat, k \in Nat : k = m - 1 => c + k * c = m * c
      OBVIOUS
    <3>5. QED
      BY <2>5, <3>2, <3>3, <3>4
  <2>7. CASE x \notin S
    <3>1. Rest(U) \cap S = U \cap S
      BY <2>3, <2>7
    <3>2. p[U] = p[Rest(U)]
      BY <1>1, <2>1, <2>2, <2>7
    <3>3. QED
      BY <1>3, <3>1, <3>2
  <2>8. QED
    BY <2>6, <2>7
<1>4. G \in SUBSET (SUBSET J)
  OBVIOUS
<1> HIDE DEF G
<1>5. G = SUBSET J
  BY <1>2, <1>3, <1>4, SubsetInduction
<1> USE DEF G
<1>6. p[J] = Cardinality(J \cap S) * c
  BY <1>5
<1>7. J \cap S = S
  OBVIOUS
<1>8. QED
  BY <1>1, <1>6, <1>7

\* A sum with a single term that is not 0.
LEMMA SumOne ==
  ASSUME NEW J, IsFiniteSet(J), NEW j \in J, NEW f \in [J -> Nat],
         \A x \in J : x # j => f[x] = 0
  PROVE  SumFunction(f) = f[j]
<1> DEFINE c == f[j]
<1>1. c \in Nat /\ {j} \in SUBSET J /\ \A x \in J : f[x] = IF x \in {j} THEN c ELSE 0
  OBVIOUS
<1> HIDE DEF c
<1>2. SumFunction(f) = Cardinality({j}) * c
  BY <1>1, SumCount
<1>3. Cardinality({j}) = 1
  BY FS_Singleton
<1>4. QED
  BY <1>1, <1>2, <1>3 DEF c

-----------------------------------------------------------------------------
(* What a state weighs *)

\* What one invocation adds to the charge, apart from the commas.
Weight(t, j) ==
  RowSize(t, j)
    + (IF t.change[j] = 0 THEN 0 ELSE EntryBytes + FactBytes(t.fact[j]) + Width)
    + (IF j \in Rows(t) \cup t.outputPruned THEN IdBytes + 1 ELSE 0)
    + (IF j \in Entries(t) \cup t.historyPruned THEN IdBytes + 1 ELSE 0)
    + (IF j \in Pending(t) THEN CompletionReserve ELSE 0)

\* The invocations' part of the charge.
Weighed(t) == SumFunction([j \in Job |-> Weight(t, j)])

\* The first ID of an array has no comma before it.
Uncommaed(S) == IF S = {} THEN 0 ELSE 1

\* The sizes and limits are naturals.
LEMMA SizesAreNat ==
  /\ RowBytes \in Nat /\ EntryBytes \in Nat /\ OpenBytes \in Nat /\ EndBytes \in Nat
  /\ IdBytes \in Nat /\ MaxJobs \in Nat /\ MaxHistory \in Nat /\ StateBytes \in Nat
  /\ OutputLimit \in Nat /\ CompletionReserve \in Nat /\ Blowup \in Nat
  /\ Width \in Nat /\ Width >= 1
  BY StorageShape

\* A change number takes from one digit to the full width set aside for it.
LEMMA DigitsFit ==
  ASSUME NEW n
  PROVE  Digits(n) \in 1..Width
<1> DEFINE D == {d \in 1..Width - 1 : Radix^d <= n}
<1>1. Width - 1 \in Nat /\ 1 \in Int /\ Width - 1 \in Int
  BY SizesAreNat
<1>2. IsFiniteSet(1..Width - 1) /\ Cardinality(1..Width - 1) = Width - 1
  BY <1>1, FS_Interval
<1>3. D \in SUBSET (1..Width - 1)
  OBVIOUS
<1> HIDE DEF D
<1>4. IsFiniteSet(D) /\ Cardinality(D) <= Width - 1
  BY <1>2, <1>3, FS_Subset
<1>5. Cardinality(D) \in Nat
  BY <1>4, FS_CardinalityType
<1>6. Digits(n) = 1 + Cardinality(D)
  BY DEF Digits, D
<1>7. QED
  BY <1>1, <1>4, <1>5, <1>6, SizesAreNat

\* With the comma that it saves, an array takes as much for each ID.
LEMMA IdArrayCounts ==
  ASSUME NEW S \in SUBSET Job
  PROVE  /\ IdArray(S) \in Nat /\ Cardinality(S) \in Nat
         /\ IdArray(S) + Uncommaed(S) = Cardinality(S) * (IdBytes + 1)
<1>1. IsFiniteSet(S)
  BY StorageShape, FS_Subset
<1>2. Cardinality(S) \in Nat /\ (Cardinality(S) = 0 <=> S = {})
  BY <1>1, FS_CardinalityType, FS_EmptySet
<1>3. \A a, b \in Nat : a * (b + 1) = a * b + a /\ a * b \in Nat
  OBVIOUS
<1>4. IdBytes \in Nat
  BY SizesAreNat
<1>5. Cardinality(S) * (IdBytes + 1) = Cardinality(S) * IdBytes + Cardinality(S)
      /\ Cardinality(S) * IdBytes \in Nat
  BY <1>2, <1>3, <1>4
<1>6. CASE S = {}
  BY <1>2, <1>5, <1>6 DEF IdArray, Uncommaed
<1>7. CASE S # {}
  BY <1>2, <1>5, <1>7 DEF IdArray, Uncommaed
<1>8. QED
  BY <1>6, <1>7

\* What an entry takes and the headroom it is charged do not depend on its number.
LEMMA PartsAreNat ==
  ASSUME NEW t \in Disk, NEW j \in Job
  PROVE  /\ RowSize(t, j) \in Nat /\ EntrySize(t, j) \in Nat
         /\ Headroom(t, j) \in Nat /\ Weight(t, j) \in Nat
         /\ FactBytes(t.fact[j]) \in Nat
         /\ EntrySize(t, j) + Headroom(t, j)
              = IF t.change[j] = 0 THEN 0 ELSE EntryBytes + FactBytes(t.fact[j]) + Width
<1> USE SizesAreNat
<1>1. FactBytes(t.fact[j]) \in Nat
  BY DEF FactBytes
<1>2. RowSize(t, j) \in Nat
  BY DEF RowSize
<1>3. Digits(t.change[j]) \in Nat /\ Digits(t.change[j]) <= Width
  BY DigitsFit
<1>4. /\ EntrySize(t, j) \in Nat /\ Headroom(t, j) \in Nat
      /\ EntrySize(t, j) + Headroom(t, j)
           = IF t.change[j] = 0 THEN 0 ELSE EntryBytes + FactBytes(t.fact[j]) + Width
  BY <1>1, <1>3 DEF EntrySize, Headroom
<1>5. Weight(t, j) \in Nat
  BY <1>1, <1>2 DEF Weight
<1>6. QED
  BY <1>1, <1>2, <1>4, <1>5

\* The charge is a sum over the invocations and what does not depend on them.
LEMMA ChargeWeighs ==
  ASSUME NEW t \in Disk
  PROVE  /\ CompletionCharge(t) \in Nat /\ Weighed(t) \in Nat /\ Metadata(t) \in Nat
         /\ CompletionCharge(t) + Uncommaed(t.outputPruned) + Uncommaed(t.historyPruned)
              = Weighed(t) + Width + t.other + OutputLimit * Blowup
         /\ Metadata(t) + OutputLimit * Blowup <= CompletionCharge(t)
<1> DEFINE c     == IdBytes + 1
           sizes == [j \in Job |-> RowSize(t, j) + EntrySize(t, j)]
           heads == [j \in Job |-> Headroom(t, j)]
           rows  == [j \in Job |-> IF j \in Rows(t) \cup t.outputPruned THEN c ELSE 0]
           ents  == [j \in Job |-> IF j \in Entries(t) \cup t.historyPruned THEN c ELSE 0]
           pend  == [j \in Job |-> IF j \in Pending(t) THEN CompletionReserve ELSE 0]
           one   == [j \in Job |-> sizes[j] + heads[j]]
           two   == [j \in Job |-> one[j] + rows[j]]
           three == [j \in Job |-> two[j] + ents[j]]
           all   == [j \in Job |-> Weight(t, j)]
<1>1. IsFiniteSet(Job) /\ c \in Nat /\ CompletionReserve \in Nat
  BY StorageShape, SizesAreNat
<1>2. /\ sizes \in [Job -> Nat] /\ heads \in [Job -> Nat] /\ all \in [Job -> Nat]
  BY PartsAreNat
<1>3. /\ rows \in [Job -> Nat] /\ ents \in [Job -> Nat] /\ pend \in [Job -> Nat]
  BY <1>1
<1>4. \A j \in Job : all[j] = three[j] + pend[j]
  <2> TAKE j \in Job
  <2>1. RowSize(t, j) \in Nat /\ EntrySize(t, j) \in Nat /\ Headroom(t, j) \in Nat
    BY PartsAreNat
  <2>2. EntrySize(t, j) + Headroom(t, j)
          = IF t.change[j] = 0 THEN 0 ELSE EntryBytes + FactBytes(t.fact[j]) + Width
    BY PartsAreNat
  <2>3. Weight(t, j) = RowSize(t, j) + (EntrySize(t, j) + Headroom(t, j))
                         + rows[j] + ents[j] + pend[j]
    BY <2>2 DEF Weight
  <2>4. three[j] = RowSize(t, j) + EntrySize(t, j) + Headroom(t, j) + rows[j] + ents[j]
    OBVIOUS
  <2>5. rows[j] \in Nat /\ ents[j] \in Nat /\ pend[j] \in Nat
    BY <1>3
  <2> HIDE DEF rows, ents, pend, three
  <2>6. QED
    BY <2>1, <2>3, <2>4, <2>5
<1> HIDE DEF sizes, heads, rows, ents, pend, all
<1>5. one \in [Job -> Nat] /\ \A j \in Job : one[j] = sizes[j] + heads[j]
  BY <1>2
<1> HIDE DEF one
<1>6. two \in [Job -> Nat] /\ \A j \in Job : two[j] = one[j] + rows[j]
  BY <1>3, <1>5
<1> HIDE DEF two
<1>7. three \in [Job -> Nat] /\ \A j \in Job : three[j] = two[j] + ents[j]
  BY <1>3, <1>6
<1> HIDE DEF three
<1>8. SumFunction(one) = SumFunction(sizes) + SumFunction(heads)
  BY <1>1, <1>2, <1>5, SumPlus
<1>9. SumFunction(two) = SumFunction(one) + SumFunction(rows)
  <2> HIDE DEF c
  <2>1. QED
    BY <1>1, <1>3, <1>5, <1>6, SumPlus
<1>10. SumFunction(three) = SumFunction(two) + SumFunction(ents)
  BY <1>1, <1>3, <1>6, <1>7, SumPlus
<1>11. SumFunction(all) = SumFunction(three) + SumFunction(pend)
  BY <1>1, <1>2, <1>3, <1>4, <1>7, SumPlus
<1>12. /\ SumFunction(sizes) \in Nat /\ SumFunction(heads) \in Nat
       /\ SumFunction(rows) \in Nat /\ SumFunction(ents) \in Nat
       /\ SumFunction(pend) \in Nat
  BY <1>1, <1>2, <1>3, SumIsNat
<1>13. SumFunction(rows) = Cardinality(Rows(t) \cup t.outputPruned) * c
  <2>1. Rows(t) \cup t.outputPruned \in SUBSET Job
    BY DEF Rows, Disk
  <2>2. \A j \in Job : rows[j] = IF j \in Rows(t) \cup t.outputPruned THEN c ELSE 0
    BY DEF rows
  <2> HIDE DEF c
  <2>3. QED
    BY <1>1, <1>3, <2>1, <2>2, SumCount
<1>14. SumFunction(ents) = Cardinality(Entries(t) \cup t.historyPruned) * c
  <2>1. Entries(t) \cup t.historyPruned \in SUBSET Job
    BY DEF Entries, Disk
  <2>2. \A j \in Job : ents[j] = IF j \in Entries(t) \cup t.historyPruned THEN c ELSE 0
    BY DEF ents
  <2> HIDE DEF c
  <2>3. QED
    BY <1>1, <1>3, <2>1, <2>2, SumCount
<1>15. SumFunction(pend) = Cardinality(Pending(t)) * CompletionReserve
  <2>1. Pending(t) \in SUBSET Job
    BY DEF Pending
  <2>2. \A j \in Job : pend[j] = IF j \in Pending(t) THEN CompletionReserve ELSE 0
    BY DEF pend
  <2>3. QED
    BY <1>1, <1>3, <2>1, <2>2, SumCount
<1>16. ASSUME NEW A \in SUBSET Job, NEW B \in SUBSET Job
       PROVE  /\ IdArray(B) + Uncommaed(B) + Cardinality(A \ B) * c = Cardinality(A \cup B) * c
              /\ IdArray(B) \in Nat /\ Cardinality(A \ B) * c \in Nat
  <2>1. IsFiniteSet(A) /\ IsFiniteSet(B) /\ IsFiniteSet(A \ B)
    BY <1>1, FS_Subset
  <2>2. Cardinality(A \cup B) = Cardinality(A \ B) + Cardinality(B)
    <3>1. (A \ B) \cup B = A \cup B /\ (A \ B) \cap B = {}
      OBVIOUS
    <3>2. Cardinality((A \ B) \cup B)
            = Cardinality(A \ B) + Cardinality(B) - Cardinality((A \ B) \cap B)
      BY <2>1, FS_Union
    <3>3. Cardinality(A \ B) \in Nat /\ Cardinality(B) \in Nat /\ Cardinality({}) = 0
      BY <2>1, FS_CardinalityType, FS_EmptySet
    <3>4. Cardinality((A \ B) \cap B) = 0
      BY <3>1, <3>3
    <3> QED
      BY <3>1, <3>2, <3>3, <3>4
  <2>3. Cardinality(A \ B) \in Nat /\ Cardinality(B) \in Nat
    BY <2>1, FS_CardinalityType
  <2>4. IdArray(B) \in Nat /\ IdArray(B) + Uncommaed(B) = Cardinality(B) * c
    BY IdArrayCounts
  <2> HIDE DEF c
  <2>5. \A m, n \in Nat : (m + n) * c = m * c + n * c /\ m * c \in Nat
    BY <1>1
  <2>6. Cardinality(A \cup B) * c = Cardinality(A \ B) * c + Cardinality(B) * c
        /\ Cardinality(A \ B) * c \in Nat
    BY <2>2, <2>3, <2>5
  <2>7. Uncommaed(B) \in Nat
    BY DEF Uncommaed
  <2>8. QED
    BY <2>4, <2>6, <2>7
<1> DEFINE ro == Cardinality(Rows(t) \ t.outputPruned) * c
           eh == Cardinality(Entries(t) \ t.historyPruned) * c
           pr == Cardinality(Pending(t)) * CompletionReserve
           ia == IdArray(t.outputPruned)
           ib == IdArray(t.historyPruned)
           K  == OutputLimit * Blowup
<1>17. /\ ia + Uncommaed(t.outputPruned) + ro = SumFunction(rows)
       /\ ib + Uncommaed(t.historyPruned) + eh = SumFunction(ents)
       /\ ia \in Nat /\ ib \in Nat /\ ro \in Nat /\ eh \in Nat
  <2>1. Rows(t) \in SUBSET Job /\ t.outputPruned \in SUBSET Job
        /\ Entries(t) \in SUBSET Job /\ t.historyPruned \in SUBSET Job
    BY DEF Rows, Entries, Disk
  <2>2. QED
    BY <1>13, <1>14, <1>16, <2>1
<1>18. pr \in Nat /\ pr = SumFunction(pend)
  BY <1>12, <1>15
<1>19. K \in Nat
  BY SizesAreNat
<1>20. Digits(t.clock) \in Nat /\ Digits(t.clock) <= Width /\ Width \in Nat /\ t.other \in Nat
  BY DigitsFit, SizesAreNat DEF Disk
<1>21. Metadata(t) = SumFunction(sizes) + Digits(t.clock) + t.other + ia + ib
  BY DEF Metadata, sizes
<1>22. CompletionCharge(t)
         = Metadata(t) + ro + eh + (Width - Digits(t.clock)) + SumFunction(heads) + K + pr
  BY DEF CompletionCharge, SettledCharge, heads
<1>23. Weighed(t) = SumFunction(all)
  BY DEF Weighed, all
<1>24. Uncommaed(t.outputPruned) \in Nat /\ Uncommaed(t.historyPruned) \in Nat
  BY DEF Uncommaed
<1> HIDE DEF ro, eh, pr, ia, ib, K
<1>25. /\ CompletionCharge(t) \in Nat /\ Weighed(t) \in Nat /\ Metadata(t) \in Nat
       /\ CompletionCharge(t) + Uncommaed(t.outputPruned) + Uncommaed(t.historyPruned)
            = Weighed(t) + Width + t.other + K
       /\ Metadata(t) + K <= CompletionCharge(t)
  <2>1. Weighed(t) = SumFunction(sizes) + SumFunction(heads) + SumFunction(rows)
                       + SumFunction(ents) + pr
    BY <1>8, <1>9, <1>10, <1>11, <1>12, <1>18, <1>23
  <2> DEFINE a  == SumFunction(sizes)
             b  == SumFunction(heads)
             uo == Uncommaed(t.outputPruned)
             uh == Uncommaed(t.historyPruned)
             d  == Digits(t.clock)
             w  == Weighed(t)
             m  == Metadata(t)
             cc == CompletionCharge(t)
  <2>2. /\ a \in Nat /\ b \in Nat /\ uo \in Nat /\ uh \in Nat /\ d \in Nat /\ d <= Width
        /\ Width \in Nat /\ t.other \in Nat /\ ia \in Nat /\ ib \in Nat /\ ro \in Nat
        /\ eh \in Nat /\ pr \in Nat /\ K \in Nat
    BY <1>12, <1>17, <1>18, <1>19, <1>20, <1>24
  <2>3. w = a + b + (ia + uo + ro) + (ib + uh + eh) + pr
    BY <1>17, <2>1
  <2>4. m = a + d + t.other + ia + ib
    BY <1>21
  <2>5. cc = m + ro + eh + (Width - d) + b + K + pr
    BY <1>22
  <2> HIDE DEF a, b, uo, uh, d, w, m, cc
  <2>6. /\ cc \in Nat /\ w \in Nat /\ m \in Nat
        /\ cc + uo + uh = w + Width + t.other + K
        /\ m + K <= cc
    BY <2>2, <2>3, <2>4, <2>5
  <2>7. QED
    BY <2>6 DEF uo, uh, w, m, cc
<1>26. QED
  BY <1>25 DEF K

\* No output of a state within its budget takes more than what is charged for it.
LEMMA EncodedWithin ==
  ASSUME NEW t \in Disk, OutputBytes(t) <= OutputLimit
  PROVE  /\ Encoded(t) <= CompletionCharge(t)
         /\ Encoded(t) \in Nat /\ CompletionCharge(t) \in Nat /\ OutputBytes(t) \in Nat
<1> DEFINE json == [j \in Job |-> Json[t.out[j]] + Json[t.copy[j]]]
           raw  == [j \in Job |-> Raw[t.out[j]] + Raw[t.copy[j]]]
<1>1. \A j \in Job : t.out[j] \in Output /\ t.copy[j] \in Output
  BY DEF Disk
<1>2. \A o \in Output : Json[o] \in Nat /\ Raw[o] \in Nat /\ Json[o] <= Blowup * Raw[o]
  BY StorageShape, StoragePolicy
<1>3. json \in [Job -> Nat] /\ raw \in [Job -> Nat]
  BY <1>1, <1>2
<1>4. Blowup \in Nat /\ OutputLimit \in Nat /\ IsFiniteSet(Job)
  BY SizesAreNat, StorageShape
<1>5. \A j \in Job : json[j] <= Blowup * raw[j]
  <2> TAKE j \in Job
  <2>1. \A a, b, x, y \in Nat : x <= Blowup * a /\ y <= Blowup * b => x + y <= Blowup * (a + b)
    BY <1>4
  <2>2. /\ Json[t.out[j]] \in Nat /\ Raw[t.out[j]] \in Nat
        /\ Json[t.copy[j]] \in Nat /\ Raw[t.copy[j]] \in Nat
        /\ Json[t.out[j]] <= Blowup * Raw[t.out[j]]
        /\ Json[t.copy[j]] <= Blowup * Raw[t.copy[j]]
    BY <1>1, <1>2
  <2>3. QED
    BY <2>1, <2>2
<1>6. Payload(t) = SumFunction(json) /\ OutputBytes(t) = SumFunction(raw)
  BY DEF Payload, OutputBytes
<1> HIDE DEF json, raw
<1>7. SumFunction(json) <= Blowup * SumFunction(raw)
  BY <1>3, <1>4, <1>5, SumWithin
<1>8. SumFunction(json) \in Nat /\ SumFunction(raw) \in Nat
  BY <1>3, <1>4, SumIsNat
<1>9. \A a, b \in Nat : a <= b => Blowup * a <= b * Blowup
  BY <1>4
<1>10. Payload(t) <= OutputLimit * Blowup
  <2>1. Blowup * SumFunction(raw) <= OutputLimit * Blowup
    BY <1>4, <1>6, <1>8, <1>9
  <2>2. Blowup * SumFunction(raw) \in Nat /\ OutputLimit * Blowup \in Nat
    BY <1>4, <1>8
  <2>3. QED
    BY <1>6, <1>7, <1>8, <2>1, <2>2
<1>11. /\ CompletionCharge(t) \in Nat /\ Metadata(t) \in Nat
       /\ Metadata(t) + OutputLimit * Blowup <= CompletionCharge(t)
  BY ChargeWeighs
<1>12. OutputLimit * Blowup \in Nat
  BY <1>4
<1>13. QED
  BY <1>6, <1>8, <1>10, <1>11, <1>12 DEF Encoded

\* What adds nothing to any invocation adds nothing to the charge.
LEMMA ChargeFollowsWeights ==
  ASSUME NEW t \in Disk, NEW u \in Disk,
         \A j \in Job : Weight(u, j) <= Weight(t, j),
         u.other = t.other,
         t.outputPruned \subseteq u.outputPruned,
         t.historyPruned \subseteq u.historyPruned
  PROVE  CompletionCharge(u) <= CompletionCharge(t)
<1> DEFINE f == [j \in Job |-> Weight(u, j)]
           g == [j \in Job |-> Weight(t, j)]
<1>1. f \in [Job -> Nat] /\ g \in [Job -> Nat] /\ \A j \in Job : f[j] <= 1 * g[j]
  BY PartsAreNat
<1>2. SumFunction(f) = Weighed(u) /\ SumFunction(g) = Weighed(t)
  BY DEF Weighed
<1> HIDE DEF f, g
<1>3. IsFiniteSet(Job) /\ 1 \in Nat
  BY StorageShape
<1>4. SumFunction(f) <= 1 * SumFunction(g)
  BY <1>1, <1>3, SumWithin
<1>5. /\ CompletionCharge(t) \in Nat /\ Weighed(t) \in Nat
      /\ CompletionCharge(t) + Uncommaed(t.outputPruned) + Uncommaed(t.historyPruned)
           = Weighed(t) + Width + t.other + OutputLimit * Blowup
  BY ChargeWeighs
<1>6. /\ CompletionCharge(u) \in Nat /\ Weighed(u) \in Nat
      /\ CompletionCharge(u) + Uncommaed(u.outputPruned) + Uncommaed(u.historyPruned)
           = Weighed(u) + Width + u.other + OutputLimit * Blowup
  BY ChargeWeighs
<1>7. Weighed(u) <= Weighed(t)
  BY <1>2, <1>4, <1>5
<1>8. /\ Uncommaed(t.outputPruned) <= Uncommaed(u.outputPruned)
      /\ Uncommaed(t.historyPruned) <= Uncommaed(u.historyPruned)
      /\ Uncommaed(t.outputPruned) \in Nat /\ Uncommaed(t.historyPruned) \in Nat
      /\ Uncommaed(u.outputPruned) \in Nat /\ Uncommaed(u.historyPruned) \in Nat
  BY DEF Uncommaed
<1>9. OutputLimit * Blowup \in Nat /\ Width \in Nat /\ t.other \in Nat
  BY SizesAreNat DEF Disk
<1>10. QED
  BY <1>5, <1>6, <1>7, <1>8, <1>9

-----------------------------------------------------------------------------
(* When entries changed *)

\* Changes are numbered by the clock, each with a number of its own.
Numbered(t) ==
  /\ \A j \in Job : t.change[j] <= t.clock
  /\ \A i, j \in Job : i # j /\ t.change[i] = t.change[j] => t.change[j] = 0

\* A row has a fact, and what has a fact has an entry.
Placed(t) ==
  \A j \in Job :
    /\ t.row[j] # "absent" => t.fact[j] # "none"
    /\ t.fact[j] # "none" => t.change[j] # 0
    /\ j \in t.outputPruned => t.row[j] # "absent"

\* A stamped entry is the newest, and no other moves.
LEMMA StampedNumbers ==
  ASSUME NEW t \in Disk, Numbered(t), NEW j \in Job
  PROVE  /\ Numbered(Stamped(t, j))
         /\ Stamped(t, j).change[j] # 0 /\ Stamped(t, j).change[j] = Stamped(t, j).clock
         /\ t.change[j] <= Stamped(t, j).change[j]
         /\ \A i \in Job : i # j => Stamped(t, j).change[i] = t.change[i]
<1>1. /\ Stamped(t, j).change = [t.change EXCEPT ![j] = t.clock + 1]
      /\ Stamped(t, j).clock = t.clock + 1
  BY DEF Stamped, Disk
<1>2. t.clock \in Nat /\ \A i \in Job : t.change[i] \in Nat
  BY DEF Disk
<1>3. /\ Stamped(t, j).change[j] = t.clock + 1
      /\ \A i \in Job : i # j => Stamped(t, j).change[i] = t.change[i]
  BY <1>1 DEF Disk
<1> DEFINE c == Stamped(t, j).change
           k == Stamped(t, j).clock
<1> HIDE DEF c, k
<1>4. /\ k = t.clock + 1 /\ c[j] = t.clock + 1
      /\ \A i \in Job : i # j => c[i] = t.change[i]
  BY <1>1, <1>3 DEF c, k
<1>5. \A i \in Job : t.change[i] <= t.clock
  BY DEF Numbered
<1>6. \A i, h \in Job : i # h /\ t.change[i] = t.change[h] => t.change[h] = 0
  BY DEF Numbered
<1>7. \A i \in Job : c[i] <= k
  BY <1>2, <1>4, <1>5
<1>8. \A i, h \in Job : i # h /\ c[i] = c[h] => c[h] = 0
  BY <1>2, <1>4, <1>5, <1>6
<1>9. Numbered(Stamped(t, j))
  BY <1>7, <1>8 DEF Numbered, c, k
<1>10. QED
  BY <1>2, <1>3, <1>1, <1>5, <1>9

\* In a set of entries each has an age of its own, from 1 to the number of them.
LEMMA AgesRank ==
  ASSUME NEW t \in Disk, Numbered(t), NEW S \in SUBSET Job, \A j \in S : t.change[j] # 0
  PROVE  /\ IsFiniteSet(S) /\ Cardinality(S) \in Nat
         /\ \A j \in S : Age(t, S, j) \in 1..Cardinality(S)
         /\ \A i, j \in S : t.change[i] < t.change[j] <=> Age(t, S, i) < Age(t, S, j)
         /\ \A i, j \in S : Age(t, S, i) = Age(t, S, j) => i = j
<1>1. IsFiniteSet(S) /\ Cardinality(S) \in Nat
  BY StorageShape, FS_Subset, FS_CardinalityType
<1> DEFINE Up(j) == {i \in S : t.change[i] <= t.change[j]}
<1>2. \A j \in S : Age(t, S, j) = Cardinality(Up(j))
  BY DEF Age
<1>3. \A j \in S : t.change[j] \in Nat
  BY DEF Disk
<1>4. ASSUME NEW j \in S
      PROVE  /\ IsFiniteSet(Up(j)) /\ Cardinality(Up(j)) \in 1..Cardinality(S)
  <2>1. Up(j) \in SUBSET S /\ j \in Up(j)
    BY <1>3
  <2> HIDE DEF Up
  <2>2. IsFiniteSet(Up(j)) /\ Cardinality(Up(j)) <= Cardinality(S)
    BY <1>1, <2>1, FS_Subset
  <2>3. Cardinality(Up(j)) \in Nat /\ Cardinality(Up(j)) # 0
    BY <2>1, <2>2, FS_CardinalityType, FS_EmptySet
  <2>4. QED
    BY <1>1, <2>2, <2>3
<1>5. ASSUME NEW i \in S, NEW j \in S, t.change[i] < t.change[j]
      PROVE  Age(t, S, i) < Age(t, S, j)
  <2>1. Up(i) \in SUBSET Up(j) /\ j \in Up(j) /\ j \notin Up(i)
    BY <1>3, <1>5
  <2>2. IsFiniteSet(Up(j)) /\ Cardinality(Up(j)) \in Nat /\ Cardinality(Up(i)) \in Nat
    BY <1>1, <1>4
  <2> HIDE DEF Up
  <2>3. Cardinality(Up(i)) <= Cardinality(Up(j)) /\ Cardinality(Up(j)) # Cardinality(Up(i))
    BY <2>1, <2>2, FS_Subset
  <2>4. QED
    BY <1>2, <2>2, <2>3
<1>6. \A j \in S : Age(t, S, j) \in 1..Cardinality(S)
  BY <1>2, <1>4
<1>7. \A i, j \in S : i # j => t.change[i] < t.change[j] \/ t.change[j] < t.change[i]
  BY <1>3 DEF Numbered
<1>8. \A j \in S : Age(t, S, j) \in Int
  BY <1>1, <1>6
<1> HIDE DEF Up
<1>9. \A i, j \in S : t.change[i] < t.change[j] => Age(t, S, i) < Age(t, S, j)
  BY <1>5
<1>10. \A i, j \in S : Age(t, S, i) = Age(t, S, j) => i = j
  BY <1>7, <1>8, <1>9
<1>11. \A i, j \in S : Age(t, S, i) < Age(t, S, j) => t.change[i] < t.change[j]
  <2> TAKE i, j \in S
  <2>1. CASE i = j
    BY <1>8, <2>1
  <2>2. CASE i # j
    BY <1>7, <1>8, <1>9, <2>2
  <2>3. QED
    BY <2>1, <2>2
<1>12. QED
  BY <1>1, <1>6, <1>9, <1>10, <1>11

\* The k oldest are k, whatever their numbers are.
LEMMA OldestCount ==
  ASSUME NEW t \in Disk, Numbered(t), NEW S \in SUBSET Job, \A j \in S : t.change[j] # 0,
         NEW k \in 0..Cardinality(S)
  PROVE  Cardinality(OldestOf(t, S, k)) = k
<1> DEFINE n == Cardinality(S)
           age == [j \in S |-> Age(t, S, j)]
           O == OldestOf(t, S, k)
<1>1. IsFiniteSet(S) /\ n \in Nat
  BY AgesRank
<1>2. \A j \in S : Age(t, S, j) \in 1..n
  BY AgesRank
<1>3. \A i, j \in S : Age(t, S, i) = Age(t, S, j) => i = j
  BY AgesRank
<1>4. age \in [S -> 1..n] /\ \A i, j \in S : age[i] = age[j] => i = j
  BY <1>2, <1>3
<1>5. O = {j \in S : age[j] <= k}
  BY DEF OldestOf
<1> HIDE DEF n, age, O
<1> DEFINE R == {age[j] : j \in S}
<1>6. IsFiniteSet(1..n) /\ Cardinality(1..n) = n
  BY <1>1, FS_Interval
<1>7. R = 1..n
  <2>1. R \in SUBSET (1..n)
    BY <1>4
  <2>2. IsFiniteSet(R)
    BY <1>6, <2>1, FS_Subset
  <2>3. age \in Bijection(S, R)
    BY <1>4 DEF Bijection, Injection, Surjection, IsInjective
  <2>4. ExistsBijection(S, R)
    BY <2>3 DEF ExistsBijection
  <2>5. Cardinality(R) = Cardinality(S)
    BY <1>1, <2>2, <2>4, FS_Bijection
  <2> HIDE DEF R
  <2>6. QED
    BY <1>6, <2>1, <2>5, FS_Subset DEF n
<1>8. {age[j] : j \in O} = 1..k
  <2>1. k \in Nat /\ k <= n
    BY <1>1 DEF n
  <2>2. \A i \in 1..k : \E j \in S : age[j] = i
    <3>1. \A i \in 1..k : i \in R
      <4> HIDE DEF R
      <4>1. 1..k \subseteq 1..n
        BY <1>1, <2>1
      <4>2. QED
        BY <1>7, <4>1
    <3>2. QED
      BY <3>1
  <2>3. \A j \in O : age[j] \in 1..k
    BY <1>1, <1>4, <1>5, <2>1
  <2>4. \A i \in 1..k : \E j \in O : age[j] = i
    BY <1>5, <2>1, <2>2
  <2>5. QED
    BY <2>3, <2>4
<1>9. IsFiniteSet(O) /\ O \in SUBSET S
  BY <1>1, <1>5, FS_Subset
<1>10. k \in Nat /\ IsFiniteSet(1..k) /\ Cardinality(1..k) = k
  BY <1>1, FS_Interval DEF n
<1>11. [j \in O |-> age[j]] \in Bijection(O, 1..k)
  BY <1>4, <1>8, <1>9 DEF Bijection, Injection, Surjection, IsInjective
<1>12. ExistsBijection(O, 1..k)
  BY <1>11 DEF ExistsBijection
<1>13. Cardinality(O) = Cardinality(1..k)
  BY <1>9, <1>10, <1>12, FS_Bijection
<1>14. QED
  BY <1>10, <1>13 DEF O

-----------------------------------------------------------------------------
(* The stages of an update: numbers, weights and what is left *)

\* Whatever holds output can be given up, but for output that is not its invocation's.
LEMMA HoldersAreCandidates ==
  ASSUME NEW t, Sound(t)
  PROVE  \A j \in Job : /\ Holds(t, j) <=> j \in Candidates(t)
                        /\ t.out[j] # Empty => j \in Local(t)
                        /\ j \in Candidates(t) => t.fact[j] = "final"
<1> TAKE j \in Job
<1>1. t.out[j] # Empty => j \in Local(t) /\ t.fact[j] = "final"
  BY DEF Sound, Local
<1>2. t.copy[j] # Empty => j \in Replica(t) /\ t.fact[j] = "final"
  BY DEF Sound, Replica, EndFact
<1>3. QED
  BY <1>1, <1>2 DEF Holds, Candidates, Local, Replica

\* What is left when the payloads of S have gone.
LEMMA RemoveFields ==
  ASSUME NEW t, Sound(t), NEW S \in SUBSET Candidates(t)
  PROVE  LET u == RemovePayloads(t, S) IN
         /\ u.row = t.row /\ u.fact = t.fact /\ u.digest = t.digest /\ u.other = t.other
         /\ u.clock = t.clock + Cardinality(S)
         /\ u.outputPruned = t.outputPruned \cup (S \cap Local(t))
         /\ u.historyPruned = t.historyPruned \cup S
         /\ \A j \in Job :
              /\ u.change[j] = IF j \in S THEN t.clock + Age(t, S, j) ELSE t.change[j]
              /\ u.out[j]  = IF j \in S THEN Empty ELSE t.out[j]
              /\ u.copy[j] = IF j \in S THEN Empty ELSE t.copy[j]
<1>1. \A j \in S : t.out[j] # Empty => j \in Local(t)
  BY HoldersAreCandidates DEF Candidates, Local, Replica
<1>2. \A j \in Job : RemovePayloads(t, S).out[j]
                       = IF j \in S \cap Local(t) THEN Empty ELSE t.out[j]
  BY DEF Sound, Disk, RemovePayloads
<1>3. \A j \in Job : RemovePayloads(t, S).out[j] = IF j \in S THEN Empty ELSE t.out[j]
  BY <1>1, <1>2
<1>4. QED
  BY <1>3 DEF Sound, Disk, RemovePayloads

\* Giving up output renumbers what it changes in their order, and costs nothing.
LEMMA RemoveNumbers ==
  ASSUME NEW t, Sound(t), Numbered(t), Placed(t), NEW S \in SUBSET Candidates(t)
  PROVE  LET u == RemovePayloads(t, S) IN
         /\ Numbered(u) /\ Placed(u)
         /\ \A j \in Job : t.change[j] <= u.change[j] /\ (t.change[j] = 0 <=> u.change[j] = 0)
         /\ \A j \in Job : Weight(u, j) = Weight(t, j)
<1> DEFINE u == RemovePayloads(t, S)
           n == Cardinality(S)
<1>1. t \in Disk /\ S \in SUBSET Job
  BY DEF Sound, Candidates, Local, Replica
<1>2. \A j \in S : t.fact[j] = "final" /\ t.change[j] # 0
  BY <1>1, HoldersAreCandidates DEF Placed
<1>3. /\ n \in Nat
      /\ \A j \in S : Age(t, S, j) \in 1..n
      /\ \A i, j \in S : Age(t, S, i) = Age(t, S, j) => i = j
  BY <1>1, <1>2, AgesRank
<1>4. /\ u.row = t.row /\ u.fact = t.fact
      /\ u.clock = t.clock + n
      /\ u.outputPruned = t.outputPruned \cup (S \cap Local(t))
      /\ u.historyPruned = t.historyPruned \cup S
      /\ \A j \in Job :
           u.change[j] = IF j \in S THEN t.clock + Age(t, S, j) ELSE t.change[j]
  BY RemoveFields
<1>5. t.clock \in Nat /\ \A j \in Job : t.change[j] \in Nat /\ t.change[j] <= t.clock
  BY <1>1 DEF Disk, Numbered
<1> HIDE DEF u, n
<1>6. \A j \in Job : t.change[j] <= u.change[j] /\ u.change[j] <= u.clock
                     /\ (t.change[j] = 0 <=> u.change[j] = 0)
  <2> TAKE j \in Job
  <2>1. CASE j \in S
    <3>1. u.change[j] = t.clock + Age(t, S, j) /\ Age(t, S, j) \in 1..n /\ t.change[j] # 0
      BY <1>2, <1>3, <1>4, <2>1
    <3>2. QED
      BY <1>3, <1>4, <1>5, <3>1
  <2>2. CASE j \notin S
    BY <1>3, <1>4, <1>5, <2>2
  <2>3. QED
    BY <2>1, <2>2
<1>7. ASSUME NEW i \in Job, NEW j \in Job, i # j, u.change[i] = u.change[j]
      PROVE  u.change[j] = 0
  <2>1. CASE i \in S /\ j \in S
    BY <1>3, <1>4, <1>5, <1>7, <2>1
  <2>2. CASE i \in S /\ j \notin S
    <3>1. Age(t, S, i) \in 1..n
      BY <1>3, <2>2
    <3>2. QED
      BY <1>3, <1>4, <1>5, <1>7, <2>2, <3>1
  <2>3. CASE i \notin S /\ j \in S
    <3>1. Age(t, S, j) \in 1..n
      BY <1>3, <2>3
    <3>2. QED
      BY <1>3, <1>4, <1>5, <1>7, <2>3, <3>1
  <2>4. CASE i \notin S /\ j \notin S
    <3>1. t.change[i] = t.change[j]
      BY <1>4, <1>7, <2>4
    <3>2. QED
      BY <1>4, <1>7, <2>4, <3>1 DEF Numbered
  <2>5. QED
    BY <2>1, <2>2, <2>3, <2>4
<1>8. Numbered(u)
  BY <1>6, <1>7 DEF Numbered
<1>9. Placed(u)
  BY <1>4, <1>6 DEF Placed, Local
<1>10. \A j \in Job : Weight(u, j) = Weight(t, j)
  <2> TAKE j \in Job
  <2>1. /\ j \in Rows(u) <=> j \in Rows(t)
        /\ j \in Pending(u) <=> j \in Pending(t)
        /\ j \in Entries(u) <=> j \in Entries(t)
    BY <1>4, <1>6 DEF Rows, Pending, Entries
  <2>2. j \in S \cap Local(t) => j \in Rows(t)
    BY DEF Local, Rows
  <2>3. j \in S => j \in Entries(t)
    BY <1>2 DEF Entries
  <2>4. /\ j \in Rows(u) \cup u.outputPruned <=> j \in Rows(t) \cup t.outputPruned
        /\ j \in Entries(u) \cup u.historyPruned <=> j \in Entries(t) \cup t.historyPruned
    BY <1>4, <2>1, <2>2, <2>3
  <2>5. RowSize(u, j) = RowSize(t, j)
    BY <1>4 DEF RowSize
  <2>6. QED
    BY <1>4, <1>6, <2>1, <2>4, <2>5 DEF Weight
<1>11. QED
  BY <1>6, <1>8, <1>9, <1>10 DEF u

\* Normalization numbers nothing anew and costs nothing.
LEMMA NormalizedNumbers ==
  ASSUME NEW t, Sound(t), Numbered(t), Placed(t)
  PROVE  LET u == Normalized(t) IN
         /\ Numbered(u) /\ Placed(u)
         /\ u.row = t.row /\ u.fact = t.fact /\ u.digest = t.digest /\ u.other = t.other
         /\ u.change = t.change /\ u.clock = t.clock
         /\ u.historyPruned = t.historyPruned /\ t.outputPruned \subseteq u.outputPruned
         /\ \A j \in Job : Weight(u, j) = Weight(t, j)
         /\ \A j \in Job :
              /\ j \notin t.historyPruned => u.out[j] = t.out[j]
              /\ t.copy[j] = Empty => u.copy[j] = Empty
              /\ j \notin t.historyPruned /\ t.out[j] = Empty => u.copy[j] = t.copy[j]
              /\ j \in t.historyPruned /\ t.out[j] = Empty => u.out[j] = Empty
<1> DEFINE u == Normalized(t)
<1>1. t \in Disk
  BY DEF Sound
<1>2. /\ u.row = t.row /\ u.fact = t.fact /\ u.digest = t.digest /\ u.other = t.other
      /\ u.change = t.change /\ u.clock = t.clock
      /\ u.historyPruned = t.historyPruned
      /\ u.outputPruned = t.outputPruned \cup
            {j \in t.historyPruned : t.row[j] # "absent" /\ t.digest[j] # Empty}
  BY <1>1 DEF Disk, Normalized
<1>3. \A j \in Job :
        /\ u.copy[j] = IF j \in t.historyPruned
                         \/ (t.row[j] # "absent" /\ j \notin t.outputPruned
                               /\ t.copy[j] = t.out[j])
                      THEN Empty ELSE t.copy[j]
        /\ u.out[j] = IF t.row[j] # "absent" /\ j \in t.historyPruned
                     THEN Empty ELSE t.out[j]
  BY <1>1 DEF Disk, Normalized
<1> HIDE DEF u
<1>4. Numbered(u) /\ Placed(u)
  BY <1>2 DEF Numbered, Placed
<1>5. \A j \in Job : Weight(u, j) = Weight(t, j)
  <2> TAKE j \in Job
  <2>1. /\ Rows(u) = Rows(t) /\ Pending(u) = Pending(t) /\ Entries(u) = Entries(t)
        /\ RowSize(u, j) = RowSize(t, j)
    BY <1>2 DEF Rows, Pending, Entries, RowSize
  <2>2. j \in Rows(u) \cup u.outputPruned <=> j \in Rows(t) \cup t.outputPruned
    BY <1>2, <2>1 DEF Rows
  <2>3. QED
    BY <1>2, <2>1, <2>2 DEF Weight
<1>6. QED
  BY <1>2, <1>3, <1>4, <1>5 DEF u

\* What MaxBytes trims down to, and the k that Trimmed takes, is there and least.
LEMMA MinIsLeast ==
  ASSUME NEW T \in SUBSET Nat, T # {}
  PROVE  Min(T) \in T /\ \A m \in T : Min(T) <= m
  BY LeastNumber DEF Min

\* The larger of two numbers.
LEMMA MaxOfTwo ==
  ASSUME NEW a \in Nat, NEW b \in Nat
  PROVE  Max({a, b}) \in Nat /\ a <= Max({a, b}) /\ b <= Max({a, b})
<1>1. \E x \in {a, b} : \A y \in {a, b} : x >= y
  OBVIOUS
<1>2. Max({a, b}) \in {a, b} /\ \A y \in {a, b} : Max({a, b}) >= y
  BY <1>1 DEF Max
<1>3. QED
  BY <1>2

\* A store without output has no bytes of it.
LEMMA NothingHeldWeighsNothing ==
  ASSUME NEW t \in Disk, \A j \in Job : t.out[j] = Empty /\ t.copy[j] = Empty
  PROVE  OutputBytes(t) = 0
<1> DEFINE raw == [j \in Job |-> Raw[t.out[j]] + Raw[t.copy[j]]]
<1>1. Raw[Empty] = 0
  BY StorageShape DEF Output
<1>2. raw \in [Job -> Nat] /\ \A j \in Job : raw[j] <= 0 * raw[j]
  BY <1>1
<1>3. OutputBytes(t) = SumFunction(raw)
  BY DEF OutputBytes
<1> HIDE DEF raw
<1>4. IsFiniteSet(Job) /\ 0 \in Nat
  BY StorageShape
<1>5. SumFunction(raw) <= 0 * SumFunction(raw)
  BY <1>2, <1>4, SumWithin
<1>6. SumFunction(raw) \in Nat
  BY <1>2, <1>4, SumIsNat
<1>7. QED
  BY <1>3, <1>5, <1>6

\* Trimming gives up the oldest output, and no more of it than it has to.
LEMMA TrimmedIsLeast ==
  ASSUME NEW t, Sound(t), Numbered(t), Placed(t)
  PROVE  \E k \in 0..Cardinality(Candidates(t)) :
           /\ Trimmed(t) = RemovePayloads(t, OldestOf(t, Candidates(t), k))
           /\ OutputBytes(Trimmed(t)) <= OutputLimit
           /\ \A m \in 0..Cardinality(Candidates(t)) :
                OutputBytes(RemovePayloads(t, OldestOf(t, Candidates(t), m))) <= OutputLimit
                  => k <= m
<1> DEFINE C == Candidates(t)
           n == Cardinality(C)
           left(k) == RemovePayloads(t, OldestOf(t, C, k))
           enough  == {k \in 0..n : OutputBytes(left(k)) <= OutputLimit}
<1>1. t \in Disk /\ C \in SUBSET Job /\ \A j \in C : t.change[j] # 0
  BY HoldersAreCandidates DEF Sound, Candidates, Local, Replica, Placed
<1>2. n \in Nat /\ \A j \in C : Age(t, C, j) \in 1..n
  BY <1>1, AgesRank
<1>3. n \in enough
  <2>1. OldestOf(t, C, n) = C
    BY <1>2 DEF OldestOf
  <2>2. Sound(left(n))
    BY <2>1, RemoveSound
  <2>3. \A j \in Job : left(n).out[j] = Empty /\ left(n).copy[j] = Empty
    BY <2>1, RemoveFields, HoldersAreCandidates DEF Holds
  <2> HIDE DEF left, C
  <2>4. OutputBytes(left(n)) = 0
    BY <2>2, <2>3, NothingHeldWeighsNothing DEF Sound
  <2>5. QED
    BY <1>2, <2>4, SizesAreNat
<1>4. enough \in SUBSET Nat /\ enough # {}
  BY <1>2, <1>3
<1>5. Trimmed(t) = left(Min(enough))
  <2>1. Trimmed(t) = left(IF enough = {} THEN n ELSE Min(enough))
    BY DEF Trimmed
  <2> HIDE DEF enough, left
  <2>2. QED
    BY <1>4, <2>1
<1> DEFINE k == Min(enough)
<1> HIDE DEF enough
<1>6. k \in enough /\ \A m \in enough : k <= m
  BY <1>4, MinIsLeast
<1> HIDE DEF k
<1>7. k \in 0..n /\ OutputBytes(left(k)) <= OutputLimit
  BY <1>6 DEF enough
<1>8. \A m \in 0..n : OutputBytes(left(m)) <= OutputLimit => k <= m
  BY <1>6 DEF enough
<1>9. Trimmed(t) = left(k)
  BY <1>5 DEF k
<1>10. QED
  BY <1>7, <1>8, <1>9

\* What the stages of an update do to the size of a state.
LEMMA StoredSizes ==
  ASSUME NEW t, Sound(t), Numbered(t), Placed(t)
  PROVE  /\ Numbered(Stored(t)) /\ Placed(Stored(t))
         /\ Rows(Stored(t)) = Rows(t) /\ Entries(Stored(t)) = Entries(t)
         /\ OutputBytes(Stored(t)) <= OutputLimit
         /\ CompletionCharge(Stored(t)) <= CompletionCharge(t)
<1> DEFINE n == Normalized(t)
           u == Stored(t)
<1>1. Sound(n) /\ Sound(u)
  BY NormalizedSound, StoredSound
<1>2. /\ Numbered(n) /\ Placed(n)
      /\ n.row = t.row /\ n.change = t.change /\ n.other = t.other
      /\ n.historyPruned = t.historyPruned /\ t.outputPruned \subseteq n.outputPruned
      /\ \A j \in Job : Weight(n, j) = Weight(t, j)
  BY NormalizedNumbers
<1> HIDE DEF n
<1>3. PICK k \in 0..Cardinality(Candidates(n)) :
        /\ Trimmed(n) = RemovePayloads(n, OldestOf(n, Candidates(n), k))
        /\ OutputBytes(Trimmed(n)) <= OutputLimit
  BY <1>1, <1>2, TrimmedIsLeast
<1>4. u = Trimmed(n)
  BY DEF Stored, n
<1> DEFINE S == OldestOf(n, Candidates(n), k)
<1>5. S \in SUBSET Candidates(n)
  BY DEF OldestOf
<1> HIDE DEF S, u
<1>6. u = RemovePayloads(n, S)
  BY <1>3, <1>4 DEF S
<1>7. /\ Numbered(u) /\ Placed(u)
      /\ \A j \in Job : n.change[j] = 0 <=> u.change[j] = 0
      /\ \A j \in Job : Weight(u, j) = Weight(n, j)
  BY <1>1, <1>2, <1>5, <1>6, RemoveNumbers
<1>8. /\ u.row = n.row /\ u.other = n.other
      /\ n.outputPruned \subseteq u.outputPruned /\ n.historyPruned \subseteq u.historyPruned
  BY <1>1, <1>5, <1>6, RemoveFields
<1>9. Rows(u) = Rows(t) /\ Entries(u) = Entries(t)
  BY <1>2, <1>7, <1>8 DEF Rows, Entries
<1>10. CompletionCharge(u) <= CompletionCharge(t)
  <2>1. t \in Disk /\ u \in Disk
    BY <1>1 DEF Sound, u
  <2>2. \A j \in Job : Weight(u, j) <= Weight(t, j)
    <3> TAKE j \in Job
    <3>1. Weight(u, j) \in Nat /\ Weight(u, j) = Weight(t, j)
      BY <1>2, <1>7, <2>1, PartsAreNat
    <3>2. QED
      BY <3>1
  <2>3. /\ u.other = t.other /\ t.outputPruned \subseteq u.outputPruned
        /\ t.historyPruned \subseteq u.historyPruned
    BY <1>2, <1>8
  <2>4. QED
    BY <2>1, <2>2, <2>3, ChargeFollowsWeights
<1>11. QED
  BY <1>3, <1>4, <1>7, <1>9, <1>10 DEF u

\* An edit that adds no row and no entry, and nothing to the charge, is accepted.
LEMMA AcceptedWhenNoLarger ==
  ASSUME NEW t, Sound(t), NEW e, Sound(e), Numbered(e), Placed(e),
         Rows(e) = Rows(t), Entries(e) = Entries(t),
         CompletionCharge(e) <= CompletionCharge(t),
         CompletionCharge(t) <= StateBytes \/ Encoded(Stored(e)) <= StateBytes
  PROVE  Accepts(Stored(e), t)
<1> DEFINE u == Stored(e)
<1>1. /\ Rows(u) = Rows(t) /\ Entries(u) = Entries(t)
      /\ OutputBytes(u) <= OutputLimit
      /\ CompletionCharge(u) <= CompletionCharge(e)
  BY StoredSizes
<1>2. t \in Disk /\ e \in Disk /\ u \in Disk
  BY StoredSound DEF Sound
<1> HIDE DEF u
<1>3. /\ Encoded(u) <= CompletionCharge(u) /\ Encoded(u) \in Nat
      /\ CompletionCharge(u) \in Nat /\ CompletionCharge(e) \in Nat
      /\ CompletionCharge(t) \in Nat /\ StateBytes \in Nat
  BY <1>1, <1>2, EncodedWithin, ChargeWeighs, SizesAreNat
<1>4. CompletionCharge(u) <= CompletionCharge(t)
  BY <1>1, <1>3
<1>5. Encoded(u) <= StateBytes
  BY <1>3, <1>4 DEF u
<1>6. Cardinality(Rows(t)) \in Nat /\ Cardinality(Entries(t)) \in Nat
      /\ MaxJobs \in Nat /\ MaxHistory \in Nat
  <2>1. Rows(t) \in SUBSET Job /\ Entries(t) \in SUBSET Job
    BY DEF Rows, Entries
  <2>2. QED
    BY <2>1, StorageShape, SizesAreNat, FS_Subset, FS_CardinalityType
<1>7. /\ Within(Cardinality(Rows(u)), Cardinality(Rows(t)), MaxJobs)
      /\ Within(Cardinality(Entries(u)), Cardinality(Entries(t)), MaxHistory)
  BY <1>1, <1>6, MaxOfTwo DEF Within
<1>8. Within(CompletionCharge(u), CompletionCharge(t), StateBytes)
  <2>1. /\ Max({StateBytes, CompletionCharge(t)}) \in Nat
        /\ CompletionCharge(t) <= Max({StateBytes, CompletionCharge(t)})
    BY <1>3, MaxOfTwo
  <2>2. QED
    BY <1>3, <1>4, <2>1 DEF Within
<1>9. QED
  BY <1>1, <1>5, <1>7, <1>8 DEF Accepts, u

-----------------------------------------------------------------------------
(* What the edits do to the numbers *)

\* Entries are renewed, never set back; what an edit gives up is older than what it
\* leaves; and a run that it ends here is the newest entry, with its output.
Ahead(t, e) ==
  /\ Numbered(e) /\ Placed(e)
  /\ \A j \in Job : t.change[j] <= e.change[j]
  /\ \A i, j \in Candidates(t) :
       i \in e.historyPruned /\ j \notin e.historyPruned => t.change[i] < e.change[j]
  /\ \A j \in Here : t.row[j] = "active" /\ e.row[j] = "ended" =>
       /\ e.out[j] = e.digest[j] /\ e.copy[j] = Empty
       /\ e.change[j] = e.clock /\ j \notin e.historyPruned

\* An edit that gives its invocation a fact and then stamps it leaves an entry of it.
LEMMA StampedPlaced ==
  ASSUME NEW t \in Disk, Numbered(t), NEW j \in Job,
         \A i \in Job : /\ t.row[i] # "absent" => t.fact[i] # "none"
                        /\ i # j /\ t.fact[i] # "none" => t.change[i] # 0
                        /\ i \in t.outputPruned => t.row[i] # "absent"
  PROVE  Numbered(Stamped(t, j)) /\ Placed(Stamped(t, j))
<1>1. /\ Stamped(t, j).row = t.row /\ Stamped(t, j).fact = t.fact
      /\ Stamped(t, j).outputPruned = t.outputPruned
  BY DEF Stamped, Disk
<1>2. /\ Numbered(Stamped(t, j)) /\ Stamped(t, j).change[j] # 0
      /\ \A i \in Job : i # j => Stamped(t, j).change[i] = t.change[i]
  BY StampedNumbers
<1>3. QED
  BY <1>1, <1>2 DEF Placed

\* What was pruned before holds no output, so an edit that prunes nothing is ahead
\* when its numbers are.
LEMMA AheadWithoutPruning ==
  ASSUME NEW t, Sound(t), Clean(t), NEW e, Numbered(e), Placed(e),
         \A j \in Job : t.change[j] <= e.change[j],
         e.historyPruned = t.historyPruned,
         \A j \in Here : t.row[j] = "active" => e.row[j] = "active"
  PROVE  Ahead(t, e)
<1>1. \A i \in Candidates(t) : i \in Job /\ i \notin e.historyPruned
  BY HoldersAreCandidates DEF Clean, Candidates, Local, Replica
<1>2. QED
  BY <1>1, StorageShape DEF Ahead

\* A new invocation is the newest entry, and gives nothing up.
LEMMA AdmittedAhead ==
  ASSUME NEW t, Sound(t), Clean(t), Numbered(t), Placed(t),
         NEW j \in Here \cup Sent, t.row[j] = "absent",
         NEW row \in {"active"} \cup (IF j \in Here THEN {"ended"} ELSE {})
  PROVE  Ahead(t, Admitted(t, j, row))
<1> DEFINE b    == IF t.change[j] = 0 THEN Stamped(t, j) ELSE t
           fact == IF row = "ended" THEN "final"
                   ELSE IF j \in Here THEN "running" ELSE "waiting"
           u    == [b EXCEPT !.row[j] = row, !.fact[j] = fact]
<1>1. j \in Job /\ t \in Disk
  BY StorageShape DEF Sound
<1>2. Stamped(t, j) \in Disk
  BY <1>1, StampedSound
<1>3. /\ Numbered(Stamped(t, j))
      /\ t.change[j] <= Stamped(t, j).change[j]
      /\ \A i \in Job : i # j => Stamped(t, j).change[i] = t.change[i]
  BY <1>1, StampedNumbers
<1>4. /\ Stamped(t, j).row = t.row /\ Stamped(t, j).fact = t.fact
      /\ Stamped(t, j).outputPruned = t.outputPruned
      /\ Stamped(t, j).historyPruned = t.historyPruned
  BY <1>1 DEF Stamped, Disk
<1>5. \A i \in Job : t.change[i] \in Nat
  BY <1>1 DEF Disk
<1>6. /\ b \in Disk /\ Numbered(b)
      /\ b.row = t.row /\ b.fact = t.fact /\ b.outputPruned = t.outputPruned
      /\ b.historyPruned = t.historyPruned
      /\ \A i \in Job : t.change[i] <= b.change[i]
      /\ \A i \in Job : i # j => b.change[i] = t.change[i]
  BY <1>1, <1>2, <1>3, <1>4, <1>5
<1>7. row \in Row /\ fact \in Fact /\ row # "absent" /\ fact # "none"
  BY DEF Row, Fact
<1> HIDE DEF b, fact
<1>8. /\ u.row = [b.row EXCEPT ![j] = row] /\ u.fact = [b.fact EXCEPT ![j] = fact]
      /\ u.outputPruned = b.outputPruned /\ u.historyPruned = b.historyPruned
      /\ u.change = b.change /\ u.clock = b.clock
  BY <1>6 DEF Disk
<1>9. u \in Disk
  BY <1>6, <1>7 DEF Disk
<1>10. /\ u.row[j] = row /\ u.fact[j] = fact
       /\ \A i \in Job : i # j => u.row[i] = t.row[i] /\ u.fact[i] = t.fact[i]
  BY <1>1, <1>6, <1>8 DEF Disk
<1>11. Admitted(t, j, row) = Stamped(u, j)
  BY DEF Admitted, b, fact
<1> HIDE DEF u
<1>12. Numbered(u)
  BY <1>6, <1>8 DEF Numbered
<1>13. \A i \in Job : /\ u.row[i] # "absent" => u.fact[i] # "none"
                      /\ i # j /\ u.fact[i] # "none" => u.change[i] # 0
                      /\ i \in u.outputPruned => u.row[i] # "absent"
  BY <1>6, <1>7, <1>8, <1>10 DEF Placed
<1>14. Numbered(Stamped(u, j)) /\ Placed(Stamped(u, j))
  BY <1>1, <1>9, <1>12, <1>13, StampedPlaced
<1>15. /\ u.change[j] <= Stamped(u, j).change[j]
       /\ \A i \in Job : i # j => Stamped(u, j).change[i] = u.change[i]
  BY <1>1, <1>9, <1>12, StampedNumbers
<1>16. /\ Stamped(u, j).row = u.row /\ Stamped(u, j).historyPruned = u.historyPruned
       /\ Stamped(u, j) \in Disk
  BY <1>1, <1>9, StampedSound DEF Stamped, Disk
<1>17. \A i \in Job : t.change[i] <= Stamped(u, j).change[i]
  <2>1. \A i \in Job : u.change[i] \in Nat /\ Stamped(u, j).change[i] \in Nat
                       /\ t.change[i] <= u.change[i]
    BY <1>6, <1>8, <1>9, <1>16 DEF Disk
  <2>2. QED
    BY <1>5, <1>15, <2>1
<1>18. \A i \in Here : t.row[i] = "active" => Stamped(u, j).row[i] = "active"
  BY <1>10, <1>16, StorageShape
<1>19. Stamped(u, j).historyPruned = t.historyPruned
  BY <1>6, <1>8, <1>16
<1>20. QED
  BY <1>11, <1>14, <1>17, <1>18, <1>19, AheadWithoutPruning

\* A run that ends takes what its charge had set aside, and shows its output.
LEMMA CompletedAhead ==
  ASSUME NEW t, Sound(t), Clean(t), Numbered(t), Placed(t),
         NEW j \in Here, t.row[j] = "active", NEW o \in Output
  PROVE  LET e == Completed(t, j, o) IN
         /\ Ahead(t, e)
         /\ Rows(e) = Rows(t) /\ Entries(e) = Entries(t)
         /\ CompletionCharge(e) <= CompletionCharge(t)
<1> DEFINE u == [t EXCEPT !.row[j] = "ended", !.out[j] = o, !.fact[j] = "final",
                          !.digest[j] = o, !.copy[j] = Empty]
           e == Completed(t, j, o)
<1>1. j \in Job /\ t \in Disk /\ t.fact[j] = "running"
  BY StorageShape DEF Sound
<1>2. t.change[j] # 0 /\ j \notin t.historyPruned
  BY <1>1 DEF Placed, Sound
<1>3. /\ u.row = [t.row EXCEPT ![j] = "ended"] /\ u.fact = [t.fact EXCEPT ![j] = "final"]
      /\ u.digest = [t.digest EXCEPT ![j] = o] /\ u.out = [t.out EXCEPT ![j] = o]
      /\ u.copy = [t.copy EXCEPT ![j] = Empty]
      /\ u.outputPruned = t.outputPruned /\ u.historyPruned = t.historyPruned
      /\ u.change = t.change /\ u.clock = t.clock /\ u.other = t.other
  BY <1>1 DEF Disk
<1>4. u \in Disk
  BY <1>1 DEF Disk, Row, Fact, EndFact, Output
<1>5. /\ \A i \in Job : i # j => u.row[i] = t.row[i] /\ u.fact[i] = t.fact[i]
      /\ u.row[j] = "ended" /\ u.fact[j] = "final" /\ u.digest[j] = o /\ u.out[j] = o
      /\ u.copy[j] = Empty
  BY <1>1, <1>3 DEF Disk
<1>6. e = Stamped(u, j)
  BY DEF Completed
<1> HIDE DEF u, e
<1>7. Numbered(u) /\ Placed(u)
  BY <1>2, <1>3, <1>5 DEF Numbered, Placed
<1>8. Numbered(e) /\ Placed(e)
  BY <1>1, <1>4, <1>6, <1>7, StampedPlaced DEF Placed
<1>9. /\ e.change[j] # 0 /\ e.change[j] = e.clock
      /\ u.change[j] <= e.change[j]
      /\ \A i \in Job : i # j => e.change[i] = u.change[i]
  BY <1>1, <1>4, <1>6, <1>7, StampedNumbers
<1>10. /\ e \in Disk
       /\ e.row = u.row /\ e.fact = u.fact /\ e.digest = u.digest /\ e.out = u.out
       /\ e.copy = u.copy /\ e.outputPruned = u.outputPruned
       /\ e.historyPruned = u.historyPruned /\ e.other = u.other
  BY <1>1, <1>4, <1>6, StampedSound DEF Stamped, Disk
<1>11. \A i \in Job : t.change[i] <= e.change[i] /\ (e.change[i] = 0 <=> t.change[i] = 0)
  <2>1. \A i \in Job : t.change[i] \in Nat
    BY <1>1 DEF Disk
  <2>2. QED
    BY <1>2, <1>3, <1>9, <2>1
<1>12. Ahead(t, e)
  <2>1. \A i \in Candidates(t) : i \in Job /\ i \notin e.historyPruned
    BY <1>3, <1>10, HoldersAreCandidates DEF Clean, Candidates, Local, Replica
  <2>2. ASSUME NEW i \in Here, t.row[i] = "active", e.row[i] = "ended"
        PROVE  i = j
    BY <1>5, <1>10, <2>2, StorageShape
  <2>3. \A i \in Here : t.row[i] = "active" /\ e.row[i] = "ended" =>
          /\ e.out[i] = e.digest[i] /\ e.copy[i] = Empty
          /\ e.change[i] = e.clock /\ i \notin e.historyPruned
    BY <1>2, <1>3, <1>5, <1>9, <1>10, <2>2
  <2>4. QED
    BY <1>8, <1>11, <2>1, <2>3 DEF Ahead
<1>13. Rows(e) = Rows(t) /\ Entries(e) = Entries(t)
  BY <1>1, <1>5, <1>10, <1>11 DEF Rows, Entries
<1>14. \A i \in Job : Weight(e, i) <= Weight(t, i)
  <2> TAKE i \in Job
  <2>1. Weight(e, i) \in Nat /\ Weight(t, i) \in Nat
    BY <1>1, <1>10, PartsAreNat
  <2>2. CASE i # j
    <3>1. /\ RowSize(e, i) = RowSize(t, i) /\ e.fact[i] = t.fact[i]
          /\ i \in Pending(e) <=> i \in Pending(t)
      BY <1>5, <1>10, <2>2 DEF RowSize, Pending
    <3>2. Weight(e, i) = Weight(t, i)
      BY <1>3, <1>10, <1>11, <1>13, <3>1 DEF Weight
    <3>3. QED
      BY <2>1, <3>2
  <2>3. CASE i = j
    <3>1. /\ e.row[j] = "ended" /\ e.fact[j] = "final" /\ e.change[j] # 0
          /\ j \in Pending(t) /\ j \notin Pending(e)
      BY <1>1, <1>5, <1>9, <1>10 DEF Pending
    <3>2. /\ RowSize(e, j) = RowBytes + EndBytes /\ RowSize(t, j) = RowBytes + OpenBytes
          /\ FactBytes(e.fact[j]) = EndBytes /\ FactBytes(t.fact[j]) = OpenBytes
      BY <1>1, <3>1 DEF RowSize, FactBytes, EndFact
    <3> DEFINE r == IF j \in Rows(t) \cup t.outputPruned THEN IdBytes + 1 ELSE 0
               h == IF j \in Entries(t) \cup t.historyPruned THEN IdBytes + 1 ELSE 0
    <3>3. r \in Nat /\ h \in Nat
      BY SizesAreNat
    <3>4. Weight(e, j) = RowBytes + EndBytes + (EntryBytes + EndBytes + Width) + r + h + 0
      BY <1>3, <1>10, <1>13, <3>1, <3>2 DEF Weight
    <3>5. Weight(t, j) = RowBytes + OpenBytes + (EntryBytes + OpenBytes + Width) + r + h
                           + CompletionReserve
      BY <1>2, <3>1, <3>2 DEF Weight
    <3> HIDE DEF r, h
    <3>6. 2 * EndBytes <= 2 * OpenBytes + CompletionReserve
      BY StoragePolicy
    <3>7. Weight(e, j) <= Weight(t, j)
      BY <3>3, <3>4, <3>5, <3>6, SizesAreNat
    <3>8. QED
      BY <2>3, <3>7
  <2>4. QED
    BY <2>2, <2>3
<1>15. CompletionCharge(e) <= CompletionCharge(t)
  BY <1>1, <1>3, <1>10, <1>14, ChargeFollowsWeights
<1>16. QED
  BY <1>12, <1>13, <1>15 DEF e

\* A request that was never delivered ends without output.
LEMMA GaveUpAhead ==
  ASSUME NEW t, Sound(t), Clean(t), Numbered(t), Placed(t),
         NEW j \in Sent, t.row[j] = "active", t.fact[j] = "waiting"
  PROVE  Ahead(t, Stamped([t EXCEPT !.row[j] = "ended", !.fact[j] = "failed"], j))
<1> DEFINE u == [t EXCEPT !.row[j] = "ended", !.fact[j] = "failed"]
           e == Stamped(u, j)
<1>1. j \in Job /\ j \notin Here /\ t \in Disk
  BY StorageShape DEF Sound
<1>2. u \in Disk
  BY <1>1 DEF Disk, Row, Fact, EndFact
<1>3. /\ u.row = [t.row EXCEPT ![j] = "ended"] /\ u.fact = [t.fact EXCEPT ![j] = "failed"]
      /\ u.outputPruned = t.outputPruned /\ u.historyPruned = t.historyPruned
      /\ u.change = t.change /\ u.clock = t.clock
  BY <1>1 DEF Disk
<1>4. /\ u.row[j] = "ended" /\ u.fact[j] = "failed"
      /\ \A i \in Job : i # j => u.row[i] = t.row[i] /\ u.fact[i] = t.fact[i]
  BY <1>1, <1>3 DEF Disk
<1> HIDE DEF u
<1>5. Numbered(u)
  BY <1>3 DEF Numbered
<1>6. Placed(u)
  BY <1>3, <1>4 DEF Placed
<1>7. Numbered(e) /\ Placed(e)
  BY <1>1, <1>2, <1>5, <1>6, StampedPlaced DEF Placed
<1>8. /\ u.change[j] <= e.change[j]
      /\ \A i \in Job : i # j => e.change[i] = u.change[i]
  BY <1>1, <1>2, <1>5, StampedNumbers
<1>9. /\ e.row = u.row /\ e.historyPruned = u.historyPruned
  BY <1>2 DEF Stamped, Disk
<1>10. \A i \in Job : t.change[i] <= e.change[i]
  <2>1. \A i \in Job : t.change[i] \in Nat
    BY <1>1 DEF Disk
  <2>2. QED
    BY <1>3, <1>8, <2>1
<1> HIDE DEF e
<1>11. \A i \in Here : t.row[i] = "active" => e.row[i] = "active"
  BY <1>1, <1>4, <1>9, StorageShape
<1>12. Ahead(t, e)
  BY <1>3, <1>7, <1>9, <1>10, <1>11, AheadWithoutPruning
<1>13. QED
  BY <1>12 DEF e, u

\* A fact of a peer's: nothing here gets an entry that a row has not got already,
\* and no more than the fact grows.
LEMMA IngestedAhead ==
  ASSUME NEW t, Sound(t), Clean(t), Numbered(t), Placed(t), NEW j \in Job \ Here,
         NEW fact \in {"running", "final"}, NEW o \in {Empty, Printed[j]}
  PROVE  LET e == Ingested(t, j, fact, o) IN
         /\ Ahead(t, e)
         /\ e.row = t.row /\ e.outputPruned = t.outputPruned
         /\ e.historyPruned = t.historyPruned /\ e.other = t.other
         /\ \A i \in Job : i # j => e.fact[i] = t.fact[i] /\ (e.change[i] = 0 <=> t.change[i] = 0)
         /\ e.fact[j] # "none" /\ (fact = "final" => e.fact[j] = "final")
<1> DEFINE f     == IF t.fact[j] = "final" THEN "final" ELSE fact
           d     == IF f = "final" THEN Printed[j] ELSE Empty
           local == t.row[j] # "absent" /\ j \notin t.outputPruned /\ t.out[j] = d
           kept  == IF local THEN Empty
                    ELSE IF o = d /\ j \notin t.historyPruned THEN o
                    ELSE IF t.copy[j] = d THEN t.copy[j] ELSE Empty
           n     == [t EXCEPT !.fact[j] = f, !.digest[j] = d, !.copy[j] = kept]
           e     == Ingested(t, j, fact, o)
<1>1. /\ f \in {"running", "final"} /\ f \in Fact /\ d \in Output /\ kept \in Output
      /\ (fact = "final" => f = "final")
  BY StorageShape DEF Fact, EndFact, Output
<1>2. e = IF n = t THEN t ELSE Stamped(n, j)
  BY DEF Ingested
<1> HIDE DEF f, d, local, kept, e
<1>3. t \in Disk /\ j \in Job
  BY DEF Sound
<1>4. /\ n.row = t.row /\ n.outputPruned = t.outputPruned
      /\ n.historyPruned = t.historyPruned /\ n.change = t.change /\ n.clock = t.clock
      /\ n.other = t.other /\ n.fact = [t.fact EXCEPT ![j] = f]
  BY <1>3 DEF Disk
<1>5. n \in Disk
  BY <1>1, <1>3 DEF Disk
<1>6. n.fact[j] = f /\ \A i \in Job : i # j => n.fact[i] = t.fact[i]
  BY <1>3, <1>4 DEF Disk
<1> HIDE DEF n
<1>7. Numbered(n)
  BY <1>4 DEF Numbered
<1>8. Numbered(Stamped(n, j)) /\ Placed(Stamped(n, j))
  <2>1. \A i \in Job : /\ n.row[i] # "absent" => n.fact[i] # "none"
                       /\ i # j /\ n.fact[i] # "none" => n.change[i] # 0
                       /\ i \in n.outputPruned => n.row[i] # "absent"
    BY <1>1, <1>4, <1>6 DEF Placed
  <2>2. QED
    BY <1>3, <1>5, <1>7, <2>1, StampedPlaced
<1>9. /\ n.change[j] <= Stamped(n, j).change[j]
      /\ \A i \in Job : i # j => Stamped(n, j).change[i] = n.change[i]
  BY <1>3, <1>5, <1>7, StampedNumbers
<1>10. /\ Stamped(n, j).row = n.row /\ Stamped(n, j).fact = n.fact
       /\ Stamped(n, j).outputPruned = n.outputPruned
       /\ Stamped(n, j).historyPruned = n.historyPruned /\ Stamped(n, j).other = n.other
  BY <1>5 DEF Stamped, Disk
<1>11. \A i \in Job : t.change[i] \in Nat
  BY <1>3 DEF Disk
<1>12. CASE n = t
  <2>1. e = t
    BY <1>2, <1>12
  <2>2. \A i \in Job : t.change[i] <= t.change[i]
    BY <1>11
  <2>3. Ahead(t, t)
    BY <2>2, AheadWithoutPruning
  <2>4. QED
    BY <1>1, <1>6, <1>12, <2>1, <2>3 DEF e
<1>13. CASE n # t
  <2>1. e = Stamped(n, j)
    BY <1>2, <1>13
  <2>2. Numbered(e) /\ Placed(e)
    BY <1>8, <2>1
  <2>3. \A i \in Job : t.change[i] <= e.change[i]
    BY <1>4, <1>9, <1>11, <2>1
  <2>4. e.row = t.row /\ e.historyPruned = t.historyPruned
    BY <1>4, <1>10, <2>1
  <2>5. \A i \in Here : t.row[i] = "active" => e.row[i] = "active"
    BY <2>4
  <2>6. Ahead(t, e)
    BY <2>2, <2>3, <2>4, <2>5, AheadWithoutPruning
  <2>7. e.fact = n.fact /\ \A i \in Job : i # j => e.change[i] = t.change[i]
    BY <1>4, <1>9, <1>10, <2>1
  <2>8. QED
    BY <1>1, <1>4, <1>6, <1>10, <2>1, <2>4, <2>6, <2>7 DEF e
<1>14. QED
  BY <1>12, <1>13

\* A peer's answer ends a row that was charged for it.
LEMMA RepliedAhead ==
  ASSUME NEW t, Sound(t), Clean(t), Numbered(t), Placed(t),
         NEW j \in Sent, t.row[j] # "absent", NEW m \in Said(j)
  PROVE  LET e == Replied(t, j, m[1], m[2]) IN
         /\ Ahead(t, e)
         /\ t.row[j] = "active" /\ m[1] = "final" =>
              /\ Rows(e) = Rows(t) /\ Entries(e) = Entries(t)
              /\ CompletionCharge(e) <= CompletionCharge(t)
<1> DEFINE n    == Ingested(t, j, m[1], m[2])
           gone == j \in n.historyPruned \cup n.outputPruned
           row  == IF m[1] = "final" THEN "ended" ELSE "active"
           out  == IF gone THEN Empty ELSE m[2]
           op   == IF (gone \/ m[2] = Empty) /\ m[1] = "final" /\ Printed[j] # Empty
                   THEN n.outputPruned \cup {j} ELSE n.outputPruned
           u    == [n EXCEPT !.row[j] = row, !.out[j] = out, !.outputPruned = op]
           e    == Replied(t, j, m[1], m[2])
<1>1. m[1] \in {"running", "final"} /\ m[2] \in {Empty, Printed[j]}
  BY DEF Said
<1>2. j \in Job \ Here
  BY StorageShape
<1>3. /\ Ahead(t, n)
      /\ n.row = t.row /\ n.outputPruned = t.outputPruned
      /\ n.historyPruned = t.historyPruned /\ n.other = t.other
      /\ \A i \in Job : i # j => n.fact[i] = t.fact[i] /\ (n.change[i] = 0 <=> t.change[i] = 0)
      /\ n.fact[j] # "none" /\ (m[1] = "final" => n.fact[j] = "final")
  BY <1>1, <1>2, IngestedAhead
<1>4. n \in Disk /\ t \in Disk
  BY <1>1, <1>2, IngestedSound DEF Sound
<1>5. CASE t.row[j] # "active"
  <2>1. e = n
    BY <1>5 DEF Replied
  <2>2. QED
    BY <1>3, <1>5, <2>1 DEF e
<1>6. CASE t.row[j] = "active"
  <2>1. e = u
    BY <1>6 DEF Replied
  <2>2. row \in Row /\ out \in Output /\ op \in SUBSET Job /\ row # "absent"
        /\ (m[1] = "final" => row = "ended")
    BY <1>1, <1>2, <1>4, StorageShape DEF Row, Output, Disk
  <2>3. n.outputPruned \subseteq op /\ op \subseteq n.outputPruned \cup {j}
    OBVIOUS
  <2> HIDE DEF n, row, out, op, gone, e
  <2>4. /\ u.fact = n.fact /\ u.change = n.change /\ u.clock = n.clock /\ u.other = n.other
        /\ u.historyPruned = n.historyPruned /\ u.outputPruned = op
        /\ u.row = [n.row EXCEPT ![j] = row]
    BY <1>4 DEF Disk
  <2>5. u.row[j] = row /\ \A i \in Job : i # j => u.row[i] = n.row[i]
    BY <1>2, <1>4, <2>4 DEF Disk
  <2>6. u \in Disk
    BY <1>2, <1>4, <2>2 DEF Disk
  <2> HIDE DEF u
  <2>7. Numbered(n) /\ Placed(n) /\ \A i \in Job : t.change[i] <= n.change[i]
    BY <1>3 DEF Ahead
  <2>8. Numbered(u)
    BY <2>4, <2>7 DEF Numbered
  <2>9. Placed(u)
    BY <1>3, <2>2, <2>3, <2>4, <2>5, <2>7 DEF Placed
  <2>10. \A i \in Here : t.row[i] = "active" => u.row[i] = "active"
    BY <1>2, <1>3, <2>5, StorageShape
  <2>11. Ahead(t, u)
    BY <1>3, <2>4, <2>7, <2>8, <2>9, <2>10, AheadWithoutPruning
  <2>12. ASSUME m[1] = "final"
         PROVE  /\ Rows(u) = Rows(t) /\ Entries(u) = Entries(t)
                /\ CompletionCharge(u) <= CompletionCharge(t)
    <3>1. /\ u.row[j] = "ended" /\ u.fact[j] = "final"
          /\ \A i \in Job : i # j => u.row[i] = t.row[i] /\ u.fact[i] = t.fact[i]
      BY <1>3, <2>2, <2>4, <2>5, <2>12
    <3>2. t.change[j] # 0 /\ u.change[j] # 0 /\ t.fact[j] # "none"
      BY <1>2, <1>6, <2>9, <3>1 DEF Placed
    <3>3. \A i \in Job : u.change[i] = 0 <=> t.change[i] = 0
      BY <1>3, <2>4, <3>2
    <3>4. Rows(u) = Rows(t) /\ Entries(u) = Entries(t)
      BY <1>6, <3>1, <3>3 DEF Rows, Entries
    <3>5. \A i \in Job : Weight(u, i) <= Weight(t, i)
      <4> TAKE i \in Job
      <4>1. Weight(u, i) \in Nat /\ Weight(t, i) \in Nat
        BY <1>4, <2>6, PartsAreNat
      <4>2. CASE i # j
        <5>1. /\ RowSize(u, i) = RowSize(t, i) /\ u.fact[i] = t.fact[i]
              /\ i \in Pending(u) <=> i \in Pending(t)
          BY <3>1, <4>2 DEF RowSize, Pending
        <5>2. /\ i \in Rows(u) \cup u.outputPruned <=> i \in Rows(t) \cup t.outputPruned
              /\ i \in Entries(u) \cup u.historyPruned <=> i \in Entries(t) \cup t.historyPruned
          BY <1>3, <2>3, <2>4, <3>4, <4>2
        <5>3. Weight(u, i) = Weight(t, i)
          BY <3>3, <5>1, <5>2 DEF Weight
        <5>4. QED
          BY <4>1, <5>3
      <4>3. CASE i = j
        <5>1. j \in Pending(t) /\ j \notin Pending(u) /\ j \in Rows(t) /\ j \in Entries(t)
          BY <1>2, <1>6, <3>1, <3>2 DEF Pending, Rows, Entries
        <5>2. /\ RowSize(u, j) = RowBytes + EndBytes /\ RowSize(t, j) = RowBytes + OpenBytes
              /\ FactBytes(u.fact[j]) = EndBytes /\ FactBytes(t.fact[j]) \in {OpenBytes, EndBytes}
          BY <1>6, <3>1, <3>2 DEF RowSize, FactBytes, EndFact
        <5>3. Weight(u, j) = RowBytes + EndBytes + (EntryBytes + EndBytes + Width)
                               + (IdBytes + 1) + (IdBytes + 1) + 0
          BY <3>2, <3>4, <5>1, <5>2 DEF Weight
        <5>4. Weight(t, j) = RowBytes + OpenBytes
                               + (EntryBytes + FactBytes(t.fact[j]) + Width)
                               + (IdBytes + 1) + (IdBytes + 1) + CompletionReserve
          BY <3>2, <5>1, <5>2 DEF Weight
        <5>5. 2 * EndBytes <= 2 * OpenBytes + CompletionReserve
          BY StoragePolicy
        <5>6. CASE FactBytes(t.fact[j]) = OpenBytes
          BY <4>3, <5>3, <5>4, <5>5, <5>6, SizesAreNat
        <5>7. CASE FactBytes(t.fact[j]) = EndBytes
          BY <4>3, <5>3, <5>4, <5>5, <5>7, SizesAreNat
        <5>8. QED
          BY <5>2, <5>6, <5>7
      <4>4. QED
        BY <4>2, <4>3
    <3>6. /\ u.other = t.other /\ t.outputPruned \subseteq u.outputPruned
          /\ t.historyPruned \subseteq u.historyPruned
      BY <1>3, <2>3, <2>4
    <3>7. CompletionCharge(u) <= CompletionCharge(t)
      BY <1>4, <2>6, <3>5, <3>6, ChargeFollowsWeights
    <3>8. QED
      BY <3>4, <3>7
  <2>13. QED
    BY <2>1, <2>11, <2>12 DEF e
<1>7. QED
  BY <1>5, <1>6

\* The k oldest are older than the others.
LEMMA OldestAreOlder ==
  ASSUME NEW t, Sound(t), Numbered(t), Placed(t), NEW k \in Nat
  PROVE  LET S == OldestOf(t, Candidates(t), k) IN
         /\ S \in SUBSET Candidates(t)
         /\ \A i \in S : \A j \in Candidates(t) \ S : t.change[i] < t.change[j]
<1> DEFINE C == Candidates(t)
           S == OldestOf(t, C, k)
<1>1. t \in Disk /\ C \in SUBSET Job /\ \A j \in C : t.change[j] # 0
  BY HoldersAreCandidates DEF Sound, Candidates, Local, Replica, Placed
<1>2. /\ \A j \in C : Age(t, C, j) \in Nat
      /\ \A i, j \in C : t.change[i] < t.change[j] <=> Age(t, C, i) < Age(t, C, j)
  BY <1>1, AgesRank, AgeIsNat
<1> HIDE DEF C
<1>3. S \in SUBSET C
  BY DEF OldestOf
<1>4. ASSUME NEW i \in S, NEW j \in C \ S PROVE t.change[i] < t.change[j]
  <2>1. i \in C /\ Age(t, C, i) <= k /\ ~(Age(t, C, j) <= k)
    BY DEF OldestOf
  <2>2. Age(t, C, i) < Age(t, C, j)
    BY <1>2, <2>1
  <2>3. QED
    BY <1>2, <2>1, <2>2
<1>5. QED
  BY <1>3, <1>4 DEF C

\* clix prune gives up the oldest, whatever it keeps, and adds nothing to the charge.
LEMMA PrunedAhead ==
  ASSUME NEW t, Sound(t), Clean(t), Numbered(t), Placed(t), NEW k \in Nat
  PROVE  LET e == RemovePayloads(t, OldestOf(t, Candidates(t), k)) IN
         /\ Ahead(t, e)
         /\ Rows(e) = Rows(t) /\ Entries(e) = Entries(t)
         /\ CompletionCharge(e) <= CompletionCharge(t)
<1> DEFINE C == Candidates(t)
           S == OldestOf(t, C, k)
           e == RemovePayloads(t, S)
<1>1. S \in SUBSET C /\ \A i \in S : \A j \in C \ S : t.change[i] < t.change[j]
  BY OldestAreOlder
<1>2. t \in Disk /\ e \in Disk /\ C \in SUBSET Job
  BY <1>1, RemoveSound DEF Sound, Candidates, Local, Replica
<1> HIDE DEF S
<1>3. /\ e.row = t.row /\ e.other = t.other
      /\ t.outputPruned \subseteq e.outputPruned
      /\ e.historyPruned = t.historyPruned \cup S
  BY <1>1, RemoveFields
<1>4. /\ Numbered(e) /\ Placed(e)
      /\ \A j \in Job : t.change[j] <= e.change[j] /\ (t.change[j] = 0 <=> e.change[j] = 0)
      /\ \A j \in Job : Weight(e, j) = Weight(t, j)
  BY <1>1, RemoveNumbers
<1> HIDE DEF e
<1>5. \A i \in C : i \notin t.historyPruned
  BY <1>2, HoldersAreCandidates DEF Clean
<1>6. ASSUME NEW i \in C, NEW j \in C, i \in e.historyPruned, j \notin e.historyPruned
      PROVE  t.change[i] < e.change[j]
  <2>1. i \in S /\ j \in C \ S
    BY <1>3, <1>5, <1>6
  <2>2. t.change[i] < t.change[j] /\ t.change[j] <= e.change[j]
    BY <1>1, <1>2, <1>4, <2>1
  <2>3. t.change[i] \in Nat /\ t.change[j] \in Nat /\ e.change[j] \in Nat
    BY <1>2 DEF Disk
  <2>4. QED
    BY <2>2, <2>3
<1>7. \A j \in Here : ~(t.row[j] = "active" /\ e.row[j] = "ended")
  BY <1>3
<1>8. Ahead(t, e)
  BY <1>4, <1>6, <1>7 DEF Ahead
<1>9. Rows(e) = Rows(t) /\ Entries(e) = Entries(t)
  BY <1>3, <1>4 DEF Rows, Entries
<1>10. CompletionCharge(e) <= CompletionCharge(t)
  <2>1. \A j \in Job : Weight(e, j) <= Weight(t, j)
    <3> TAKE j \in Job
    <3>1. Weight(e, j) \in Nat /\ Weight(e, j) = Weight(t, j)
      BY <1>2, <1>4, PartsAreNat
    <3>2. QED
      BY <3>1
  <2>2. QED
    BY <1>2, <1>3, <2>1, ChargeFollowsWeights
<1>11. QED
  BY <1>8, <1>9, <1>10 DEF e, S

\* clix prune takes the oldest down to what it keeps.
LEMMA PrunedOldest ==
  ASSUME NEW t, Sound(t), Numbered(t), Placed(t), NEW keep \in 0..Cardinality(Candidates(t))
  PROVE  /\ Cardinality(Candidates(t)) - keep \in 0..Cardinality(Candidates(t))
         /\ Cardinality(Candidates(t)) - keep \in Nat
         /\ Pruned(t, keep) = RemovePayloads(t,
              OldestOf(t, Candidates(t), Cardinality(Candidates(t)) - keep))
<1> DEFINE n == Cardinality(Candidates(t))
<1>1. n \in Nat
  BY HoldersAreCandidates, AgesRank DEF Sound, Candidates, Local, Replica, Placed
<1> HIDE DEF n
<1>2. keep \in 0..n
  BY DEF n
<1>3. n - keep \in 0..n /\ n - keep \in Nat
      /\ (IF n > keep THEN n - keep ELSE 0) = n - keep
  BY <1>1, <1>2
<1>4. Pruned(t, keep)
        = RemovePayloads(t, OldestOf(t, Candidates(t), IF n > keep THEN n - keep ELSE 0))
  BY DEF Pruned, n
<1>5. Pruned(t, keep) = RemovePayloads(t, OldestOf(t, Candidates(t), n - keep))
  BY <1>3, <1>4
<1>6. QED
  BY <1>3, <1>5 DEF n

\* What the rest of a state weighs has no number.
LEMMA OthersAhead ==
  ASSUME NEW t, Sound(t), Clean(t), Numbered(t), Placed(t), NEW weight \in Weights
  PROVE  Ahead(t, [t EXCEPT !.other = weight])
<1> DEFINE e == [t EXCEPT !.other = weight]
<1>1. /\ e.row = t.row /\ e.fact = t.fact /\ e.change = t.change /\ e.clock = t.clock
      /\ e.outputPruned = t.outputPruned /\ e.historyPruned = t.historyPruned
  BY DEF Sound, Disk
<1>2. \A j \in Job : t.change[j] \in Nat
  BY DEF Sound, Disk
<1> HIDE DEF e
<1>3. Numbered(e) /\ Placed(e)
  BY <1>1 DEF Numbered, Placed
<1>4. \A j \in Job : t.change[j] <= e.change[j]
  BY <1>1, <1>2
<1>5. Ahead(t, e)
  BY <1>1, <1>3, <1>4, AheadWithoutPruning
<1>6. QED
  BY <1>5 DEF e

-----------------------------------------------------------------------------
(* What a saved update has given up, and what it shows *)

\* The properties of an update by what it was and what it has become.
GaveOldest(t, u) ==
  \A i, j \in Candidates(t) :
    Holds(t, i) /\ ~Holds(u, i) /\ Holds(u, j) => t.change[i] < u.change[j]

\* And what else it says: a run that ends here shows its output.
ShowsEnds(t, u) ==
  \A j \in Here :
    t.row[j] = "active" /\ u.row[j] = "ended" /\ u.fact[j] = "final"
      => u.out[j] = u.digest[j]

\* The newest entry is not given up for the budget, as its output fits alone.
LEMMA NewestStays ==
  ASSUME NEW t, Sound(t), Numbered(t), Placed(t), NEW j \in Job,
         t.change[j] = t.clock, t.copy[j] = Empty, t.out[j] # Empty,
         NEW k \in 0..Cardinality(Candidates(t)),
         \A m \in 0..Cardinality(Candidates(t)) :
            OutputBytes(RemovePayloads(t, OldestOf(t, Candidates(t), m))) <= OutputLimit
              => k <= m
  PROVE  j \notin OldestOf(t, Candidates(t), k)
<1> DEFINE C == Candidates(t)
           n == Cardinality(C)
<1>1. /\ t \in Disk /\ C \in SUBSET Job /\ \A i \in C : t.change[i] # 0
      /\ j \in C
  BY HoldersAreCandidates DEF Sound, Candidates, Local, Replica, Placed, Holds
<1>2. /\ n \in Nat
      /\ \A i \in C : Age(t, C, i) \in 1..n
      /\ \A i, h \in C : Age(t, C, i) = Age(t, C, h) => i = h
  BY <1>1, AgesRank
<1>3. Age(t, C, j) = n
  <2>1. {i \in C : t.change[i] <= t.change[j]} = C
    BY <1>1 DEF Numbered
  <2>2. QED
    BY <2>1 DEF Age
<1> DEFINE S == OldestOf(t, C, n - 1)
           u == RemovePayloads(t, S)
<1> HIDE DEF C, n
<1>4. n - 1 \in 0..n
  BY <1>1, <1>2
<1>5. /\ S \in SUBSET C /\ j \notin S
      /\ \A i \in C : i # j => i \in S
  BY <1>1, <1>2, <1>3 DEF OldestOf
<1> HIDE DEF S
<1>6. u \in Disk
  BY <1>5, RemoveSound DEF Sound, C
<1>7. \A i \in Job : /\ u.out[i]  = IF i \in S THEN Empty ELSE t.out[i]
                     /\ u.copy[i] = IF i \in S THEN Empty ELSE t.copy[i]
  BY <1>5, RemoveFields DEF C
<1>8. \A i \in Job : i \notin C => t.out[i] = Empty /\ t.copy[i] = Empty
  BY HoldersAreCandidates DEF Holds, C
<1> HIDE DEF u
<1>9. /\ \A i \in Job : i # j => u.out[i] = Empty /\ u.copy[i] = Empty
      /\ u.out[j] = t.out[j] /\ u.copy[j] = Empty
  BY <1>5, <1>7, <1>8
<1> DEFINE raw == [i \in Job |-> Raw[u.out[i]] + Raw[u.copy[i]]]
<1>10. /\ Raw[Empty] = 0 /\ \A o \in Output : Raw[o] \in Nat /\ Raw[o] <= OutputLimit
       /\ t.out[j] \in Output /\ \A i \in Job : u.out[i] \in Output /\ u.copy[i] \in Output
  BY <1>1, <1>6, StorageShape, StoragePolicy DEF Output, Disk
<1>11. /\ raw \in [Job -> Nat] /\ raw[j] = Raw[t.out[j]]
       /\ \A i \in Job : i # j => raw[i] = 0
  BY <1>9, <1>10
<1>12. OutputBytes(u) = SumFunction(raw)
  BY DEF OutputBytes
<1> HIDE DEF raw
<1>13. SumFunction(raw) = raw[j]
  BY <1>11, StorageShape, SumOne
<1>14. OutputBytes(u) <= OutputLimit
  BY <1>10, <1>11, <1>12, <1>13
<1>15. k <= n - 1
  BY <1>4, <1>14 DEF u, S, n, C
<1>16. ~(Age(t, C, j) <= k)
  BY <1>2, <1>3, <1>15 DEF n, C
<1>17. QED
  BY <1>16 DEF OldestOf, C

\* Stored gives up the oldest of what the edit left, and so of what was there.
LEMMA StoredOrder ==
  ASSUME NEW t, Sound(t), Clean(t), NEW e, Sound(e), Keeps(t, e), Ahead(t, e)
  PROVE  GaveOldest(t, Stored(e)) /\ ShowsEnds(t, Stored(e))
<1> DEFINE n == Normalized(e)
           u == Stored(e)
<1>1. Sound(n) /\ Clean(n) /\ Keeps(e, n) /\ Sound(u) /\ Clean(u)
  BY NormalizedSound, StoredSound
<1>2. /\ Numbered(e) /\ Placed(e)
      /\ \A j \in Job : t.change[j] <= e.change[j]
      /\ \A i, j \in Candidates(t) :
           i \in e.historyPruned /\ j \notin e.historyPruned => t.change[i] < e.change[j]
  BY DEF Ahead
<1>3. /\ Numbered(n) /\ Placed(n)
      /\ n.row = e.row /\ n.fact = e.fact /\ n.digest = e.digest
      /\ n.change = e.change /\ n.clock = e.clock /\ n.historyPruned = e.historyPruned
      /\ \A j \in Job : /\ j \notin e.historyPruned => n.out[j] = e.out[j]
                        /\ e.copy[j] = Empty => n.copy[j] = Empty
  BY <1>2, NormalizedNumbers
<1>4. u = Trimmed(n)
  BY DEF Stored
<1> HIDE DEF n, u
<1>5. PICK k \in 0..Cardinality(Candidates(n)) :
        /\ u = RemovePayloads(n, OldestOf(n, Candidates(n), k))
        /\ \A m \in 0..Cardinality(Candidates(n)) :
             OutputBytes(RemovePayloads(n, OldestOf(n, Candidates(n), m))) <= OutputLimit
               => k <= m
  BY <1>1, <1>3, <1>4, TrimmedIsLeast
<1> DEFINE S == OldestOf(n, Candidates(n), k)
<1>6. S \in SUBSET Candidates(n)
      /\ \A i \in S : \A j \in Candidates(n) \ S : n.change[i] < n.change[j]
  BY <1>1, <1>3, OldestAreOlder
<1>7. /\ u.row = n.row /\ u.fact = n.fact /\ u.digest = n.digest
      /\ u.historyPruned = n.historyPruned \cup S
      /\ \A j \in Job :
           /\ j \notin S => u.change[j] = n.change[j]
           /\ u.out[j]  = IF j \in S THEN Empty ELSE n.out[j]
           /\ u.copy[j] = IF j \in S THEN Empty ELSE n.copy[j]
  BY <1>1, <1>5, <1>6, RemoveFields
<1>8. ASSUME NEW i \in Candidates(t), NEW j \in Candidates(t),
             Holds(t, i), ~Holds(u, i), Holds(u, j)
      PROVE  t.change[i] < u.change[j]
  <2>1. i \in Job /\ j \in Job
    BY DEF Candidates, Local, Replica
  <2>2. j \notin u.historyPruned /\ j \notin S /\ Holds(n, j)
    BY <1>1, <1>7, <1>8, <2>1 DEF Clean, Holds
  <2>3. j \notin e.historyPruned /\ u.change[j] = e.change[j]
    BY <1>3, <1>7, <2>1, <2>2
  <2>4. CASE i \in e.historyPruned
    BY <1>2, <2>3, <2>4
  <2>5. CASE i \notin e.historyPruned
    <3>1. Holds(e, i)
      BY <1>8, <2>1, <2>5 DEF Keeps
    <3>2. Holds(n, i)
      BY <1>1, <1>3, <2>1, <2>5, <3>1 DEF Keeps
    <3>3. i \in S
      BY <1>7, <1>8, <2>1, <3>2 DEF Holds
    <3>4. j \in Candidates(n) \ S
      BY <1>1, <2>1, <2>2, HoldersAreCandidates
    <3>5. n.change[i] < n.change[j] /\ t.change[i] <= n.change[i]
      BY <1>2, <1>3, <1>6, <2>1, <3>3, <3>4
    <3>6. t.change[i] \in Nat /\ n.change[i] \in Nat /\ n.change[j] \in Nat
      BY <1>1, <2>1 DEF Sound, Disk
    <3>7. QED
      BY <1>3, <2>3, <3>5, <3>6
  <2>6. QED
    BY <2>4, <2>5
<1>9. ASSUME NEW j \in Here, t.row[j] = "active", u.row[j] = "ended", u.fact[j] = "final"
      PROVE  u.out[j] = u.digest[j]
  <2>1. j \in Job /\ e.row[j] = "ended"
    BY <1>3, <1>7, <1>9, StorageShape
  <2>2. /\ e.out[j] = e.digest[j] /\ e.copy[j] = Empty
        /\ e.change[j] = e.clock /\ j \notin e.historyPruned
    BY <1>9, <2>1 DEF Ahead
  <2>3. /\ n.out[j] = n.digest[j] /\ n.copy[j] = Empty /\ n.change[j] = n.clock
    BY <1>3, <2>1, <2>2
  <2>4. CASE n.out[j] = Empty
    BY <1>7, <2>1, <2>3, <2>4
  <2>5. CASE n.out[j] # Empty
    <3>1. j \notin S
      BY <1>1, <1>3, <1>5, <2>1, <2>3, <2>5, NewestStays
    <3>2. QED
      BY <1>7, <2>1, <2>3, <3>1
  <2>6. QED
    BY <2>4, <2>5
<1>10. QED
  BY <1>8, <1>9 DEF GaveOldest, ShowsEnds, u

-----------------------------------------------------------------------------
(* The invariant with the numbers, and what follows from it *)

\* The first invariant, the numbers, and the budget for output that each save keeps.
SizeInv ==
  /\ IInv
  /\ Numbered(s) /\ Placed(s)
  /\ OutputBytes(s) <= OutputLimit

\* An update that is ahead keeps the invariant and gives up the oldest.
LEMMA UpdateAhead ==
  ASSUME SizeInv, NEW e, Sound(e), Keeps(s, e), Ahead(s, e), Update(e)
  PROVE  SizeInv' /\ GaveOldest(s, s') /\ ShowsEnds(s, s')
<1>1. IInv'
  BY UpdateKeeps
<1>2. s' = Stored(e)
  BY DEF Update
<1>3. /\ Numbered(Stored(e)) /\ Placed(Stored(e))
      /\ OutputBytes(Stored(e)) <= OutputLimit
  BY StoredSizes DEF Ahead
<1>4. GaveOldest(s, Stored(e)) /\ ShowsEnds(s, Stored(e))
  BY StoredOrder DEF SizeInv, IInv
<1>5. Numbered(s') /\ Placed(s') /\ OutputBytes(s') <= OutputLimit
  BY <1>2, <1>3
<1>6. SizeInv'
  BY <1>1, <1>5 DEF SizeInv, Numbered, Placed, OutputBytes
<1>7. QED
  BY <1>2, <1>4, <1>6

\* The states a store is opened in.
LEMMA InitSizes == Init => SizeInv
<1> SUFFICES ASSUME NEW weight \in Weights, IInv,
                    s = Fresh(weight) \/ \E j \in Sent : s = Admitted(Fresh(weight), j, "active")
             PROVE  SizeInv
  BY InitSound DEF Init
<1> DEFINE f == Fresh(weight)
<1>1. Sound(f) /\ Clean(f)
  BY FreshSound
<1>2. /\ Numbered(f) /\ Placed(f)
      /\ \A j \in Job : f.row[j] = "absent" /\ f.out[j] = Empty /\ f.copy[j] = Empty
  BY DEF Fresh, Numbered, Placed
<1> HIDE DEF f
<1>3. CASE s = f
  <2>1. OutputBytes(f) = 0
    BY <1>1, <1>2, NothingHeldWeighsNothing DEF Sound
  <2>2. QED
    BY <1>2, <1>3, <2>1, SizesAreNat DEF SizeInv
<1>4. CASE \E j \in Sent : s = Admitted(f, j, "active")
  <2>1. PICK j \in Sent : s = Admitted(f, j, "active")
    BY <1>4
  <2>2. j \in Here \cup Sent /\ f.row[j] = "absent"
    BY <1>2, StorageShape
  <2>3. Ahead(f, Admitted(f, j, "active"))
    BY <1>1, <1>2, <2>2, AdmittedAhead
  <2>4. Numbered(s) /\ Placed(s)
    BY <2>1, <2>3 DEF Ahead
  <2>5. \A i \in Job : s.out[i] = Empty /\ s.copy[i] = Empty
    <3>1. f \in Disk
      BY <1>1 DEF Sound
    <3>2. Admitted(f, j, "active").out = f.out /\ Admitted(f, j, "active").copy = f.copy
      BY <3>1 DEF Admitted, Stamped, Disk
    <3>3. QED
      BY <1>2, <2>1, <3>2
  <2>6. OutputBytes(s) = 0
    BY <2>5, NothingHeldWeighsNothing DEF IInv, Sound
  <2>7. QED
    BY <2>4, <2>6, SizesAreNat DEF SizeInv
<1>5. QED
  BY <1>3, <1>4 DEF f

\* Every step is such an update, or refused.
LEMMA StepAhead ==
  ASSUME SizeInv, Next
  PROVE  SizeInv' /\ GaveOldest(s, s') /\ ShowsEnds(s, s')
<1> DEFINE Goal == SizeInv' /\ GaveOldest(s, s') /\ ShowsEnds(s, s')
<1>1. Sound(s) /\ Clean(s) /\ Numbered(s) /\ Placed(s)
  BY DEF SizeInv, IInv
<1>2. \A e : Sound(e) /\ Keeps(s, e) /\ Ahead(s, e) /\ Update(e) => Goal
  BY UpdateAhead
<1> HIDE DEF Goal
<1>3. ASSUME NEW j \in Job, Admit(j) PROVE Goal
  <2>1. PICK row \in {"active"} \cup (IF j \in Here THEN {"ended"} ELSE {}) :
          Update(Admitted(s, j, row))
    BY <1>3 DEF Admit
  <2>2. j \in Here \cup Sent /\ s.row[j] = "absent"
    BY <1>3 DEF Admit
  <2>3. /\ Sound(Admitted(s, j, row)) /\ Keeps(s, Admitted(s, j, row))
        /\ Ahead(s, Admitted(s, j, row))
    BY <1>1, <2>2, AdmittedSound, AdmittedAhead
  <2>4. QED
    BY <1>2, <2>1, <2>3
<1>4. ASSUME NEW j \in Job, Complete(j) PROVE Goal
  <2>1. PICK o \in Output : Update(Completed(s, j, o))
    BY <1>4 DEF Complete
  <2>2. j \in Here /\ s.row[j] = "active"
    BY <1>4 DEF Complete
  <2>3. /\ Sound(Completed(s, j, o)) /\ Keeps(s, Completed(s, j, o))
        /\ Ahead(s, Completed(s, j, o))
    BY <1>1, <2>2, CompletedSound, CompletedAhead
  <2>4. QED
    BY <1>2, <2>1, <2>3
<1>5. ASSUME NEW j \in Job, GiveUp(j) PROVE Goal
  <2> DEFINE e == Stamped([s EXCEPT !.row[j] = "ended", !.fact[j] = "failed"], j)
  <2>1. j \in Sent /\ s.row[j] = "active" /\ s.fact[j] = "waiting" /\ Update(e)
    BY <1>5 DEF GiveUp
  <2>2. Sound(e) /\ Keeps(s, e) /\ Ahead(s, e)
    BY <1>1, <2>1, GaveUpSound, GaveUpAhead
  <2> HIDE DEF e
  <2>3. QED
    BY <1>2, <2>1, <2>2
<1>6. ASSUME NEW j \in Job, Poll(j) PROVE Goal
  <2>1. PICK m \in Said(j) : Update(Replied(s, j, m[1], m[2]))
    BY <1>6 DEF Poll
  <2>2. j \in Sent /\ s.row[j] # "absent"
    BY <1>6 DEF Poll
  <2>3. /\ Sound(Replied(s, j, m[1], m[2])) /\ Keeps(s, Replied(s, j, m[1], m[2]))
        /\ Ahead(s, Replied(s, j, m[1], m[2]))
    BY <1>1, <2>2, RepliedSound, RepliedAhead
  <2>4. QED
    BY <1>2, <2>1, <2>3
<1>7. ASSUME NEW j \in Job, Fetch(j) PROVE Goal
  <2>1. PICK m \in Said(j) : Update(Ingested(s, j, m[1], m[2]))
    BY <1>7 DEF Fetch
  <2>2. m[1] \in {"running", "final"} /\ m[2] \in {Empty, Printed[j]}
    BY DEF Said
  <2>3. j \in Job \ Here /\ (j \in Sent => s.row[j] # "absent")
    BY <1>7 DEF Fetch
  <2>4. /\ Sound(Ingested(s, j, m[1], m[2])) /\ Keeps(s, Ingested(s, j, m[1], m[2]))
        /\ Ahead(s, Ingested(s, j, m[1], m[2]))
    BY <1>1, <2>2, <2>3, IngestedSound, IngestedAhead
  <2>5. QED
    BY <1>2, <2>1, <2>4
<1>8. ASSUME Prune PROVE Goal
  <2>1. PICK keep \in 0..Cardinality(Candidates(s)) : Update(Pruned(s, keep))
    BY <1>8 DEF Prune
  <2>2. PICK k \in Nat : Pruned(s, keep) = RemovePayloads(s, OldestOf(s, Candidates(s), k))
    BY <1>1, PrunedOldest
  <2>3. OldestOf(s, Candidates(s), k) \in SUBSET Candidates(s)
    BY DEF OldestOf
  <2>4. Sound(Pruned(s, keep)) /\ Keeps(s, Pruned(s, keep)) /\ Ahead(s, Pruned(s, keep))
    BY <1>1, <2>2, <2>3, RemoveSound, PrunedAhead
  <2>5. QED
    BY <1>2, <2>1, <2>4
<1>9. ASSUME Others PROVE Goal
  <2>1. PICK weight \in Weights : Update([s EXCEPT !.other = weight])
    BY <1>9 DEF Others
  <2>2. Sound([s EXCEPT !.other = weight]) /\ Keeps(s, [s EXCEPT !.other = weight])
    BY <1>1, StorageShape DEF Sound, Disk, Keeps, Holds
  <2>3. Ahead(s, [s EXCEPT !.other = weight])
    BY <1>1, OthersAhead
  <2>4. QED
    BY <1>2, <2>1, <2>2, <2>3
<1>10. Goal
  BY <1>3, <1>4, <1>5, <1>6, <1>7, <1>8, <1>9 DEF Next
<1>11. QED
  BY <1>10 DEF Goal

\* The invariant holds throughout.
LEMMA SizesHold == StorageSpec => []SizeInv
<1>1. SizeInv /\ [Next]_s => SizeInv'
  <2>1. CASE Next
    BY <2>1, StepAhead
  <2>2. CASE s' = s
    BY <2>2 DEF SizeInv, IInv, Sound, Clean, Holds, Numbered, Placed, OutputBytes
  <2>3. QED
    BY <2>1, <2>2
<1>2. QED
  BY InitSizes, <1>1, PTL DEF StorageSpec

\* Whatever was admitted, heard, pruned or paired since: within the limit, a run can
\* always save how it ended. What it adds is what its charge had set aside.
THEOREM OutcomesCanBeSaved == StorageSpec => []CompletionFits
<1>1. SizeInv => CompletionFits
  <2> SUFFICES ASSUME SizeInv, CompletionCharge(s) <= StateBytes, NEW j \in Pending(s)
               PROVE  /\ j \in Here => \A o \in Output : Fits(Completed(s, j, o))
                      /\ j \in Sent => \A o \in {Empty, Printed[j]} :
                                          Fits(Replied(s, j, "final", o))
    BY DEF CompletionFits
  <2>1. Sound(s) /\ Clean(s) /\ Numbered(s) /\ Placed(s)
    BY DEF SizeInv, IInv
  <2>2. s.row[j] = "active"
    BY DEF Pending
  <2>3. ASSUME j \in Here, NEW o \in Output PROVE Fits(Completed(s, j, o))
    <3> DEFINE e == Completed(s, j, o)
    <3>1. /\ Sound(e) /\ Ahead(s, e) /\ Rows(e) = Rows(s) /\ Entries(e) = Entries(s)
          /\ CompletionCharge(e) <= CompletionCharge(s)
      BY <2>1, <2>2, <2>3, CompletedSound, CompletedAhead
    <3> HIDE DEF e
    <3>2. Accepts(Stored(e), s)
      BY <2>1, <3>1, AcceptedWhenNoLarger DEF Ahead
    <3>3. QED
      BY <3>2 DEF Fits, e
  <2>4. ASSUME j \in Sent, NEW o \in {Empty, Printed[j]}
        PROVE  Fits(Replied(s, j, "final", o))
    <3> DEFINE e == Replied(s, j, "final", o)
               m == <<"final", o>>
    <3>1. m \in Said(j) /\ m[1] = "final" /\ e = Replied(s, j, m[1], m[2])
      BY DEF Said
    <3> HIDE DEF e, m
    <3>2. /\ Sound(e) /\ Ahead(s, e) /\ Rows(e) = Rows(s) /\ Entries(e) = Entries(s)
          /\ CompletionCharge(e) <= CompletionCharge(s)
      BY <2>1, <2>2, <2>4, <3>1, RepliedSound, RepliedAhead
    <3>3. Accepts(Stored(e), s)
      BY <2>1, <3>2, AcceptedWhenNoLarger DEF Ahead
    <3>4. QED
      BY <3>3 DEF Fits, e
  <2>5. QED
    BY <2>3, <2>4
<1>2. QED
  BY SizesHold, <1>1, PTL

\* What makes room is the oldest output, and a run that ends shows its output: the
\* newest entry alone is always within the budget.
THEOREM OldestMakesRoom == StorageSpec => OldestFirst
<1> DEFINE Step ==
      /\ \A i, j \in Candidates(s) :
           Holds(s, i) /\ ~Holds(s', i) /\ Holds(s', j) => s.change[i] < s'.change[j]
      /\ \A j \in Here :
           s.row[j] = "active" /\ s'.row[j] = "ended" /\ s'.fact[j] = "final" =>
             s'.out[j] = s'.digest[j]
<1>1. SizeInv /\ [Next]_s => [Step]_s
  BY StepAhead DEF GaveOldest, ShowsEnds
<1>2. QED
  BY SizesHold, <1>1, PTL DEF StorageSpec, OldestFirst

\* The bytes of output are a natural.
LEMMA OutputIsNat ==
  ASSUME NEW t \in Disk
  PROVE  OutputBytes(t) \in Nat
<1> DEFINE g == [j \in Job |-> Raw[t.out[j]] + Raw[t.copy[j]]]
<1>1. \A o \in Output : Raw[o] \in Nat
  BY StorageShape
<1>2. g \in [Job -> Nat]
  BY <1>1 DEF Disk
<1>3. OutputBytes(t) = SumFunction(g)
  BY DEF OutputBytes
<1> HIDE DEF g
<1>4. QED
  BY <1>2, <1>3, StorageShape, SumIsNat

\* Output that only goes weighs no more.
LEMMA OutputFollows ==
  ASSUME NEW t \in Disk, NEW u \in Disk,
         \A j \in Job : /\ u.out[j] \in {Empty, t.out[j]}
                        /\ u.copy[j] \in {Empty, t.copy[j]}
  PROVE  OutputBytes(u) <= OutputBytes(t)
<1> DEFINE f == [j \in Job |-> Raw[u.out[j]] + Raw[u.copy[j]]]
           g == [j \in Job |-> Raw[t.out[j]] + Raw[t.copy[j]]]
<1>1. Raw[Empty] = 0 /\ \A o \in Output : Raw[o] \in Nat
  BY StorageShape DEF Output
<1>2. \A j \in Job : /\ Raw[t.out[j]] \in Nat /\ Raw[t.copy[j]] \in Nat
                     /\ Raw[u.out[j]] \in Nat /\ Raw[u.copy[j]] \in Nat
                     /\ Raw[u.out[j]] <= Raw[t.out[j]] /\ Raw[u.copy[j]] <= Raw[t.copy[j]]
  BY <1>1 DEF Disk
<1>3. f \in [Job -> Nat] /\ g \in [Job -> Nat] /\ \A j \in Job : f[j] <= 1 * g[j]
  BY <1>2
<1>4. OutputBytes(u) = SumFunction(f) /\ OutputBytes(t) = SumFunction(g)
  BY DEF OutputBytes
<1> HIDE DEF f, g
<1>5. IsFiniteSet(Job) /\ 1 \in Nat
  BY StorageShape
<1>6. SumFunction(f) <= 1 * SumFunction(g) /\ SumFunction(g) \in Nat
  BY <1>3, <1>5, SumWithin, SumIsNat
<1>7. QED
  BY <1>4, <1>6

\* After a prune nothing else has to go: what is left was within the budget before,
\* and normalization has nothing to do.
LEMMA PrunedLeaves ==
  ASSUME NEW t, Sound(t), Clean(t), Numbered(t), Placed(t), OutputBytes(t) <= OutputLimit,
         NEW keep \in 0..Cardinality(Candidates(t))
  PROVE  Cardinality(Candidates(Stored(Pruned(t, keep)))) = keep
<1> DEFINE C == Candidates(t)
           k == Cardinality(C) - keep
           S == OldestOf(t, C, k)
           e == Pruned(t, keep)
           n == Normalized(e)
           D == Candidates(n)
           u == Stored(e)
<1>1. /\ t \in Disk /\ C \in SUBSET Job /\ \A j \in C : t.change[j] # 0
  BY HoldersAreCandidates DEF Sound, Candidates, Local, Replica, Placed
<1>2. IsFiniteSet(C) /\ Cardinality(C) \in Nat
  BY <1>1, AgesRank
<1>3. k \in Nat /\ k \in 0..Cardinality(C) /\ e = RemovePayloads(t, S)
  BY PrunedOldest
<1>4. Cardinality(S) = k
  BY <1>1, <1>3, OldestCount
<1>5. S \in SUBSET C
  BY DEF OldestOf
<1> HIDE DEF k, S, e
<1>6. Sound(e) /\ Clean(e) /\ Numbered(e) /\ Placed(e)
  BY <1>3, <1>5, RemoveSound, RemoveNumbers
<1>7. \A j \in Job : /\ e.out[j]  = IF j \in S THEN Empty ELSE t.out[j]
                     /\ e.copy[j] = IF j \in S THEN Empty ELSE t.copy[j]
  BY <1>3, <1>5, RemoveFields
<1>8. Sound(n) /\ Numbered(n) /\ Placed(n)
  BY <1>6, NormalizedSound, NormalizedNumbers
<1>9. \A j \in Job : n.out[j] = e.out[j] /\ n.copy[j] = e.copy[j]
  <2>1. /\ \A j \in Job :
              /\ j \notin e.historyPruned => n.out[j] = e.out[j]
              /\ e.copy[j] = Empty => n.copy[j] = Empty
              /\ j \notin e.historyPruned /\ e.out[j] = Empty => n.copy[j] = e.copy[j]
              /\ j \in e.historyPruned /\ e.out[j] = Empty => n.out[j] = Empty
    BY <1>6, NormalizedNumbers
  <2> HIDE DEF n
  <2>2. QED
    BY <1>6, <2>1 DEF Clean, Holds
<1> HIDE DEF n
<1>10. OutputBytes(n) <= OutputLimit
  <2>1. n \in Disk
    BY <1>8 DEF Sound
  <2>2. OutputBytes(n) <= OutputBytes(t)
    BY <1>1, <1>7, <1>9, <2>1, OutputFollows
  <2>3. OutputBytes(n) \in Nat /\ OutputBytes(t) \in Nat /\ OutputLimit \in Nat
    BY <1>1, <2>1, OutputIsNat, SizesAreNat
  <2>4. QED
    BY <2>2, <2>3
<1>11. \A j \in Job : j \in D <=> j \in C /\ j \notin S
  <2>1. \A j \in Job : (j \in D <=> Holds(n, j)) /\ (j \in C <=> Holds(t, j))
    BY <1>8, HoldersAreCandidates
  <2>2. QED
    BY <1>7, <1>9, <2>1 DEF Holds
<1>12. D = C \ S
  BY <1>1, <1>11 DEF Candidates, Local, Replica
<1>13. Cardinality(D) = keep
  <2>1. C \cap S = S
    BY <1>5
  <2>2. Cardinality(C \ S) = Cardinality(C) - Cardinality(C \cap S)
    BY <1>2, FS_Difference
  <2>3. keep \in Nat
    BY <1>2
  <2>4. Cardinality(S) = Cardinality(C) - keep
    BY <1>4 DEF k
  <2>5. Cardinality(D) = Cardinality(C) - Cardinality(S)
    BY <1>12, <2>1, <2>2
  <2> HIDE DEF C, D, S
  <2>6. QED
    BY <1>2, <2>3, <2>4, <2>5
<1>14. OldestOf(n, D, 0) = {}
  <2>1. /\ n \in Disk /\ D \in SUBSET Job /\ \A j \in D : n.change[j] # 0
    BY <1>8, HoldersAreCandidates DEF Sound, Candidates, Local, Replica, Placed
  <2>2. \A j \in D : Age(n, D, j) \in 1..Cardinality(D) /\ Cardinality(D) \in Nat
    BY <1>8, <2>1, AgesRank
  <2> HIDE DEF D
  <2>3. QED
    BY <2>2 DEF OldestOf
<1> DEFINE same == RemovePayloads(n, {})
<1>15. /\ Sound(same)
       /\ \A j \in Job : same.out[j] = n.out[j] /\ same.copy[j] = n.copy[j]
  BY <1>8, RemoveSound, RemoveFields
<1> HIDE DEF same
<1>16. OutputBytes(same) <= OutputLimit
  <2>1. n \in Disk /\ same \in Disk
    BY <1>8, <1>15 DEF Sound
  <2>2. OutputBytes(same) <= OutputBytes(n)
    BY <1>15, <2>1, OutputFollows
  <2>3. OutputBytes(n) \in Nat /\ OutputBytes(same) \in Nat /\ OutputLimit \in Nat
    BY <2>1, OutputIsNat, SizesAreNat
  <2>4. QED
    BY <1>10, <2>2, <2>3
<1>17. u = same
  <2>1. PICK m \in 0..Cardinality(D) :
          /\ Trimmed(n) = RemovePayloads(n, OldestOf(n, D, m))
          /\ \A i \in 0..Cardinality(D) :
               OutputBytes(RemovePayloads(n, OldestOf(n, D, i))) <= OutputLimit => m <= i
    BY <1>8, TrimmedIsLeast
  <2>2. keep \in Nat
    BY <1>2
  <2> HIDE DEF D
  <2>3. m = 0
    BY <1>13, <1>14, <1>16, <2>1, <2>2 DEF same
  <2>4. QED
    BY <1>14, <2>1, <2>3 DEF same, Stored, n
<1> HIDE DEF u
<1>18. Candidates(u) = D
  <2>1. \A j \in Job : (j \in D <=> Holds(n, j)) /\ (j \in Candidates(u) <=> Holds(u, j))
    BY <1>8, <1>15, <1>17, HoldersAreCandidates
  <2>2. Candidates(u) \in SUBSET Job /\ D \in SUBSET Job
    BY DEF Candidates, Local, Replica
  <2> HIDE DEF D
  <2>3. QED
    BY <1>15, <1>17, <2>1, <2>2 DEF Holds
<1>19. QED
  BY <1>13, <1>18 DEF u, e

\* clix prune never adds to the charge, so within the limit it is never refused, and
\* it leaves as many outputs as it was asked to keep.
THEOREM PruningIsAccepted == StorageSpec => []PruneAccepted
<1>1. SizeInv => PruneAccepted
  <2> SUFFICES ASSUME SizeInv, NEW keep \in 0..Cardinality(Candidates(s))
               PROVE  LET left == Stored(Pruned(s, keep)) IN
                      /\ CompletionCharge(left) <= CompletionCharge(s)
                      /\ CompletionCharge(s) <= StateBytes \/ Encoded(left) <= StateBytes
                           => Accepts(left, s)
                      /\ Cardinality(Candidates(left)) = keep
    BY DEF PruneAccepted
  <2> DEFINE e == Pruned(s, keep)
  <2>1. /\ Sound(s) /\ Clean(s) /\ Numbered(s) /\ Placed(s)
        /\ OutputBytes(s) <= OutputLimit
    BY DEF SizeInv, IInv
  <2>2. PICK k \in Nat : e = RemovePayloads(s, OldestOf(s, Candidates(s), k))
    BY <2>1, PrunedOldest
  <2>3. OldestOf(s, Candidates(s), k) \in SUBSET Candidates(s)
    BY DEF OldestOf
  <2> HIDE DEF e
  <2>4. /\ Sound(e) /\ Ahead(s, e) /\ Rows(e) = Rows(s) /\ Entries(e) = Entries(s)
        /\ CompletionCharge(e) <= CompletionCharge(s)
    BY <2>1, <2>2, <2>3, RemoveSound, PrunedAhead
  <2>5. Numbered(e) /\ Placed(e)
    BY <2>4 DEF Ahead
  <2>6. CompletionCharge(Stored(e)) <= CompletionCharge(s)
    <3>1. s \in Disk /\ e \in Disk /\ Stored(e) \in Disk
      BY <2>1, <2>4, StoredSound DEF Sound
    <3>2. CompletionCharge(Stored(e)) <= CompletionCharge(e)
      BY <2>4, <2>5, StoredSizes
    <3>3. /\ CompletionCharge(s) \in Nat /\ CompletionCharge(e) \in Nat
          /\ CompletionCharge(Stored(e)) \in Nat
      BY <3>1, ChargeWeighs
    <3>4. QED
      BY <2>4, <3>2, <3>3
  <2>7. CompletionCharge(s) <= StateBytes \/ Encoded(Stored(e)) <= StateBytes
          => Accepts(Stored(e), s)
    BY <2>1, <2>4, <2>5, AcceptedWhenNoLarger
  <2>8. Cardinality(Candidates(Stored(e))) = keep
    BY <2>1, PrunedLeaves DEF e
  <2>9. QED
    BY <2>6, <2>7, <2>8 DEF e
<1>2. QED
  BY SizesHold, <1>1, PTL

=============================================================================
