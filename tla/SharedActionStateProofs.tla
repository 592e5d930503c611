----------------------- MODULE SharedActionStateProofs -----------------------
(***************************************************************************)
(* What holds of the shared action ledger for every number of keys,        *)
(* fingerprints, revisions, claims and losses.                             *)
(***************************************************************************)
EXTENDS SharedActionState, FiniteSetTheorems, SequenceTheorems, TLAPS

-----------------------------------------------------------------------------
(* The accumulator is an XOR: a member that is not in it goes in, one that *)
(* is in it comes out.                                                     *)

LEMMA XorAdds ==
  ASSUME NEW S, NEW x, x \notin S
  PROVE  Xor(S, {x}) = S \cup {x}
BY DEF Xor

LEMMA XorRemoves ==
  ASSUME NEW S, NEW x, x \in S
  PROVE  Xor(S, {x}) = S \ {x}
BY DEF Xor

(* Losing a record leaves a sequence of records.                           *)
LEMMA RemoveAtType ==
  ASSUME NEW S, NEW s \in Seq(S), NEW i \in DOMAIN s
  PROVE  RemoveAt(s, i) \in Seq(S)
<1>1. i \in 1..Len(s)
  OBVIOUS
<1>2. SubSeq(s, 1, i-1) \in Seq(S) /\ SubSeq(s, i+1, Len(s)) \in Seq(S)
  BY <1>1
<1> QED
  BY <1>2 DEF RemoveAt
-----------------------------------------------------------------------------
(* What a verified transaction writes, whichever operation it serves.      *)

(* After verification the stored rows are the ones vouched for.            *)
LEMMA VerifiedRows ==
  ASSUME Verified(FALSE)
  PROVE  rows = manifest.accumulator /\ records = vouched
BY DEF Verified, RowsVerify, RecordsVerify

(* Writing the manifest keeps it and its outbox well formed, and queues    *)
(* the new current revision.                                               *)
LEMMA WriteManifestEffect ==
  ASSUME TypeOK, NEW acc \in SUBSET Row, NEW n \in Nat, WriteManifest(acc, n)
  PROVE  /\ manifest' \in Manifest
         /\ manifest'.accumulator = acc
         /\ manifest'.row_count = n
         /\ deliveries' \subseteq Delivery
         /\ Anchoring => \E d \in deliveries' :
                           /\ d.revision = manifest'.revision
                           /\ d.checkpoint = manifest'
<1> DEFINE next == [revision    |-> manifest.revision + 1,
                    row_count   |-> n,
                    accumulator |-> acc]
           queued == [revision |-> next.revision, checkpoint |-> next,
                      status |-> "pending", attempts |-> 0, lease |-> 0,
                      due |-> TRUE]
<1>1. next \in Manifest
  BY DEF TypeOK, Manifest
<1>2. queued \in Delivery
  BY <1>1 DEF Delivery, Manifest
<1>3. /\ manifest' = next
      /\ deliveries' = IF Anchoring THEN deliveries \cup {queued}
                                    ELSE deliveries
  BY DEF WriteManifest, NextManifest, Queued, Checkpoint
<1>4. deliveries' \subseteq Delivery
  BY <1>2, <1>3 DEF TypeOK
<1>5. Anchoring => queued \in deliveries'
  BY <1>3
<1> HIDE DEF queued
<1>6. queued.revision = next.revision /\ queued.checkpoint = next
  BY DEF queued
<1> QED
  BY <1>1, <1>3, <1>4, <1>5, <1>6
-----------------------------------------------------------------------------
(* The three changes of the reservation table.                             *)

(* A new row under a free key and a fresh identifier.                      *)
LEMMA AddRowEffect ==
  ASSUME TypeOK, AccumulatorInv, Verified(FALSE),
         NEW row \in Row, row.id = issued + 1,
         \A r \in rows : r.key # row.key,
         rows' = rows \cup {row}, issued' = issued + 1, losses' = losses,
         WriteManifest(Xor(manifest.accumulator, {row}),
                       manifest.row_count + 1)
  PROVE  /\ manifest'.accumulator = manifest.accumulator \cup {row}
         /\ rows' \subseteq Row /\ manifest' \in Manifest
         /\ deliveries' \subseteq Delivery
         /\ AccumulatorInv' /\ CoverageInv'
<1> DEFINE acc == manifest.accumulator
<1>1. rows = acc /\ acc \subseteq Row /\ issued \in Nat
  BY VerifiedRows DEF TypeOK, Manifest
<1>2. row \notin acc
  BY <1>1
<1>3. Xor(acc, {row}) = acc \cup {row}
  BY <1>2, XorAdds
<1>4. /\ IsFiniteSet(acc \cup {row})
      /\ Cardinality(acc \cup {row}) = manifest.row_count + 1
  <2>1. IsFiniteSet(acc) /\ manifest.row_count = Cardinality(acc)
    BY DEF AccumulatorInv
  <2> HIDE DEF acc
  <2> QED
    BY <1>2, <2>1, FS_AddElement
<1>5. /\ acc \cup {row} \in SUBSET Row
      /\ manifest.row_count + 1 \in Nat
      /\ WriteManifest(acc \cup {row}, manifest.row_count + 1)
  <2>1. acc \cup {row} \in SUBSET Row
    BY <1>1
  <2>2. manifest.row_count + 1 \in Nat
    BY DEF TypeOK, Manifest
  <2>3. WriteManifest(acc \cup {row}, manifest.row_count + 1)
    BY <1>3
  <2> QED
    BY <2>1, <2>2, <2>3
<1>6. /\ manifest' \in Manifest
      /\ manifest'.accumulator = acc \cup {row}
      /\ manifest'.row_count = manifest.row_count + 1
      /\ deliveries' \subseteq Delivery
      /\ Anchoring => \E d \in deliveries' :
                        /\ d.revision = manifest'.revision
                        /\ d.checkpoint = manifest'
  <2> HIDE DEF acc
  <2> QED  BY <1>5, WriteManifestEffect
<1>7. \A a \in acc \cup {row} : a.id \in 1..(issued + 1)
  BY <1>1 DEF AccumulatorInv
<1>8. \A a, b \in acc \cup {row} : a.key = b.key \/ a.id = b.id => a = b
  BY <1>1 DEF AccumulatorInv
<1>9. AccumulatorInv'
  BY <1>1, <1>4, <1>6, <1>7, <1>8 DEF AccumulatorInv
<1> QED
  BY <1>1, <1>6, <1>9 DEF CoverageInv

(* A pending row goes.                                                     *)
LEMMA DeleteRowEffect ==
  ASSUME TypeOK, AccumulatorInv, Verified(FALSE),
         NEW row \in rows, DeleteRow(row),
         issued' = issued, losses' = losses
  PROVE  /\ manifest'.accumulator = manifest.accumulator \ {row}
         /\ row \in manifest.accumulator
         /\ rows' \subseteq Row /\ manifest' \in Manifest
         /\ deliveries' \subseteq Delivery
         /\ AccumulatorInv' /\ CoverageInv'
<1> DEFINE acc == manifest.accumulator
<1>1. rows = acc /\ acc \subseteq Row /\ row \in acc
  BY VerifiedRows DEF TypeOK, Manifest
<1>2. Xor(acc, {row}) = acc \ {row}
  BY <1>1, XorRemoves
<1>3. /\ IsFiniteSet(acc) /\ manifest.row_count = Cardinality(acc)
      /\ IsFiniteSet(acc \ {row})
      /\ Cardinality(acc \ {row}) = manifest.row_count - 1
  BY <1>1, FS_RemoveElement DEF AccumulatorInv
<1>4. manifest.row_count - 1 \in Nat
  BY <1>3, FS_CardinalityType
<1>5. /\ acc \ {row} \in SUBSET Row
      /\ WriteManifest(acc \ {row}, manifest.row_count - 1)
  BY <1>1, <1>2 DEF DeleteRow
<1>6. /\ manifest' \in Manifest
      /\ manifest'.accumulator = acc \ {row}
      /\ manifest'.row_count = manifest.row_count - 1
      /\ deliveries' \subseteq Delivery
      /\ Anchoring => \E d \in deliveries' :
                        /\ d.revision = manifest'.revision
                        /\ d.checkpoint = manifest'
  <2> HIDE DEF acc
  <2> QED  BY <1>4, <1>5, WriteManifestEffect
<1>7. rows' = acc \ {row}
  BY <1>1 DEF DeleteRow
<1>8. AccumulatorInv'
  BY <1>1, <1>3, <1>6, <1>7 DEF AccumulatorInv
<1> QED
  BY <1>1, <1>6, <1>7, <1>8 DEF CoverageInv

(* A pending row becomes completed.                                        *)
LEMMA CompleteRowEffect ==
  ASSUME TypeOK, AccumulatorInv, Verified(FALSE),
         NEW row \in rows, row.state = "pending", CompleteRow(row),
         issued' = issued, losses' = losses
  PROVE  /\ manifest'.accumulator = (manifest.accumulator \ {row}) \cup
                                    {[row EXCEPT !.state = "completed"]}
         /\ row \in manifest.accumulator
         /\ rows' \subseteq Row /\ manifest' \in Manifest
         /\ deliveries' \subseteq Delivery
         /\ AccumulatorInv' /\ CoverageInv'
<1> DEFINE acc == manifest.accumulator
           completed == [row EXCEPT !.state = "completed"]
           after == (acc \ {row}) \cup {completed}
<1>1. rows = acc /\ acc \subseteq Row /\ row \in acc /\ row \in Row
  BY VerifiedRows DEF TypeOK, Manifest
<1>2. /\ completed \in Row /\ completed # row
      /\ completed.key = row.key /\ completed.id = row.id
  BY <1>1 DEF Row
<1>3. completed \notin acc
  BY <1>1, <1>2 DEF AccumulatorInv
<1>4. Xor(Xor(acc, {row}), {completed}) = after
  <2>1. Xor(acc, {row}) = acc \ {row}
    BY <1>1, XorRemoves
  <2>2. completed \notin acc \ {row}
    BY <1>3
  <2> QED
    BY <2>1, <2>2, XorAdds
<1>5. IsFiniteSet(after) /\ Cardinality(after) = manifest.row_count
  <2>1. /\ IsFiniteSet(acc \ {row})
        /\ Cardinality(acc \ {row}) = manifest.row_count - 1
    BY <1>1, FS_RemoveElement DEF AccumulatorInv
  <2>2. completed \notin acc \ {row}
    BY <1>3
  <2>3. /\ IsFiniteSet(after)
        /\ Cardinality(after) = Cardinality(acc \ {row}) + 1
    BY <2>1, <2>2, FS_AddElement
  <2> QED
    BY <2>1, <2>3 DEF TypeOK, Manifest
<1>6. /\ after \in SUBSET Row /\ manifest.row_count \in Nat
      /\ WriteManifest(after, manifest.row_count)
  BY <1>1, <1>2, <1>4 DEF CompleteRow, TypeOK, Manifest
<1>7. /\ manifest' \in Manifest
      /\ manifest'.accumulator = after
      /\ manifest'.row_count = manifest.row_count
      /\ deliveries' \subseteq Delivery
      /\ Anchoring => \E d \in deliveries' :
                        /\ d.revision = manifest'.revision
                        /\ d.checkpoint = manifest'
  <2> HIDE DEF after
  <2> QED  BY <1>6, WriteManifestEffect
<1>8. rows' = after
  BY <1>1 DEF CompleteRow
<1>9. \A a \in after : a.id \in 1..issued
  BY <1>1, <1>2 DEF AccumulatorInv
<1>10. \A a, b \in after : a.key = b.key \/ a.id = b.id => a = b
  BY <1>1, <1>2 DEF AccumulatorInv
<1>11. AccumulatorInv'
  <2> HIDE DEF after
  <2> QED  BY <1>5, <1>7, <1>8, <1>9, <1>10 DEF AccumulatorInv
<1> QED
  BY <1>1, <1>6, <1>7, <1>8, <1>11 DEF CoverageInv
-----------------------------------------------------------------------------
(* Reconciliation records and the rows they are about.                     *)

(* A reservation that is still pending has no record.                      *)
LEMMA PendingIsUnrecorded ==
  ASSUME TypeOK, AccumulatorInv, RecordInv,
         NEW row \in manifest.accumulator, row.state = "pending"
  PROVE  \A i \in DOMAIN vouched : vouched[i].reservation # row.id
<1> SUFFICES ASSUME NEW i \in DOMAIN vouched,
                    vouched[i].reservation = row.id
             PROVE  FALSE
  OBVIOUS
<1> DEFINE held == {r \in manifest.accumulator :
                      r.id = vouched[i].reservation}
<1>1. row \in held /\ \A r \in held : r = row
  BY DEF AccumulatorInv
<1>2. CASE vouched[i].outcome = "confirmed_executed"
  <2>1. \E r \in held : r.state = "completed"
    BY <1>2 DEF RecordInv, ReconciliationIsFinal
  <2> QED
    BY <1>1, <2>1
<1>3. CASE vouched[i].outcome = "confirmed_not_executed"
  <2>1. held = {}
    BY <1>3 DEF RecordInv, ReconciliationIsFinal
  <2> QED
    BY <1>1, <2>1
<1>4. vouched[i].outcome \in {"confirmed_executed", "confirmed_not_executed"}
  <2>1. vouched[i] \in Record
    BY DEF TypeOK
  <2> QED
    BY <2>1 DEF Record
<1> QED
  BY <1>2, <1>3, <1>4

(* A step that writes no record keeps every verdict if it leaves the rows  *)
(* of recorded reservations alone.                                         *)
LEMMA RecordsKept ==
  ASSUME TypeOK, RecordInv,
         vouched' = vouched,
         losses' = 0 => losses = 0 /\ records' = records,
         issued' \in Nat, issued' >= issued,
         NEW before, NEW after,
         before = manifest.accumulator, after = manifest'.accumulator,
         \A i \in DOMAIN vouched :
           \A r : r.id = vouched[i].reservation =>
                    (r \in after <=> r \in before)
  PROVE  RecordInv'
<1>1. losses' = 0 => records' = vouched'
  BY DEF RecordInv
<1>2. \A i \in DOMAIN vouched' : vouched'[i].reservation \in 1..issued'
  BY DEF RecordInv, TypeOK
<1>3. ReconciliationIsFinal'
  <2> SUFFICES ASSUME NEW i \in DOMAIN vouched
               PROVE
        LET record == vouched[i]
            held   == {r \in after : r.id = record.reservation}
        IN  /\ \A j \in DOMAIN vouched :
                 vouched[j].reservation = record.reservation => i = j
            /\ record.outcome = "confirmed_executed"
                 => \E r \in held : r.key = record.key /\ r.state = "completed"
            /\ record.outcome = "confirmed_not_executed" => held = {}
    BY DEF ReconciliationIsFinal
  <2>1. {r \in after : r.id = vouched[i].reservation} =
        {r \in before : r.id = vouched[i].reservation}
    OBVIOUS
  <2> QED
    BY <2>1 DEF RecordInv, ReconciliationIsFinal
<1> QED
  BY <1>1, <1>2, <1>3 DEF RecordInv

(* Settling a reservation together with its record.                        *)
LEMMA RecordAppended ==
  ASSUME TypeOK, AccumulatorInv, RecordInv, Verified(FALSE),
         NEW row \in manifest.accumulator, row.state = "pending",
         NEW record \in Record,
         record.reservation = row.id, record.key = row.key,
         records' = Append(records, record), vouched' = Append(vouched, record),
         losses' = losses, issued' = issued,
         NEW after, after = manifest'.accumulator,
         \/ /\ record.outcome = "confirmed_executed"
            /\ after = (manifest.accumulator \ {row}) \cup
                         {[row EXCEPT !.state = "completed"]}
         \/ /\ record.outcome = "confirmed_not_executed"
            /\ after = manifest.accumulator \ {row}
  PROVE  RecordInv' /\ records' \in Seq(Record) /\ vouched' \in Seq(Record)
<1> DEFINE before == manifest.accumulator
           n == Len(vouched) + 1
<1>1. /\ vouched \in Seq(Record) /\ records \in Seq(Record)
      /\ records = vouched
  BY VerifiedRows DEF TypeOK
<1>2. /\ DOMAIN vouched = 1..Len(vouched) /\ Len(vouched) \in Nat
      /\ DOMAIN vouched' = 1..n
      /\ vouched'[n] = record
      /\ \A i \in 1..Len(vouched) : vouched'[i] = vouched[i]
  BY <1>1
<1>3. \A i \in 1..Len(vouched) : vouched[i].reservation # row.id
  BY <1>2, PendingIsUnrecorded
<1>4. row \in Row /\ row.id \in 1..issued
      /\ \A r \in before : r.id = row.id => r = row
  BY DEF TypeOK, Manifest, AccumulatorInv
<1>5. /\ [row EXCEPT !.state = "completed"].id = row.id
      /\ [row EXCEPT !.state = "completed"].key = row.key
      /\ [row EXCEPT !.state = "completed"].state = "completed"
  BY <1>4 DEF Row
<1>6. \A i \in 1..n : vouched'[i].reservation \in 1..issued
  BY <1>2, <1>4 DEF RecordInv
<1>7. \A i, j \in 1..n :
        vouched'[i].reservation = vouched'[j].reservation => i = j
  BY <1>2, <1>3 DEF RecordInv, ReconciliationIsFinal
<1>8. \A r : r.id # row.id => (r \in after <=> r \in before)
  BY <1>5
<1>9. ASSUME NEW i \in 1..n
      PROVE  /\ vouched'[i].outcome = "confirmed_executed"
                  => \E r \in after : /\ r.id = vouched'[i].reservation
                                      /\ r.key = vouched'[i].key
                                      /\ r.state = "completed"
             /\ vouched'[i].outcome = "confirmed_not_executed"
                  => \A r \in after : r.id # vouched'[i].reservation
  <2>1. CASE i = n
    BY <2>1, <1>2, <1>4, <1>5
  <2>2. CASE i \in 1..Len(vouched)
    <3>1. /\ vouched'[i] = vouched[i] /\ vouched[i].reservation # row.id
          /\ i \in DOMAIN vouched
      BY <2>2, <1>2, <1>3
    <3>2. /\ vouched[i].outcome = "confirmed_executed"
               => \E r \in before : /\ r.id = vouched[i].reservation
                                    /\ r.key = vouched[i].key
                                    /\ r.state = "completed"
          /\ vouched[i].outcome = "confirmed_not_executed"
               => \A r \in before : r.id # vouched[i].reservation
      BY <3>1 DEF RecordInv, ReconciliationIsFinal
    <3> QED
      BY <3>1, <3>2, <1>8
  <2> QED
    BY <2>1, <2>2, <1>2
<1>10. ReconciliationIsFinal'
  BY <1>2, <1>7, <1>9 DEF ReconciliationIsFinal
<1>11. /\ records' = vouched'
       /\ records' \in Seq(Record) /\ vouched' \in Seq(Record)
  BY <1>1
<1> QED
  BY <1>2, <1>6, <1>10, <1>11 DEF RecordInv
-----------------------------------------------------------------------------
(* One lemma per operation of the ledger.                                  *)

LEMMA ReserveIInv ==
  ASSUME IInv, NEW k \in Keys, NEW f \in Fingerprints, NEW dsc \in BOOLEAN,
         Reserve(k, f, dsc)
  PROVE  IInv'
<1> DEFINE row == [key |-> k, fingerprint |-> f, state |-> "pending",
                   id |-> issued + 1, described |-> dsc]
<1>1. TypeOK /\ AccumulatorInv /\ RecordInv /\ issued \in Nat
  BY DEF IInv, TypeOK
<1>2. row \in Row /\ row.id = issued + 1 /\ row.key = k
  BY <1>1 DEF Row
<1>3. /\ Verified(FALSE)
      /\ \A r \in rows : r.key # k
      /\ rows' = rows \cup {row}
      /\ issued' = issued + 1
      /\ WriteManifest(Xor(manifest.accumulator, {row}),
                       manifest.row_count + 1)
      /\ UNCHANGED <<records, vouched, claims, aged, leased, losses>>
  <2>1. ReserveResult(k, f) = "new" => \A r \in rows : r.key # k
    BY DEF ReserveResult
  <2> QED
    BY <2>1 DEF Reserve
<1> HIDE DEF row
<1>4. /\ manifest'.accumulator = manifest.accumulator \cup {row}
      /\ rows' \subseteq Row /\ manifest' \in Manifest
      /\ deliveries' \subseteq Delivery
      /\ AccumulatorInv' /\ CoverageInv'
  BY <1>1, <1>2, <1>3, AddRowEffect
<1>5. TypeOK'
  BY <1>1, <1>3, <1>4 DEF TypeOK
<1>6. RecordInv'
  <2>1. \A i \in DOMAIN vouched :
          \A r : r.id = vouched[i].reservation =>
            (r \in manifest'.accumulator <=> r \in manifest.accumulator)
    BY <1>1, <1>2, <1>4 DEF RecordInv
  <2>2. issued' \in Nat /\ issued' >= issued
    BY <1>1, <1>3
  <2> QED
    BY <1>1, <1>3, <2>1, <2>2, RecordsKept
<1> QED
  BY <1>4, <1>5, <1>6 DEF IInv

(* A transition without a record: the row it touches was pending, hence    *)
(* unrecorded.                                                             *)
LEMMA CompleteIInv ==
  ASSUME IInv, NEW k \in Keys, NEW f \in Fingerprints, Complete(k, f)
  PROVE  IInv'
<1>1. TypeOK /\ AccumulatorInv /\ RecordInv /\ issued \in Nat
  BY DEF IInv, TypeOK
<1>2. PICK row \in rows : row.state = "pending" /\ CompleteRow(row)
  BY DEF Complete, Matching
<1>3. /\ Verified(FALSE)
      /\ UNCHANGED <<records, vouched, claims, aged, issued, leased, losses>>
  BY DEF Complete
<1>4. /\ manifest'.accumulator = (manifest.accumulator \ {row}) \cup
                                 {[row EXCEPT !.state = "completed"]}
      /\ row \in manifest.accumulator
      /\ rows' \subseteq Row /\ manifest' \in Manifest
      /\ deliveries' \subseteq Delivery
      /\ AccumulatorInv' /\ CoverageInv'
  BY <1>1, <1>2, <1>3, CompleteRowEffect
<1>5. TypeOK'
  BY <1>1, <1>3, <1>4 DEF TypeOK
<1>6. RecordInv'
  <2>1. \A i \in DOMAIN vouched : vouched[i].reservation # row.id
    BY <1>1, <1>2, <1>4, PendingIsUnrecorded
  <2>2. [row EXCEPT !.state = "completed"].id = row.id
    BY <1>1, <1>2 DEF TypeOK, Row
  <2>3. \A i \in DOMAIN vouched :
          \A r : r.id = vouched[i].reservation =>
            (r \in manifest'.accumulator <=> r \in manifest.accumulator)
    BY <1>4, <2>1, <2>2
  <2> QED
    BY <1>1, <1>3, <2>3, RecordsKept
<1> QED
  BY <1>4, <1>5, <1>6 DEF IInv

LEMMA ReleaseIInv ==
  ASSUME IInv, NEW k \in Keys, NEW f \in Fingerprints, Release(k, f)
  PROVE  IInv'
<1>1. TypeOK /\ AccumulatorInv /\ RecordInv /\ issued \in Nat
  BY DEF IInv, TypeOK
<1>2. PICK row \in rows : row.state = "pending" /\ DeleteRow(row)
  BY DEF Release, Matching
<1>3. /\ Verified(FALSE)
      /\ UNCHANGED <<records, vouched, claims, aged, issued, leased, losses>>
  BY DEF Release
<1>4. /\ manifest'.accumulator = manifest.accumulator \ {row}
      /\ row \in manifest.accumulator
      /\ rows' \subseteq Row /\ manifest' \in Manifest
      /\ deliveries' \subseteq Delivery
      /\ AccumulatorInv' /\ CoverageInv'
  BY <1>1, <1>2, <1>3, DeleteRowEffect
<1>5. TypeOK'
  BY <1>1, <1>3, <1>4 DEF TypeOK
<1>6. RecordInv'
  <2>1. \A i \in DOMAIN vouched : vouched[i].reservation # row.id
    BY <1>1, <1>2, <1>4, PendingIsUnrecorded
  <2>2. \A i \in DOMAIN vouched :
          \A r : r.id = vouched[i].reservation =>
            (r \in manifest'.accumulator <=> r \in manifest.accumulator)
    BY <1>4, <2>1
  <2> QED
    BY <1>1, <1>3, <2>2, RecordsKept
<1> QED
  BY <1>4, <1>5, <1>6 DEF IInv

(* The reconciled row is settled together with its record.                 *)
LEMMA ReconcileIInv ==
  ASSUME IInv, NEW id \in 1..issued,
         NEW outcome \in {"confirmed_executed", "confirmed_not_executed"},
         Reconcile(id, outcome)
  PROVE  IInv'
<1>1. TypeOK /\ AccumulatorInv /\ RecordInv /\ issued \in Nat
  BY DEF IInv, TypeOK
<1>2. PICK row \in rows :
        /\ row.id = id /\ row.state = "pending"
        /\ LET record == [reservation |-> id, key |-> row.key,
                          outcome |-> outcome]
           IN  /\ records' = Append(records, record)
               /\ vouched' = Append(vouched, record)
        /\ IF outcome = "confirmed_not_executed"
           THEN DeleteRow(row) ELSE CompleteRow(row)
  BY DEF Reconcile
<1>3. /\ Verified(FALSE)
      /\ UNCHANGED <<claims, aged, issued, leased, losses>>
  BY DEF Reconcile
<1> DEFINE record == [reservation |-> id, key |-> row.key,
                      outcome |-> outcome]
<1>4. /\ record \in Record /\ record.reservation = row.id
      /\ record.key = row.key /\ record.outcome = outcome
  BY <1>1, <1>2 DEF TypeOK, Row, Record
<1>5. /\ records' = Append(records, record)
      /\ vouched' = Append(vouched, record)
  BY <1>2
<1> HIDE DEF record
<1>6. /\ row \in manifest.accumulator
      /\ rows' \subseteq Row /\ manifest' \in Manifest
      /\ deliveries' \subseteq Delivery
      /\ AccumulatorInv' /\ CoverageInv'
      /\ \/ /\ record.outcome = "confirmed_executed"
            /\ manifest'.accumulator = (manifest.accumulator \ {row}) \cup
                                       {[row EXCEPT !.state = "completed"]}
         \/ /\ record.outcome = "confirmed_not_executed"
            /\ manifest'.accumulator = manifest.accumulator \ {row}
  <2>1. CASE outcome = "confirmed_not_executed"
    <3>1. DeleteRow(row)
      BY <1>2, <2>1
    <3> QED
      BY <1>1, <1>3, <1>4, <2>1, <3>1, DeleteRowEffect
  <2>2. CASE outcome = "confirmed_executed"
    <3>1. CompleteRow(row) /\ row.state = "pending"
      BY <1>2, <2>2
    <3> QED
      BY <1>1, <1>3, <1>4, <2>2, <3>1, CompleteRowEffect
  <2> QED
    BY <2>1, <2>2
<1>7. RecordInv' /\ records' \in Seq(Record) /\ vouched' \in Seq(Record)
  BY <1>1, <1>2, <1>3, <1>4, <1>5, <1>6, RecordAppended
<1>8. TypeOK'
  BY <1>1, <1>3, <1>6, <1>7 DEF TypeOK
<1> QED
  BY <1>6, <1>7, <1>8 DEF IInv
-----------------------------------------------------------------------------
(* The outbox and the clock leave the ledger alone, and every delivery     *)
(* keeps its revision and checkpoint.                                      *)

LEMMA LedgerUntouched ==
  ASSUME IInv, UNCHANGED <<ledgerVars, losses>>,
         deliveries' \subseteq Delivery, claims' \subseteq Claim,
         aged' \subseteq Nat, leased' \in Nat,
         \A d \in deliveries : \E e \in deliveries' :
            e.revision = d.revision /\ e.checkpoint = d.checkpoint
  PROVE  IInv'
<1>1. /\ rows' = rows /\ manifest' = manifest /\ records' = records
      /\ vouched' = vouched /\ issued' = issued /\ losses' = losses
  BY DEF ledgerVars
<1>2. TypeOK /\ AccumulatorInv /\ RecordInv /\ CoverageInv
  BY DEF IInv
<1>3. TypeOK'
  BY <1>1, <1>2 DEF TypeOK
<1>4. AccumulatorInv'
  BY <1>1, <1>2 DEF AccumulatorInv
<1>5. RecordInv'
  BY <1>1, <1>2, RecordsKept DEF TypeOK
<1>6. CoverageInv'
  BY <1>1, <1>2 DEF CoverageInv
<1> QED
  BY <1>3, <1>4, <1>5, <1>6 DEF IInv

LEMMA ClaimIInv ==
  ASSUME IInv, NEW batch \in SUBSET Claimable, ClaimDeliveries(batch)
  PROVE  IInv'
<1> DEFINE claimed(d) == [d EXCEPT !.status = "processing", !.attempts = @ + 1,
                                   !.lease = leased + 1, !.due = FALSE]
<1>1. TypeOK /\ leased \in Nat /\ deliveries \subseteq Delivery
  BY DEF IInv, TypeOK
<1>2. /\ leased' = leased + 1
      /\ deliveries' = (deliveries \ batch) \cup {claimed(d) : d \in batch}
      /\ claims' = claims \cup
           {[revision |-> d.revision, lease |-> leased + 1] : d \in batch}
      /\ UNCHANGED <<ledgerVars, losses>> /\ aged' = aged
  BY DEF ClaimDeliveries
<1>3. /\ batch \subseteq Delivery
      /\ leased + 1 \in Nat /\ leased' \in Nat
  <2>1. batch \subseteq deliveries
    BY DEF Claimable
  <2>2. leased + 1 \in Nat
    BY <1>1
  <2> QED
    BY <1>1, <1>2, <2>1, <2>2
<1>4. \A d \in Delivery : /\ claimed(d) \in Delivery
                          /\ claimed(d).revision = d.revision
                          /\ claimed(d).checkpoint = d.checkpoint
  <2> SUFFICES ASSUME NEW d \in Delivery
               PROVE  /\ claimed(d) \in Delivery
                      /\ claimed(d).revision = d.revision
                      /\ claimed(d).checkpoint = d.checkpoint
    OBVIOUS
  <2>1. leased + 1 \in Nat /\ d.attempts + 1 \in Nat
    BY <1>3 DEF Delivery
  <2> DEFINE lease == leased + 1
             attempts == d.attempts + 1
  <2> HIDE DEF lease, attempts
  <2>2. claimed(d) = [d EXCEPT !.status = "processing", !.attempts = attempts,
                               !.lease = lease, !.due = FALSE]
    BY DEF lease, attempts
  <2>3. lease \in Nat /\ attempts \in Nat
    BY <2>1 DEF lease, attempts
  <2> QED
    BY <2>2, <2>3 DEF Delivery
<1>5. \A d \in Delivery : [revision |-> d.revision, lease |-> leased + 1] \in Claim
  BY <1>3 DEF Delivery, Claim
<1> HIDE DEF claimed
<1>6. deliveries' \subseteq Delivery
  BY <1>1, <1>2, <1>3, <1>4
<1>7. claims' \subseteq Claim
  BY <1>1, <1>2, <1>3, <1>5 DEF TypeOK
<1>8. \A d \in deliveries : \E e \in deliveries' :
         e.revision = d.revision /\ e.checkpoint = d.checkpoint
  BY <1>1, <1>2, <1>3, <1>4
<1> QED
  BY <1>1, <1>2, <1>3, <1>6, <1>7, <1>8, LedgerUntouched DEF TypeOK

(* Every other outbox step replaces at most one delivery.                  *)
LEMMA UpdateIInv ==
  ASSUME IInv, NEW d \in deliveries, NEW new \in Delivery, Update(d, new),
         new.revision = d.revision, new.checkpoint = d.checkpoint,
         claims' \subseteq claims, UNCHANGED <<ledgerVars, aged, leased, losses>>
  PROVE  IInv'
<1>1. TypeOK
  BY DEF IInv
<1>2. deliveries' = (deliveries \ {d}) \cup {new}
  BY DEF Update
<1> QED
  BY <1>1, <1>2, LedgerUntouched DEF TypeOK

LEMMA OutboxIInv ==
  ASSUME IInv, OutboxNext
  PROVE  IInv'
<1>0. TypeOK /\ deliveries \subseteq Delivery
  BY DEF IInv, TypeOK
<1>1. ASSUME NEW batch \in SUBSET Claimable, ClaimDeliveries(batch)
      PROVE  IInv'
  BY <1>1, ClaimIInv
<1>2. ASSUME NEW c \in claims,
             NEW result \in {"delivered", "retryable", "rejected"},
             FinishDelivery(c, result)
      PROVE  IInv'
  <2>1. PICK d \in deliveries : \E status \in {"delivered", "pending", "dead"} :
          Update(d, [d EXCEPT !.status = status, !.due = FALSE, !.lease = 0])
    BY <1>2 DEF FinishDelivery
  <2>2. PICK status \in {"delivered", "pending", "dead"} :
          Update(d, [d EXCEPT !.status = status, !.due = FALSE, !.lease = 0])
    BY <2>1
  <2> DEFINE new == [d EXCEPT !.status = status, !.due = FALSE, !.lease = 0]
  <2>3. /\ new \in Delivery
        /\ new.revision = d.revision /\ new.checkpoint = d.checkpoint
    BY <1>0 DEF Delivery
  <2>4. claims' \subseteq claims /\ UNCHANGED <<ledgerVars, aged, leased, losses>>
    BY <1>2 DEF FinishDelivery
  <2> QED
    BY <2>2, <2>3, <2>4, UpdateIInv
<1>3. ASSUME NEW c \in claims, DropClaim(c)
      PROVE  IInv'
  <2>1. /\ claims' \subseteq claims /\ deliveries' = deliveries
        /\ UNCHANGED <<ledgerVars, aged, leased, losses>>
    BY <1>3 DEF DropClaim
  <2> QED
    BY <1>0, <2>1, LedgerUntouched DEF TypeOK
<1>4. ASSUME NEW d \in deliveries, Redrive(d)
      PROVE  IInv'
  <2> DEFINE new == [d EXCEPT !.status = "pending", !.attempts = 0, !.due = TRUE]
  <2>1. /\ new \in Delivery
        /\ new.revision = d.revision /\ new.checkpoint = d.checkpoint
    BY <1>0 DEF Delivery
  <2>2. Update(d, new) /\ UNCHANGED <<ledgerVars, claims, aged, leased, losses>>
    BY <1>4 DEF Redrive
  <2> QED
    BY <2>1, <2>2, UpdateIInv
<1>5. ASSUME NEW d \in deliveries, DeliveryFallsDue(d)
      PROVE  IInv'
  <2> DEFINE new == [d EXCEPT !.due = TRUE]
  <2>1. /\ new \in Delivery
        /\ new.revision = d.revision /\ new.checkpoint = d.checkpoint
    BY <1>0 DEF Delivery
  <2>2. Update(d, new) /\ UNCHANGED <<ledgerVars, claims, aged, leased, losses>>
    BY <1>5 DEF DeliveryFallsDue
  <2> QED
    BY <2>1, <2>2, UpdateIInv
<1> QED
  BY <1>1, <1>2, <1>3, <1>4, <1>5 DEF OutboxNext

LEMMA AgesIInv ==
  ASSUME IInv, NEW id \in 1..issued, ReservationAges(id)
  PROVE  IInv'
<1>1. /\ TypeOK /\ id \in Nat /\ aged' = aged \cup {id}
      /\ UNCHANGED <<ledgerVars, losses>>
      /\ deliveries' = deliveries /\ claims' = claims /\ leased' = leased
  BY DEF ReservationAges, IInv, TypeOK, outboxVars
<1> QED
  BY <1>1, LedgerUntouched DEF TypeOK

(* A loss takes rows, records or deliveries away and says so in losses.    *)
LEMMA LoseIInv ==
  ASSUME IInv, Lose
  PROVE  IInv'
<1>1. TypeOK /\ AccumulatorInv /\ RecordInv /\ losses \in Nat
  BY DEF IInv, TypeOK
<1>2. /\ losses' = losses + 1 /\ losses' # 0
      /\ UNCHANGED <<manifest, vouched, claims, aged, issued, leased>>
  BY <1>1 DEF Lose
<1>3. rows' \subseteq rows /\ deliveries' \subseteq deliveries
  BY DEF Lose
<1>4. records' \in Seq(Record)
  <2>1. CASE \E i \in DOMAIN records : records' = RemoveAt(records, i)
    BY <1>1, <2>1, RemoveAtType DEF TypeOK
  <2>2. CASE records' = records
    BY <1>1, <2>2 DEF TypeOK
  <2> QED
    BY <2>1, <2>2 DEF Lose
<1>5. TypeOK'
  BY <1>1, <1>2, <1>3, <1>4 DEF TypeOK
<1>6. AccumulatorInv'
  BY <1>1, <1>2, <1>3 DEF AccumulatorInv
<1>7. RecordInv'
  BY <1>1, <1>2, RecordsKept DEF TypeOK
<1>8. CoverageInv'
  BY <1>2 DEF CoverageInv
<1> QED
  BY <1>5, <1>6, <1>7, <1>8 DEF IInv
-----------------------------------------------------------------------------
LEMMA InitIInv == Init => IInv
<1> SUFFICES ASSUME Init PROVE IInv
  OBVIOUS
<1>1. TypeOK
  BY DEF Init, TypeOK, Manifest
<1>2. AccumulatorInv
  BY FS_EmptySet DEF Init, AccumulatorInv
<1>3. RecordInv
  BY DEF Init, RecordInv, ReconciliationIsFinal
<1>4. CoverageInv
  BY DEF Init, CoverageInv
<1> QED
  BY <1>1, <1>2, <1>3, <1>4 DEF IInv

LEMMA NextIInv == IInv /\ [Next]_vars => IInv'
<1> SUFFICES ASSUME IInv, [Next]_vars PROVE IInv'
  OBVIOUS
<1>1. CASE LedgerNext
  BY <1>1, ReserveIInv, CompleteIInv, ReleaseIInv, ReconcileIInv, AgesIInv
     DEF LedgerNext
<1>2. CASE OutboxNext
  BY <1>2, OutboxIInv
<1>3. CASE Lose
  BY <1>3, LoseIInv
<1>4. CASE UNCHANGED vars
  <2>1. /\ UNCHANGED <<ledgerVars, losses>> /\ deliveries' = deliveries
        /\ claims' = claims /\ aged' = aged /\ leased' = leased
    BY <1>4 DEF vars, ledgerVars
  <2> QED
    BY <2>1, LedgerUntouched DEF IInv, TypeOK
<1> QED
  BY <1>1, <1>2, <1>3, <1>4 DEF Next

THEOREM Invariance == Spec => []IInv
BY InitIInv, NextIInv, PTL DEF Spec

(* Every value stays in its table's and its column's type; in particular   *)
(* the row count never becomes negative.                                   *)
THEOREM TypeCorrect == Spec => []TypeOK
<1>1. IInv => TypeOK
  BY DEF IInv
<1> QED
  BY <1>1, Invariance, PTL

(* No operation ever makes the verification of a later one fail: without   *)
(* an outside loss the integrity errors of the store cannot occur.         *)
THEOREM LedgerStaysUsable == Spec => []NeverLocksItselfOut
<1>1. IInv => NeverLocksItselfOut
  BY DEF IInv, AccumulatorInv, RecordInv, CoverageInv, NeverLocksItselfOut,
         Verified, RowsVerify, RecordsVerify, AnchorCoverageVerifies, Checkpoint
<1> QED
  BY <1>1, Invariance, PTL

(* A key never gets a second reservation, lost rows or not.                *)
THEOREM KeysAreHeldOnce == Spec => []KeyHeldOnce
<1>1. IInv => KeyHeldOnce
  BY DEF IInv, AccumulatorInv, KeyHeldOnce
<1> QED
  BY <1>1, Invariance, PTL

(* No late request overturns what an operator recorded.                    *)
THEOREM VerdictsAreFinal == Spec => []ReconciliationIsFinal
<1>1. IInv => ReconciliationIsFinal
  BY DEF IInv, RecordInv
<1> QED
  BY <1>1, Invariance, PTL
-----------------------------------------------------------------------------
(* Refinement: the rows that the manifest vouches for are the entries of   *)
(* an ActionLedger.                                                        *)

(* Distinct vouched rows have distinct views.                              *)
LEMMA ViewInjective ==
  ASSUME AccumulatorInv, NEW a \in manifest.accumulator,
         NEW b \in manifest.accumulator, View(a) = View(b)
  PROVE  a = b
BY DEF AccumulatorInv, View

LEMMA SettleSimulated ==
  ASSUME TypeOK, AccumulatorInv, Verified(FALSE),
         NEW row \in rows, row.state = "pending", CompleteRow(row),
         issued' = issued, losses' = losses
  PROVE  \E e \in Vouched : Ledger!Settle(e)
<1> DEFINE completed == [row EXCEPT !.state = "completed"]
           e == View(row)
           acc == manifest.accumulator
<1>1. /\ manifest'.accumulator = (acc \ {row}) \cup {completed}
      /\ row \in acc /\ row \in Row
  BY CompleteRowEffect DEF TypeOK
<1>2. e \in Vouched /\ e.state = "pending"
  BY <1>1 DEF Vouched, View
<1>3. View(completed) = [e EXCEPT !.state = "completed"]
  BY <1>1 DEF View, Row
<1>4. {View(r) : r \in acc \ {row}} = Vouched \ {e}
  BY <1>1, ViewInjective DEF Vouched
<1>5. Vouched' = {View(r) : r \in manifest'.accumulator}
  BY DEF Vouched, View
<1> HIDE DEF completed
<1>6. Vouched' = {View(r) : r \in acc \ {row}} \cup {View(completed)}
  BY <1>1, <1>5
<1>7. Vouched' = (Vouched \ {e}) \cup {[e EXCEPT !.state = "completed"]}
  BY <1>3, <1>4, <1>6
<1> QED
  BY <1>2, <1>7 DEF Ledger!Settle

LEMMA WithdrawSimulated ==
  ASSUME TypeOK, AccumulatorInv, Verified(FALSE),
         NEW row \in rows, row.state = "pending", DeleteRow(row),
         issued' = issued, losses' = losses
  PROVE  \E e \in Vouched : Ledger!Withdraw(e)
<1> DEFINE e == View(row)
           acc == manifest.accumulator
<1>1. manifest'.accumulator = acc \ {row} /\ row \in acc
  BY DeleteRowEffect
<1>2. e \in Vouched /\ e.state = "pending"
  BY <1>1 DEF Vouched, View
<1>3. {View(r) : r \in acc \ {row}} = Vouched \ {e}
  BY <1>1, ViewInjective DEF Vouched
<1>4. Vouched' = {View(r) : r \in manifest'.accumulator}
  BY DEF Vouched, View
<1>5. Vouched' = Vouched \ {e}
  BY <1>1, <1>3, <1>4
<1> QED
  BY <1>2, <1>5 DEF Ledger!Withdraw

LEMMA AdmitSimulated ==
  ASSUME IInv, NEW k \in Keys, NEW f \in Fingerprints, NEW dsc \in BOOLEAN,
         Reserve(k, f, dsc)
  PROVE  Ledger!Admit(k, f)
<1> DEFINE row == [key |-> k, fingerprint |-> f, state |-> "pending",
                   id |-> issued + 1, described |-> dsc]
           acc == manifest.accumulator
<1>1. TypeOK /\ AccumulatorInv /\ issued \in Nat
  BY DEF IInv, TypeOK
<1>2. row \in Row /\ row.id = issued + 1 /\ row.key = k
  BY <1>1 DEF Row
<1>3. /\ Verified(FALSE)
      /\ \A r \in rows : r.key # k
      /\ rows' = rows \cup {row}
      /\ issued' = issued + 1 /\ losses' = losses
      /\ WriteManifest(Xor(manifest.accumulator, {row}),
                       manifest.row_count + 1)
  <2>1. ReserveResult(k, f) = "new" => \A r \in rows : r.key # k
    BY DEF ReserveResult
  <2> QED
    BY <2>1 DEF Reserve
<1>4. View(row) = [key |-> k, fingerprint |-> f, state |-> "pending",
                   id |-> issued']
  BY <1>3 DEF View
<1> HIDE DEF row
<1>5. manifest'.accumulator = acc \cup {row} /\ rows = acc
  BY <1>1, <1>2, <1>3, AddRowEffect, VerifiedRows
<1>6. Vouched' = {View(r) : r \in manifest'.accumulator}
  BY DEF Vouched, View
<1>7. Vouched' = Vouched \cup {View(row)}
  BY <1>5, <1>6 DEF Vouched
<1>8. \A e \in Vouched : e.key # k
  BY <1>3, <1>5 DEF Vouched, View
<1> QED
  BY <1>3, <1>4, <1>7, <1>8 DEF Ledger!Admit, Ledger!Free

LEMMA StepSimulated == IInv /\ [Next]_vars => [Ledger!Next]_<<Vouched, issued>>
<1> SUFFICES ASSUME IInv, [Next]_vars
             PROVE  [Ledger!Next]_<<Vouched, issued>>
  OBVIOUS
<1>0. TypeOK /\ AccumulatorInv
  BY DEF IInv
<1>1. ASSUME NEW k \in Keys, NEW f \in Fingerprints, NEW dsc \in BOOLEAN,
             Reserve(k, f, dsc)
      PROVE  Ledger!Next
  BY <1>1, AdmitSimulated DEF Ledger!Next
<1>2. ASSUME NEW k \in Keys, NEW f \in Fingerprints, Complete(k, f)
      PROVE  Ledger!Next
  <2>1. \E row \in rows : row.state = "pending" /\ CompleteRow(row)
    BY <1>2 DEF Complete, Matching
  <2>2. Verified(FALSE) /\ issued' = issued /\ losses' = losses
    BY <1>2 DEF Complete
  <2> QED
    BY <1>0, <2>1, <2>2, SettleSimulated DEF Ledger!Next
<1>3. ASSUME NEW k \in Keys, NEW f \in Fingerprints, Release(k, f)
      PROVE  Ledger!Next
  <2>1. \E row \in rows : row.state = "pending" /\ DeleteRow(row)
    BY <1>3 DEF Release, Matching
  <2>2. Verified(FALSE) /\ issued' = issued /\ losses' = losses
    BY <1>3 DEF Release
  <2> QED
    BY <1>0, <2>1, <2>2, WithdrawSimulated DEF Ledger!Next
<1>4. ASSUME NEW id \in 1..issued,
             NEW outcome \in {"confirmed_executed", "confirmed_not_executed"},
             Reconcile(id, outcome)
      PROVE  Ledger!Next
  <2>1. PICK row \in rows :
          /\ row.state = "pending"
          /\ IF outcome = "confirmed_not_executed"
             THEN DeleteRow(row) ELSE CompleteRow(row)
    BY <1>4 DEF Reconcile
  <2>2. Verified(FALSE) /\ issued' = issued /\ losses' = losses
    BY <1>4 DEF Reconcile
  <2>3. CASE DeleteRow(row)
    BY <1>0, <2>1, <2>2, <2>3, WithdrawSimulated DEF Ledger!Next
  <2>4. CASE CompleteRow(row)
    BY <1>0, <2>1, <2>2, <2>4, SettleSimulated DEF Ledger!Next
  <2> QED
    BY <2>1, <2>3, <2>4
<1>5. ASSUME manifest' = manifest, issued' = issued
      PROVE  UNCHANGED <<Vouched, issued>>
  BY <1>5 DEF Vouched, View
<1>6. CASE OutboxNext
  BY <1>5, <1>6 DEF OutboxNext, ClaimDeliveries, FinishDelivery, DropClaim,
     Redrive, DeliveryFallsDue, ledgerVars
<1>7. ASSUME NEW id \in 1..issued, ReservationAges(id)
      PROVE  UNCHANGED <<Vouched, issued>>
  BY <1>5, <1>7 DEF ReservationAges, ledgerVars
<1>8. CASE Lose
  BY <1>5, <1>8 DEF Lose
<1>9. CASE UNCHANGED vars
  BY <1>5, <1>9 DEF vars
<1>10. CASE LedgerNext
  BY <1>1, <1>2, <1>3, <1>4, <1>7, <1>10 DEF LedgerNext
<1> QED
  BY <1>6, <1>8, <1>9, <1>10 DEF Next

(* The shared store implements the abstract ledger: in particular no       *)
(* outbox step, no loss and no refused operation is visible to callers as  *)
(* a change of who holds a key.                                            *)
THEOREM Refinement == Spec => ImplementsLedger
<1>1. Init => Ledger!Init
  BY DEF Init, Ledger!Init, Vouched
<1>2. Spec => []IInv /\ [][Next]_vars
  BY Invariance, PTL DEF Spec
<1>3. Spec => [][Ledger!Next]_<<Vouched, issued>>
  BY <1>2, StepSimulated, PTL
<1>4. Spec => Ledger!Init
  BY <1>1 DEF Spec
<1> QED
  BY <1>3, <1>4 DEF ImplementsLedger, Ledger!Spec, Ledger!vars

(* A ledger operation only adds a delivery.                                *)
LEMMA WriteManifestKeepsDeliveries ==
  ASSUME NEW acc, NEW n, WriteManifest(acc, n)
  PROVE  deliveries \subseteq deliveries'
BY DEF WriteManifest, NextManifest, Queued

LEMMA LedgerKeepsDeliveries ==
  ASSUME LedgerNext
  PROVE  deliveries \subseteq deliveries'
<1>1. \A row : DeleteRow(row) => deliveries \subseteq deliveries'
  BY WriteManifestKeepsDeliveries DEF DeleteRow
<1>2. \A row : CompleteRow(row) => deliveries \subseteq deliveries'
  BY WriteManifestKeepsDeliveries DEF CompleteRow
<1>3. ASSUME NEW k, NEW f, NEW described, Reserve(k, f, described)
      PROVE  deliveries \subseteq deliveries'
  BY <1>3, WriteManifestKeepsDeliveries DEF Reserve
<1>4. ASSUME NEW k, NEW f, Complete(k, f) \/ Release(k, f)
      PROVE  deliveries \subseteq deliveries'
  BY <1>1, <1>2, <1>4 DEF Complete, Release
<1>5. ASSUME NEW id, NEW outcome, Reconcile(id, outcome)
      PROVE  deliveries \subseteq deliveries'
  BY <1>1, <1>2, <1>5 DEF Reconcile
<1>6. ASSUME NEW id, ReservationAges(id)
      PROVE  deliveries \subseteq deliveries'
  BY <1>6 DEF ReservationAges, outboxVars
<1> QED
  BY <1>3, <1>4, <1>5, <1>6 DEF LedgerNext

(* Only a lost row can undo an acknowledgement: a claim takes pending and  *)
(* processing deliveries, a worker finishes one that is processing and an  *)
(* operator redrives a dead one.                                           *)
LEMMA DeliveredKept ==
  ASSUME TypeOK, [Next]_vars, losses' = losses,
         NEW d \in deliveries, d.status = "delivered"
  PROVE  d \in deliveries'
<1>1. CASE LedgerNext
  BY <1>1, LedgerKeepsDeliveries
<1>2. ASSUME NEW batch \in SUBSET Claimable, ClaimDeliveries(batch)
      PROVE  d \in deliveries'
  BY <1>2 DEF ClaimDeliveries, Claimable
<1>3. ASSUME NEW c \in claims, NEW result, FinishDelivery(c, result)
      PROVE  d \in deliveries'
  <2>1. PICK e \in deliveries :
          e.status = "processing" /\ \E new : Update(e, new)
    BY <1>3 DEF FinishDelivery, HoldsLease
  <2> QED
    BY <2>1 DEF Update
<1>4. ASSUME NEW c \in claims, DropClaim(c)
      PROVE  d \in deliveries'
  BY <1>4 DEF DropClaim
<1>5. ASSUME NEW e \in deliveries, Redrive(e) \/ DeliveryFallsDue(e)
      PROVE  d \in deliveries'
  <2>1. e # d
    BY <1>5 DEF Redrive, DeliveryFallsDue
  <2> QED
    BY <1>5, <2>1 DEF Redrive, DeliveryFallsDue, Update
<1>6. CASE Lose
  BY <1>6 DEF Lose, TypeOK
<1>7. CASE UNCHANGED vars
  BY <1>7 DEF vars
<1> QED
  BY <1>1, <1>2, <1>3, <1>4, <1>5, <1>6, <1>7 DEF Next, OutboxNext

THEOREM AcknowledgementsAreFinal == Spec => DeliveredIsFinal
<1> DEFINE Kept == losses' = losses =>
             \A d \in deliveries :
               d.status = "delivered" =>
                 \E e \in deliveries' :
                   e.revision = d.revision /\ e.status = "delivered"
<1>1. TypeOK /\ [Next]_vars => Kept
  BY DeliveredKept
<1>2. Spec => []TypeOK /\ [][Next]_vars
  BY TypeCorrect, PTL DEF Spec
<1> HIDE DEF Kept
<1>3. Spec => [][Kept]_vars
  BY <1>1, <1>2, PTL
<1> QED
  BY <1>3 DEF DeliveredIsFinal, Kept

-----------------------------------------------------------------------------
(* The story that the outbox tells.                                        *)

(* Workers and operators change what becomes of a delivery, not what it    *)
(* says.                                                                   *)
LEMMA StoryRetold ==
  ASSUME AnchoredHistoryIsLegal, manifest' = manifest, losses' = losses,
         losses = 0 =>
           /\ \A x \in deliveries' : \E d \in deliveries :
                x.revision = d.revision /\ x.checkpoint = d.checkpoint
           /\ \A d \in deliveries : \E x \in deliveries' : x.revision = d.revision
           /\ \A x, y \in deliveries' : x.revision = y.revision => x = y
  PROVE  AnchoredHistoryIsLegal'
<1> SUFFICES ASSUME Anchoring, losses = 0
             PROVE  /\ {d.revision : d \in deliveries'} = 1..manifest.revision
                    /\ \A d, e \in deliveries' :
                         /\ d.revision = e.revision => d = e
                         /\ e.revision = d.revision + 1 =>
                              LegalChange(d.checkpoint.accumulator, e.checkpoint.accumulator)
  BY DEF AnchoredHistoryIsLegal
<1>1. /\ {d.revision : d \in deliveries} = 1..manifest.revision
      /\ \A d, e \in deliveries : e.revision = d.revision + 1 =>
           LegalChange(d.checkpoint.accumulator, e.checkpoint.accumulator)
  BY DEF AnchoredHistoryIsLegal
<1>2. {d.revision : d \in deliveries'} = {d.revision : d \in deliveries}
  OBVIOUS
<1>3. ASSUME NEW x \in deliveries', NEW y \in deliveries', y.revision = x.revision + 1
      PROVE  LegalChange(x.checkpoint.accumulator, y.checkpoint.accumulator)
  <2>1. PICK d \in deliveries : x.revision = d.revision /\ x.checkpoint = d.checkpoint
    OBVIOUS
  <2>2. PICK e \in deliveries : y.revision = e.revision /\ y.checkpoint = e.checkpoint
    OBVIOUS
  <2>3. LegalChange(d.checkpoint.accumulator, e.checkpoint.accumulator)
    BY <1>1, <1>3, <2>1, <2>2
  <2> QED
    BY <2>1, <2>2, <2>3
<1> QED
  BY <1>1, <1>2, <1>3

LEMMA UpdateRetells ==
  ASSUME AnchoredHistoryIsLegal, NEW d \in deliveries, NEW new, Update(d, new),
         new.revision = d.revision, new.checkpoint = d.checkpoint,
         Anchoring, UNCHANGED <<manifest, losses>>
  PROVE  AnchoredHistoryIsLegal'
<1>1. deliveries' = (deliveries \ {d}) \cup {new}
  BY DEF Update
<1>2. losses = 0 => \A x, y \in deliveries : x.revision = y.revision => x = y
  BY DEF AnchoredHistoryIsLegal
<1>3. /\ \A x \in deliveries' : \E e \in deliveries :
           x.revision = e.revision /\ x.checkpoint = e.checkpoint
      /\ \A e \in deliveries : \E x \in deliveries' : x.revision = e.revision
  BY <1>1
<1>4. losses = 0 => \A x, y \in deliveries' : x.revision = y.revision => x = y
  BY <1>1, <1>2
<1> QED
  BY <1>3, <1>4, StoryRetold

(* A ledger change adds the next sentence: the current delivery is the     *)
(* manifest's, so the new one differs from it as the ledger does.          *)
LEMMA StoryGoesOn ==
  ASSUME IInv, AnchoredHistoryIsLegal, NEW acc \in SUBSET Row, NEW n \in Nat,
         WriteManifest(acc, n), LegalChange(manifest.accumulator, acc), losses' = losses
  PROVE  AnchoredHistoryIsLegal'
<1> SUFFICES ASSUME Anchoring, losses = 0
             PROVE  /\ {d.revision : d \in deliveries'} = 1..manifest'.revision
                    /\ \A d, e \in deliveries' :
                         /\ d.revision = e.revision => d = e
                         /\ e.revision = d.revision + 1 =>
                              LegalChange(d.checkpoint.accumulator, e.checkpoint.accumulator)
  BY DEF AnchoredHistoryIsLegal
<1> DEFINE rev == manifest.revision
           next == NextManifest(acc, n)
<1>1. PICK q : q = Queued(next)
  OBVIOUS
<1>2. manifest' = next /\ deliveries' = deliveries \cup {q}
  BY <1>1 DEF WriteManifest
<1>3. /\ rev \in Nat /\ next.revision = rev + 1 /\ next.accumulator = acc
      /\ q.revision = rev + 1 /\ q.checkpoint = next
  <2>1. rev \in Nat
    BY DEF IInv, TypeOK, Manifest
  <2>2. next.revision = rev + 1 /\ next.accumulator = acc
    BY DEF NextManifest
  <2>3. q.revision = next.revision /\ q.checkpoint = next
    BY <1>1 DEF Queued, Checkpoint
  <2> QED
    BY <2>1, <2>2, <2>3
<1>4. /\ {d.revision : d \in deliveries} = 1..rev
      /\ \A d, e \in deliveries :
           /\ d.revision = e.revision => d = e
           /\ e.revision = d.revision + 1 =>
                LegalChange(d.checkpoint.accumulator, e.checkpoint.accumulator)
  BY DEF AnchoredHistoryIsLegal
<1>5. \A d \in deliveries : d.revision \in 1..rev
  BY <1>4
<1> HIDE DEF next
<1>6. {d.revision : d \in deliveries'} = 1..manifest'.revision
  <2>1. {d.revision : d \in deliveries'} = (1..rev) \cup {rev + 1}
    BY <1>2, <1>3, <1>4
  <2> QED
    BY <1>2, <1>3, <2>1
<1>7. ASSUME NEW d \in deliveries', NEW e \in deliveries', d.revision = e.revision
      PROVE  d = e
  BY <1>2, <1>3, <1>4, <1>5, <1>7
<1>8. ASSUME NEW d \in deliveries', NEW e \in deliveries', e.revision = d.revision + 1
      PROVE  LegalChange(d.checkpoint.accumulator, e.checkpoint.accumulator)
  <2>1. CASE e \in deliveries
    <3>1. d \in deliveries
      BY <1>2, <1>3, <1>5, <1>8, <2>1
    <3> QED
      BY <1>4, <1>8, <2>1, <3>1
  <2>2. CASE e = q
    <3>1. d \in deliveries /\ d.revision = rev /\ rev # 0
      BY <1>2, <1>3, <1>5, <1>8, <2>2
    <3>2. PICK c \in deliveries : c.revision = rev /\ c.checkpoint = manifest
      BY <3>1 DEF IInv, CoverageInv
    <3>3. d.checkpoint = manifest
      BY <1>4, <3>1, <3>2
    <3> QED
      BY <1>3, <2>2, <3>3
  <2> QED
    BY <1>2, <2>1, <2>2
<1> QED
  BY <1>6, <1>7, <1>8

(* The two settlements of a pending reservation are legal changes.         *)
LEMMA DeletionTold ==
  ASSUME IInv, AnchoredHistoryIsLegal, Verified(FALSE),
         NEW row \in rows, row.state = "pending", DeleteRow(row), losses' = losses
  PROVE  AnchoredHistoryIsLegal'
<1> DEFINE acc == manifest.accumulator
<1>1. /\ rows = acc /\ acc \subseteq Row /\ row \in acc
      /\ IsFiniteSet(acc) /\ manifest.row_count = Cardinality(acc)
  BY VerifiedRows DEF IInv, TypeOK, Manifest, AccumulatorInv
<1>2. Xor(acc, {row}) = acc \ {row}
  BY <1>1, XorRemoves
<1>3. manifest.row_count - 1 \in Nat
  <2>1. IsFiniteSet(acc \ {row}) /\ Cardinality(acc \ {row}) = Cardinality(acc) - 1
    BY <1>1, FS_RemoveElement
  <2> QED
    BY <1>1, <2>1, FS_CardinalityType
<1>4. WriteManifest(acc \ {row}, manifest.row_count - 1) /\ acc \ {row} \in SUBSET Row
  BY <1>1, <1>2 DEF DeleteRow
<1>5. LegalChange(acc, acc \ {row})
  BY <1>1 DEF LegalChange
<1> HIDE DEF acc
<1>6. LegalChange(manifest.accumulator, acc \ {row})
  BY <1>5 DEF acc
<1> QED
  BY <1>3, <1>4, <1>6, StoryGoesOn

LEMMA CompletionTold ==
  ASSUME IInv, AnchoredHistoryIsLegal, Verified(FALSE),
         NEW row \in rows, row.state = "pending", CompleteRow(row), losses' = losses
  PROVE  AnchoredHistoryIsLegal'
<1> DEFINE acc == manifest.accumulator
           completed == [row EXCEPT !.state = "completed"]
           after == (acc \ {row}) \cup {completed}
<1>1. rows = acc /\ acc \subseteq Row /\ row \in acc /\ row \in Row
  BY VerifiedRows DEF IInv, TypeOK, Manifest
<1>2. completed \in Row /\ completed # row /\ completed.key = row.key
  BY <1>1 DEF Row
<1>3. completed \notin acc
  BY <1>1, <1>2 DEF IInv, AccumulatorInv
<1>4. Xor(Xor(acc, {row}), {completed}) = after
  <2>1. Xor(acc, {row}) = acc \ {row} /\ completed \notin acc \ {row}
    BY <1>1, <1>3, XorRemoves
  <2> QED
    BY <2>1, XorAdds
<1>5. /\ WriteManifest(after, manifest.row_count)
      /\ after \in SUBSET Row /\ manifest.row_count \in Nat
  BY <1>1, <1>2, <1>4 DEF CompleteRow, IInv, TypeOK, Manifest
<1>6. LegalChange(acc, after)
  BY <1>1 DEF LegalChange
<1> HIDE DEF after
<1> QED
  BY <1>5, <1>6, StoryGoesOn

LEMMA LedgerTold ==
  ASSUME IInv, AnchoredHistoryIsLegal, LedgerNext
  PROVE  AnchoredHistoryIsLegal'
<1>1. ASSUME NEW k \in Keys, NEW f \in Fingerprints, NEW dsc \in BOOLEAN,
             Reserve(k, f, dsc)
      PROVE  AnchoredHistoryIsLegal'
  <2> DEFINE acc == manifest.accumulator
             row == [key |-> k, fingerprint |-> f, state |-> "pending",
                     id |-> issued + 1, described |-> dsc]
  <2>1. /\ Verified(FALSE) /\ losses' = losses
        /\ WriteManifest(Xor(acc, {row}), manifest.row_count + 1)
        /\ \A r \in rows : r.key # k
    BY <1>1 DEF Reserve, ReserveResult
  <2>2. rows = acc /\ acc \subseteq Row /\ manifest.row_count + 1 \in Nat
    BY <2>1, VerifiedRows DEF IInv, TypeOK, Manifest
  <2>3. row \in Row /\ row.key = k /\ row.state = "pending"
    BY DEF IInv, TypeOK, Row
  <2>4. row \notin acc
    BY <2>1, <2>2, <2>3
  <2>5. WriteManifest(acc \cup {row}, manifest.row_count + 1)
    <3>1. Xor(acc, {row}) = acc \cup {row}
      BY <2>4, XorAdds
    <3> QED
      BY <2>1, <3>1
  <2> HIDE DEF row
  <2>6. LegalChange(acc, acc \cup {row}) /\ acc \cup {row} \in SUBSET Row
    BY <2>2, <2>3, <2>4 DEF LegalChange
  <2> QED
    BY <2>1, <2>2, <2>5, <2>6, StoryGoesOn
<1>2. ASSUME NEW k \in Keys, NEW f \in Fingerprints, Complete(k, f)
      PROVE  AnchoredHistoryIsLegal'
  BY <1>2, CompletionTold DEF Complete, Matching
<1>3. ASSUME NEW k \in Keys, NEW f \in Fingerprints, Release(k, f)
      PROVE  AnchoredHistoryIsLegal'
  BY <1>3, DeletionTold DEF Release, Matching
<1>4. ASSUME NEW id \in 1..issued, NEW outcome, Reconcile(id, outcome)
      PROVE  AnchoredHistoryIsLegal'
  <2>1. PICK row \in rows :
          /\ row.state = "pending"
          /\ IF outcome = "confirmed_not_executed" THEN DeleteRow(row) ELSE CompleteRow(row)
    BY <1>4 DEF Reconcile
  <2>2. Verified(FALSE) /\ losses' = losses
    BY <1>4 DEF Reconcile
  <2> QED
    BY <2>1, <2>2, DeletionTold, CompletionTold
<1>5. ASSUME NEW id \in 1..issued, ReservationAges(id)
      PROVE  AnchoredHistoryIsLegal'
  <2>1. UNCHANGED <<manifest, deliveries, losses>>
    BY <1>5 DEF ReservationAges, ledgerVars, outboxVars
  <2> QED
    BY <2>1 DEF AnchoredHistoryIsLegal
<1> QED
  BY <1>1, <1>2, <1>3, <1>4, <1>5 DEF LedgerNext

LEMMA OutboxTold ==
  ASSUME IInv, AnchoredHistoryIsLegal, Anchoring, OutboxNext
  PROVE  AnchoredHistoryIsLegal'
<1>1. ASSUME NEW batch \in SUBSET Claimable, ClaimDeliveries(batch)
      PROVE  AnchoredHistoryIsLegal'
  <2> DEFINE claimed(d) == [d EXCEPT !.status = "processing", !.attempts = @ + 1,
                                     !.lease = leased + 1, !.due = FALSE]
  <2>1. /\ deliveries' = (deliveries \ batch) \cup {claimed(d) : d \in batch}
        /\ manifest' = manifest /\ losses' = losses /\ batch \subseteq deliveries
    BY <1>1 DEF ClaimDeliveries, ledgerVars, Claimable
  <2>2. \A d \in deliveries : claimed(d).revision = d.revision /\ claimed(d).checkpoint = d.checkpoint
    BY DEF IInv, TypeOK, Delivery
  <2> HIDE DEF claimed
  <2>3. losses = 0 => \A x, y \in deliveries : x.revision = y.revision => x = y
    BY DEF AnchoredHistoryIsLegal
  <2>4. losses = 0 => \A x, y \in deliveries' : x.revision = y.revision => x = y
    BY <2>1, <2>2, <2>3
  <2>5. /\ \A x \in deliveries' : \E d \in deliveries :
             x.revision = d.revision /\ x.checkpoint = d.checkpoint
        /\ \A d \in deliveries : \E x \in deliveries' : x.revision = d.revision
    BY <2>1, <2>2
  <2> QED
    BY <2>1, <2>4, <2>5, StoryRetold
<1>2. ASSUME NEW c \in claims, NEW result, FinishDelivery(c, result)
      PROVE  AnchoredHistoryIsLegal'
  <2>1. PICK d \in deliveries, status \in {"delivered", "pending", "dead"} :
          Update(d, [d EXCEPT !.status = status, !.due = FALSE, !.lease = 0])
    BY <1>2 DEF FinishDelivery
  <2> DEFINE new == [d EXCEPT !.status = status, !.due = FALSE, !.lease = 0]
  <2>2. new.revision = d.revision /\ new.checkpoint = d.checkpoint
    BY DEF IInv, TypeOK, Delivery
  <2>3. UNCHANGED <<manifest, losses>>
    BY <1>2 DEF FinishDelivery, ledgerVars
  <2> QED
    BY <2>1, <2>2, <2>3, UpdateRetells
<1>3. ASSUME NEW c \in claims, DropClaim(c)
      PROVE  AnchoredHistoryIsLegal'
  BY <1>3 DEF DropClaim, ledgerVars, AnchoredHistoryIsLegal
<1>4. ASSUME NEW d \in deliveries, Redrive(d)
      PROVE  AnchoredHistoryIsLegal'
  <2> DEFINE new == [d EXCEPT !.status = "pending", !.attempts = 0, !.due = TRUE]
  <2>1. new.revision = d.revision /\ new.checkpoint = d.checkpoint
    BY DEF IInv, TypeOK, Delivery
  <2>2. Update(d, new) /\ UNCHANGED <<manifest, losses>>
    BY <1>4 DEF Redrive, ledgerVars
  <2> QED
    BY <2>1, <2>2, UpdateRetells
<1>5. ASSUME NEW d \in deliveries, DeliveryFallsDue(d)
      PROVE  AnchoredHistoryIsLegal'
  <2> DEFINE new == [d EXCEPT !.due = TRUE]
  <2>1. new.revision = d.revision /\ new.checkpoint = d.checkpoint
    BY DEF IInv, TypeOK, Delivery
  <2>2. Update(d, new) /\ UNCHANGED <<manifest, losses>>
    BY <1>5 DEF DeliveryFallsDue, ledgerVars
  <2> QED
    BY <2>1, <2>2, UpdateRetells
<1> QED
  BY <1>1, <1>2, <1>3, <1>4, <1>5 DEF OutboxNext

LEMMA HistoryTold ==
  ASSUME IInv, AnchoredHistoryIsLegal, [Next]_vars
  PROVE  AnchoredHistoryIsLegal'
<1>0. CASE ~Anchoring
  BY <1>0 DEF AnchoredHistoryIsLegal
<1>1. CASE LedgerNext
  BY <1>1, LedgerTold
<1>2. CASE OutboxNext
  BY <1>0, <1>2, OutboxTold
<1>3. CASE Lose
  <2>1. losses' # 0
    BY <1>3 DEF Lose, IInv, TypeOK
  <2> QED
    BY <2>1 DEF AnchoredHistoryIsLegal
<1>4. CASE UNCHANGED vars
  BY <1>4 DEF vars, AnchoredHistoryIsLegal
<1> QED
  BY <1>1, <1>2, <1>3, <1>4 DEF Next

(* While nothing is lost, the receiver can be told every revision once,    *)
(* and each is the one before it with one reservation made, settled or     *)
(* withdrawn.                                                              *)
THEOREM TheStoryIsLegal == Spec => []AnchoredHistoryIsLegal
<1>1. Init => AnchoredHistoryIsLegal
  <2> SUFFICES ASSUME Init PROVE AnchoredHistoryIsLegal
    OBVIOUS
  <2>1. deliveries = {} /\ manifest.revision = 0
    BY DEF Init
  <2>2. {d.revision : d \in deliveries} = 1..manifest.revision
    BY <2>1
  <2> QED
    BY <2>1, <2>2 DEF AnchoredHistoryIsLegal
<1>2. IInv /\ AnchoredHistoryIsLegal /\ [Next]_vars => AnchoredHistoryIsLegal'
  BY HistoryTold
<1> QED
  BY <1>1, <1>2, Invariance, PTL DEF Spec
=============================================================================
