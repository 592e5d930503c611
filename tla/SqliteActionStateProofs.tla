----------------------- MODULE SqliteActionStateProofs -----------------------
(***************************************************************************)
(* What holds of the SQLite ledger for every number of processes, tenants, *)
(* keys and fingerprints, however often rows are lost.                     *)
(***************************************************************************)
EXTENDS SqliteActionState, FiniteSetTheorems, TLAPS

-----------------------------------------------------------------------------
(* Verification.                                                           *)

(* Replacing some elements of a finite set by others.                      *)
LEMMA Replaced ==
  ASSUME NEW S, IsFiniteSet(S), NEW R \in SUBSET S, NEW A, IsFiniteSet(A),
         A \cap S = {}
  PROVE  /\ IsFiniteSet((S \ R) \cup A)
         /\ Cardinality((S \ R) \cup A) =
              (Cardinality(S) + Cardinality(A)) - Cardinality(R)
<1>1. IsFiniteSet(R) /\ IsFiniteSet(S \ R)
  BY FS_Subset
<1>2. /\ (S \ R) \cup R = S /\ (S \ R) \cap R = {}
      /\ (S \ R) \cap A = {}
  OBVIOUS
<1>3. Cardinality({}) = 0
  BY FS_EmptySet
<1>4. Cardinality(S) = Cardinality(S \ R) + Cardinality(R) - 0
  BY <1>1, <1>2, <1>3, FS_Union
<1>5. /\ IsFiniteSet((S \ R) \cup A)
      /\ Cardinality((S \ R) \cup A) = Cardinality(S \ R) + Cardinality(A) - 0
  BY <1>1, <1>2, <1>3, FS_Union
<1>6. /\ Cardinality(S) \in Nat /\ Cardinality(R) \in Nat
      /\ Cardinality(A) \in Nat /\ Cardinality(S \ R) \in Nat
  BY <1>1, FS_CardinalityType
<1> QED
  BY <1>4, <1>5, <1>6

(* What was verified, now or since the last foreign commit, holds.         *)
Overlooked(p) == IF processes[p].stale THEN {} ELSE processes[p].overlooked

LEMMA FreshIsVerified ==
  ASSUME UnchangedMeansVerified, TypeOK, NEW p \in Processes, Fresh(p)
  PROVE  RowsVerify /\ CoveredBut(Overlooked(p))
BY DEF UnchangedMeansVerified, Fresh, Coverage, Overlooked, TypeOK, Process

(* No tenant is left without its delivery that had it.                     *)
DeliveriesKept ==
  /\ anchoring' = anchoring /\ DOMAIN manifests' = DOMAIN manifests
  /\ anchoring => \A t \in DOMAIN manifests : HasDelivery(t) => HasDelivery(t)'

(* The processes, whoever commits, when nothing that is verified changes   *)
(* or those who have not verified it are told.                             *)
LEMMA CommittedVerifies ==
  ASSUME TypeOK, OpeningVerified, NEW p \in Processes,
         processes[p].pc = "open", Committed(p),
         CoveredBut(Overlooked(p)), DeliveriesKept, RowsVerify'
  PROVE  /\ processes' \in [Processes -> Process]
         /\ OpeningVerified' /\ UnchangedMeansVerified'
<1>1. /\ processes'[p].pc = "open" /\ processes'[p].stale = FALSE
      /\ processes'[p].overlooked = Overlooked(p)
      /\ \A q \in Processes \ {p} :
           /\ processes'[q].pc = processes[q].pc
           /\ processes'[q].overlooked = processes[q].overlooked
           /\ processes'[q].pc = "open" => processes'[q].stale
      /\ processes' \in [Processes -> Process]
  BY DEF TypeOK, Process, Committed, Overlooked
<1>2. OpeningVerified'
  <2>1. ASSUME NEW q \in Processes, processes'[q].pc = "queued"
        PROVE  CoveredBut(processes[q].overlooked)'
    <3>1. q # p /\ processes[q].pc = "queued"
          /\ processes'[q].overlooked = processes[q].overlooked
      BY <1>1, <2>1
    <3>2. CoveredBut(processes[q].overlooked)
      BY <3>1 DEF OpeningVerified
    <3> QED
      BY <3>1, <3>2 DEF CoveredBut, DeliveriesKept
  <2> QED
    BY <2>1 DEF OpeningVerified
<1>3. UnchangedMeansVerified'
  <2>1. CoveredBut(processes[p].overlooked)'
    BY <1>1 DEF CoveredBut, DeliveriesKept
  <2> QED
    BY <1>1, <2>1 DEF UnchangedMeansVerified
<1> QED
  BY <1>1, <1>2, <1>3

(* The processes, when nobody relies on more than before.                  *)
LEMMA OthersRely ==
  ASSUME OpeningVerified, UnchangedMeansVerified, RowsVerify => RowsVerify',
         DeliveriesKept,
         \A q \in Processes :
           \/ processes'[q].pc = "closed"
           \/ processes'[q].pc = "inspected" /\ RowsVerify
           \/ /\ processes'[q].overlooked = processes[q].overlooked
              /\ processes'[q].pc = processes[q].pc
              /\ ~processes'[q].stale => ~processes[q].stale
           \/ /\ processes'[q].pc = "open" /\ processes[q].pc = "queued"
              /\ processes'[q].overlooked = processes[q].overlooked
  PROVE  OpeningVerified' /\ UnchangedMeansVerified'
<1>1. ASSUME NEW q \in Processes, CoveredBut(processes[q].overlooked),
             processes'[q].overlooked = processes[q].overlooked
      PROVE  CoveredBut(processes[q].overlooked)'
  BY <1>1 DEF CoveredBut, DeliveriesKept
<1>2. OpeningVerified'
  BY <1>1 DEF OpeningVerified
<1>3. UnchangedMeansVerified'
  BY <1>1 DEF OpeningVerified, UnchangedMeansVerified
<1> QED
  BY <1>2, <1>3

LEMMA TouchedTypes ==
  ASSUME TypeOK, NEW others, Touched(others)
  PROVE  /\ processes' \in [Processes -> Process]
         /\ \A q \in Processes :
              /\ processes'[q].pc = processes[q].pc
              /\ processes'[q].overlooked = processes[q].overlooked
              /\ ~processes'[q].stale => ~processes[q].stale
              /\ q \in others /\ processes[q].pc = "open" => processes'[q].stale
BY DEF TypeOK, Process, Touched

-----------------------------------------------------------------------------
(* The manifest of a tenant moves on.                                      *)

(* The delivery that goes with it is new, whatever is left of older ones.  *)
LEMMA NewRevision ==
  ASSUME TypeOK, OutboxInv, NEW t \in DOMAIN manifests, NEW m \in Manifest,
         m.revision = manifests[t].revision + 1,
         manifests' = [manifests EXCEPT ![t] = m],
         deliveries' = WithDelivery(deliveries, t, m),
         UNCHANGED <<anchoring, claims, confirmed>>
  PROVE  /\ DOMAIN manifests' = DOMAIN manifests
         /\ \A x \in DOMAIN manifests :
              manifests'[x] = IF x = t THEN m ELSE manifests[x]
         /\ \A x \in DOMAIN manifests' : manifests'[x] \in Manifest
         /\ deliveries' \subseteq Delivery
         /\ OutboxInv' /\ DeliveriesKept
<1>1. /\ DOMAIN manifests' = DOMAIN manifests
      /\ \A x \in DOMAIN manifests :
           manifests'[x] = IF x = t THEN m ELSE manifests[x]
  OBVIOUS
<1>2. /\ \A x \in DOMAIN manifests : manifests[x] \in Manifest
      /\ t \in Tenants /\ manifests[t].revision \in Nat
  BY DEF TypeOK, Manifest
<1> DEFINE new == Queued(t, m)
<1>3. /\ new \in Delivery /\ new.tenant = t /\ new.revision = m.revision
      /\ new.checkpoint = m /\ new.status = "pending"
  BY <1>2 DEF Queued, Delivery, Manifest
<1> HIDE DEF new
<1>4. /\ deliveries \subseteq Delivery /\ claims \subseteq Claim
      /\ \A d \in Copies : d.revision \in Nat
  BY DEF TypeOK, Copies, Delivery, Claim
<1>5. \A d \in Copies : d.tenant = t => d.revision < m.revision
  BY <1>2, <1>4 DEF OutboxInv
<1>6. deliveries' = IF anchoring THEN deliveries \cup {new} ELSE deliveries
  <2>1. \A d \in deliveries : d.tenant # t \/ d.revision # m.revision
    BY <1>2, <1>4, <1>5 DEF Copies
  <2> QED  BY <2>1 DEF WithDelivery, new
<1>7. Copies' \subseteq Copies \cup {new} /\ deliveries \subseteq deliveries'
  BY <1>6 DEF Copies
<1>8. ASSUME NEW d \in Copies'
      PROVE  /\ d.tenant \in DOMAIN manifests'
             /\ d.revision <= manifests'[d.tenant].revision
             /\ d.revision = manifests'[d.tenant].revision =>
                  d.checkpoint = manifests'[d.tenant]
  <2>1. CASE d = new
    BY <1>1, <1>2, <1>3, <2>1
  <2>2. CASE d \in Copies
    <3>1. CASE d.tenant = t
      BY <1>1, <1>2, <1>4, <1>5, <2>2, <3>1 DEF OutboxInv
    <3>2. CASE d.tenant # t
      BY <1>1, <2>2, <3>2 DEF OutboxInv
    <3> QED  BY <3>1, <3>2
  <2> QED  BY <1>7, <2>1, <2>2
<1>9. ASSUME NEW d \in Copies', NEW e \in Copies', d.tenant = e.tenant,
             d.revision = e.revision
      PROVE  d.checkpoint = e.checkpoint
  <2>1. CASE d \in Copies /\ e \in Copies
    BY <1>9, <2>1 DEF OutboxInv
  <2>2. CASE d = new \/ e = new
    BY <1>3, <1>4, <1>5, <1>7, <1>9, <2>2
  <2> QED  BY <1>7, <2>1, <2>2
<1>10. OutboxInv'
  BY <1>3, <1>6, <1>8, <1>9 DEF OutboxInv
<1>11. DeliveriesKept
  <2>1. ASSUME NEW x \in DOMAIN manifests, HasDelivery(x), x # t
        PROVE  HasDelivery(x)'
    BY <1>1, <1>7, <2>1 DEF HasDelivery
  <2>2. anchoring => HasDelivery(t)'
    BY <1>1, <1>3, <1>6 DEF HasDelivery
  <2> QED  BY <1>1, <2>1, <2>2 DEF DeliveriesKept
<1> QED
  BY <1>1, <1>2, <1>3, <1>4, <1>6, <1>10, <1>11

(* A ledger transaction of a process that has verified: the rows of one    *)
(* tenant change, and its manifest with them.                              *)
LEMMA LedgerStep ==
  ASSUME IInv, NEW p \in Processes, Fresh(p), NEW t \in DOMAIN manifests,
         NEW removed \in SUBSET RowsOf(t), NEW added \in SUBSET Row,
         IsFiniteSet(added), added \cap rows = {},
         \A r \in added : r.tenant = t,
         rows' = (rows \ removed) \cup added,
         \A r, x \in rows' : r.tenant = x.tenant /\ r.key = x.key => r = x,
         UpdateManifest(t, removed, added),
         Committed(p),
         records' \subseteq [reservation : Nat, outcome : {"executed", "not_executed"}],
         issued' \in Nat,
         UNCHANGED <<anchoring, outboxVars, losses>>
  PROVE  IInv'
<1> DEFINE m == manifests[t]
           next == [revision    |-> m.revision + 1,
                    row_count   |-> (m.row_count + Cardinality(added))
                                      - Cardinality(removed),
                    accumulator |-> (m.accumulator \ removed) \cup added]
<1>1. /\ RowsVerify /\ CoveredBut(Overlooked(p))
      /\ processes[p].pc = "open"
  BY FreshIsVerified DEF IInv, Fresh
<1>2. /\ manifests' = [manifests EXCEPT ![t] = next]
      /\ deliveries' = WithDelivery(deliveries, t, next)
      /\ m.row_count + Cardinality(added) >= Cardinality(removed)
  BY DEF UpdateManifest
<1>3. IsFiniteSet(RowsOf(t)) /\ RowsOf(t) \subseteq rows
  BY FS_Subset DEF IInv, LedgerInv, RowsOf
<1>4. /\ Cardinality(removed) \in Nat /\ Cardinality(added) \in Nat
      /\ IsFiniteSet(removed)
  BY <1>3, FS_Subset, FS_CardinalityType
<1>5. m \in Manifest
  BY DEF IInv, TypeOK
<1>6. next \in Manifest /\ next.revision = m.revision + 1
  <2>1. next.row_count \in Nat
    BY <1>2, <1>4, <1>5 DEF Manifest
  <2>2. next.accumulator \subseteq Row
    BY <1>5 DEF Manifest
  <2> QED  BY <1>5, <2>1, <2>2 DEF Manifest
<1>7. m.row_count = Cardinality(RowsOf(t)) /\ m.accumulator = RowsOf(t)
  BY <1>1 DEF RowsVerify
<1>8. RowsOf(t)' = (RowsOf(t) \ removed) \cup added
  BY DEF RowsOf
<1>9. next.accumulator = RowsOf(t)' /\ next.row_count = Cardinality(RowsOf(t)')
  <2>1. added \cap RowsOf(t) = {}
    BY <1>3
  <2>2. Cardinality(RowsOf(t)') =
          (Cardinality(RowsOf(t)) + Cardinality(added)) - Cardinality(removed)
    BY <1>3, <1>8, <2>1, Replaced
  <2> QED  BY <1>7, <1>8, <2>2
<1> HIDE DEF next
<1>10. /\ DOMAIN manifests' = DOMAIN manifests
       /\ \A x \in DOMAIN manifests :
            manifests'[x] = IF x = t THEN next ELSE manifests[x]
       /\ \A x \in DOMAIN manifests' : manifests'[x] \in Manifest
       /\ deliveries' \subseteq Delivery
       /\ OutboxInv' /\ DeliveriesKept
  BY <1>1, <1>2, <1>6, NewRevision DEF IInv, outboxVars
<1>11. RowsVerify'
  <2>1. \A x \in DOMAIN manifests : x # t => RowsOf(x)' = RowsOf(x)
    BY DEF RowsOf
  <2>2. ASSUME NEW x \in DOMAIN manifests', x # t
        PROVE  /\ manifests'[x].row_count = Cardinality(RowsOf(x)')
               /\ manifests'[x].accumulator = RowsOf(x)'
    BY <1>1, <1>10, <2>1, <2>2 DEF RowsVerify
  <2>3. \A x \in DOMAIN manifests' :
          /\ manifests'[x].row_count = Cardinality(RowsOf(x)')
          /\ manifests'[x].accumulator = RowsOf(x)'
    BY <1>9, <1>10, <2>2
  <2> QED  BY <2>3 DEF RowsVerify, RowsOf
<1>12. LedgerInv'
  <2>1. IsFiniteSet(rows \ removed)
    BY FS_Subset DEF IInv, LedgerInv
  <2>2. IsFiniteSet(rows')
    BY <2>1, FS_Union
  <2>3. \A x \in DOMAIN manifests' : manifests'[x].accumulator = RowsOf(x)'
    BY <1>11 DEF RowsVerify
  <2>4. \A x \in DOMAIN manifests' : \A r \in manifests'[x].accumulator : r.tenant = x
    BY <2>3 DEF RowsOf
  <2> QED
    BY <1>10, <2>2, <2>4 DEF IInv, LedgerInv
<1>13. /\ processes' \in [Processes -> Process]
       /\ OpeningVerified' /\ UnchangedMeansVerified'
  BY <1>1, <1>10, <1>11, CommittedVerifies DEF IInv
<1>14. TypeOK'
  BY <1>10, <1>13 DEF IInv, TypeOK, outboxVars
<1> QED
  BY <1>10, <1>12, <1>13, <1>14 DEF IInv
-----------------------------------------------------------------------------
(* The ledger operations.                                                  *)

LEMMA RowCompleted ==
  ASSUME IInv, NEW p \in Processes, Fresh(p), NEW row \in rows,
         row.state = "pending", CompleteRow(row), Committed(p),
         records' \subseteq [reservation : Nat, outcome : {"executed", "not_executed"}],
         UNCHANGED <<issued, anchoring, outboxVars, losses>>
  PROVE  IInv'
<1> DEFINE new == [row EXCEPT !.state = "completed"]
<1>1. row \in Row /\ row.tenant \in DOMAIN manifests /\ issued \in Nat
  BY DEF IInv, TypeOK, LedgerInv
<1>2. /\ new \in Row /\ new.tenant = row.tenant /\ new.key = row.key
      /\ new.state = "completed" /\ new # row
  BY <1>1 DEF Row
<1>3. /\ rows' = (rows \ {row}) \cup {new}
      /\ UpdateManifest(row.tenant, {row}, {new})
  BY DEF CompleteRow
<1> HIDE DEF new
<1>4. new \notin rows
  BY <1>2 DEF IInv, LedgerInv
<1>5. \A r, x \in rows' : r.tenant = x.tenant /\ r.key = x.key => r = x
  BY <1>2, <1>3 DEF IInv, LedgerInv
<1>6. /\ {row} \in SUBSET RowsOf(row.tenant) /\ {new} \in SUBSET Row
      /\ IsFiniteSet({new}) /\ {new} \cap rows = {}
      /\ \A r \in {new} : r.tenant = row.tenant
  BY <1>2, <1>4, FS_Singleton DEF RowsOf
<1> QED
  BY <1>1, <1>3, <1>5, <1>6, LedgerStep

LEMMA RowDeleted ==
  ASSUME IInv, NEW p \in Processes, Fresh(p), NEW row \in rows,
         DeleteRow(row), Committed(p),
         records' \subseteq [reservation : Nat, outcome : {"executed", "not_executed"}],
         UNCHANGED <<issued, anchoring, outboxVars, losses>>
  PROVE  IInv'
<1>1. row.tenant \in DOMAIN manifests /\ issued \in Nat
  BY DEF IInv, TypeOK, LedgerInv
<1>2. /\ rows' = (rows \ {row}) \cup {}
      /\ UpdateManifest(row.tenant, {row}, {})
  BY DEF DeleteRow
<1>3. \A r, x \in rows' : r.tenant = x.tenant /\ r.key = x.key => r = x
  BY <1>2 DEF IInv, LedgerInv
<1>4. /\ {row} \in SUBSET RowsOf(row.tenant) /\ {} \in SUBSET Row
      /\ IsFiniteSet({}) /\ {} \cap rows = {}
      /\ \A r \in {} : r.tenant = row.tenant
  BY FS_EmptySet DEF RowsOf
<1> QED
  BY <1>1, <1>2, <1>3, <1>4, LedgerStep

LEMMA ReserveStep ==
  ASSUME IInv, NEW p \in Processes, NEW t \in DOMAIN manifests, NEW k \in Keys,
         NEW f \in Fingerprints, Reserve(p, t, k, f)
  PROVE  IInv'
<1> DEFINE row == [tenant |-> t, key |-> k, fingerprint |-> f,
                   state |-> "pending", id |-> issued + 1]
<1>1. t \in Tenants /\ issued + 1 \in Nat
  BY DEF IInv, TypeOK
<1>2. row \in Row /\ row.tenant = t /\ row.key = k
  BY <1>1 DEF Row
<1>3. /\ Fresh(p) /\ \A r \in RowsOf(t) : r.key # k
      /\ rows' = rows \cup {row} /\ issued' = issued + 1
      /\ UpdateManifest(t, {}, {row}) /\ Committed(p)
      /\ UNCHANGED <<records, anchoring, outboxVars, losses>>
  BY DEF Reserve
<1> HIDE DEF row
<1>4. \A r \in rows : r.tenant # t \/ r.key # k
  BY <1>3 DEF RowsOf
<1>5. \A r, x \in rows' : r.tenant = x.tenant /\ r.key = x.key => r = x
  BY <1>2, <1>3, <1>4 DEF IInv, LedgerInv
<1>6. /\ {} \in SUBSET RowsOf(t) /\ {row} \in SUBSET Row /\ IsFiniteSet({row})
      /\ {row} \cap rows = {} /\ \A r \in {row} : r.tenant = t
      /\ rows' = (rows \ {}) \cup {row}
  BY <1>2, <1>3, <1>4, FS_Singleton
<1>7. records' \subseteq [reservation : Nat, outcome : {"executed", "not_executed"}]
  BY <1>3 DEF IInv, TypeOK
<1> QED
  BY <1>1, <1>3, <1>5, <1>6, <1>7, LedgerStep

LEMMA SettleStep ==
  ASSUME IInv, NEW p \in Processes, NEW t, NEW k, NEW f,
         Complete(p, t, k, f) \/ Release(p, t, k, f)
  PROVE  IInv'
<1>1. \A r \in Pending(t, k, f) : r \in rows /\ r.state = "pending"
  BY DEF Pending, RowsOf
<1>2. records \subseteq [reservation : Nat, outcome : {"executed", "not_executed"}]
  BY DEF IInv, TypeOK
<1>3. CASE Complete(p, t, k, f)
  BY <1>1, <1>2, <1>3, RowCompleted DEF Complete
<1>4. CASE Release(p, t, k, f)
  BY <1>1, <1>2, <1>4, RowDeleted DEF Release
<1> QED  BY <1>3, <1>4

LEMMA ReconcileStep ==
  ASSUME IInv, NEW p \in Processes, NEW id \in 1..issued,
         NEW outcome \in {"executed", "not_executed"}, Reconcile(p, id, outcome)
  PROVE  IInv'
<1>1. PICK row \in rows :
        /\ row.state = "pending"
        /\ IF outcome = "executed" THEN CompleteRow(row) ELSE DeleteRow(row)
  BY DEF Reconcile
<1>2. records' \subseteq [reservation : Nat, outcome : {"executed", "not_executed"}]
  BY DEF Reconcile, IInv, TypeOK
<1>3. CASE CompleteRow(row)
  BY <1>1, <1>2, <1>3, RowCompleted DEF Reconcile
<1>4. CASE DeleteRow(row)
  BY <1>1, <1>2, <1>4, RowDeleted DEF Reconcile
<1> QED  BY <1>1, <1>3, <1>4

LEMMA LookStep ==
  ASSUME IInv, NEW p \in Processes, Look(p)
  PROVE  IInv'
<1>1. RowsVerify /\ Coverage
  BY DEF Look, Fresh
<1>2. /\ processes' = [processes EXCEPT ![p] =
                    [@ EXCEPT !.stale = FALSE, !.overlooked = {}]]
      /\ UNCHANGED <<ledgerVars, deliveries, anchoring, outboxVars, losses>>
  BY DEF Look
<1>3. /\ TypeOK'
      /\ \A q \in Processes : \/ processes'[q] = processes[q]
                              \/ processes'[q].pc = "open"
  <2>1. processes \in [Processes -> Process] /\ processes[p].pc = "open"
    BY DEF IInv, TypeOK, Look, Fresh
  <2> DEFINE looked == [processes[p] EXCEPT !.stale = FALSE, !.overlooked = {}]
  <2>2. processes' = [processes EXCEPT ![p] = looked]
    BY <1>2
  <2>3. looked \in Process /\ looked.pc = "open"
    BY <2>1 DEF Process
  <2> HIDE DEF looked
  <2> QED
    BY <1>2, <2>1, <2>2, <2>3 DEF IInv, TypeOK, ledgerVars, outboxVars
<1>4. RowsVerify'
  BY <1>1, <1>2 DEF RowsVerify, RowsOf, ledgerVars
<1>5. \A t \in DOMAIN manifests : anchoring => HasDelivery(t)'
  BY <1>1, <1>2 DEF Coverage, CoveredBut, HasDelivery, ledgerVars
<1>6. ASSUME NEW q \in Processes PROVE CoveredBut(processes[q].overlooked)'
  BY <1>2, <1>5 DEF CoveredBut, ledgerVars
<1>7. LedgerInv' /\ OutboxInv'
  BY <1>2 DEF IInv, LedgerInv, OutboxInv, Copies, ledgerVars, outboxVars
<1> QED
  BY <1>3, <1>4, <1>6, <1>7 DEF IInv, OpeningVerified, UnchangedMeansVerified
-----------------------------------------------------------------------------
(* The outbox.                                                             *)

(* A step that leaves the ledger alone, keeps a copy of every delivery and *)
(* confirms what it marks as delivered.                                    *)
LEMMA OutboxStep ==
  ASSUME IInv, NEW others,
         Touched(others) \/ processes' = processes,
         UNCHANGED <<ledgerVars, anchoring, losses>>, leased' \in Nat,
         deliveries' \subseteq Delivery, claims' \subseteq Claim,
         confirmed \subseteq confirmed',
         confirmed' \subseteq [tenant : Tenants, checkpoint : Manifest],
         \A d \in Copies' : \E e \in Copies :
           d.tenant = e.tenant /\ d.revision = e.revision /\ d.checkpoint = e.checkpoint,
         \A d \in deliveries : \E e \in deliveries' :
           d.tenant = e.tenant /\ d.revision = e.revision /\ d.checkpoint = e.checkpoint,
         \A d \in deliveries' : d.status = "delivered" =>
           [tenant |-> d.tenant, checkpoint |-> d.checkpoint] \in confirmed'
  PROVE  IInv'
<1>1. /\ processes' \in [Processes -> Process]
      /\ \A q \in Processes :
           /\ processes'[q].pc = processes[q].pc
           /\ processes'[q].overlooked = processes[q].overlooked
           /\ ~processes'[q].stale => ~processes[q].stale
  BY TouchedTypes DEF IInv, TypeOK
<1>2. TypeOK'
  BY <1>1 DEF IInv, TypeOK, ledgerVars
<1>3. (RowsVerify => RowsVerify') /\ DeliveriesKept
  <2>1. RowsVerify => RowsVerify'
    BY DEF RowsVerify, RowsOf, ledgerVars
  <2>2. ASSUME NEW t \in DOMAIN manifests, HasDelivery(t)
        PROVE  HasDelivery(t)'
    <3>1. manifests' = manifests
      BY DEF ledgerVars
    <3>2. PICK d \in deliveries :
            /\ d.tenant = t /\ d.revision = manifests[t].revision
            /\ d.checkpoint = manifests[t]
      BY <2>2 DEF HasDelivery
    <3> QED  BY <3>1, <3>2 DEF HasDelivery
  <2> QED  BY <2>1, <2>2 DEF DeliveriesKept, ledgerVars
<1>4. LedgerInv'
  BY DEF IInv, LedgerInv, ledgerVars
<1>5. OutboxInv'
  <2>1. manifests' = manifests
    BY DEF ledgerVars
  <2>2. ASSUME NEW d \in Copies'
        PROVE  /\ d.tenant \in DOMAIN manifests
               /\ d.revision <= manifests[d.tenant].revision
               /\ d.revision = manifests[d.tenant].revision =>
                    d.checkpoint = manifests[d.tenant]
    BY DEF IInv, OutboxInv
  <2>3. ASSUME NEW d \in Copies', NEW e \in Copies', d.tenant = e.tenant,
               d.revision = e.revision
        PROVE  d.checkpoint = e.checkpoint
    BY <2>3 DEF IInv, OutboxInv
  <2> QED  BY <2>1, <2>2, <2>3 DEF OutboxInv
<1>6. OpeningVerified' /\ UnchangedMeansVerified'
  BY <1>1, <1>3, OthersRely DEF IInv
<1> QED
  BY <1>2, <1>4, <1>5, <1>6 DEF IInv

LEMMA ClaimStep ==
  ASSUME IInv, NEW p \in Processes, NEW batch \in SUBSET deliveries,
         ClaimDeliveries(p, batch)
  PROVE  IInv'
<1> DEFINE taken(d) == [d EXCEPT !.status = "processing", !.attempts = @ + 1,
                                 !.lease = leased + 1]
           claim(d) == [process |-> p, tenant |-> d.tenant, revision |-> d.revision,
                        checkpoint |-> d.checkpoint, lease |-> leased + 1]
<1>1. /\ deliveries' = (deliveries \ batch) \cup {taken(d) : d \in batch}
      /\ claims' = claims \cup {claim(d) : d \in batch}
      /\ leased' = leased + 1 /\ Touched(Processes \ {p})
      /\ UNCHANGED <<ledgerVars, anchoring, confirmed, losses>>
  BY DEF ClaimDeliveries
<1>2. leased + 1 \in Nat /\ deliveries \subseteq Delivery /\ claims \subseteq Claim
  BY DEF IInv, TypeOK
<1>3. ASSUME NEW d \in batch
      PROVE  /\ taken(d) \in Delivery /\ claim(d) \in Claim
             /\ taken(d).status = "processing"
             /\ taken(d).tenant = d.tenant /\ taken(d).revision = d.revision
             /\ taken(d).checkpoint = d.checkpoint
             /\ claim(d).tenant = d.tenant /\ claim(d).revision = d.revision
             /\ claim(d).checkpoint = d.checkpoint
  <2>1. d \in Delivery /\ leased + 1 \in Nat
    BY <1>2
  <2>2. d.attempts + 1 \in Nat
    BY <2>1 DEF Delivery
  <2>3. /\ taken(d) \in Delivery /\ taken(d).status = "processing"
        /\ taken(d).tenant = d.tenant /\ taken(d).revision = d.revision
        /\ taken(d).checkpoint = d.checkpoint
    BY <2>1, <2>2 DEF Delivery
  <2>4. claim(d) \in Claim
    BY <2>1 DEF Delivery, Claim
  <2> QED
    BY <2>3, <2>4
<1> HIDE DEF taken, claim
<1>4. deliveries' \subseteq Delivery /\ claims' \subseteq Claim /\ leased' \in Nat
  BY <1>1, <1>2, <1>3
<1>5. ASSUME NEW d \in Copies'
      PROVE  \E e \in Copies :
           d.tenant = e.tenant /\ d.revision = e.revision /\ d.checkpoint = e.checkpoint
  <2>1. d \in Copies \/ \E e \in batch : d = taken(e) \/ d = claim(e)
    BY <1>1 DEF Copies
  <2>2. batch \subseteq Copies
    BY DEF Copies
  <2> QED  BY <1>3, <2>1, <2>2
<1>6. ASSUME NEW d \in deliveries
      PROVE  \E e \in deliveries' :
           d.tenant = e.tenant /\ d.revision = e.revision /\ d.checkpoint = e.checkpoint
  <2>1. CASE d \in batch
    BY <1>1, <1>3, <2>1
  <2>2. CASE d \notin batch
    BY <1>1, <2>2
  <2> QED  BY <2>1, <2>2
<1>7. ASSUME NEW d \in deliveries', d.status = "delivered"
      PROVE  [tenant |-> d.tenant, checkpoint |-> d.checkpoint] \in confirmed'
  BY <1>1, <1>3, <1>7 DEF IInv, OutboxInv
<1>8. confirmed' \subseteq [tenant : Tenants, checkpoint : Manifest]
  BY <1>1 DEF IInv, TypeOK
<1> QED
  BY <1>1, <1>4, <1>5, <1>6, <1>7, <1>8, OutboxStep

(* What an answer confirms is what the delivery under its lease holds.     *)
LEMMA FinishStep ==
  ASSUME IInv, NEW c \in claims, NEW result \in {"delivered", "retryable", "rejected"},
         FinishDelivery(c, result)
  PROVE  IInv'
<1> DEFINE held == {d \in deliveries : HoldsLease(d, c)}
           done(d) == [d EXCEPT !.lease = 0, !.status =
                         IF result = "delivered" THEN "delivered"
                         ELSE IF result = "retryable" /\ d.attempts < MaxAttempts
                         THEN "pending" ELSE "dead"]
           what == [tenant |-> c.tenant, checkpoint |-> c.checkpoint]
<1>1. /\ claims' = claims \ {c}
      /\ confirmed' = IF result = "delivered" THEN confirmed \cup {what} ELSE confirmed
      /\ deliveries' = (deliveries \ held) \cup {done(d) : d \in held}
      /\ Touched(Processes \ {c.process}) \/ processes' = processes
      /\ UNCHANGED <<ledgerVars, anchoring, leased, losses>>
  BY DEF FinishDelivery
<1>2. /\ deliveries \subseteq Delivery /\ claims \subseteq Claim /\ leased \in Nat
      /\ what \in [tenant : Tenants, checkpoint : Manifest]
  BY DEF IInv, TypeOK, Claim
<1>3. ASSUME NEW d \in held
      PROVE  /\ done(d) \in Delivery
             /\ done(d).status = "delivered" => result = "delivered"
             /\ done(d).tenant = d.tenant /\ done(d).revision = d.revision
             /\ done(d).checkpoint = d.checkpoint
             /\ d.tenant = c.tenant /\ d.checkpoint = c.checkpoint
  <2>1. d \in Delivery /\ d.tenant = c.tenant /\ d.revision = c.revision
    BY <1>2 DEF HoldsLease
  <2>2. d.checkpoint = c.checkpoint
    BY <2>1 DEF IInv, OutboxInv, Copies
  <2> QED  BY <2>1, <2>2 DEF Delivery
<1> HIDE DEF done
<1>4. deliveries' \subseteq Delivery /\ claims' \subseteq Claim
      /\ leased' \in Nat /\ confirmed \subseteq confirmed'
  BY <1>1, <1>2, <1>3
<1>5. ASSUME NEW d \in Copies'
      PROVE  \E e \in Copies :
           d.tenant = e.tenant /\ d.revision = e.revision /\ d.checkpoint = e.checkpoint
  <2>1. d \in Copies \/ \E e \in held : d = done(e)
    BY <1>1 DEF Copies
  <2>2. held \subseteq Copies
    BY DEF Copies
  <2> QED  BY <1>3, <2>1, <2>2
<1>6. ASSUME NEW d \in deliveries
      PROVE  \E e \in deliveries' :
           d.tenant = e.tenant /\ d.revision = e.revision /\ d.checkpoint = e.checkpoint
  <2>1. CASE d \in held
    BY <1>1, <1>3, <2>1
  <2>2. CASE d \notin held
    BY <1>1, <2>2
  <2> QED  BY <2>1, <2>2
<1>7. ASSUME NEW d \in deliveries', d.status = "delivered"
      PROVE  [tenant |-> d.tenant, checkpoint |-> d.checkpoint] \in confirmed'
  <2>1. CASE d \in deliveries
    BY <1>4, <1>7, <2>1 DEF IInv, OutboxInv
  <2>2. CASE \E e \in held : d = done(e)
    BY <1>1, <1>3, <1>7, <2>2
  <2> QED  BY <1>1, <2>1, <2>2
<1>8. confirmed' \subseteq [tenant : Tenants, checkpoint : Manifest]
  <2>1. confirmed \subseteq [tenant : Tenants, checkpoint : Manifest]
    BY DEF IInv, TypeOK
  <2> HIDE DEF what
  <2> QED  BY <1>1, <1>2, <2>1
<1> HIDE DEF held, what
<1> QED
  BY <1>1, <1>4, <1>5, <1>6, <1>7, <1>8, OutboxStep

LEMMA RedriveStep ==
  ASSUME IInv, NEW p \in Processes, NEW d \in deliveries, Redrive(p, d)
  PROVE  IInv'
<1> DEFINE new == [d EXCEPT !.status = "pending", !.attempts = 0]
<1>1. /\ deliveries' = (deliveries \ {d}) \cup {new}
      /\ Touched(Processes \ {p})
      /\ UNCHANGED <<ledgerVars, anchoring, claims, confirmed, leased, losses>>
  BY DEF Redrive, Update, outboxVars
<1>2. deliveries \subseteq Delivery /\ claims \subseteq Claim /\ leased \in Nat
  BY DEF IInv, TypeOK
<1>3. /\ new \in Delivery /\ new.status = "pending" /\ new.tenant = d.tenant
      /\ new.revision = d.revision /\ new.checkpoint = d.checkpoint
  BY <1>2 DEF Delivery
<1> HIDE DEF new
<1>4. /\ deliveries' \subseteq Delivery /\ claims' \subseteq Claim /\ leased' \in Nat
      /\ confirmed' \subseteq [tenant : Tenants, checkpoint : Manifest]
  BY <1>1, <1>2, <1>3 DEF IInv, TypeOK
<1>5. \A x \in Copies' : \E e \in Copies :
        x.tenant = e.tenant /\ x.revision = e.revision /\ x.checkpoint = e.checkpoint
  BY <1>1, <1>3 DEF Copies
<1>6. \A x \in deliveries : \E e \in deliveries' :
        x.tenant = e.tenant /\ x.revision = e.revision /\ x.checkpoint = e.checkpoint
  BY <1>1, <1>3
<1>7. \A x \in deliveries' : x.status = "delivered" =>
        [tenant |-> x.tenant, checkpoint |-> x.checkpoint] \in confirmed'
  BY <1>1, <1>3 DEF IInv, OutboxInv
<1> QED
  BY <1>1, <1>4, <1>5, <1>6, <1>7, OutboxStep
-----------------------------------------------------------------------------
(* Processes come and go, tenants are added, rows are lost.                *)

LEMMA InspectStep ==
  ASSUME IInv, NEW p \in Processes, Inspect(p)
  PROVE  IInv'
<1>1. /\ RowsVerify /\ processes[p].pc = "closed"
      /\ processes' = [processes EXCEPT ![p].pc = "inspected"]
      /\ UNCHANGED <<ledgerVars, deliveries, anchoring, outboxVars, losses>>
  BY DEF Inspect
<1>2. TypeOK'
  BY <1>1 DEF IInv, TypeOK, Process, ledgerVars, outboxVars
<1>3. LedgerInv' /\ OutboxInv' /\ (RowsVerify => RowsVerify') /\ DeliveriesKept
  BY <1>1 DEF IInv, LedgerInv, OutboxInv, Copies, RowsVerify, RowsOf, HasDelivery,
              DeliveriesKept, ledgerVars, outboxVars
<1>4. \A q \in Processes :
        \/ processes'[q].pc = "inspected" /\ RowsVerify
        \/ processes'[q] = processes[q]
  BY <1>1 DEF IInv, TypeOK, Process
<1>5. OpeningVerified' /\ UnchangedMeansVerified'
  BY <1>3, <1>4, OthersRely DEF IInv
<1> QED
  BY <1>2, <1>3, <1>5 DEF IInv

(* The process that remembers the data version relies on what it verified  *)
(* and queued, as nothing that others committed since took it away.        *)
LEMMA OpenStep ==
  ASSUME IInv, NEW p \in Processes, Open(p)
  PROVE  IInv'
<1>1. /\ processes[p].pc = "queued"
      /\ processes' = [processes EXCEPT ![p].pc = "open"]
      /\ UNCHANGED <<ledgerVars, deliveries, anchoring, outboxVars, losses>>
  BY DEF Open
<1>2. TypeOK'
  BY <1>1 DEF IInv, TypeOK, Process, ledgerVars, outboxVars
<1>3. LedgerInv' /\ OutboxInv' /\ (RowsVerify => RowsVerify') /\ DeliveriesKept
  BY <1>1 DEF IInv, LedgerInv, OutboxInv, Copies, RowsVerify, RowsOf, HasDelivery,
              DeliveriesKept, ledgerVars, outboxVars
<1>4. \A q \in Processes :
        \/ processes'[q] = processes[q]
        \/ /\ processes'[q].pc = "open" /\ processes[q].pc = "queued"
           /\ processes'[q].overlooked = processes[q].overlooked
  BY <1>1 DEF IInv, TypeOK, Process
<1>5. OpeningVerified' /\ UnchangedMeansVerified'
  BY <1>3, <1>4, OthersRely DEF IInv
<1> QED
  BY <1>2, <1>3, <1>5 DEF IInv

(* A delivery that is queued late is of the present revision, and so is    *)
(* the content of any copy that a dispatch still has of it.                *)
LEMMA QueueMissingStep ==
  ASSUME IInv, NEW p \in Processes, QueueMissing(p)
  PROVE  IInv'
<1> DEFINE lacking == {x \in DOMAIN manifests : anchoring /\ \A d \in deliveries :
                         d.tenant # x \/ d.revision # manifests[x].revision}
           missing == {Queued(t, manifests[t]) : t \in lacking}
<1>1. /\ processes[p].pc = "inspected"
      /\ deliveries' = deliveries \cup missing
      /\ processes' = [q \in Processes |->
           IF q = p THEN [processes[q] EXCEPT !.pc = "queued"]
           ELSE [processes[q] EXCEPT !.stale =
                   @ \/ (missing # {} /\ processes[q].pc = "open")]]
      /\ UNCHANGED <<ledgerVars, anchoring, outboxVars, losses>>
  BY DEF QueueMissing
<1>2. \A x \in DOMAIN manifests : x \in Tenants /\ manifests[x] \in Manifest
  BY DEF IInv, TypeOK
<1>3. ASSUME NEW t \in DOMAIN manifests
      PROVE  /\ Queued(t, manifests[t]) \in Delivery
             /\ Queued(t, manifests[t]).tenant = t
             /\ Queued(t, manifests[t]).revision = manifests[t].revision
             /\ Queued(t, manifests[t]).checkpoint = manifests[t]
             /\ Queued(t, manifests[t]).status = "pending"
  BY <1>2 DEF Queued, Delivery, Manifest
<1>4. ASSUME NEW d \in missing
      PROVE  /\ d \in Delivery /\ d.tenant \in DOMAIN manifests
             /\ d.revision = manifests[d.tenant].revision
             /\ d.checkpoint = manifests[d.tenant] /\ d.status = "pending"
  BY <1>3
<1>5. UNCHANGED <<rows, manifests, records, issued, claims, confirmed, leased,
                  anchoring, losses>>
  BY <1>1 DEF ledgerVars, outboxVars
<1>6. ASSUME anchoring, NEW t \in DOMAIN manifests
      PROVE  HasDelivery(t)'
  <2> SUFFICES \E d \in deliveries' :
                        /\ d.tenant = t /\ d.revision = manifests[t].revision
                        /\ d.checkpoint = manifests[t]
    BY <1>5 DEF HasDelivery
  <2> USE <1>6
  <2>1. CASE t \in lacking
    BY <1>1, <1>3, <2>1
  <2>2. CASE t \notin lacking
    BY <1>1, <2>2 DEF IInv, OutboxInv, Copies
  <2> QED  BY <2>1, <2>2
<1> HIDE DEF missing
<1>7. Copies' = Copies \cup missing
  BY <1>1, <1>5 DEF Copies
<1>8. OutboxInv'
  <2>1. ASSUME NEW d \in Copies'
        PROVE  /\ d.tenant \in DOMAIN manifests
               /\ d.revision <= manifests[d.tenant].revision
               /\ d.revision = manifests[d.tenant].revision =>
                    d.checkpoint = manifests[d.tenant]
    BY <1>2, <1>4, <1>7 DEF IInv, OutboxInv, Manifest
  <2>2. ASSUME NEW d \in Copies', NEW e \in Copies', d.tenant = e.tenant,
               d.revision = e.revision
        PROVE  d.checkpoint = e.checkpoint
    <3>1. CASE d \in Copies /\ e \in Copies
      BY <2>2, <3>1 DEF IInv, OutboxInv
    <3>2. CASE d \in missing \/ e \in missing
      BY <1>4, <2>1, <2>2, <3>2
    <3> QED  BY <1>7, <3>1, <3>2
  <2>3. ASSUME NEW d \in deliveries', d.status = "delivered"
        PROVE  [tenant |-> d.tenant, checkpoint |-> d.checkpoint] \in confirmed
    BY <1>1, <1>4, <2>3 DEF IInv, OutboxInv
  <2> QED  BY <1>5, <2>1, <2>2, <2>3 DEF OutboxInv
<1>9. RowsVerify'
  BY <1>1, <1>5 DEF IInv, OpeningVerified, RowsVerify, RowsOf
<1>10. TypeOK'
  <2>1. deliveries' \subseteq Delivery
    BY <1>1, <1>4 DEF IInv, TypeOK
  <2>2. processes' \in [Processes -> Process]
    <3>1. \A q \in Processes : processes[q] \in Process
      BY DEF IInv, TypeOK
    <3>2. ASSUME NEW q \in Processes
          PROVE  processes'[q] \in Process
      BY <1>1, <3>1 DEF Process
    <3> QED
      BY <1>1, <3>2
  <2> QED
    BY <1>5, <2>1, <2>2 DEF IInv, TypeOK
<1>11. LedgerInv'
  BY <1>5 DEF IInv, LedgerInv
<1>12. ASSUME NEW q \in Processes PROVE CoveredBut(processes[q].overlooked)'
  BY <1>5, <1>6 DEF CoveredBut
<1>13. OpeningVerified' /\ UnchangedMeansVerified'
  BY <1>9, <1>12 DEF OpeningVerified, UnchangedMeansVerified
<1> QED
  BY <1>8, <1>10, <1>11, <1>13 DEF IInv

LEMMA CloseStep ==
  ASSUME IInv, NEW p \in Processes, Close(p)
  PROVE  IInv'
<1>1. /\ processes' = [processes EXCEPT ![p] = Closed]
      /\ claims' \subseteq claims
      /\ UNCHANGED <<ledgerVars, deliveries, anchoring, confirmed, leased, losses>>
  BY DEF Close
<1>2. TypeOK'
  BY <1>1 DEF IInv, TypeOK, Process, Closed, ledgerVars
<1>3. LedgerInv' /\ (RowsVerify => RowsVerify') /\ DeliveriesKept
  BY <1>1 DEF IInv, LedgerInv, RowsVerify, RowsOf, HasDelivery, DeliveriesKept,
              ledgerVars
<1>4. OutboxInv'
  <2>1. Copies' \subseteq Copies
    BY <1>1 DEF Copies
  <2> QED  BY <1>1, <2>1 DEF IInv, OutboxInv, ledgerVars
<1>5. \A q \in Processes : processes'[q].pc # "closed" => processes'[q] = processes[q]
  BY <1>1 DEF IInv, TypeOK, Process, Closed
<1>6. OpeningVerified' /\ UnchangedMeansVerified'
  BY <1>3, <1>5, OthersRely DEF IInv
<1> QED
  BY <1>2, <1>3, <1>4, <1>6 DEF IInv

LEMMA ReconfigureStep ==
  ASSUME IInv, Reconfigure
  PROVE  IInv'
<1>1. /\ \A p \in Processes : processes[p].pc = "closed"
      /\ anchoring' = ~anchoring
      /\ UNCHANGED <<ledgerVars, deliveries, processes, outboxVars, losses>>
  BY DEF Reconfigure
<1>2. TypeOK'
  BY <1>1 DEF IInv, TypeOK, ledgerVars, outboxVars
<1>3. LedgerInv' /\ OutboxInv'
  BY <1>1 DEF IInv, LedgerInv, OutboxInv, Copies, ledgerVars, outboxVars
<1> QED
  BY <1>1, <1>2, <1>3 DEF IInv, OpeningVerified, UnchangedMeansVerified

LEMMA BootstrapStep ==
  ASSUME IInv, NEW t \in Tenants, BootstrapTenant(t)
  PROVE  IInv'
<1> DEFINE zero == [revision |-> 0, row_count |-> 0, accumulator |-> {}]
<1>1. /\ t \notin DOMAIN manifests /\ RowsVerify
      /\ manifests' = [x \in DOMAIN manifests \cup {t} |->
           IF x = t THEN zero ELSE manifests[x]]
      /\ processes' = [q \in Processes |->
           [processes[q] EXCEPT
              !.stale = @ \/ processes[q].pc = "open",
              !.overlooked = IF processes[q].pc = "queued" THEN @ \cup {t} ELSE @]]
      /\ UNCHANGED <<rows, records, issued, deliveries, anchoring, outboxVars, losses>>
  BY DEF BootstrapTenant
<1>2. zero \in Manifest
  BY DEF Manifest
<1>3. /\ processes' \in [Processes -> Process]
      /\ \A q \in Processes :
           /\ processes'[q].pc = processes[q].pc
           /\ processes'[q].pc = "open" => processes'[q].stale
           /\ processes'[q].pc = "queued" =>
                processes'[q].overlooked = processes[q].overlooked \cup {t}
  BY <1>1 DEF IInv, TypeOK, Process
<1>4. TypeOK'
  <2> HIDE DEF zero
  <2> QED  BY <1>1, <1>2, <1>3 DEF IInv, TypeOK, outboxVars
<1>5. LedgerInv'
  BY <1>1 DEF IInv, LedgerInv
<1>6. OutboxInv'
  <2>1. Copies' = Copies /\ confirmed' = confirmed /\ deliveries' = deliveries
    BY <1>1 DEF Copies, outboxVars
  <2>2. \A d \in Copies : d.tenant \in DOMAIN manifests
    BY DEF IInv, OutboxInv
  <2>3. \A x \in DOMAIN manifests : x \in DOMAIN manifests' /\ manifests'[x] = manifests[x]
    BY <1>1
  <2> QED  BY <2>1, <2>2, <2>3 DEF IInv, OutboxInv
<1>7. RowsVerify'
  <2>1. RowsOf(t) = {} /\ Cardinality({}) = 0
    BY <1>1, FS_EmptySet DEF IInv, LedgerInv, RowsOf
  <2>2. ASSUME NEW x \in DOMAIN manifests'
        PROVE  /\ manifests'[x].row_count = Cardinality(RowsOf(x))
               /\ manifests'[x].accumulator = RowsOf(x)
    <3>1. CASE x = t
      BY <1>1, <2>1, <3>1
    <3>2. CASE x # t
      BY <1>1, <3>2 DEF RowsVerify
    <3> QED  BY <3>1, <3>2
  <2> QED  BY <1>1, <2>2 DEF RowsVerify, RowsOf
<1>8. ASSUME NEW q \in Processes, processes'[q].pc = "queued"
      PROVE  CoveredBut(processes[q].overlooked)'
  <2>1. CoveredBut(processes[q].overlooked)
    BY <1>3, <1>8 DEF IInv, OpeningVerified
  <2>2. \A x \in DOMAIN manifests : HasDelivery(x) => HasDelivery(x)'
    BY <1>1 DEF HasDelivery
  <2>3. \A x \in DOMAIN manifests' \ processes'[q].overlooked :
          x \in DOMAIN manifests \ processes[q].overlooked
    BY <1>1, <1>3, <1>8
  <2> QED
    BY <1>1, <2>1, <2>2, <2>3 DEF CoveredBut
<1> QED
  BY <1>3, <1>4, <1>5, <1>6, <1>7, <1>8
  DEF IInv, OpeningVerified, UnchangedMeansVerified

(* Whoever has the store open is told to look again.                       *)
LEMMA LoseStep ==
  ASSUME IInv, Lose
  PROVE  IInv'
<1>1. /\ \A p \in Processes : processes[p].pc \notin {"inspected", "queued"}
      /\ losses' = losses + 1 /\ Touched(Processes)
      /\ rows' \subseteq rows /\ deliveries' \subseteq deliveries
      /\ UNCHANGED <<manifests, records, issued, anchoring, outboxVars>>
  BY DEF Lose
<1>2. /\ processes' \in [Processes -> Process]
      /\ \A q \in Processes : /\ processes'[q].pc = processes[q].pc
                              /\ processes'[q].pc = "open" => processes'[q].stale
  BY <1>1, TouchedTypes DEF IInv
<1>3. TypeOK'
  BY <1>1, <1>2 DEF IInv, TypeOK, outboxVars
<1>4. LedgerInv'
  <2>1. IsFiniteSet(rows')
    BY <1>1, FS_Subset DEF IInv, LedgerInv
  <2> QED  BY <1>1, <2>1 DEF IInv, LedgerInv
<1>5. OutboxInv'
  <2>1. Copies' \subseteq Copies /\ confirmed' = confirmed
    BY <1>1 DEF Copies, outboxVars
  <2> QED  BY <1>1, <2>1 DEF IInv, OutboxInv
<1> QED
  BY <1>1, <1>2, <1>3, <1>4, <1>5 DEF IInv, OpeningVerified, UnchangedMeansVerified
-----------------------------------------------------------------------------
(* The theorems.                                                           *)

LEMMA InitStep == Init => IInv
<1> SUFFICES ASSUME Init PROVE IInv
  OBVIOUS
<1>1. manifests = <<>> /\ DOMAIN manifests = {}
  BY DEF Init
<1>2. TypeOK
  BY <1>1 DEF Init, TypeOK, Process, Closed
<1>3. LedgerInv
  BY <1>1, FS_EmptySet DEF Init, LedgerInv
<1>4. OutboxInv
  BY DEF Init, OutboxInv, Copies
<1>5. OpeningVerified /\ UnchangedMeansVerified
  BY DEF Init, OpeningVerified, UnchangedMeansVerified, Closed
<1> QED
  BY <1>2, <1>3, <1>4, <1>5 DEF IInv

LEMMA NextStep == IInv /\ [Next]_vars => IInv'
<1> SUFFICES ASSUME IInv, [Next]_vars PROVE IInv'
  OBVIOUS
<1>1. ASSUME NEW p \in Processes, LedgerNext(p)
      PROVE  IInv'
  BY <1>1, LookStep, ReserveStep, SettleStep, ReconcileStep DEF LedgerNext
<1>2. ASSUME NEW p \in Processes,
             Inspect(p) \/ QueueMissing(p) \/ Open(p) \/ Close(p)
      PROVE  IInv'
  BY <1>2, InspectStep, QueueMissingStep, OpenStep, CloseStep
<1>3. ASSUME NEW p \in Processes, NEW batch \in SUBSET deliveries,
             ClaimDeliveries(p, batch)
      PROVE  IInv'
  BY <1>3, ClaimStep
<1>4. ASSUME NEW p \in Processes, NEW d \in deliveries, Redrive(p, d)
      PROVE  IInv'
  BY <1>4, RedriveStep
<1>5. ASSUME NEW c \in claims, NEW result \in {"delivered", "retryable", "rejected"},
             FinishDelivery(c, result)
      PROVE  IInv'
  BY <1>5, FinishStep
<1>6. ASSUME NEW t \in Tenants, BootstrapTenant(t)
      PROVE  IInv'
  BY <1>6, BootstrapStep
<1>7. CASE Reconfigure \/ Lose
  BY <1>7, ReconfigureStep, LoseStep
<1>8. CASE UNCHANGED vars
  <2>1. TypeOK' /\ LedgerInv'
    BY <1>8 DEF vars, IInv, TypeOK, LedgerInv
  <2>2. OutboxInv'
    BY <1>8 DEF vars, IInv, OutboxInv, Copies
  <2>3. OpeningVerified' /\ UnchangedMeansVerified'
    BY <1>8 DEF vars, IInv, OpeningVerified, UnchangedMeansVerified, RowsVerify,
                RowsOf, CoveredBut, HasDelivery
  <2> QED
    BY <2>1, <2>2, <2>3 DEF IInv
<1> QED
  BY <1>1, <1>2, <1>3, <1>4, <1>5, <1>6, <1>7, <1>8 DEF Next

(* IInv holds in every reachable state: a revision stands for one content  *)
(* wherever it is kept, and verification is never relied upon too long.    *)
THEOREM Invariance == Spec => []IInv
<1>1. Init => IInv
  BY InitStep
<1>2. IInv /\ [Next]_vars => IInv'
  BY NextStep
<1> QED
  BY <1>1, <1>2, PTL DEF Spec

(* A connection that sees no foreign commit may skip its verification, but *)
(* for the deliveries of tenants that were bootstrapped while it opened.   *)
THEOREM SkippingIsSafe == Spec => []UnchangedMeansVerified
<1>1. IInv => UnchangedMeansVerified
  BY DEF IInv
<1> QED
  BY <1>1, Invariance, PTL

(* What is acknowledged as anchored has been confirmed by the receiver, in *)
(* exactly its present content.                                            *)
THEOREM AcknowledgementsAreTrue == Spec => []AcknowledgedIsConfirmed
<1>1. IInv => AcknowledgedIsConfirmed
  <2> SUFFICES ASSUME IInv, NEW t \in DOMAIN manifests, anchoring, Acknowledged(t)
               PROVE  [tenant |-> t, checkpoint |-> manifests[t]] \in confirmed
    BY DEF AcknowledgedIsConfirmed
  <2>1. PICK d \in deliveries : /\ d.tenant = t /\ d.status = "delivered"
                                /\ d.checkpoint = manifests[t]
    BY DEF Acknowledged
  <2> QED  BY <2>1 DEF IInv, OutboxInv
<1> QED
  BY <1>1, Invariance, PTL
-----------------------------------------------------------------------------
(* The rows that the manifests vouch for implement the abstract ledger.    *)

Vouched == UNION {manifests[t].accumulator : t \in DOMAIN manifests}

View(r) == [key |-> <<r.tenant, r.key>>, fingerprint |-> r.fingerprint,
            state |-> r.state, id |-> r.id]

LEMMA ViewIsInjective ==
  ASSUME NEW r \in Row, NEW x \in Row, View(r) = View(x)
  PROVE  r = x
<1>1. <<r.tenant, r.key>> = <<x.tenant, x.key>> /\ r.fingerprint = x.fingerprint
        /\ r.state = x.state /\ r.id = x.id
  BY DEF View
<1>2. r.tenant = x.tenant /\ r.key = x.key
  BY <1>1
<1> QED  BY <1>1, <1>2 DEF Row

LEMMA VouchedRows ==
  ASSUME IInv
  PROVE  /\ Vouched \subseteq Row
         /\ Entries = {View(r) : r \in Vouched}
         /\ RowsVerify => Vouched = rows
<1>1. \A t \in DOMAIN manifests : manifests[t].accumulator \subseteq Row
  BY DEF IInv, TypeOK, Manifest
<1>2. Vouched \subseteq Row
  BY <1>1 DEF Vouched
<1>3. Entries = {View(r) : r \in Vouched}
  BY DEF Entries, View, Vouched
<1>4. RowsVerify => Vouched = rows
  <2> SUFFICES ASSUME RowsVerify PROVE Vouched = rows
    OBVIOUS
  <2>1. \A t \in DOMAIN manifests : manifests[t].accumulator = RowsOf(t)
    BY DEF RowsVerify
  <2>2. \A r \in rows : r.tenant \in DOMAIN manifests /\ r \in RowsOf(r.tenant)
    BY DEF IInv, LedgerInv, RowsOf
  <2>3. rows \subseteq Vouched
    BY <2>1, <2>2 DEF Vouched
  <2>4. Vouched \subseteq rows
    BY <2>1 DEF Vouched, RowsOf
  <2> QED  BY <2>3, <2>4
<1> QED  BY <1>2, <1>3, <1>4

LEMMA VouchedChange ==
  ASSUME IInv, NEW p \in Processes, Fresh(p), NEW t \in DOMAIN manifests,
         NEW removed \in SUBSET RowsOf(t), NEW added, UpdateManifest(t, removed, added)
  PROVE  /\ Vouched = rows
         /\ Vouched' = (Vouched \ removed) \cup added
         /\ Entries' = {View(r) : r \in Vouched'}
<1>1. RowsVerify
  BY FreshIsVerified DEF IInv
<1>2. /\ DOMAIN manifests' = DOMAIN manifests
      /\ \A x \in DOMAIN manifests : manifests'[x].accumulator =
           IF x = t THEN (manifests[t].accumulator \ removed) \cup added
           ELSE manifests[x].accumulator
  BY DEF UpdateManifest
<1>3. \A x \in DOMAIN manifests : manifests[x].accumulator = RowsOf(x)
  BY <1>1 DEF RowsVerify
<1>4. \A x \in DOMAIN manifests : x # t => RowsOf(x) \cap removed = {}
  BY DEF RowsOf
<1>5. Vouched' = (Vouched \ removed) \cup added
  <2>1. ASSUME NEW r \in Vouched'
        PROVE  r \in (Vouched \ removed) \cup added
    <3>1. PICK x \in DOMAIN manifests : r \in manifests'[x].accumulator
      BY <1>2 DEF Vouched
    <3>2. CASE x = t
      BY <1>2, <3>1, <3>2 DEF Vouched
    <3>3. CASE x # t
      BY <1>2, <1>3, <1>4, <3>1, <3>3 DEF Vouched
    <3> QED  BY <3>2, <3>3
  <2>2. ASSUME NEW r \in added
        PROVE  r \in Vouched'
    BY <1>2 DEF Vouched
  <2>3. ASSUME NEW r \in Vouched, r \notin removed
        PROVE  r \in Vouched'
    BY <1>2, <2>3 DEF Vouched
  <2> QED  BY <2>1, <2>2, <2>3
<1>6. Entries' = {View(r) : r \in Vouched'}
  BY DEF Entries, View, Vouched
<1> QED
  BY <1>1, <1>5, <1>6, VouchedRows

LEMMA AdmitSimulated ==
  ASSUME IInv, NEW p \in Processes, NEW t \in DOMAIN manifests, NEW k \in Keys,
         NEW f \in Fingerprints, Reserve(p, t, k, f)
  PROVE  Ledger!Next
<1> DEFINE row == [tenant |-> t, key |-> k, fingerprint |-> f,
                   state |-> "pending", id |-> issued + 1]
<1>1. /\ Fresh(p) /\ \A r \in RowsOf(t) : r.key # k
      /\ issued' = issued + 1 /\ UpdateManifest(t, {}, {row})
  BY DEF Reserve
<1>2. Vouched = rows /\ Vouched' = Vouched \cup {row}
      /\ Entries' = {View(r) : r \in Vouched'} /\ Entries = {View(r) : r \in Vouched}
  <2> HIDE DEF row
  <2>1. /\ Vouched = rows /\ Vouched' = (Vouched \ {}) \cup {row}
        /\ Entries' = {View(r) : r \in Vouched'}
    BY <1>1, VouchedChange
  <2> QED  BY <2>1, VouchedRows
<1>3. View(row) = [key |-> <<t, k>>, fingerprint |-> f, state |-> "pending",
                   id |-> issued']
  BY <1>1 DEF View
<1> HIDE DEF row
<1>4. Entries' = Entries \cup {View(row)}
  BY <1>2
<1>5. ASSUME NEW e \in Entries PROVE e.key # <<t, k>>
  <2>1. PICK r \in rows : e = View(r)
    BY <1>2
  <2>2. e.key = <<r.tenant, r.key>>
    BY <2>1 DEF View
  <2>3. r.tenant # t \/ r.key # k
    BY <1>1 DEF RowsOf
  <2> QED  BY <2>2, <2>3
<1>6. Ledger!Admit(<<t, k>>, f)
  BY <1>1, <1>3, <1>4, <1>5 DEF Ledger!Admit, Ledger!Free
<1>7. <<t, k>> \in Tenants \X Keys
  BY DEF IInv, TypeOK
<1> QED  BY <1>6, <1>7 DEF Ledger!Next

LEMMA SettleSimulated ==
  ASSUME IInv, NEW p \in Processes, Fresh(p), NEW row \in rows,
         row.state = "pending", CompleteRow(row) \/ DeleteRow(row),
         issued' = issued
  PROVE  Ledger!Next
<1> DEFINE new == [row EXCEPT !.state = "completed"]
           e == View(row)
<1>1. row \in Row /\ row.tenant \in DOMAIN manifests /\ {row} \in SUBSET RowsOf(row.tenant)
  BY DEF IInv, TypeOK, LedgerInv, RowsOf
<1>2. /\ e.state = "pending" /\ View(new) = [e EXCEPT !.state = "completed"]
  BY <1>1 DEF View, Row
<1>3. Vouched \subseteq Row /\ Entries = {View(r) : r \in Vouched}
  BY VouchedRows
<1>4. \A x \in Vouched : View(x) = e => x = row
  BY <1>1, <1>3, ViewIsInjective
<1>5. CASE CompleteRow(row)
  <2>1. UpdateManifest(row.tenant, {row}, {new})
    BY <1>5 DEF CompleteRow
  <2> HIDE DEF new
  <2>2. /\ Vouched = rows /\ Vouched' = (Vouched \ {row}) \cup {new}
        /\ Entries' = {View(r) : r \in Vouched'}
    <3> HIDE DEF e
    <3> QED
      BY <1>1, <2>1, VouchedChange, ZenonT(60)
  <2> HIDE DEF e
  <2>3. e \in Entries /\ Entries' = (Entries \ {e}) \cup {View(new)}
    <3>1. e \in Entries
      BY <1>3, <2>2 DEF e
    <3>2. \A x \in Vouched : View(x) # e <=> x # row
      BY <1>4 DEF e
    <3> QED  BY <1>3, <2>2, <3>1, <3>2
  <2>4. Ledger!Settle(e)
    BY <1>2, <2>3 DEF Ledger!Settle
  <2> QED  BY <2>3, <2>4 DEF Ledger!Next
<1>6. CASE DeleteRow(row)
  <2>1. UpdateManifest(row.tenant, {row}, {})
    BY <1>6 DEF DeleteRow
  <2>2. /\ Vouched = rows /\ Vouched' = (Vouched \ {row}) \cup {}
        /\ Entries' = {View(r) : r \in Vouched'}
    BY <1>1, <2>1, VouchedChange
  <2> HIDE DEF e
  <2>3. e \in Entries /\ Entries' = Entries \ {e}
    <3>1. e \in Entries
      BY <1>3, <2>2 DEF e
    <3>2. \A x \in Vouched : View(x) # e <=> x # row
      BY <1>4 DEF e
    <3> QED  BY <1>3, <2>2, <3>1, <3>2
  <2>4. Ledger!Withdraw(e)
    BY <1>2, <2>3 DEF Ledger!Withdraw
  <2> QED  BY <2>3, <2>4 DEF Ledger!Next
<1> QED  BY <1>5, <1>6

LEMMA StepSimulated == IInv /\ [Next]_vars => [Ledger!Next]_<<Entries, issued>>
<1> SUFFICES ASSUME IInv, [Next]_vars
             PROVE  [Ledger!Next]_<<Entries, issued>>
  OBVIOUS
<1>1. ASSUME NEW p \in Processes, NEW t \in DOMAIN manifests, NEW k \in Keys,
             NEW f \in Fingerprints, Reserve(p, t, k, f)
      PROVE  Ledger!Next
  BY <1>1, AdmitSimulated
<1>2. ASSUME NEW p \in Processes, NEW t, NEW k, NEW f,
             Complete(p, t, k, f) \/ Release(p, t, k, f)
      PROVE  Ledger!Next
  <2>1. PICK row \in Pending(t, k, f) : CompleteRow(row) \/ DeleteRow(row)
    BY <1>2 DEF Complete, Release
  <2>2. row \in rows /\ row.state = "pending"
    BY DEF Pending, RowsOf
  <2>3. Fresh(p) /\ issued' = issued
    BY <1>2 DEF Complete, Release
  <2> QED  BY <2>1, <2>2, <2>3, SettleSimulated
<1>3. ASSUME NEW p \in Processes, NEW id, NEW outcome, Reconcile(p, id, outcome)
      PROVE  Ledger!Next
  <2>1. PICK row \in rows : /\ row.state = "pending"
                            /\ CompleteRow(row) \/ DeleteRow(row)
    BY <1>3 DEF Reconcile
  <2>2. Fresh(p) /\ issued' = issued
    BY <1>3 DEF Reconcile
  <2> QED  BY <2>1, <2>2, SettleSimulated
<1>4. manifests' = manifests => Entries' = Entries
  BY DEF Entries
<1>5. ASSUME NEW p \in Processes,
             Inspect(p) \/ QueueMissing(p) \/ Open(p) \/ Close(p) \/ Look(p)
               \/ (\E batch : ClaimDeliveries(p, batch)) \/ (\E d : Redrive(p, d))
      PROVE  UNCHANGED <<Entries, issued>>
  BY <1>4, <1>5 DEF Inspect, QueueMissing, Open, Close, Look, ClaimDeliveries,
                    Redrive, ledgerVars
<1>6. ASSUME NEW c, NEW result, FinishDelivery(c, result)
      PROVE  UNCHANGED <<Entries, issued>>
  BY <1>4, <1>6 DEF FinishDelivery, ledgerVars
<1>7. ASSUME NEW t \in Tenants, BootstrapTenant(t)
      PROVE  UNCHANGED <<Entries, issued>>
  <2>1. /\ DOMAIN manifests' = DOMAIN manifests \cup {t} /\ t \notin DOMAIN manifests
        /\ manifests'[t].accumulator = {}
        /\ \A x \in DOMAIN manifests : manifests'[x] = manifests[x]
        /\ issued' = issued
    BY <1>7 DEF BootstrapTenant
  <2>2. Vouched' = Vouched
    BY <2>1 DEF Vouched
  <2>3. Entries = {View(r) : r \in Vouched} /\ Entries' = {View(r) : r \in Vouched'}
    BY DEF Entries, View, Vouched
  <2> QED  BY <2>1, <2>2, <2>3
<1>8. CASE Reconfigure \/ Lose \/ UNCHANGED vars
  BY <1>4, <1>8 DEF Reconfigure, Lose, vars, ledgerVars
<1> QED
  BY <1>1, <1>2, <1>3, <1>5, <1>6, <1>7, <1>8 DEF Next, LedgerNext

(* Whatever rows are lost and whoever has the file open, the reservations  *)
(* that the manifests vouch for behave as the idempotency ledger that      *)
(* ActionLedger specifies.                                                 *)
THEOREM Refinement == Spec => ImplementsLedger
<1>1. Init => Ledger!Init
  <2>1. Init => DOMAIN manifests = {} /\ issued = 0
    BY DEF Init
  <2>2. DOMAIN manifests = {} => Entries = {}
    BY DEF Entries
  <2> QED  BY <2>1, <2>2 DEF Ledger!Init
<1>2. Spec => []IInv /\ [][Next]_vars
  BY Invariance, PTL DEF Spec
<1>3. Spec => [][Ledger!Next]_<<Entries, issued>>
  BY <1>2, StepSimulated, PTL
<1>4. Spec => Ledger!Init
  BY <1>1 DEF Spec
<1> QED
  BY <1>3, <1>4 DEF ImplementsLedger, Ledger!Spec, Ledger!vars
=============================================================================
