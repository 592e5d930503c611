-------------------------- MODULE SharedActionState --------------------------
(***************************************************************************)
(* PostgresActionState: the action idempotency ledger that the replicas of *)
(* the managed server share, for one tenant.  Four tables change together: *)
(*                                                                         *)
(*   sg_action_reservations          rows                                  *)
(*   sg_action_manifests             manifest: revision, row count and the *)
(*                                   XOR accumulator over the rows         *)
(*   sg_action_reconciliations       records, with the count and tip hash  *)
(*     and ..._manifests             of their chain: vouched               *)
(*   sg_checkpoint_anchor_deliveries deliveries: the outbox that carries   *)
(*                                   every manifest revision to the anchor *)
(*                                   receiver                              *)
(*                                                                         *)
(* Every ledger operation is one transaction that starts by locking the    *)
(* manifest row FOR UPDATE, so each is one step here.                      *)
(*                                                                         *)
(* Abstractions.  An HMAC or a hash is the value it is computed from, so a *)
(* row's member of the accumulator is the row, the accumulator is a set    *)
(* combined by symmetric difference, a checkpoint hash is the checkpoint   *)
(* and the tip of a hash chain is the sequence it closes.  A UUID is a     *)
(* number never used before.  A clock comparison that time makes true is a *)
(* flag that a step of its own raises.                                     *)
(***************************************************************************)
EXTENDS Naturals, FiniteSets, SequencesExt

CONSTANTS
  Keys,          \* key_hash values
  Fingerprints,  \* execution_fingerprint values
  Anchoring,     \* options.checkpointAnchoring
  MaxAttempts,   \* options.checkpointAnchorMaxAttempts
  MaxRevision,   \* bound: ledger changes explored
  MaxClaims,     \* bound: batches claimed from the outbox
  MaxLosses      \* bound: rows of any table lost behind the program's back

ASSUME ConstantsAssumption ==
  /\ Anchoring \in BOOLEAN
  /\ MaxAttempts \in Nat \ {0}
  /\ MaxRevision \in Nat
  /\ MaxClaims \in Nat
  /\ MaxLosses \in Nat

VARIABLES
  rows,        \* stored reservations
  manifest,    \* the tenant's manifest row
  records,     \* stored reconciliation records, in sequence order
  vouched,     \* the record sequence that count and tip_hash stand for
  deliveries,  \* stored checkpoint deliveries
  claims,      \* claims handed to dispatch workers and not yet finished
  aged,        \* reservations old enough to reconcile
  issued,      \* reservation identifiers handed out
  leased,      \* lease identifiers handed out
  losses       \* rows lost so far

ledgerVars == <<rows, manifest, records, vouched, issued>>
outboxVars == <<deliveries, claims, leased>>
vars == <<rows, manifest, records, vouched, deliveries, claims, aged, issued,
          leased, losses>>

Row == [key         : Keys,
        fingerprint : Fingerprints,
        state       : {"pending", "completed"},
        id          : Nat,
        described   : BOOLEAN]   \* audit, tool and environment were recorded

Manifest == [revision : Nat, row_count : Nat, accumulator : SUBSET Row]

Record == [reservation : Nat,
           key         : Keys,
           outcome     : {"confirmed_executed", "confirmed_not_executed"}]

Delivery == [revision   : Nat,
             checkpoint : Manifest,
             status     : {"pending", "processing", "delivered", "dead"},
             attempts   : Nat,
             lease      : Nat,      \* lease_id, 0 for null
             due        : BOOLEAN]  \* next_attempt_at or lease_expires_at
                                    \* has passed
Claim == [revision : Nat, lease : Nat]

TypeOK ==
  /\ rows \subseteq Row
  /\ manifest \in Manifest
  /\ records \in Seq(Record)
  /\ vouched \in Seq(Record)
  /\ deliveries \subseteq Delivery
  /\ claims \subseteq Claim
  /\ aged \subseteq Nat
  /\ issued \in Nat
  /\ leased \in Nat
  /\ losses \in Nat
-----------------------------------------------------------------------------
(* Verification under the manifest lock.                                   *)

Xor(a, b) == (a \ b) \cup (b \ a)

(* The checkpoint of a manifest: every field enters its hash.              *)
Checkpoint(m) == m

(* Mutant of RowsVerify: every stored row is authentic, nothing more.      *)
RowsVerifyEach == rows \subseteq manifest.accumulator

(* verifyLocked: the stored rows are the ones the manifest counts and      *)
(* accumulates.                                                            *)
RowsVerify ==
  /\ Cardinality(rows) = manifest.row_count
  /\ rows = manifest.accumulator

(* verifyAnchorCoverageLocked: the current revision still has its          *)
(* delivery, for the checkpoint that the manifest has now, and only a      *)
(* listing may see it dead.                                                *)
AnchorCoverageVerifies(allowDead) ==
  \/ ~Anchoring
  \/ manifest.revision = 0
  \/ \E d \in deliveries :
       /\ d.revision = manifest.revision
       /\ d.checkpoint = Checkpoint(manifest)
       /\ allowDead \/ d.status # "dead"

(* verifyReconciliationsLocked: walking the chain from GENESIS reaches the *)
(* recorded tip after the recorded number of records.                      *)
RecordsVerify == records = vouched

(* What every ledger operation checks before it looks at its arguments; a  *)
(* failed check rolls the transaction back with an integrity error.        *)
Verified(allowDead) ==
  RowsVerify /\ AnchorCoverageVerifies(allowDead) /\ RecordsVerify

(* The next state of the manifest row.                                     *)
NextManifest(accumulator, rowCount) ==
  [revision    |-> manifest.revision + 1,
   row_count   |-> rowCount,
   accumulator |-> accumulator]

(* queueCheckpointAnchor: the delivery of a manifest, due at once.         *)
Queued(m) ==
  [revision |-> m.revision, checkpoint |-> Checkpoint(m),
   status |-> "pending", attempts |-> 0, lease |-> 0, due |-> TRUE]

(* Mutants of WriteManifest: the outbox is not written in the transaction; *)
(* it gets the manifest from before the change.                            *)
WriteManifestUnqueued(accumulator, rowCount) ==
  /\ manifest.revision < MaxRevision
  /\ manifest' = NextManifest(accumulator, rowCount)
  /\ UNCHANGED deliveries

WriteManifestQueuedFirst(accumulator, rowCount) ==
  /\ manifest.revision < MaxRevision
  /\ manifest' = NextManifest(accumulator, rowCount)
  /\ deliveries' = deliveries \cup {Queued(manifest)}

(* writeManifest: the next revision and its delivery are written in the    *)
(* transaction that changed the rows.                                      *)
WriteManifest(accumulator, rowCount) ==
  LET next == NextManifest(accumulator, rowCount)
  IN  /\ manifest.revision < MaxRevision
      /\ manifest' = next
      /\ deliveries' = IF Anchoring THEN deliveries \cup {Queued(next)}
                                    ELSE deliveries
-----------------------------------------------------------------------------
(* Ledger operations.                                                      *)

(* Mutant of ReserveResult: only a pending reservation holds its key.      *)
ReserveResultPending(k, f) ==
  IF \A r \in rows : r.key = k => r.state = "completed" THEN "new"
  ELSE "duplicate"

(* What reserve() answers when the ledger verifies.                        *)
ReserveResult(k, f) ==
  IF \A r \in rows : r.key # k THEN "new"
  ELSE IF \E r \in rows : r.key = k /\ r.fingerprint = f
       THEN "duplicate" ELSE "conflict"

(* reserve(): a key that has a row is answered without a write, whatever   *)
(* the row's state; a free key gets a pending row of its own.              *)
Reserve(k, f, described) ==
  LET row == [key |-> k, fingerprint |-> f, state |-> "pending",
              id |-> issued + 1, described |-> described]
  IN  /\ Verified(FALSE)
      /\ ReserveResult(k, f) = "new"
      /\ rows' = rows \cup {row}
      /\ issued' = issued + 1
      /\ WriteManifest(Xor(manifest.accumulator, {row}),
                       manifest.row_count + 1)
      /\ UNCHANGED <<records, vouched, claims, aged, leased, losses>>

(* Mutant of DeleteRow: the row count is left as it was.                   *)
DeleteRowUncounted(row) ==
  /\ rows' = rows \ {row}
  /\ WriteManifest(Xor(manifest.accumulator, {row}), manifest.row_count)

(* Mutant of CompleteRow: the old member stays in the accumulator.         *)
CompleteRowKeepingMember(row) ==
  LET completed == [row EXCEPT !.state = "completed"]
  IN  /\ rows' = (rows \ {row}) \cup {completed}
      /\ WriteManifest(Xor(manifest.accumulator, {completed}),
                       manifest.row_count)

(* The row leaves the ledger, and its member leaves the accumulator.       *)
DeleteRow(row) ==
  /\ rows' = rows \ {row}
  /\ WriteManifest(Xor(manifest.accumulator, {row}), manifest.row_count - 1)

(* The row becomes completed; its old member is taken out of the           *)
(* accumulator and its new one put in.                                     *)
CompleteRow(row) ==
  LET completed == [row EXCEPT !.state = "completed"]
  IN  /\ rows' = (rows \ {row}) \cup {completed}
      /\ WriteManifest(Xor(Xor(manifest.accumulator, {row}), {completed}),
                       manifest.row_count)

(* Mutant of Matching: the row is found whatever its state.                *)
MatchingAnyState(k, f) == {r \in rows : r.key = k /\ r.fingerprint = f}

(* transition(): the pending row is found by key and fingerprint.  The     *)
(* reservation that the caller was given is not part of the request.       *)
Matching(k, f) ==
  {r \in rows : r.key = k /\ r.fingerprint = f /\ r.state = "pending"}

Complete(k, f) ==
  /\ Verified(FALSE)
  /\ \E row \in Matching(k, f) : CompleteRow(row)
  /\ UNCHANGED <<records, vouched, claims, aged, issued, leased, losses>>

Release(k, f) ==
  /\ Verified(FALSE)
  /\ \E row \in Matching(k, f) : DeleteRow(row)
  /\ UNCHANGED <<records, vouched, claims, aged, issued, leased, losses>>

(* reconcile(): an operator settles an abandoned reservation by its        *)
(* identifier.  A reservation that has a record is answered or refused     *)
(* without a write, so evidence and operator, which only decide between    *)
(* the two, are left out.                                                  *)
Reconcile(id, outcome) ==
  /\ Verified(FALSE)
  /\ \A i \in DOMAIN records : records[i].reservation # id
  /\ id \in aged
  /\ \E row \in rows :
       /\ row.id = id /\ row.state = "pending" /\ row.described
       /\ LET record == [reservation |-> id, key |-> row.key,
                         outcome |-> outcome]
          IN  /\ records' = Append(records, record)
              /\ vouched' = Append(vouched, record)
       /\ IF outcome = "confirmed_not_executed"
          THEN DeleteRow(row) ELSE CompleteRow(row)
  /\ UNCHANGED <<claims, aged, issued, leased, losses>>

(* Date.now() - updated_at reaches the minimum age of a pending row.       *)
ReservationAges(id) ==
  /\ \E row \in rows : row.id = id /\ row.state = "pending"
  /\ id \notin aged
  /\ aged' = aged \cup {id}
  /\ UNCHANGED <<ledgerVars, outboxVars, losses>>
-----------------------------------------------------------------------------
(* The checkpoint outbox.  These transactions lock delivery rows, not the  *)
(* manifest, and do not verify the ledger.                                 *)

Update(d, new) == deliveries' = (deliveries \ {d}) \cup {new}

(* Mutant of Claimable: an expired lease is never taken over.              *)
ClaimablePending == {d \in deliveries : d.status = "pending" /\ d.due}

(* A pending delivery whose next attempt is due, or a processing one whose *)
(* lease has expired.                                                      *)
Claimable ==
  {d \in deliveries : d.status \in {"pending", "processing"} /\ d.due}

(* claimCheckpointAnchorDeliveries(): FOR UPDATE SKIP LOCKED passes over   *)
(* what a concurrent transaction holds, so a worker gets some of the due   *)
(* deliveries (the batch limit is above every number explored here), each  *)
(* under a lease that was never used for it before.  The attempt is        *)
(* counted at the claim.                                                   *)
ClaimDeliveries(batch) ==
  /\ batch # {} /\ leased < MaxClaims
  /\ leased' = leased + 1
  /\ deliveries' = (deliveries \ batch) \cup
       {[d EXCEPT !.status = "processing", !.attempts = @ + 1,
                  !.lease = leased + 1, !.due = FALSE] : d \in batch}
  /\ claims' = claims \cup
       {[revision |-> d.revision, lease |-> leased + 1] : d \in batch}
  /\ UNCHANGED <<ledgerVars, aged, losses>>

(* Mutant of HoldsLease: the delivery is found by its identifier alone.    *)
HoldsAnyLease(d, c) == d.revision = c.revision

HoldsLease(d, c) ==
  d.revision = c.revision /\ d.status = "processing" /\ d.lease = c.lease

(* finishCheckpointAnchorDelivery() by the worker that still has the       *)
(* lease: delivered, back to pending with a backoff, or dead.              *)
FinishDelivery(c, result) ==
  /\ \E d \in deliveries :
       /\ HoldsLease(d, c)
       /\ \E status \in {"delivered", "pending", "dead"} :
            /\ status = "delivered" <=> result = "delivered"
            /\ status = "pending" <=>
                 result = "retryable" /\ d.attempts < MaxAttempts
            /\ Update(d, [d EXCEPT !.status = status, !.due = FALSE,
                                   !.lease = 0])
  /\ claims' = claims \ {c}
  /\ UNCHANGED <<ledgerVars, aged, leased, losses>>

(* The result of a worker whose lease was taken over is dropped, and so is *)
(* a claim whose worker crashed.                                           *)
DropClaim(c) ==
  /\ claims' = claims \ {c}
  /\ UNCHANGED <<ledgerVars, deliveries, aged, leased, losses>>

(* redriveCheckpointAnchorDelivery(): an operator restarts a dead one.     *)
Redrive(d) ==
  /\ d.status = "dead"
  /\ Update(d, [d EXCEPT !.status = "pending", !.attempts = 0, !.due = TRUE])
  /\ UNCHANGED <<ledgerVars, claims, aged, leased, losses>>

(* The backoff of a pending delivery, or the lease of a processing one,    *)
(* runs out.                                                               *)
DeliveryFallsDue(d) ==
  /\ d.status \in {"pending", "processing"} /\ ~d.due
  /\ Update(d, [d EXCEPT !.due = TRUE])
  /\ UNCHANGED <<ledgerVars, claims, aged, leased, losses>>

(* Mutant of AnchorAcknowledged: a queued checkpoint is enough.            *)
AnchorQueued == \E d \in deliveries : d.revision = manifest.revision

(* checkpointAnchorAcknowledged(): the answer when the ledger verifies.    *)
AnchorAcknowledged ==
  \/ ~Anchoring
  \/ \E d \in deliveries :
       d.revision = manifest.revision /\ d.status = "delivered"
-----------------------------------------------------------------------------
(* What the verification is there for: stored rows that disappear without  *)
(* the program (a partial restore, a manual clean-up).                     *)

Lose ==
  /\ losses < MaxLosses
  /\ losses' = losses + 1
  /\ \/ /\ \E row \in rows : rows' = rows \ {row}
        /\ UNCHANGED <<records, deliveries>>
     \/ /\ \E i \in DOMAIN records : records' = RemoveAt(records, i)
        /\ UNCHANGED <<rows, deliveries>>
     \/ /\ \E d \in deliveries : deliveries' = deliveries \ {d}
        /\ UNCHANGED <<rows, records>>
  /\ UNCHANGED <<manifest, vouched, claims, aged, issued, leased>>
-----------------------------------------------------------------------------
Init ==
  /\ rows = {}
  /\ manifest = [revision |-> 0, row_count |-> 0, accumulator |-> {}]
  /\ records = <<>> /\ vouched = <<>>
  /\ deliveries = {} /\ claims = {}
  /\ aged = {} /\ issued = 0 /\ leased = 0 /\ losses = 0

LedgerNext ==
  \/ \E k \in Keys, f \in Fingerprints :
       \/ \E described \in BOOLEAN : Reserve(k, f, described)
       \/ Complete(k, f)
       \/ Release(k, f)
  \/ \E id \in 1..issued :
       \/ Reconcile(id, "confirmed_executed")
       \/ Reconcile(id, "confirmed_not_executed")
       \/ ReservationAges(id)

OutboxNext ==
  \/ \E batch \in SUBSET Claimable : ClaimDeliveries(batch)
  \/ \E c \in claims :
       \/ FinishDelivery(c, "delivered")
       \/ FinishDelivery(c, "retryable")
       \/ FinishDelivery(c, "rejected")
       \/ DropClaim(c)
  \/ \E d \in deliveries : Redrive(d) \/ DeliveryFallsDue(d)

Next == LedgerNext \/ OutboxNext \/ Lose

Spec == Init /\ [][Next]_vars
-----------------------------------------------------------------------------
(* Properties.                                                             *)

(* The program's own writes never make verification fail: as long as no    *)
(* row was lost, the rows match count and accumulator, the records match   *)
(* their tip and the current revision has its delivery, so the integrity   *)
(* errors of verifyLocked and verifyReconciliationsLocked always mean an   *)
(* outside change and an operation can only be refused for a dead anchor.  *)
NeverLocksItselfOut == losses = 0 => Verified(TRUE)

(* A key never has two reservations, not even when the row that held it    *)
(* was lost: what the accumulator still vouches for keeps the key from     *)
(* being reserved again by the stored rows.                                *)
KeyHeldOnce ==
  \A a, b \in rows \cup manifest.accumulator : a.key = b.key => a = b

(* An operator's verdict is final: a reservation has at most one record,   *)
(* one confirmed executed holds its key as completed for ever, one         *)
(* confirmed not executed never comes back, whatever late complete or      *)
(* release requests arrive.                                                *)
ReconciliationIsFinal ==
  \A i \in DOMAIN vouched :
    LET record == vouched[i]
        held   == {r \in manifest.accumulator : r.id = record.reservation}
    IN  /\ \A j \in DOMAIN vouched :
             vouched[j].reservation = record.reservation => i = j
        /\ record.outcome = "confirmed_executed"
             => \E r \in held : r.key = record.key /\ r.state = "completed"
        /\ record.outcome = "confirmed_not_executed" => held = {}

(* One ledger change: a pending reservation appears or goes, or one is     *)
(* completed.                                                              *)
LegalChange(before, after) ==
  \/ \E r \in after \ before : /\ r.state = "pending"
                               /\ after = before \cup {r}
  \/ \E r \in before : r.state = "pending" /\ after = before \ {r}
  \/ \E r \in before :
       /\ r.state = "pending"
       /\ after = (before \ {r}) \cup {[r EXCEPT !.state = "completed"]}

(* The outbox tells the receiver the whole story: while nothing was lost,  *)
(* every revision has exactly one delivery, and each differs from the one  *)
(* before it by one legal change of one reservation.                       *)
AnchoredHistoryIsLegal ==
  Anchoring /\ losses = 0 =>
    /\ {d.revision : d \in deliveries} = 1..manifest.revision
    /\ \A d, e \in deliveries :
         /\ d.revision = e.revision => d = e
         /\ e.revision = d.revision + 1 =>
              LegalChange(d.checkpoint.accumulator, e.checkpoint.accumulator)

(* An acknowledged checkpoint stays acknowledged: no worker that comes     *)
(* back after its lease was taken over, no redrive and no later revision   *)
(* makes a delivered delivery anything else.                               *)
DeliveredIsFinal ==
  [][losses' = losses =>
       \A d \in deliveries :
         d.status = "delivered" =>
           \E e \in deliveries' :
             e.revision = d.revision /\ e.status = "delivered"]_vars

(* The reservations that the manifest vouches for, as the callers see them.*)
View(r) == [key |-> r.key, fingerprint |-> r.fingerprint, state |-> r.state,
            id |-> r.id]

Vouched == {View(r) : r \in manifest.accumulator}

Ledger == INSTANCE ActionLedger WITH entries <- Vouched

(* The shared store is an idempotency ledger, whatever the outbox does and *)
(* even when stored rows are lost: admissions, completions and releases    *)
(* are those of ActionLedger and everything else leaves it alone.          *)
ImplementsLedger == Ledger!Spec

(* What the accumulator, the counters and the tables owe each other after  *)
(* every step; with TypeOK, the part of the state that no operation can    *)
(* break and that each relies on once its verification has passed.         *)
AccumulatorInv ==
  LET vouchedRows == manifest.accumulator
  IN  /\ IsFiniteSet(vouchedRows)
      /\ manifest.row_count = Cardinality(vouchedRows)
      /\ rows \subseteq vouchedRows
      /\ losses = 0 => rows = vouchedRows
      /\ \A a \in vouchedRows : a.id \in 1..issued
      /\ \A a, b \in vouchedRows : a.key = b.key \/ a.id = b.id => a = b

RecordInv ==
  /\ losses = 0 => records = vouched
  /\ \A i \in DOMAIN vouched : vouched[i].reservation \in 1..issued
  /\ ReconciliationIsFinal

CoverageInv ==
  Anchoring /\ losses = 0 /\ manifest.revision # 0 =>
    \E d \in deliveries :
      d.revision = manifest.revision /\ d.checkpoint = manifest

IInv == TypeOK /\ AccumulatorInv /\ RecordInv /\ CoverageInv

(* docs/SHARED_STATE.md says of the anchor outbox that retries are         *)
(* bounded: no delivery is attempted more often than the configured limit. *)
AttemptsBounded == \A d \in deliveries : d.attempts <= MaxAttempts
=============================================================================
