-------------------------- MODULE SqliteActionState --------------------------
(***************************************************************************)
(* The action ledger of ManagedStore: the same tables as in                *)
(* SharedActionState, in one SQLite file that several processes may have   *)
(* open.  There is no manifest lock and no verification per operation.     *)
(* Instead a connection compares PRAGMA data_version, which changes        *)
(* whenever another connection commits, with the value it saw when it last *)
(* verified all tenants, and only verifies again when it has changed.      *)
(*                                                                         *)
(* Opening the store verifies the ledger, queues the deliveries that are   *)
(* missing and then remembers the data version: three steps, because other *)
(* connections may commit in between.                                      *)
(*                                                                         *)
(* Abstractions as in SharedActionState: a hash is the value it is         *)
(* computed from and an identifier is a number never used before.  What a  *)
(* clock decides (a delivery is due, a lease has run out, a reservation is *)
(* old enough to reconcile) may be decided either way at any time.         *)
(* observed_data_version is the flag "stale": some other connection has    *)
(* committed since.                                                        *)
(*                                                                         *)
(* Assumed: no row is lost while a process is between the steps of its     *)
(* opening; such a loss is noticed only when yet another commit follows.   *)
(***************************************************************************)
EXTENDS Naturals, FiniteSets

CONSTANTS
  Processes,     \* connections to the file
  Tenants,
  Keys,
  Fingerprints,
  MaxAttempts,   \* actionCheckpointAnchorMaxAttempts
  MaxChanges,    \* bound: ledger changes of all tenants together
  MaxClaims,     \* bound: batches claimed and rows lost, together
  MaxLosses      \* bound: rows lost behind the program's back

ASSUME SqliteAssumption ==
  /\ MaxAttempts \in Nat \ {0}
  /\ MaxChanges \in Nat /\ MaxClaims \in Nat /\ MaxLosses \in Nat

VARIABLES
  rows,        \* action_idempotency
  manifests,   \* action_idempotency_manifests, by tenant
  records,     \* action_reconciliations
  deliveries,  \* checkpoint_anchor_deliveries
  processes,   \* pc and stale of every process, and for the properties
               \* the tenants it overlooked: bootstrapped after it queued
               \* what was missing and before it remembered the version
  anchoring,   \* an anchor URL is configured
  claims,      \* deliveries handed to a dispatch and not yet finished
  confirmed,   \* checkpoints that the receiver confirmed, a history variable
  issued, leased, losses

ledgerVars == <<rows, manifests, records, issued>>
outboxVars == <<claims, confirmed, leased>>
vars == <<rows, manifests, records, deliveries, processes, anchoring, claims,
          confirmed, issued, leased, losses>>

Row == [tenant : Tenants, key : Keys, fingerprint : Fingerprints,
        state : {"pending", "completed"}, id : Nat]

Manifest == [revision : Nat, row_count : Nat, accumulator : SUBSET Row]

Delivery == [tenant : Tenants, revision : Nat, checkpoint : Manifest,
             status   : {"pending", "processing", "delivered", "dead"},
             attempts : Nat, lease : Nat]

Claim == [process : Processes, tenant : Tenants, revision : Nat,
          checkpoint : Manifest, lease : Nat]

Process == [pc : {"closed", "inspected", "queued", "open"}, stale : BOOLEAN,
            overlooked : SUBSET Tenants]

Closed == [pc |-> "closed", stale |-> FALSE, overlooked |-> {}]

TypeOK ==
  /\ rows \subseteq Row
  /\ DOMAIN manifests \subseteq Tenants
  /\ \A t \in DOMAIN manifests : manifests[t] \in Manifest
  /\ records \subseteq [reservation : Nat, outcome : {"executed", "not_executed"}]
  /\ deliveries \subseteq Delivery
  /\ claims \subseteq Claim
  /\ confirmed \subseteq [tenant : Tenants, checkpoint : Manifest]
  /\ processes \in [Processes -> Process]
  /\ anchoring \in BOOLEAN
  /\ issued \in Nat /\ leased \in Nat /\ losses \in Nat

RowsOf(t) == {r \in rows : r.tenant = t}
Changes == LET f[S \in SUBSET DOMAIN manifests] ==
                 IF S = {} THEN 0
                 ELSE LET t == CHOOSE x \in S : TRUE
                      IN  manifests[t].revision + f[S \ {t}]
           IN  f[DOMAIN manifests]
-----------------------------------------------------------------------------
(* Verification.                                                           *)

(* inspectActionIdempotencyManifests.                                      *)
RowsVerify ==
  \A t \in DOMAIN manifests :
    /\ manifests[t].row_count = Cardinality(RowsOf(t))
    /\ manifests[t].accumulator = RowsOf(t)

HasDelivery(t) ==
  \E d \in deliveries : /\ d.tenant = t /\ d.revision = manifests[t].revision
                        /\ d.checkpoint = manifests[t]

CoveredBut(excepted) ==
  anchoring => \A t \in DOMAIN manifests \ excepted : HasDelivery(t)

(* inspectCheckpointAnchorCoverage: every tenant's revision, zero          *)
(* included, has its delivery.                                             *)
Coverage == CoveredBut({})

(* Mutant of Fresh: verified at the opening, never again.                  *)
FreshOnce(p) == processes[p].pc = "open"

(* assertActionIdempotencyManifestFresh, which fails with a 503.           *)
Fresh(p) ==
  /\ processes[p].pc = "open"
  /\ processes[p].stale => RowsVerify /\ Coverage

(* p has verified, and the others will notice that it committed.           *)
Committed(p) ==
  processes' = [q \in Processes |->
    IF q = p THEN [processes[q] EXCEPT !.stale = FALSE, !.overlooked =
                    IF processes[q].stale THEN {} ELSE @]
    ELSE [processes[q] EXCEPT !.stale = (processes[q].pc = "open")]]

(* A commit of a connection that checked nothing, or of an outsider.       *)
Touched(others) ==
  processes' = [q \in Processes |->
    [processes[q] EXCEPT !.stale =
       @ \/ (q \in others /\ processes[q].pc = "open")]]

Queued(t, m) ==
  [tenant |-> t, revision |-> m.revision, checkpoint |-> m,
   status |-> "pending", attempts |-> 0, lease |-> 0]

(* enqueueCheckpointAnchorDelivery: INSERT OR IGNORE under the tenant and  *)
(* its revision.                                                           *)
WithDelivery(ds, t, m) ==
  IF anchoring /\ \A d \in ds : d.tenant # t \/ d.revision # m.revision
  THEN ds \cup {Queued(t, m)} ELSE ds

(* updateActionIdempotencyManifest.                                        *)
UpdateManifest(t, removed, added) ==
  LET m    == manifests[t]
      next == [revision    |-> m.revision + 1,
               row_count   |-> (m.row_count + Cardinality(added))
                                 - Cardinality(removed),
               accumulator |-> (m.accumulator \ removed) \cup added]
  IN  /\ Changes < MaxChanges
      /\ m.row_count + Cardinality(added) >= Cardinality(removed)
      /\ manifests' = [manifests EXCEPT ![t] = next]
      /\ deliveries' = WithDelivery(deliveries, t, next)
-----------------------------------------------------------------------------
(* Processes.                                                              *)

(* The constructor up to its verification, which it does not pass when     *)
(* rows are missing.                                                       *)
Inspect(p) ==
  /\ processes[p].pc = "closed"
  /\ RowsVerify
  /\ processes' = [processes EXCEPT ![p].pc = "inspected"]
  /\ UNCHANGED <<ledgerVars, deliveries, anchoring, outboxVars, losses>>

(* ensureConfiguredCheckpointAnchorDeliveries, in a transaction.           *)
QueueMissing(p) ==
  LET missing == {Queued(t, manifests[t]) : t \in
        {x \in DOMAIN manifests : anchoring /\ \A d \in deliveries :
            d.tenant # x \/ d.revision # manifests[x].revision}}
  IN  /\ processes[p].pc = "inspected"
      /\ deliveries' = deliveries \cup missing
      /\ processes' = [q \in Processes |->
           IF q = p THEN [processes[q] EXCEPT !.pc = "queued"]
           ELSE [processes[q] EXCEPT !.stale =
                   @ \/ (missing # {} /\ processes[q].pc = "open")]]
      /\ UNCHANGED <<ledgerVars, anchoring, outboxVars, losses>>

(* The data version is remembered: whatever others committed until now     *)
(* counts as seen.                                                         *)
Open(p) ==
  /\ processes[p].pc = "queued"
  /\ processes' = [processes EXCEPT ![p].pc = "open"]
  /\ UNCHANGED <<ledgerVars, deliveries, anchoring, outboxVars, losses>>

(* The process ends, or crashes, and with it the dispatches under way.     *)
Close(p) ==
  /\ processes[p].pc # "closed"
  /\ processes' = [processes EXCEPT ![p] = Closed]
  /\ claims' = {c \in claims : c.process # p}
  /\ UNCHANGED <<ledgerVars, deliveries, anchoring, confirmed, leased, losses>>

(* The anchor URL is configured or removed while nothing runs.             *)
Reconfigure ==
  /\ \A p \in Processes : processes[p].pc = "closed"
  /\ anchoring' = ~anchoring
  /\ UNCHANGED <<ledgerVars, deliveries, processes, outboxVars, losses>>

(* The bootstrap command: it opens the store for itself, without an anchor *)
(* URL, inserts the tenant with its manifest, and exits.                   *)
BootstrapTenant(t) ==
  /\ t \notin DOMAIN manifests /\ RowsVerify
  /\ manifests' = [x \in DOMAIN manifests \cup {t} |->
       IF x = t THEN [revision |-> 0, row_count |-> 0, accumulator |-> {}]
       ELSE manifests[x]]
  /\ processes' = [q \in Processes |->
       [processes[q] EXCEPT
          !.stale = @ \/ processes[q].pc = "open",
          !.overlooked = IF processes[q].pc = "queued" THEN @ \cup {t} ELSE @]]
  /\ UNCHANGED <<rows, records, issued, deliveries, anchoring, outboxVars,
                 losses>>
-----------------------------------------------------------------------------
(* Ledger operations, each one an immediate transaction.                   *)

(* Mutant of Look: the new data version is kept before it is verified.     *)
LookUnverified(p) ==
  /\ processes[p].stale
  /\ processes' = [processes EXCEPT ![p].stale = FALSE]
  /\ UNCHANGED <<ledgerVars, deliveries, anchoring, outboxVars, losses>>

(* What only looks: reserve() of a key that is taken, and the list of      *)
(* pending reservations.                                                   *)
Look(p) ==
  /\ processes[p].stale /\ Fresh(p)
  /\ processes' = [processes EXCEPT ![p] =
                    [@ EXCEPT !.stale = FALSE, !.overlooked = {}]]
  /\ UNCHANGED <<ledgerVars, deliveries, anchoring, outboxVars, losses>>

Reserve(p, t, k, f) ==
  LET row == [tenant |-> t, key |-> k, fingerprint |-> f, state |-> "pending",
              id |-> issued + 1]
  IN  /\ Fresh(p)
      /\ \A r \in RowsOf(t) : r.key # k
      /\ rows' = rows \cup {row}
      /\ issued' = issued + 1
      /\ UpdateManifest(t, {}, {row})
      /\ Committed(p)
      /\ UNCHANGED <<records, anchoring, outboxVars, losses>>

(* Mutant of CompleteRow: the state column gets the request's name.        *)
CompleteRowByName(row) ==
  LET completed == [row EXCEPT !.state = "complete"]
  IN  /\ rows' = (rows \ {row}) \cup {completed}
      /\ UpdateManifest(row.tenant, {row}, {completed})

CompleteRow(row) ==
  LET completed == [row EXCEPT !.state = "completed"]
  IN  /\ rows' = (rows \ {row}) \cup {completed}
      /\ UpdateManifest(row.tenant, {row}, {completed})

DeleteRow(row) ==
  /\ rows' = rows \ {row}
  /\ UpdateManifest(row.tenant, {row}, {})

Pending(t, k, f) ==
  {r \in RowsOf(t) : r.key = k /\ r.fingerprint = f /\ r.state = "pending"}

Complete(p, t, k, f) ==
  /\ Fresh(p)
  /\ \E row \in Pending(t, k, f) : CompleteRow(row)
  /\ Committed(p)
  /\ UNCHANGED <<records, issued, anchoring, outboxVars, losses>>

Release(p, t, k, f) ==
  /\ Fresh(p)
  /\ \E row \in Pending(t, k, f) : DeleteRow(row)
  /\ Committed(p)
  /\ UNCHANGED <<records, issued, anchoring, outboxVars, losses>>

(* reconcileActionReservation: by its identifier, once, when it is old     *)
(* enough; its alert is inserted in the same transaction.                  *)
Reconcile(p, id, outcome) ==
  /\ Fresh(p)
  /\ \A x \in records : x.reservation # id
  /\ \E row \in rows :
       /\ row.id = id /\ row.state = "pending"
       /\ IF outcome = "executed" THEN CompleteRow(row) ELSE DeleteRow(row)
  /\ records' = records \cup {[reservation |-> id, outcome |-> outcome]}
  /\ Committed(p)
  /\ UNCHANGED <<issued, anchoring, outboxVars, losses>>
-----------------------------------------------------------------------------
(* The checkpoint outbox; its statements do not verify the ledger.         *)

Update(d, new) == deliveries' = (deliveries \ {d}) \cup {new}

(* claimDueCheckpointAnchorDeliveries takes a batch of what is due.        *)
ClaimDeliveries(p, batch) ==
  /\ processes[p].pc = "open" /\ anchoring
  /\ batch # {} /\ leased + losses < MaxClaims
  /\ \A d \in batch : d.status \in {"pending", "processing"}
  /\ leased' = leased + 1
  /\ deliveries' = (deliveries \ batch) \cup
       {[d EXCEPT !.status = "processing", !.attempts = @ + 1,
                  !.lease = leased + 1] : d \in batch}
  /\ claims' = claims \cup
       {[process |-> p, tenant |-> d.tenant, revision |-> d.revision,
         checkpoint |-> d.checkpoint, lease |-> leased + 1] : d \in batch}
  /\ Touched(Processes \ {p})
  /\ UNCHANGED <<ledgerVars, anchoring, confirmed, losses>>

HoldsLease(d, c) ==
  /\ d.tenant = c.tenant /\ d.revision = c.revision
  /\ d.status = "processing" /\ d.lease = c.lease

(* finishCheckpointAnchorDelivery, with what the receiver answered.  A     *)
(* late answer, after the lease went to someone else, changes nothing.     *)
FinishDelivery(c, result) ==
  LET held == {d \in deliveries : HoldsLease(d, c)}
  IN  /\ processes[c.process].pc = "open"
      /\ claims' = claims \ {c}
      /\ confirmed' = IF result = "delivered"
                      THEN confirmed \cup {[tenant |-> c.tenant,
                                            checkpoint |-> c.checkpoint]}
                      ELSE confirmed
      /\ deliveries' = (deliveries \ held) \cup
           {[d EXCEPT !.lease = 0, !.status =
               IF result = "delivered" THEN "delivered"
               ELSE IF result = "retryable" /\ d.attempts < MaxAttempts
               THEN "pending" ELSE "dead"] : d \in held}
      /\ IF held = {} THEN UNCHANGED processes
         ELSE Touched(Processes \ {c.process})
      /\ UNCHANGED <<ledgerVars, anchoring, leased, losses>>

Redrive(p, d) ==
  /\ processes[p].pc = "open" /\ anchoring
  /\ d.status = "dead"
  /\ Update(d, [d EXCEPT !.status = "pending", !.attempts = 0])
  /\ Touched(Processes \ {p})
  /\ UNCHANGED <<ledgerVars, anchoring, outboxVars, losses>>

(* Mutant of Acknowledged: any delivered checkpoint of the tenant.         *)
AcknowledgedOnce(t) ==
  anchoring => \E d \in deliveries : d.tenant = t /\ d.status = "delivered"

(* actionCheckpointAnchorAcknowledged.                                     *)
Acknowledged(t) ==
  anchoring => \E d \in deliveries :
    /\ d.tenant = t /\ d.revision = manifests[t].revision
    /\ d.status = "delivered" /\ d.checkpoint = manifests[t]
-----------------------------------------------------------------------------
(* Somebody deletes rows of the file.                                      *)
Lose ==
  /\ losses < MaxLosses /\ leased + losses < MaxClaims
  /\ \A p \in Processes : processes[p].pc \notin {"inspected", "queued"}
  /\ losses' = losses + 1
  /\ \/ (\E row \in rows : rows' = rows \ {row}) /\ UNCHANGED deliveries
     \/ (\E d \in deliveries : deliveries' = deliveries \ {d}) /\ UNCHANGED rows
  /\ Touched(Processes)
  /\ UNCHANGED <<manifests, records, issued, anchoring, outboxVars>>

Init ==
  /\ rows = {} /\ manifests = <<>> /\ records = {} /\ deliveries = {}
  /\ processes = [p \in Processes |-> Closed]
  /\ anchoring \in BOOLEAN
  /\ claims = {} /\ confirmed = {}
  /\ issued = 0 /\ leased = 0 /\ losses = 0

LedgerNext(p) ==
  \/ Look(p)
  \/ \E t \in DOMAIN manifests, k \in Keys, f \in Fingerprints :
       Reserve(p, t, k, f) \/ Complete(p, t, k, f) \/ Release(p, t, k, f)
  \/ \E id \in 1..issued, outcome \in {"executed", "not_executed"} :
       Reconcile(p, id, outcome)

Next ==
  \/ \E p \in Processes :
       \/ Inspect(p) \/ QueueMissing(p) \/ Open(p) \/ Close(p)
       \/ LedgerNext(p)
       \/ \E batch \in SUBSET deliveries : ClaimDeliveries(p, batch)
       \/ \E d \in deliveries : Redrive(p, d)
  \/ \E c \in claims, result \in {"delivered", "retryable", "rejected"} :
       FinishDelivery(c, result)
  \/ \E t \in Tenants : BootstrapTenant(t)
  \/ Reconfigure \/ Lose

Spec == Init /\ [][Next]_vars
-----------------------------------------------------------------------------
(* Properties.                                                             *)

(* A process that sees no new data version may rely on what it verified:   *)
(* the rows still match every manifest and every manifest has its          *)
(* delivery, whatever it and other connections wrote meanwhile.  The one   *)
(* exception is a tenant bootstrapped while the process opened, after it   *)
(* queued the deliveries that were missing and before it remembered the    *)
(* data version: that tenant may lack its delivery until the process looks *)
(* again.                                                                  *)
UnchangedMeansVerified ==
  \A p \in Processes :
    processes[p].pc = "open" /\ ~processes[p].stale =>
      RowsVerify /\ CoveredBut(processes[p].overlooked)

(* The file is an idempotency ledger for all tenants, as the manifests     *)
(* vouch for it, however many processes have it open and even when rows    *)
(* are deleted behind them.                                                *)
Entries ==
  {[key |-> <<r.tenant, r.key>>, fingerprint |-> r.fingerprint,
    state |-> r.state, id |-> r.id] :
     r \in UNION {manifests[t].accumulator : t \in DOMAIN manifests}}

Ledger == INSTANCE ActionLedger
            WITH Keys <- Tenants \X Keys, entries <- Entries

ImplementsLedger == Ledger!Spec

(* What lets an evaluation answer "allowed": the receiver has confirmed    *)
(* the very checkpoint that the tenant's ledger is at now, also after      *)
(* leases were taken over, deliveries lost and queued again, and anchoring *)
(* switched off for a while.                                               *)
AcknowledgedIsConfirmed ==
  \A t \in DOMAIN manifests :
    anchoring /\ Acknowledged(t) =>
      [tenant |-> t, checkpoint |-> manifests[t]] \in confirmed

(* Why both hold: a revision stands for one content of the ledger,         *)
(* wherever it is kept, so what is there under the present revision need   *)
(* not be compared with the present content; what is verified stays so     *)
(* until somebody else commits; and while a process opens the store the    *)
(* rows match, whoever writes.                                             *)
LedgerInv ==
  /\ IsFiniteSet(rows)
  /\ \A r \in rows : r.tenant \in DOMAIN manifests
  /\ \A r, x \in rows : r.tenant = x.tenant /\ r.key = x.key => r = x
  /\ \A t \in DOMAIN manifests :
       \A r \in manifests[t].accumulator : r.tenant = t

Copies == deliveries \cup claims

OutboxInv ==
  /\ \A d \in Copies :
       /\ d.tenant \in DOMAIN manifests
       /\ d.revision <= manifests[d.tenant].revision
       /\ d.revision = manifests[d.tenant].revision =>
            d.checkpoint = manifests[d.tenant]
  /\ \A d, e \in Copies : d.tenant = e.tenant /\ d.revision = e.revision =>
       d.checkpoint = e.checkpoint
  /\ \A d \in deliveries : d.status = "delivered" =>
       [tenant |-> d.tenant, checkpoint |-> d.checkpoint] \in confirmed

OpeningVerified ==
  \A p \in Processes :
    /\ processes[p].pc \in {"inspected", "queued"} => RowsVerify
    /\ processes[p].pc = "queued" => CoveredBut(processes[p].overlooked)

(* The inductive invariant.                                                *)
IInv == TypeOK /\ LedgerInv /\ OutboxInv /\ OpeningVerified
          /\ UnchangedMeansVerified

(* The error of assertActionIdempotencyManifestFresh says that a deletion  *)
(* or substitution was detected: without one, a process that is open is    *)
(* never refused by its own verification.                                  *)
RefusedOnlyAfterLoss ==
  losses = 0 => \A p \in Processes : processes[p].pc = "open" => Fresh(p)
=============================================================================
