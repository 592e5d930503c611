-------------------------- MODULE AnchoredExecution --------------------------
(***************************************************************************)
(* The managed servers' anchored action evaluation: the shared action      *)
(* ledger, the workers that carry its checkpoints to the independent       *)
(* receiver, and the handler that answers "allowed" only once the receiver *)
(* has acknowledged.  Servers crash, requests to the receiver are lost,    *)
(* answered late or delivered out of order, and the primary database is    *)
(* restored from a backup.                                                 *)
(*                                                                         *)
(* A transaction of the ledger and one of the receiver are one step each;  *)
(* everything a handler or a worker awaits in between is a separate step.  *)
(* Callers and operators follow the documented protocol: a caller that was *)
(* allowed completes when the action ran and releases when it did not, an  *)
(* operator reconciles by what really happened and compares a restored     *)
(* database with the receiver before traffic resumes.                      *)
(***************************************************************************)
EXTENDS Naturals, FiniteSets, Sequences

CONSTANTS
  Keys, Fingerprints, MaxAttempts, MaxRevision, MaxClaims,
  Servers,      \* replicas of the managed server, one evaluation at a time
  MaxFaults,    \* bound: crashes, lost or late messages, expired leases
  MaxRestores   \* bound: restores of the primary database

VARIABLES
  rows, manifest, records, vouched, deliveries, claims, aged, issued, leased,
                 \* the shared ledger, see SharedActionState
  events, latest, sequence,
                 \* the receiver, see AnchorReceiver
  handler,       \* the evaluation a server is working on
  dispatch,      \* a server's checkpointAnchorDispatch promise
  wire,          \* requests on their way to the receiver
  answers,       \* answers on their way back
  authorised,    \* reservations that a caller was told are allowed, and
                 \* that were not withdrawn since
  backup,        \* the backup of the primary database, if there is one
  traffic,       \* action traffic is let through
  faults, restores

ledger == <<rows, manifest, records, vouched, deliveries, claims, aged, issued,
            leased>>
receiver == <<events, latest, sequence>>
workers == <<dispatch, wire, answers>>
vars == <<ledger, receiver, handler, workers, authorised, backup, traffic,
          faults, restores>>

Tenant == "tenant"
NoBackup == [rows |-> {}]
Idle == [phase |-> "idle"]
NoDispatch == [phase |-> "none", lease |-> 0]
Claiming == [phase |-> "claiming", lease |-> 0]

S == INSTANCE SharedActionState WITH
       Anchoring <- TRUE, MaxLosses <- 0, losses <- 0

R == INSTANCE AnchorReceiver WITH
       Tenants <- {Tenant}, EventIds <- S!Manifest, Hashes <- S!Manifest,
       Revisions <- Nat, MaxLosses <- 0, process <- "open", unseen <- FALSE,
       overlooked <- FALSE, losses <- 0

(* The event of a delivery: identifier and hash are both derived from the  *)
(* checkpoint.                                                             *)
EventOf(checkpoint) ==
  [id |-> checkpoint, tenant |-> Tenant, revision |-> checkpoint.revision,
   hash |-> checkpoint]

(* The claims of a server's dispatch that are not finished: one claim call *)
(* gives all of its deliveries one lease here.                             *)
Working(s) ==
  {c \in claims : dispatch[s].phase = "delivering" /\ c.lease = dispatch[s].lease}

(* Deliveries that outlived a dispatch that failed.                        *)
Detached == claims \ UNION {Working(s) : s \in Servers}

Fault == faults < MaxFaults /\ faults' = faults + 1
-----------------------------------------------------------------------------
(* The evaluation handler.                                                 *)

(* A reservation was made for this request; a key that has one already is  *)
(* answered as a duplicate or a conflict and changes nothing.              *)
Evaluate(s, k, f) ==
  /\ traffic /\ handler[s] = Idle
  /\ S!Reserve(k, f, TRUE)
  /\ handler' = [handler EXCEPT ![s] =
       [phase |-> "reserved", key |-> k, fingerprint |-> f, id |-> issued']]
  /\ UNCHANGED <<receiver, workers, authorised, backup, traffic, faults,
                 restores>>

(* The first actionCheckpointAcknowledged(); without an acknowledgement    *)
(* the handler waits for the dispatch that is running, or starts one.      *)
FirstCheck(s) ==
  /\ handler[s].phase = "reserved" /\ S!Verified(FALSE)
  /\ handler' = [handler EXCEPT ![s].phase =
                   IF S!AnchorAcknowledged THEN "dispatched" ELSE "waiting"]
  /\ dispatch' = IF ~S!AnchorAcknowledged /\ dispatch[s] = NoDispatch
                 THEN [dispatch EXCEPT ![s] = Claiming] ELSE dispatch
  /\ UNCHANGED <<ledger, receiver, wire, answers, authorised, backup,
                 traffic, faults, restores>>

(* The second one decides: whatever revision is current now.               *)
Answer(s) ==
  /\ handler[s].phase = "dispatched" /\ S!Verified(FALSE)
  /\ S!AnchorAcknowledged
  /\ authorised' = authorised \cup
       {[key |-> handler[s].key, fingerprint |-> handler[s].fingerprint,
         id |-> handler[s].id]}
  /\ handler' = [handler EXCEPT ![s] = Idle]
  /\ UNCHANGED <<ledger, receiver, workers, backup, traffic, faults, restores>>

(* 503, and the reservation stays: the revision is not acknowledged, or    *)
(* reading it failed because it is dead.                                   *)
Unacknowledged(s) ==
  /\ \/ handler[s].phase = "reserved" /\ ~S!Verified(FALSE)
     \/ handler[s].phase = "dispatched"
          /\ ~(S!Verified(FALSE) /\ S!AnchorAcknowledged)
  /\ handler' = [handler EXCEPT ![s] = Idle]
  /\ UNCHANGED <<ledger, receiver, workers, authorised, backup, traffic,
                 faults, restores>>

(* The request timer answers 503, or a query of the handler fails; what    *)
(* the handler still does then has no effect of its own.                   *)
RequestTimesOut(s) ==
  /\ handler[s] # Idle
  /\ handler' = [handler EXCEPT ![s] = Idle]
  /\ UNCHANGED <<ledger, receiver, workers, authorised, backup, traffic,
                 faults, restores>>
-----------------------------------------------------------------------------
(* Dispatch workers.                                                       *)

(* The poll timer: runCheckpointAnchorDispatch is single flight.           *)
TimerFires(s) ==
  /\ dispatch[s] = NoDispatch
  /\ dispatch' = [dispatch EXCEPT ![s] = Claiming]
  /\ UNCHANGED <<ledger, receiver, handler, wire, answers, authorised,
                 backup, traffic, faults, restores>>

(* The due batch is claimed and every payload in it is sent; up to four    *)
(* requests are under way at once, so they arrive in any order.  (That a   *)
(* concurrent claim leaves only part of the batch is in SharedActionState.)*)
Claim(s) ==
  LET batch == S!Claimable
      claim(d) == [revision |-> d.revision, lease |-> leased + 1]
  IN  /\ dispatch[s] = Claiming
      /\ S!ClaimDeliveries(batch)
      /\ wire' = wire \cup
           {[claim |-> claim(d), checkpoint |-> d.checkpoint] : d \in batch}
      /\ dispatch' = [dispatch EXCEPT ![s] =
                       [phase |-> "delivering", lease |-> leased']]
      /\ UNCHANGED <<receiver, handler, answers, authorised, backup, traffic,
                     faults, restores>>

ClaimNothing(s) ==
  /\ dispatch[s] = Claiming /\ S!Claimable = {}
  /\ dispatch' = [dispatch EXCEPT ![s] = [phase |-> "delivering", lease |-> 0]]
  /\ UNCHANGED <<ledger, receiver, handler, wire, answers, authorised,
                 backup, traffic, faults, restores>>

(* The receiver takes a request; its answer is 2xx or 409.  Nothing is     *)
(* lost behind the receiver's back here, so only the transaction matters.  *)
Receive(m) ==
  /\ R!Store(EventOf(m.checkpoint))
  /\ wire' = wire \ {m}
  /\ answers' = answers \cup
       {[claim |-> m.claim, outcome |-> R!Outcome(EventOf(m.checkpoint))]}
  /\ UNCHANGED <<ledger, handler, dispatch, authorised, backup,
                 traffic, faults, restores>>

LoseRequest(m) ==
  /\ Fault
  /\ wire' = wire \ {m}
  /\ UNCHANGED <<ledger, receiver, handler, dispatch, answers,
                 authorised, backup, traffic, restores>>

Refusals == {"event_conflict", "rollback_detected", "integrity_conflict"}

(* The worker records a result, unless its lease was taken over meanwhile. *)
Finish(c, result) ==
  IF \E d \in deliveries : S!HoldsLease(d, c)
  THEN S!FinishDelivery(c, result) ELSE S!DropClaim(c)

FinishAnswered(c) ==
  \E a \in answers :
    /\ a.claim = c
    /\ Finish(c, IF a.outcome \in Refusals THEN "rejected" ELSE "delivered")
    /\ answers' = answers \ {a}
    /\ UNCHANGED <<receiver, handler, dispatch, wire, authorised, backup,
                   traffic, faults, restores>>

(* Mutant of FinishFailed: no answer is taken for an acknowledgement.      *)
FinishFailedDelivered(c) ==
  /\ Finish(c, "delivered")
  /\ answers' = {a \in answers : a.claim # c}
  /\ UNCHANGED <<receiver, handler, dispatch, wire, authorised, backup,
                 traffic, faults, restores>>

(* The worker gets no answer of the receiver's: a timeout or a 5xx may be  *)
(* retried, an address that is refused or another 4xx may not.  A request  *)
(* that was sent may still arrive, and an answer that did is lost.         *)
FinishFailed(c) ==
  /\ \E result \in {"retryable", "rejected"} : Finish(c, result)
  /\ IF \E m \in wire \cup answers : m.claim = c
     THEN Fault ELSE UNCHANGED faults
  /\ answers' = {a \in answers : a.claim # c}
  /\ UNCHANGED <<receiver, handler, dispatch, wire, authorised, backup,
                 traffic, restores>>

(* Mutant of DispatchEnds: whoever joined the dispatch is forgotten.       *)
DispatchEndsUnawaited(s) ==
  /\ dispatch[s].phase = "delivering" /\ Working(s) = {}
  /\ dispatch' = [dispatch EXCEPT ![s] = NoDispatch]
  /\ UNCHANGED <<ledger, receiver, handler, wire, answers, authorised, backup,
                 traffic, faults, restores>>

(* All results are in: the promise settles and a waiting handler goes on.  *)
DispatchEnds(s) ==
  /\ dispatch[s].phase = "delivering" /\ Working(s) = {}
  /\ dispatch' = [dispatch EXCEPT ![s] = NoDispatch]
  /\ handler' = IF handler[s].phase = "waiting"
                THEN [handler EXCEPT ![s].phase = "dispatched"] ELSE handler
  /\ UNCHANGED <<ledger, receiver, wire, answers, authorised, backup,
                 traffic, faults, restores>>

(* A call of the dispatch fails (the database does not answer): the        *)
(* promise rejects, a waiting handler answers 503 and another dispatch may *)
(* start, while the deliveries that did not fail are still under way.      *)
DispatchFails(s) ==
  /\ Fault /\ dispatch[s] # NoDispatch
  /\ \/ dispatch[s] = Claiming /\ UNCHANGED <<claims, answers>>
     \/ \E c \in Working(s) :
          /\ claims' = claims \ {c}
          /\ answers' = {a \in answers : a.claim # c}
  /\ dispatch' = [dispatch EXCEPT ![s] = NoDispatch]
  /\ handler' = IF handler[s].phase = "waiting"
                THEN [handler EXCEPT ![s] = Idle] ELSE handler
  /\ UNCHANGED <<rows, manifest, records, vouched, deliveries, aged, issued,
                 leased, receiver, wire, authorised, backup, traffic, restores>>

(* A backoff runs out, or a lease does: that of a worker that is gone in   *)
(* the end, that of a slow one as a fault.                                 *)
Held(d) == \E c \in claims : S!HoldsLease(d, c)

FallsDue(d) ==
  /\ S!DeliveryFallsDue(d)
  /\ IF Held(d) THEN Fault ELSE UNCHANGED faults
  /\ UNCHANGED <<receiver, handler, workers, authorised, backup, traffic,
                 restores>>

(* An operator redrives the current revision whenever it is dead, because  *)
(* nothing else works; another one is bounded with the faults.             *)
Redrive(d) ==
  /\ S!Redrive(d)
  /\ IF d.revision = manifest.revision THEN UNCHANGED faults ELSE Fault
  /\ UNCHANGED <<receiver, handler, workers, authorised, backup, traffic,
                 restores>>
-----------------------------------------------------------------------------
(* Callers and operators.                                                  *)

CallerCompletes(a) ==
  /\ traffic
  /\ S!Complete(a.key, a.fingerprint)
  /\ UNCHANGED <<receiver, handler, workers, authorised, backup, traffic,
                 faults, restores>>

CallerReleases(a) ==
  /\ traffic
  /\ S!Release(a.key, a.fingerprint)
  /\ authorised' = authorised \ {a}
  /\ UNCHANGED <<receiver, handler, workers, backup, traffic, faults, restores>>

(* Mutant of ReservationAges: it may be reconciled while it is evaluated.  *)
ReservationAgesAtOnce(id) ==
  /\ S!ReservationAges(id)
  /\ UNCHANGED <<receiver, handler, workers, authorised, backup, traffic,
                 faults, restores>>

(* The minimum age of a reconciliation is longer than any request lives.   *)
ReservationAges(id) ==
  /\ \A s \in Servers : handler[s] # Idle => handler[s].id # id
  /\ S!ReservationAges(id)
  /\ UNCHANGED <<receiver, handler, workers, authorised, backup, traffic,
                 faults, restores>>

(* The operator looks at the downstream system: nothing that was allowed   *)
(* is reported as not executed.                                            *)
Reconcile(id) ==
  /\ traffic
  /\ S!Reconcile(id, IF \E a \in authorised : a.id = id
                     THEN "confirmed_executed" ELSE "confirmed_not_executed")
  /\ UNCHANGED <<receiver, handler, workers, authorised, backup, traffic,
                 faults, restores>>
-----------------------------------------------------------------------------
(* Crashes, backup and restore.                                            *)

(* The processes of ss are gone, with what they worked on.                 *)
Stopped(ss) ==
  /\ handler' = [s \in Servers |-> IF s \in ss THEN Idle ELSE handler[s]]
  /\ dispatch' = [s \in Servers |-> IF s \in ss THEN NoDispatch ELSE dispatch[s]]
  /\ \E gone \in IF ss = Servers THEN {Detached} ELSE SUBSET Detached :
       claims' = (claims \ UNION {Working(s) : s \in ss}) \ gone
  /\ answers' = {a \in answers : a.claim \in claims'}

Crash(s) ==
  /\ Fault /\ Stopped({s})
  /\ UNCHANGED <<rows, manifest, records, vouched, deliveries, aged, issued,
                 leased, receiver, wire, authorised, backup, traffic, restores>>

TakeBackup ==
  /\ restores < MaxRestores /\ backup = NoBackup
  /\ backup' = [rows |-> rows, manifest |-> manifest, records |-> records,
                vouched |-> vouched, deliveries |-> deliveries]
  /\ UNCHANGED <<ledger, receiver, handler, workers, authorised, traffic,
                 faults, restores>>

(* The servers are stopped and the database is what it was.  A restore     *)
(* takes longer than a request: what was under way to the receiver has     *)
(* arrived before or is lost (its signature is refused after 300 seconds). *)
Restore ==
  /\ backup # NoBackup
  /\ restores' = restores + 1
  /\ rows' = backup.rows /\ manifest' = backup.manifest
  /\ records' = backup.records /\ vouched' = backup.vouched
  /\ deliveries' = backup.deliveries
  /\ backup' = NoBackup /\ traffic' = FALSE
  /\ Stopped(Servers) /\ wire' = {}
  /\ UNCHANGED <<aged, issued, leased, receiver, authorised, faults>>

(* Mutant of CompareCheckpoint: the operands are swapped.                  *)
CompareCheckpointSwapped(anchored) ==
  CASE manifest.revision > anchored.revision -> "rollback_detected"
    [] manifest.revision < anchored.revision -> "advanced"
    [] OTHER -> IF S!Checkpoint(manifest) = anchored.hash
                THEN "same" ELSE "integrity_conflict"

(* compareCheckpoint() with the receiver's latest.                         *)
CompareCheckpoint(anchored) ==
  CASE manifest.revision < anchored.revision -> "rollback_detected"
    [] manifest.revision > anchored.revision -> "advanced"
    [] OTHER -> IF S!Checkpoint(manifest) = anchored.hash
                THEN "same" ELSE "integrity_conflict"

Resume ==
  /\ ~traffic /\ S!Verified(FALSE)
  /\ \A l \in latest : CompareCheckpoint(l) \in {"same", "advanced"}
  /\ traffic' = TRUE
  /\ UNCHANGED <<ledger, receiver, handler, workers, authorised, backup,
                 faults, restores>>
-----------------------------------------------------------------------------
Init ==
  /\ S!Init /\ R!EmptyStore
  /\ handler = [s \in Servers |-> Idle]
  /\ dispatch = [s \in Servers |-> NoDispatch]
  /\ wire = {} /\ answers = {} /\ authorised = {}
  /\ backup = NoBackup /\ traffic = TRUE /\ faults = 0 /\ restores = 0

Handling ==
  \E s \in Servers :
    \/ \E k \in Keys, f \in Fingerprints : Evaluate(s, k, f)
    \/ FirstCheck(s)
    \/ Answer(s)
    \/ Unacknowledged(s)
    \/ RequestTimesOut(s)

Dispatching ==
  \/ \E s \in Servers :
       \/ TimerFires(s)
       \/ Claim(s)
       \/ ClaimNothing(s)
       \/ DispatchEnds(s)
       \/ DispatchFails(s)
  \/ \E c \in claims : FinishAnswered(c) \/ FinishFailed(c)
  \/ \E m \in wire : Receive(m) \/ LoseRequest(m)
  \/ \E d \in deliveries : FallsDue(d) \/ Redrive(d)

Settling ==
  \/ \E a \in authorised : CallerCompletes(a) \/ CallerReleases(a)
  \/ \E id \in 1..issued : ReservationAges(id) \/ Reconcile(id)

Recovering ==
  \/ \E s \in Servers : Crash(s)
  \/ TakeBackup
  \/ Restore
  \/ Resume

Next == Handling \/ Dispatching \/ Settling \/ Recovering

Spec == Init /\ [][Next]_vars

(* A handler and a dispatch go on as long as their process lives, the      *)
(* timers fire, requests that are not lost arrive, and an operator redrives *)
(* a dead current revision.                                                *)
Fairness ==
  /\ \A s \in Servers :
       /\ WF_vars(FirstCheck(s) \/ Answer(s) \/ Unacknowledged(s))
       /\ WF_vars(TimerFires(s))
       /\ WF_vars(Claim(s) \/ ClaimNothing(s))
       /\ WF_vars(\E c \in Working(s) :
                    FinishAnswered(c) \/ FinishFailed(c))
       /\ WF_vars(DispatchEnds(s))
  /\ WF_vars(\E c \in Detached : FinishAnswered(c) \/ FinishFailed(c))
  /\ WF_vars(\E m \in wire : Receive(m))
  /\ WF_vars(\E d \in deliveries : ~Held(d) /\ FallsDue(d))
  /\ WF_vars(\E d \in deliveries :
               d.revision = manifest.revision /\ Redrive(d))

FairSpec == Spec /\ Fairness
-----------------------------------------------------------------------------
(* Properties.                                                             *)

(* No key is ever allowed twice: two reservations that callers were told   *)
(* they may execute, and did not withdraw, never share a key.  This is     *)
(* what the checkpoints, the acknowledgement and the comparison are for:   *)
(* it survives crashes, lost and reordered messages and a restored         *)
(* database.                                                               *)
AllowedOnce ==
  \A a, b \in authorised : a.key = b.key => a = b

(* "The externally acknowledged pre-execution reservation still preserves  *)
(* duplicate-execution memory across a primary-database rollback": the     *)
(* checkpoint that the receiver retains covers every allowed reservation,  *)
(* pending or completed.                                                   *)
ReceiverRemembers ==
  \A a \in authorised : \E l \in latest :
    \E r \in l.hash.accumulator : r.id = a.id /\ r.key = a.key

(* As long as traffic is let through, the ledger holds the key of every    *)
(* allowed reservation, so that a second request is a duplicate.           *)
AllowedIsHeld ==
  traffic => \A a \in authorised : \E r \in rows : r.id = a.id /\ r.key = a.key

(* Why these three hold.  A checkpoint, wherever it is kept, belongs to    *)
(* the history that the database is in, or to what a backup keeps of it,   *)
(* and holds every reservation that is allowed unless the receiver is past *)
(* it; what the receiver has is not ahead of the ledger while traffic is   *)
(* let through, and is the ledger's own checkpoint when it is level.       *)
Reservation == [key : Keys, fingerprint : Fingerprints, id : Nat]

Evaluation == [phase : {"reserved", "waiting", "dispatched"},
               key : Keys, fingerprint : Fingerprints, id : Nat]

Saved == [rows : SUBSET S!Row, manifest : S!Manifest,
          records : Seq(S!Record), vouched : Seq(S!Record),
          deliveries : SUBSET S!Delivery]

TypeOK ==
  /\ manifest \in S!Manifest /\ rows = manifest.accumulator
  /\ records \in Seq(S!Record) /\ vouched \in Seq(S!Record)
  /\ deliveries \subseteq S!Delivery /\ claims \subseteq S!Claim
  /\ issued \in Nat /\ leased \in Nat /\ aged \subseteq 1..issued
  /\ events \in Seq(R!StoredEvent) /\ latest \subseteq R!Event
  /\ sequence \in Nat
  /\ handler \in [Servers -> {Idle} \cup Evaluation]
  /\ wire \subseteq [claim : S!Claim, checkpoint : S!Manifest]
  /\ \A a \in answers : a.claim \in S!Claim
  /\ authorised \subseteq Reservation
  /\ backup \in {NoBackup} \cup Saved
  /\ traffic \in BOOLEAN

BackedUp == IF backup = NoBackup THEN {} ELSE {backup}
AllDeliveries == deliveries \cup UNION {b.deliveries : b \in BackedUp}

(* The revisions of m's history, up to m itself.                           *)
Leads(c, m) == c.revision <= m.revision /\ (c.revision = m.revision => c = m)

HistoryInv ==
  /\ \A d \in AllDeliveries : d.revision = d.checkpoint.revision
  /\ \A d \in deliveries : Leads(d.checkpoint, manifest)
  /\ \A w \in wire : /\ w.claim.revision = w.checkpoint.revision
                     /\ Leads(w.checkpoint, manifest)
  /\ \A b \in BackedUp :
       /\ b.rows = b.manifest.accumulator
       /\ Leads(b.manifest, manifest)
       /\ \A d \in b.deliveries : Leads(d.checkpoint, b.manifest)

Reached(n) == \E l \in latest : n <= l.revision

ReceiverInv ==
  /\ \A l \in latest : l.tenant = Tenant /\ l.hash.revision = l.revision
  /\ \A l, m \in latest : l = m
  /\ \A i \in DOMAIN events : Reached(events[i].event.revision)
  /\ \A d \in AllDeliveries : d.status = "delivered" => Reached(d.revision)
  /\ \A a \in answers : a.outcome \notin Refusals => Reached(a.claim.revision)
  /\ traffic => \A l \in latest : Leads(l.hash, manifest)

Checkpoints ==
  {manifest} \cup {d.checkpoint : d \in AllDeliveries}
    \cup {w.checkpoint : w \in wire} \cup {l.hash : l \in latest}
    \cup {b.manifest : b \in BackedUp}

KeysInv ==
  \A c \in Checkpoints :
    /\ \A r \in c.accumulator : r.id \in 1..issued
    /\ \A r, q \in c.accumulator : r.key = q.key \/ r.id = q.id => r = q

Holds(c, a) ==
  \E r \in c.accumulator :
    r.id = a.id /\ r.key = a.key /\ r.fingerprint = a.fingerprint

AuthorisedInv ==
  \A a \in authorised :
    /\ a.id \in 1..issued /\ latest # {}
    /\ \A c \in Checkpoints :
         (\A l \in latest : l.revision <= c.revision) => Holds(c, a)

HandlersInv ==
  \A s \in Servers : handler[s] # Idle =>
    /\ traffic
    /\ handler[s].id \in (1..issued) \ aged
    /\ Holds(manifest, handler[s])
    /\ \A a \in authorised : a.id # handler[s].id
    /\ \A t \in Servers : handler[t] # Idle /\ handler[t].id = handler[s].id
                            => t = s

(* The inductive invariant.                                                *)
IInv == /\ TypeOK /\ HistoryInv /\ ReceiverInv /\ KeysInv
        /\ AuthorisedInv /\ HandlersInv

(* Every ledger change is acknowledged in the end, or superseded by a      *)
(* newer one, whatever the order and the fate of the first attempts.       *)
EveryRevisionIsAcknowledged ==
  \A n \in 1..MaxRevision :
    manifest.revision = n
      ~> manifest.revision # n \/ S!AnchorAcknowledged

(* No evaluation hangs: not on a dispatch that another request or the      *)
(* timer started, and not on one that fails.                               *)
HandlersReturn ==
  \A s \in Servers : handler[s] # Idle ~> handler[s] = Idle

(* docs/CHECKPOINT_ANCHORS.md: "a lower revision is a rollback signal and  *)
(* must be rejected and paged".                                            *)
RollbackSignalIsTrue ==
  restores = 0 => \A a \in answers : a.outcome # "rollback_detected"
=============================================================================
