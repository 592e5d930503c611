--------------------------- MODULE AnchorReceiver ---------------------------
(***************************************************************************)
(* AnchorStore: the independent receiver that retains, for each tenant,    *)
(* the newest checkpoint it was sent, over a chained log of every          *)
(* checkpoint that advanced one.  One process at a time serves the SQLite  *)
(* file, and what another connection does to it is the loss of a row.      *)
(*                                                                         *)
(* The process runs each operation to its end without awaiting anything,   *)
(* but another connection can commit between two statements of it, and     *)
(* the process can die there.  So ingest() is two steps, assertFresh() and *)
(* the immediate transaction, and so is the constructor, which verifies    *)
(* and then remembers the data version.  verify() is one step: a row lost  *)
(* while it runs is lost before it or after it.                            *)
(*                                                                         *)
(* Abstractions.  A checkpoint hash stands for the checkpoint.  The hash   *)
(* of an event, which the next event repeats, is its sequence number: the  *)
(* hash is a MAC over the event and its predecessor's hash, and a stored   *)
(* event identifier is not stored again.  The body of an event is the      *)
(* event.                                                                  *)
(***************************************************************************)
EXTENDS Naturals, FiniteSets, SequencesExt

CONSTANTS
  Tenants,    \* tenant_ref values
  EventIds,   \* event_id values a sender may use
  Hashes,     \* checkpoint_hash values
  Revisions,  \* checkpoint revisions a sender may use
  MaxLosses   \* bound: rows lost behind the receiver's back

ASSUME ConstantsAssumption ==
  /\ Revisions \subseteq Nat
  /\ MaxLosses \in Nat

VARIABLES
  events,    \* anchor_events, in sequence order
  latest,    \* latest_checkpoints
  sequence,  \* the last sequence number given to an event
  process,   \* what the process is doing
  unseen,    \* another connection has written since the last verification
  overlooked,  \* history: a row was lost after the verification that should
               \* have found it and before what that verification was for
  losses     \* rows lost so far

store == <<events, latest, sequence>>
vars == <<store, process, unseen, overlooked, losses>>

(* "verified" is a constructor between verify() and the data version,      *)
(* "ingesting" an ingest() between assertFresh() and its transaction.      *)
Process == {"closed", "verified", "open", "ingesting"}

Event == [id : EventIds, tenant : Tenants, revision : Revisions, hash : Hashes]

StoredEvent ==
  [sequence : Nat, event : Event, previous : Nat]   \* 0 is GENESIS

TypeOK ==
  /\ events \in Seq(StoredEvent)
  /\ latest \subseteq Event
  /\ sequence \in Nat
  /\ process \in Process
  /\ unseen \in BOOLEAN
  /\ overlooked \in BOOLEAN
  /\ losses \in Nat

Received == {stored.event : stored \in ToSet(events)}
-----------------------------------------------------------------------------
(* verify(): the chain runs from GENESIS through every stored event, and   *)
(* the latest checkpoints are the tenants' events of highest revision.     *)
ChainVerifies ==
  \A i \in DOMAIN events :
    events[i].previous = IF i = 1 THEN 0 ELSE events[i - 1].sequence

Newest(t) ==
  CHOOSE e \in Received :
    e.tenant = t /\ \A o \in Received : o.tenant = t => o.revision <= e.revision

(* Mutant of LatestVerifies: the tenants are not counted.                  *)
LatestVerifiesUncounted ==
  \A l \in latest : (\E e \in Received : e.tenant = l.tenant)
                     /\ l = Newest(l.tenant)

LatestVerifies ==
  LET tenants == {e.tenant : e \in Received}
  IN  /\ Cardinality(tenants) = Cardinality(latest)
      /\ \A l \in latest : l.tenant \in tenants /\ l = Newest(l.tenant)

Verifies == ChainVerifies /\ LatestVerifies

(* Mutant of AssertFresh: the data version moves on unverified.            *)
AssertFreshUnverified == unseen' = FALSE

(* assertFresh(): what another connection wrote is verified before it is   *)
(* relied on, and the observed data version moves on.                      *)
AssertFresh ==
  /\ unseen => Verifies
  /\ unseen' = FALSE

(* Mutants of Comparison: a lower revision, or a fork, is taken.           *)
ComparisonWithoutOrder(event, l) ==
  IF event = l THEN "replay" ELSE "advanced"

ComparisonWithoutFork(event, l) ==
  IF event.revision < l.revision THEN "rollback_detected" ELSE "advanced"

(* A new event against the latest checkpoint of its tenant.                *)
Comparison(event, l) ==
  CASE event.revision < l.revision -> "rollback_detected"
    [] event.revision > l.revision -> "advanced"
    [] OTHER -> IF event.hash = l.hash THEN "replay" ELSE "integrity_conflict"

(* What ingest() answers, in the order of its checks: an event it has,     *)
(* then the revision the tenant has reached.                               *)
Outcome(event) ==
  LET sameId  == {e \in Received : e.id = event.id}
      reached == {l \in latest : l.tenant = event.tenant}
  IN  CASE event \in sameId -> "duplicate"
        [] event \notin sameId /\ sameId # {} -> "event_conflict"
        [] sameId = {} /\ reached = {} -> "stored"
        [] OTHER -> Comparison(event, CHOOSE l \in reached : TRUE)

(* Mutant of PreviousOf: each tenant has a chain of its own.               *)
PreviousOfTenant(event) ==
  LET own == {s \in ToSet(events) : s.event.tenant = event.tenant}
  IN  IF own = {} THEN 0
      ELSE (CHOOSE s \in own : \A o \in own : o.sequence <= s.sequence).sequence

(* The event that a new one is chained to: the last one in the log.        *)
PreviousOf(event) == IF events = <<>> THEN 0 ELSE Last(events).sequence

(* The transaction of ingest(): a checkpoint that takes its tenant further *)
(* is appended to the log and becomes the latest; every other outcome      *)
(* leaves the store alone.                                                 *)
Store(event) ==
  IF Outcome(event) \in {"stored", "advanced"}
  THEN /\ sequence' = sequence + 1
       /\ events' = Append(events, [sequence |-> sequence + 1,
                                    event    |-> event,
                                    previous |-> PreviousOf(event)])
       /\ latest' = {l \in latest : l.tenant # event.tenant} \cup {event}
  ELSE UNCHANGED store

(* ingest(): the store is verified if another connection wrote to it; what *)
(* that connection writes from here on, the transaction does not look at.  *)
BeginIngest ==
  /\ process = "open"
  /\ AssertFresh
  /\ process' = "ingesting"
  /\ UNCHANGED <<store, overlooked, losses>>

Ingest(event) ==
  /\ process = "ingesting"
  /\ Store(event)
  /\ overlooked' = (overlooked \/ (unseen /\ store' # store))
  /\ process' = "open"
  /\ UNCHANGED <<unseen, losses>>

(* ready() and latest() only verify.                                       *)
Refresh ==
  /\ process = "open"
  /\ AssertFresh
  /\ UNCHANGED <<store, process, overlooked, losses>>

(* The constructor verifies the store, and then remembers its data         *)
(* version: what was lost between the two counts as seen.                  *)
Verify ==
  /\ process = "closed"
  /\ Verifies
  /\ process' = "verified" /\ unseen' = FALSE
  /\ UNCHANGED <<store, overlooked, losses>>

Open ==
  /\ process = "verified"
  /\ process' = "open" /\ unseen' = FALSE
  /\ overlooked' = (overlooked \/ unseen)
  /\ UNCHANGED <<store, losses>>

(* close(), or the death of the process wherever it is.                    *)
Close ==
  /\ process # "closed"
  /\ process' = "closed"
  /\ UNCHANGED <<store, unseen, overlooked, losses>>

(* A row disappears without the receiver.                                  *)
Lose ==
  /\ losses < MaxLosses
  /\ losses' = losses + 1 /\ unseen' = TRUE
  /\ \/ /\ \E i \in DOMAIN events : events' = RemoveAt(events, i)
        /\ UNCHANGED latest
     \/ /\ \E l \in latest : latest' = latest \ {l}
        /\ UNCHANGED events
  /\ UNCHANGED <<sequence, process, overlooked>>
-----------------------------------------------------------------------------
EmptyStore == events = <<>> /\ latest = {} /\ sequence = 0

Init ==
  /\ EmptyStore
  /\ process = "closed" /\ unseen = FALSE /\ overlooked = FALSE
  /\ losses = 0

Next ==
  \/ BeginIngest
  \/ \E event \in Event : Ingest(event)
  \/ Refresh
  \/ Verify \/ Open \/ Close
  \/ Lose

Spec == Init /\ [][Next]_vars
-----------------------------------------------------------------------------
(* Properties.                                                             *)

(* The receiver's own writes never make verification fail: the constructor *)
(* that refuses to open a store, and a readiness that turns false, always  *)
(* mean an outside change.                                                 *)
NeverLocksItselfOut == losses = 0 => Verifies

(* No single row can disappear unnoticed, wherever it stood in the log and *)
(* whatever was ingested, refused or restarted since, with the exception   *)
(* of a row lost in one of the two windows the code leaves open: after the *)
(* assertFresh() of an ingest() and before its transaction takes the       *)
(* checkpoint, or after the constructor's verify() and before it remembers *)
(* the data version.  A checkpoint taken then is built on what is left.    *)
OneLossIsNoticed == losses = 1 /\ ~overlooked => ~Verifies

(* What a restore is compared with only moves forward: a tenant's latest   *)
(* checkpoint is replaced by one of a higher revision and by nothing else, *)
(* whatever order events, retries and reused identifiers arrive in.        *)
LatestNeverMovesBack ==
  [][losses' = losses =>
       \A l \in latest :
         \E m \in latest' :
           m.tenant = l.tenant /\ (m = l \/ m.revision > l.revision)]_vars

Linear ==
  \A i, j \in DOMAIN events :
    i < j => LET a == events[i].event
                 b == events[j].event
             IN  /\ a.id # b.id
                 /\ a.tenant = b.tenant => a.revision < b.revision

(* The log never holds two branches: no two events of a tenant have the    *)
(* same revision, each is newer than those logged before it, and no event  *)
(* identifier is used twice; rows may be lost at any time but in the two   *)
(* windows of OneLossIsNoticed, where a lost latest row lets ingest() take *)
(* a revision that is not above those in the log.                          *)
HistoryIsLinear == ~overlooked => Linear

(* What the log, the latest checkpoints and the observed data version owe  *)
(* each other: what was written by another connection is marked while a    *)
(* process could rely on it, and what is not marked verifies.              *)
SequencesIncrease ==
  /\ \A i \in DOMAIN events : events[i].sequence \in 1..sequence
  /\ \A i, j \in DOMAIN events :
       i < j => events[i].sequence < events[j].sequence

(* latest_checkpoints has one row per tenant.                              *)
OneLatestEach == \A k, l \in latest : k.tenant = l.tenant => k = l

VerificationInv ==
  /\ losses = 0 => ~unseen /\ ~overlooked
  /\ ~overlooked => /\ ~unseen => Verifies
                    /\ losses = 1 => unseen /\ ~Verifies

IInv ==
  /\ TypeOK
  /\ IsFiniteSet(latest)
  /\ OneLatestEach
  /\ SequencesIncrease
  /\ HistoryIsLinear
  /\ VerificationInv
=============================================================================
