---------------------------- MODULE ControlState ----------------------------
(***************************************************************************)
(* Control state of one tenant: plan, quota and usage of the month, API    *)
(* keys, and the chain of audit events with its retention anchor.  Two     *)
(* implementations: PostgresControlState (shared), whose rows vouch for    *)
(* one another through a manifest that counts the events, and ManagedStore *)
(* (one server's SQLite file), which has the chain and no manifest.        *)
(*                                                                         *)
(* Every operation is one transaction, and the shared ones lock the        *)
(* tenant's row first, so an operation is a step.  An event hash is the    *)
(* sequence of the audit identifiers it was chained from; a row that is    *)
(* written without the secret does not occur.  Callers read the clock      *)
(* before their transaction, hence events may be chained out of the order  *)
(* of their timestamps.                                                    *)
(*                                                                         *)
(* recordValidation of an identifier that is already there returns and     *)
(* changes nothing; identifiers are fresh for every evaluation, so it is   *)
(* left out.                                                               *)
(***************************************************************************)
EXTENDS Naturals, FiniteSets, Sequences, FiniteSetsExt

CONSTANTS
  AuditIds,    \* audit identifiers, one for every validation
  ApiKeys,
  Plans,
  PlanLimit    \* monthly limit by plan

ASSUME ControlAssumption ==
  PlanLimit \in [Plans -> Nat] /\ IsFiniteSet(Plans) /\ ApiKeys # {}

VARIABLES
  tenant,     \* sg_control_tenants: the plan, the usage and its month
  api_keys,   \* sg_control_api_keys: state by key
  events,     \* sg_control_audit_events in the order of their sequence
  anchor,     \* sg_control_audit_anchors: what retention deleted
  manifest,   \* sg_control_audit_manifests
  month,      \* the clock's month
  recorded,   \* all events ever recorded, a history variable
  highest,    \* the highest limit in force this month, a history variable
  unchained   \* hashes of rows that somebody deleted, a history variable

controlVars == <<tenant, api_keys, events, anchor, manifest, month, recorded,
                 highest, unchained>>

Decisions == {"valid", "valid_with_repair", "rejected"}
GENESIS == <<>>

Usage == [month : Nat, validations : Nat, repairs : Nat, rejections : Nat,
          drifts : Nat]

Event == [audit_id : AuditIds, occurred_at : Nat, decision : Decisions,
          previous_hash : Seq(AuditIds), event_hash : Seq(AuditIds)]

ControlTypeOK ==
  /\ tenant \in [plan : Plans, usage : Usage]
  /\ api_keys \in [ApiKeys -> {"absent", "active", "revoked"}]
  /\ events \in Seq(Event)
  /\ anchor \in [hash : Seq(AuditIds), deleted : Nat]
  /\ manifest \in [retained : Nat, total : Nat, tip : Seq(AuditIds)]
  /\ month \in Nat /\ highest \in Nat
  /\ recorded \subseteq [audit_id : AuditIds, decision : Decisions, month : Nat]
  /\ unchained \subseteq Seq(AuditIds)
-----------------------------------------------------------------------------
(* verifyAuditWithClient and verifyAuditChain: every event is chained to   *)
(* the one before, the first to what retention deleted ...                 *)
ChainIntact ==
  \A i \in DOMAIN events :
    events[i].previous_hash =
      IF i = 1 THEN anchor.hash ELSE events[i - 1].event_hash

(* ... and, in the shared store, the manifest counts and ends them.        *)
Tip == IF events = <<>> THEN anchor.hash ELSE events[Len(events)].event_hash

ManifestAgrees ==
  /\ Len(events) = manifest.retained
  /\ Tip = manifest.tip
  /\ manifest.total = manifest.retained + anchor.deleted

AuditVerifies(shared) == ChainIntact /\ (shared => ManifestAgrees)
-----------------------------------------------------------------------------
(* Mutant of UsageNow: the counters are never reset.                       *)
UsageKept == tenant.usage

(* resetMonth, and a new row in usage_monthly.                             *)
UsageNow ==
  IF tenant.usage.month = month THEN tenant.usage
  ELSE [month |-> month, validations |-> 0, repairs |-> 0, rejections |-> 0,
        drifts |-> 0]

One(condition) == IF condition THEN 1 ELSE 0

Metered(usage, decision) ==
  [usage EXCEPT !.validations = @ + 1,
                !.repairs     = @ + One(decision = "valid_with_repair"),
                !.rejections  = @ + One(decision = "rejected")]

(* The shared store chains to the manifest's tip, the other to the last    *)
(* event it finds.                                                         *)
PreviousHash(shared) == IF shared THEN manifest.tip ELSE Tip

(* recordValidation: the quota, the event, the manifest and the counters.  *)
(* The shared store verifies the whole chain first.  The limit is the one  *)
(* in the row, or the one the principal had at its authentication.         *)
RecordValidation(shared, id, occurredAt, decision, principalLimit) ==
  LET limit == IF shared THEN PlanLimit[tenant.plan] ELSE principalLimit
      previous == PreviousHash(shared)
  IN  /\ shared => AuditVerifies(shared)
      /\ UsageNow.validations < limit
      /\ events' = Append(events,
           [audit_id |-> id, occurred_at |-> occurredAt, decision |-> decision,
            previous_hash |-> previous, event_hash |-> Append(previous, id)])
      /\ manifest' = [retained |-> manifest.retained + 1,
                      total |-> manifest.total + 1,
                      tip |-> Append(previous, id)]
      /\ tenant' = [tenant EXCEPT !.usage = Metered(UsageNow, decision)]
      /\ recorded' = recorded \cup
           {[audit_id |-> id, decision |-> decision, month |-> month]}
      /\ UNCHANGED <<api_keys, anchor, month, highest, unchained>>

(* Mutant of Advanced: what was deleted before is forgotten.               *)
AdvancedAnew(boundary) ==
  [hash |-> events[boundary].event_hash, deleted |-> boundary]

Advanced(boundary) ==
  [hash |-> events[boundary].event_hash, deleted |-> anchor.deleted + boundary]

(* purgeExpiredAudits, purgeExpired: everything up to the last event that  *)
(* is older than the cutoff goes, and the anchor takes its place.          *)
PurgeExpiredAudits(shared, cutoff) ==
  LET expired == {i \in DOMAIN events : events[i].occurred_at < cutoff}
      boundary == Max(expired)
  IN  /\ AuditVerifies(shared)
      /\ expired # {}
      /\ anchor' = Advanced(boundary)
      /\ events' = SubSeq(events, boundary + 1, Len(events))
      /\ manifest' = [manifest EXCEPT !.retained = @ - boundary]
      /\ UNCHANGED <<tenant, api_keys, month, recorded, highest, unchained>>
-----------------------------------------------------------------------------
(* authenticate: a key that is there and not revoked.                      *)
Authentic(k) == api_keys[k] = "active"

SetKey(k, state) ==
  /\ api_keys' = [api_keys EXCEPT ![k] = state]
  /\ UNCHANGED <<tenant, events, anchor, manifest, month, recorded, highest,
                 unchained>>

(* issueApiKey, and the key of a repeated bootstrap.                       *)
IssueApiKey(k) == api_keys[k] = "absent" /\ SetKey(k, "active")

(* revokeApiKey, never by the key itself.                                  *)
RevokeApiKey(current, k) ==
  /\ current # k /\ Authentic(current) /\ Authentic(k)
  /\ SetKey(k, "revoked")

UpdatePlan(plan) ==
  /\ plan # tenant.plan
  /\ tenant' = [tenant EXCEPT !.plan = plan]
  /\ highest' = Max({highest, PlanLimit[plan]})
  /\ UNCHANGED <<api_keys, events, anchor, manifest, month, recorded, unchained>>

RecordDrift ==
  /\ tenant' = [tenant EXCEPT !.usage = [UsageNow EXCEPT !.drifts = @ + 1]]
  /\ UNCHANGED <<api_keys, events, anchor, manifest, month, recorded, highest,
                 unchained>>

(* "carried" are the limits that principals under way were read with.      *)
MonthPasses(carried) ==
  /\ month' = month + 1
  /\ highest' = Max({PlanLimit[tenant.plan]} \cup carried)
  /\ UNCHANGED <<tenant, api_keys, events, anchor, manifest, recorded, unchained>>

(* Somebody deletes an event, or the anchor.                               *)
LoseAudit ==
  /\ \/ \E i \in DOMAIN events :
          /\ events' = SubSeq(events, 1, i - 1)
                         \o SubSeq(events, i + 1, Len(events))
          /\ unchained' = unchained \cup {events[i].event_hash}
          /\ UNCHANGED anchor
     \/ /\ anchor.deleted > 0
        /\ anchor' = [hash |-> GENESIS, deleted |-> 0]
        /\ unchained' = unchained \cup {anchor.hash}
        /\ UNCHANGED events
  /\ UNCHANGED <<tenant, api_keys, manifest, month, recorded, highest>>

(* bootstrapTenant, with its first key: any, they are all alike.           *)
FirstKey == CHOOSE k \in ApiKeys : TRUE

ControlInit(plan) ==
  /\ tenant = [plan |-> plan, usage |->
       [month |-> 0, validations |-> 0, repairs |-> 0, rejections |-> 0,
        drifts |-> 0]]
  /\ highest = PlanLimit[plan]
  /\ api_keys = [x \in ApiKeys |->
       IF x = FirstKey THEN "active" ELSE "absent"]
  /\ events = <<>>
  /\ anchor = [hash |-> GENESIS, deleted |-> 0]
  /\ manifest = [retained |-> 0, total |-> 0, tip |-> GENESIS]
  /\ month = 0 /\ recorded = {} /\ unchained = {}
-----------------------------------------------------------------------------
(* Properties.                                                             *)

(* The verification of the audit chain never raises a false alarm after    *)
(* appends and purges in any order; the shared one notices every deleted   *)
(* row, also at the tail and after retention, the local one a row that a   *)
(* later event is chained to.                                              *)
AuditLossIsNoticed(shared) ==
  IF shared THEN AuditVerifies(shared) <=> unchained = {}
  ELSE /\ unchained = {} => AuditVerifies(shared)
       /\ (\E i \in DOMAIN events : events[i].previous_hash \in unchained)
            => ~AuditVerifies(shared)

(* The counters of the month say what was recorded in it, also after the   *)
(* audits were purged, and no month has more validations than the highest  *)
(* plan it was under admits.                                               *)
MeteredIsRecorded ==
  LET ofMonth == {r \in recorded : r.month = month}
      count(d) == Cardinality({r \in ofMonth : r.decision = d})
  IN  /\ UsageNow.validations = Cardinality(ofMonth)
      /\ UsageNow.repairs = count("valid_with_repair")
      /\ UsageNow.rejections = count("rejected")
      /\ Cardinality(ofMonth) <= highest
-----------------------------------------------------------------------------
(* The inductive invariant.                                                *)

Used == {r.audit_id : r \in recorded}
EndsIn(hash, ids) == hash # GENESIS /\ hash[Len(hash)] \in ids

(* A loss leaves a gap in the counts that nothing closes, and nothing else *)
(* leaves one.                                                             *)
CountsInv ==
  /\ Len(events) <= manifest.retained
  /\ manifest.retained + anchor.deleted <= manifest.total
  /\ IF unchained = {} THEN AuditVerifies(TRUE)
     ELSE \/ Len(events) < manifest.retained
          \/ manifest.retained + anchor.deleted < manifest.total

(* A hash ends in its own event, so it is no other's, now or before.       *)
HashesInv ==
  /\ \A i \in DOMAIN events :
       /\ EndsIn(events[i].event_hash, {events[i].audit_id})
       /\ events[i].audit_id \in Used
       /\ events[i].event_hash \notin unchained \cup {anchor.hash}
       /\ \A j \in DOMAIN events : events[i].audit_id = events[j].audit_id => i = j
  /\ \A h \in unchained : EndsIn(h, Used)
  /\ anchor.hash \notin unchained
  /\ anchor.hash # GENESIS => EndsIn(anchor.hash, Used)
  /\ anchor.deleted > 0 => anchor.hash # GENESIS

(* The counters are those of the month they were last reset in.            *)
MeterInv ==
  LET ofMonth == {r \in recorded : r.month = tenant.usage.month}
      count(d) == Cardinality({r \in ofMonth : r.decision = d})
  IN  /\ IsFiniteSet(recorded)
      /\ tenant.usage.month <= month
      /\ \A r \in recorded : r.month <= tenant.usage.month
      /\ tenant.usage.validations = Cardinality(ofMonth)
      /\ tenant.usage.repairs = count("valid_with_repair")
      /\ tenant.usage.rejections = count("rejected")
      /\ Cardinality({r \in recorded : r.month = month}) <= highest
      /\ PlanLimit[tenant.plan] <= highest

ControlInv == ControlTypeOK /\ CountsInv /\ HashesInv /\ MeterInv
=============================================================================
