-------------------------- MODULE ManagedValidation --------------------------
(***************************************************************************)
(* A managed server validates tool calls: ControlState, RateWindow,        *)
(* AlertOutbox and IntelligenceState composed by the handlers of           *)
(* POST /v1/validate and POST /v1/actions/reconciliation, which write to   *)
(* several stores, one after the other, and may die or be cut off between  *)
(* any two of them.                                                        *)
(*                                                                         *)
(* Which stores there are depends on the deployment: nothing shared        *)
(* ("local"), a shared action database ("action"), a shared control        *)
(* database ("control"), both in one database ("joined") or in two         *)
(* ("separate").  Writers in one database share its transaction.           *)
(*                                                                         *)
(* The validation engine, the environment's policy and the schema          *)
(* admission are the choice of a decision.  The audit identifier of a      *)
(* request is the request: every retry of a caller is a new one.           *)
(***************************************************************************)
EXTENDS ControlState, RateWindow, AlertOutbox, IntelligenceState

CONSTANTS
  Reservation,   \* the reservation an operator reconciles
  Scenarios      \* bounds: what happens in a behaviour, and how often

VARIABLES
  deployment,
  requests,        \* by audit identifier: where its handler is
  local_audits,    \* audit_events of the server's own store
  accepted,        \* sg_accepted_decisions
  reconciliation,  \* of the reservation: committed, and where the handler is
  bounds           \* how many more of every kind of event there are

serviceVars == <<requests, local_audits, accepted, reconciliation>>
vars == <<controlVars, rateVars, alertVars, intelligenceVars, serviceVars,
          deployment, bounds>>

Deployments == {"local", "action", "control", "joined", "separate"}
SharedControl == deployment \in {"control", "joined", "separate"}
SharedActions == deployment \in {"action", "joined", "separate"}

Bounds ==
  [deployments : SUBSET Deployments, starts : SUBSET Plans,
   decisions : SUBSET Decisions, webhooks : BOOLEAN, stalls : Nat,
   requests : Nat, calls : Nat, ticks : Nat, keys : Nat, plans : Nat,
   months : Nat, drifts : Nat, purges : Nat, losses : Nat, reports : Nat,
   forgotten : Nat, reconciliations : Nat]

ASSUME ServiceAssumption ==
  /\ AuditIds \subseteq Sources /\ Reservation \in Sources
  /\ Scenarios \subseteq Bounds

Request ==
  [pc : {"new", "authentic", "evaluated", "recorded", "mirrored", "answered"},
   key : ApiKeys, limit : Nat, decision : Decisions, evaluated_at : Nat]

ServiceTypeOK ==
  /\ deployment \in Deployments /\ bounds \in Bounds
  /\ requests \in [AuditIds -> Request]
  /\ local_audits \subseteq AuditIds
  /\ accepted \subseteq AuditIds
  /\ reconciliation \in [committed : BOOLEAN, pc : {"idle", "committed", "answered"}]

TypeOK ==
  /\ ControlTypeOK /\ RateTypeOK /\ AlertsTypeOK /\ IntelligenceTypeOK(Sources)
  /\ ServiceTypeOK

Goto(id, pc) == requests' = [requests EXCEPT ![id].pc = pc]
At(id, pc) == requests[id].pc = pc
Spend(what) == bounds[what] > 0 /\ bounds' = [bounds EXCEPT ![what] = @ - 1]
Accepted(id) == requests[id].decision # "rejected"

(* The clock that stamps evaluations: their order is all that counts.      *)
Now == Max({0} \cup {requests[x].evaluated_at : x \in AuditIds})
-----------------------------------------------------------------------------
(* POST /v1/validate.  A handler that is refused, runs into an error or a  *)
(* timeout, or dies, takes no further step: nothing obliges it to.         *)

(* Identifiers are random, so which of the unused ones is next is no matter. *)
Fresh == CHOOSE id \in AuditIds : At(id, "new")

Authenticate(id, k) ==
  /\ At(id, "new") /\ id = Fresh
  /\ Authentic(k)
  /\ requests' = [requests EXCEPT ![id].pc = "authentic", ![id].key = k,
                                  ![id].limit = PlanLimit[tenant.plan]]
  /\ Spend("requests")
  /\ UNCHANGED <<controlVars, rateVars, alertVars, intelligenceVars,
                 local_audits, accepted, reconciliation, deployment>>

(* The shared limiter locks the key's row, where it is found only while it *)
(* is not revoked.  Then the call is evaluated, and stamped.               *)
Evaluate(id, server, decision) ==
  /\ At(id, "authentic")
  /\ SharedControl => Authentic(requests[id].key)
  /\ ConsumeRateLimit(SharedControl, server)
  /\ requests' = [requests EXCEPT ![id].pc = "evaluated", ![id].decision = decision,
                                  ![id].evaluated_at = Now + 1]
  /\ UNCHANGED <<controlVars, alertVars, intelligenceVars, local_audits,
                 accepted, reconciliation, deployment, bounds>>

(* Mutant of RecordsAlert: left to the handler, as with two databases.     *)
RecordsAlertNowhere(id) == FALSE

(* The alert of a rejection is inserted in the transaction of the audit.   *)
RecordsAlert(id) == ~Accepted(id)

(* recordValidation, with the writers that share its database: the         *)
(* observation, the alert of a rejection and, if the action state is in    *)
(* the same database, the accepted decision.  With nothing shared the      *)
(* action gate reads the audit itself.                                     *)
Record(id) ==
  LET r == requests[id]
  IN  /\ At(id, "evaluated")
      /\ RecordValidation(SharedControl, id, r.evaluated_at, r.decision, r.limit)
      /\ RecordObservation(SharedControl, id, r.decision)
      /\ local_audits' = IF SharedControl THEN local_audits
                         ELSE local_audits \cup {id}
      /\ accepted' = IF deployment = "joined" /\ Accepted(id)
                     THEN accepted \cup {id} ELSE accepted
      /\ IF RecordsAlert(id) THEN RecordAlert(SharedControl, id)
         ELSE UNCHANGED alertVars
      /\ Goto(id, "recorded")
      /\ UNCHANGED <<rateVars, reconciliation, deployment, bounds>>

(* recordScopedValidationAfterSharedState: a second chain, in the server's *)
(* own file, for the routes that read only that.                           *)
Mirror(id) ==
  /\ At(id, "recorded")
  /\ local_audits' = IF SharedControl THEN local_audits \cup {id}
                     ELSE local_audits
  /\ Goto(id, "mirrored")
  /\ UNCHANGED <<controlVars, rateVars, alertVars, intelligenceVars,
                 accepted, reconciliation, deployment, bounds>>

(* The accepted decision is left to the handler when it is not joined.     *)
AcceptsLater(id) == deployment \in {"action", "separate"} /\ Accepted(id)

(* What is left to write is written, and the answer sent.                  *)
Answer(id) ==
  /\ At(id, "mirrored")
  /\ accepted' = IF AcceptsLater(id) THEN accepted \cup {id} ELSE accepted
  /\ Goto(id, "answered")
  /\ UNCHANGED <<controlVars, rateVars, alertVars, intelligenceVars,
                 local_audits, reconciliation, deployment, bounds>>

ValidateNext(id) ==
  \/ \E k \in ApiKeys : Authenticate(id, k)
  \/ \E server \in Servers, decision \in bounds.decisions :
       Evaluate(id, server, decision)
  \/ Record(id) \/ Mirror(id) \/ Answer(id)
-----------------------------------------------------------------------------
(* POST /v1/actions/reconciliation/:id.                                    *)

ReconcilesWithAlert == deployment \in {"local", "joined"}

(* The first call commits the verdict; a repeated one finds it there.  The *)
(* alert is in the same transaction where there is one database.           *)
CommitReconciliation ==
  /\ reconciliation.pc = "idle" /\ Spend("reconciliations")
  /\ reconciliation' = [committed |-> TRUE, pc |-> "committed"]
  /\ IF ReconcilesWithAlert /\ ~reconciliation.committed
     THEN RecordAlert(SharedControl, Reservation) ELSE UNCHANGED alertVars
  /\ UNCHANGED <<controlVars, rateVars, intelligenceVars, requests,
                 local_audits, accepted, deployment>>

(* Otherwise the handler appends it afterwards, where there is an alert    *)
(* store.                                                                  *)
AnswerReconciliation ==
  /\ reconciliation.pc = "committed"
  /\ reconciliation' = [reconciliation EXCEPT !.pc = "answered"]
  /\ IF deployment = "separate" THEN RecordAlert(TRUE, Reservation)
     ELSE UNCHANGED alertVars
  /\ UNCHANGED <<controlVars, rateVars, intelligenceVars, requests,
                 local_audits, accepted, deployment, bounds>>

(* The handler dies, or the answer is lost: the operator may ask again.    *)
RetryReconciliation ==
  /\ reconciliation.pc \in {"committed", "answered"}
  /\ reconciliation' = [reconciliation EXCEPT !.pc = "idle"]
  /\ UNCHANGED <<controlVars, rateVars, alertVars, intelligenceVars,
                 requests, local_audits, accepted, deployment, bounds>>

ReconcileNext ==
  CommitReconciliation \/ AnswerReconciliation \/ RetryReconciliation
-----------------------------------------------------------------------------
(* Everything else: any route counts against the rate limit.               *)
OtherRequest(server) ==
  /\ Spend("calls")
  /\ ConsumeRateLimit(SharedControl, server)
  /\ UNCHANGED <<controlVars, alertVars, intelligenceVars, serviceVars,
                 deployment>>

CarriedLimits == {requests[id].limit : id \in
  {x \in AuditIds : requests[x].pc \in {"authentic", "evaluated"}}}

Keys ==
  \/ \E k \in ApiKeys : IssueApiKey(k)
  \/ \E j, k \in ApiKeys : RevokeApiKey(j, k)

Administration ==
  /\ \/ Keys /\ Spend("keys")
     \/ (\E plan \in Plans : UpdatePlan(plan)) /\ Spend("plans")
     \/ RecordDrift /\ Spend("drifts")
     \/ MonthPasses(IF SharedControl THEN {} ELSE CarriedLimits) /\ Spend("months")
     \/ LoseAudit /\ Spend("losses")
     \/ (\E cutoff \in 1..Now + 1 : PurgeExpiredAudits(SharedControl, cutoff))
          /\ Spend("purges")
  /\ UNCHANGED <<rateVars, alertVars, intelligenceVars, serviceVars,
                 deployment>>

AlertsNext ==
  /\ bounds.webhooks
  /\ \/ \E w \in Webhooks : \/ CreateWebhook(SharedControl, w)
                            \/ DisableWebhook(SharedControl, w)
     \/ \E d \in deliveries : ClaimDelivery(d) \/ RedriveDelivery(SharedControl, d)
     \/ \E x \in dispatches :
          \/ \E result \in {"delivered", "retryable", "rejected"} :
               FinishDelivery(x, result)
          \/ DispatchDies(x)
  /\ UNCHANGED <<controlVars, rateVars, intelligenceVars, serviceVars,
                 deployment, bounds>>

(* Conformance runs and versions of a ruleset: which is next is no matter. *)
Unused(kind) == Sources \ Kept(kind)
Another(kind) == CHOOSE x \in Unused(kind) : TRUE

IntelligenceNext ==
  /\ \/ /\ Spend("reports")
        /\ \/ /\ Unused("conformance") # {}
              /\ RecordConformanceRun(SharedControl, Another("conformance"))
           \/ /\ Unused("ruleset") # {}
              /\ PublishRuleset(SharedControl, Another("ruleset"))
     \/ Spend("forgotten") /\ LoseIntelligence
  /\ UNCHANGED <<controlVars, rateVars, alertVars, serviceVars, deployment>>

Init ==
  /\ bounds \in Scenarios
  /\ \E plan \in bounds.starts : ControlInit(plan)
  /\ RateInit
  /\ deployment \in bounds.deployments
  /\ requests = [id \in AuditIds |->
       [pc |-> "new", key |-> CHOOSE k \in ApiKeys : TRUE, limit |-> 0,
        decision |-> "rejected", evaluated_at |-> 0]]
  /\ local_audits = {} /\ accepted = {} /\ IntelligenceInit
  /\ reconciliation = [committed |-> FALSE, pc |-> "idle"]
  /\ AlertsInit(bounds.stalls)

Next ==
  \/ \E id \in AuditIds : ValidateNext(id)
  \/ ReconcileNext
  \/ \E server \in Servers : OtherRequest(server)
  \/ Tick /\ Spend("ticks")
       /\ UNCHANGED <<controlVars, alertVars, intelligenceVars, serviceVars,
                      deployment>>
  \/ Administration
  \/ AlertsNext
  \/ IntelligenceNext
  \/ LoseAlert /\ Spend("losses")
       /\ UNCHANGED <<controlVars, rateVars, intelligenceVars, serviceVars,
                      deployment>>

(* Workers poll for ever: a delivery that may be claimed is claimed, and a *)
(* dispatch that does not die ends with an answer or its own timeout.      *)
Fairness ==
  \A source \in Sources, w \in Webhooks :
    /\ WF_vars(\E d \in deliveries :
         d.source = source /\ d.webhook = w /\ ~Held(d) /\ ClaimDelivery(d)
           /\ UNCHANGED <<controlVars, rateVars, intelligenceVars,
                          serviceVars, deployment, bounds>>)
    /\ WF_vars(\E x \in dispatches, result \in {"delivered", "retryable", "rejected"} :
         x.source = source /\ x.webhook = w /\ FinishDelivery(x, result)
           /\ UNCHANGED <<controlVars, rateVars, intelligenceVars,
                          serviceVars, deployment, bounds>>)

Spec == Init /\ [][Next]_vars /\ Fairness
-----------------------------------------------------------------------------
(* Properties.                                                             *)

(* A deleted row of the audit history, of the alerts or of the             *)
(* intelligence is noticed, and nothing else ever looks like one.          *)
LossIsNoticed ==
  /\ AuditLossIsNoticed(SharedControl) /\ AlertLossIsNoticed(SharedControl)
  /\ IntelligenceLossIsNoticed(SharedControl)

(* What shares the transaction of an audit is there with it.               *)
Complete(r) ==
  /\ r.decision # "valid" /\ ~intelligence_lost => r.audit_id \in Kept("observation")
  /\ r.decision = "rejected" /\ ~rows_lost => Recorded(r.audit_id)
  /\ r.decision # "rejected" /\ deployment = "joined" => r.audit_id \in accepted

(* An answer rests on records: the audit was written and counted, a        *)
(* rejection has its alert, an accepted decision is where the action gate  *)
(* of this deployment looks for it, and a reconciliation has its alert,    *)
(* however often it was retried.  Of reconciliations the deployments with  *)
(* only one shared database ("action", "control") are left out: there no   *)
(* alert is kept where alerts are read.  What shares a transaction is also *)
(* complete when the handler died.                                         *)
AnswersAreRecorded ==
  /\ \A id \in AuditIds : At(id, "answered") =>
       /\ \E r \in recorded : r.audit_id = id
       /\ Accepted(id) => id \in (IF SharedActions THEN accepted ELSE local_audits)
  /\ \A r \in recorded : Complete(r)
  /\ reconciliation.pc = "answered" /\ deployment \notin {"action", "control"}
       /\ ~rows_lost => Recorded(Reservation)

AdmittedWithinRate == AdmittedPerWindow(SharedControl)
-----------------------------------------------------------------------------
(* The inductive invariant.                                                *)

(* Where a handler is, and what it has left in the stores by then.         *)
HandlerInv(id) ==
  /\ requests[id].pc \in {"recorded", "mirrored", "answered"} <=> id \in Used
  /\ \A r \in recorded : r.audit_id = id => r.decision = requests[id].decision
  /\ requests[id].pc \in {"authentic", "evaluated"} =>
       requests[id].limit \in {PlanLimit[plan] : plan \in Plans}
         /\ (~SharedControl => requests[id].limit <= highest)
  /\ At(id, "mirrored") \/ At(id, "answered") \/ (At(id, "recorded") /\ ~SharedControl)
       => id \in local_audits
  /\ At(id, "answered") /\ AcceptsLater(id) => id \in accepted

ReconciliationInv ==
  /\ reconciliation.pc # "idle" => reconciliation.committed
  /\ reconciliation.committed /\ ~rows_lost
       /\ (ReconcilesWithAlert
             \/ (deployment = "separate" /\ reconciliation.pc = "answered"))
       => Recorded(Reservation)

ServiceInv ==
  /\ ServiceTypeOK
  /\ IsFiniteSet({requests[id].evaluated_at : id \in AuditIds})
  /\ \A id \in AuditIds : HandlerInv(id)
  /\ \A r \in recorded : Complete(r)
  /\ ReconciliationInv

IInv ==
  /\ ControlInv /\ RateInv(SharedControl) /\ AlertsInv(SharedControl)
  /\ IntelligenceInv(Sources) /\ ServiceInv
=============================================================================
