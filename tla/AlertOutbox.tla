----------------------------- MODULE AlertOutbox -----------------------------
(***************************************************************************)
(* Alerts and their webhooks.  An alert is chained to the one before and   *)
(* inserted with one delivery for every webhook that is enabled; workers   *)
(* claim deliveries with a lease, post them and record the outcome.        *)
(* PostgresAlertState (shared) verifies the tenant's alerts before every   *)
(* change but a claim or its outcome, under the lock of the manifest;      *)
(* ManagedStore has the same tables without manifest and chain.            *)
(*                                                                         *)
(* A hash is the sequence of the sources it was chained from.  Leases are  *)
(* numbers that no dispatch under way holds.  A lease runs out when the    *)
(* dispatch that holds it died or stalled, which may happen as often as    *)
(* the "stalls" left allow.  The count of attempts stops at MaxAttempts:   *)
(* it is only ever compared with it.                                       *)
(***************************************************************************)
EXTENDS Naturals, FiniteSets, Sequences

CONSTANTS
  Sources,      \* source keys: what an alert is about
  Webhooks,
  MaxAttempts   \* alertWebhookMaxAttempts

ASSUME AlertAssumption == MaxAttempts \in Nat \ {0}

VARIABLES
  alerts,          \* sg_alerts in the order of their sequence
  webhooks,        \* sg_alert_webhooks: state by webhook
  deliveries,      \* sg_alert_deliveries
  alert_manifest,  \* sg_alert_manifests
  dispatches,      \* claims that workers are posting
  rows_lost,       \* somebody deleted a row, a history variable
  stalls           \* how many more dispatches may die or stall

alertVars == <<alerts, webhooks, deliveries, alert_manifest, dispatches,
               rows_lost, stalls>>

Alert == [source : Sources, previous_hash : Seq(Sources),
          record_hash : Seq(Sources), expected : Nat]

Delivery == [source : Sources, webhook : Webhooks,
             status : {"pending", "processing", "delivered", "dead"},
             attempts : 0..MaxAttempts, lease : Nat]

AlertsTypeOK ==
  /\ alerts \in Seq(Alert)
  /\ webhooks \in [Webhooks -> {"absent", "enabled", "disabled"}]
  /\ deliveries \subseteq Delivery
  /\ alert_manifest \in [count : Nat, tip : Seq(Sources)]
  /\ dispatches \subseteq [source : Sources, webhook : Webhooks, lease : Nat]
  /\ stalls \in Nat

Recorded(source) == \E i \in DOMAIN alerts : alerts[i].source = source
Enabled == {w \in Webhooks : webhooks[w] = "enabled"}
Unfinished == {"pending", "processing"}
-----------------------------------------------------------------------------
(* verifyWith: the chain, its length and its tip, and for every alert the  *)
(* number of its deliveries.                                               *)
AlertsVerify(shared) ==
  shared =>
    /\ Len(alerts) = alert_manifest.count
    /\ \A i \in DOMAIN alerts :
         /\ alerts[i].previous_hash =
              IF i = 1 THEN <<>> ELSE alerts[i - 1].record_hash
         /\ alerts[i].expected =
              Cardinality({d \in deliveries : d.source = alerts[i].source})
    /\ alert_manifest.tip =
         IF alerts = <<>> THEN <<>> ELSE alerts[Len(alerts)].record_hash

Enqueued(source) ==
  {[source |-> source, webhook |-> w, status |-> "pending", attempts |-> 0,
    lease |-> 0] : w \in Enabled}

(* recordAlert: once for every source; insertAlert.                        *)
RecordAlert(shared, source) ==
  /\ AlertsVerify(shared)
  /\ IF Recorded(source) THEN UNCHANGED alertVars
     ELSE LET previous == alert_manifest.tip
          IN  /\ alerts' = Append(alerts,
                   [source |-> source, previous_hash |-> previous,
                    record_hash |-> Append(previous, source),
                    expected |-> Cardinality(Enqueued(source))])
              /\ deliveries' = deliveries \cup Enqueued(source)
              /\ alert_manifest' = [count |-> alert_manifest.count + 1,
                                    tip |-> Append(previous, source)]
              /\ UNCHANGED <<webhooks, dispatches, rows_lost, stalls>>

CreateWebhook(shared, w) ==
  /\ AlertsVerify(shared)
  /\ webhooks[w] = "absent"
  /\ webhooks' = [webhooks EXCEPT ![w] = "enabled"]
  /\ UNCHANGED <<alerts, deliveries, alert_manifest, dispatches, rows_lost, stalls>>

(* disableWebhook, for good; its deliveries end.                           *)
DisableWebhook(shared, w) ==
  LET open == {d \in deliveries : d.webhook = w /\ d.status \in Unfinished}
  IN  /\ AlertsVerify(shared)
      /\ webhooks[w] # "absent"
      /\ webhooks' = [webhooks EXCEPT ![w] = "disabled"]
      /\ deliveries' = (deliveries \ open) \cup
           {[d EXCEPT !.status = "dead", !.lease = 0] : d \in open}
      /\ UNCHANGED <<alerts, alert_manifest, dispatches, rows_lost, stalls>>
-----------------------------------------------------------------------------
Update(d, new) == deliveries' = (deliveries \ {d}) \cup {new}

Leases(d) == {x.lease : x \in {y \in dispatches :
                y.source = d.source /\ y.webhook = d.webhook}}
FreshLease(d) == CHOOSE n \in 1..Cardinality(dispatches) + 1 : n \notin Leases(d)
Held(d) == d.lease \in Leases(d)

(* Mutant of Claimable: a delivery that is being posted is left alone.     *)
ClaimablePending(d) == d.status = "pending"

Claimable(d) == d.status \in Unfinished

(* claimDeliveries, row by row: a pending delivery that is due, or one     *)
(* whose lease ran out.                                                    *)
ClaimDelivery(d) ==
  /\ webhooks[d.webhook] = "enabled"
  /\ Claimable(d)
  /\ Held(d) => stalls > 0
  /\ stalls' = IF Held(d) THEN stalls - 1 ELSE stalls
  /\ Update(d, [d EXCEPT !.status = "processing", !.lease = FreshLease(d),
       !.attempts = IF @ = MaxAttempts THEN @ ELSE @ + 1])
  /\ dispatches' = dispatches \cup
       {[source |-> d.source, webhook |-> d.webhook, lease |-> FreshLease(d)]}
  /\ UNCHANGED <<alerts, webhooks, alert_manifest, rows_lost>>

Outcome(d, result) ==
  CASE result = "delivered" -> "delivered"
    [] result = "retryable" /\ d.attempts < MaxAttempts -> "pending"
    [] OTHER -> "dead"

(* Mutant of FinishDelivery: without the lease in the WHERE clause.        *)
FinishDeliveryAnyLease(x, result) ==
  LET held == {d \in deliveries :
        d.source = x.source /\ d.webhook = x.webhook}
  IN  /\ x \in dispatches
      /\ dispatches' = dispatches \ {x}
      /\ deliveries' = (deliveries \ held) \cup
           {[d EXCEPT !.status = Outcome(d, result), !.lease = 0] : d \in held}
      /\ UNCHANGED <<alerts, webhooks, alert_manifest, rows_lost, stalls>>

(* finishDelivery; an answer that comes after its lease went to another    *)
(* dispatch, or after the webhook was disabled, changes nothing.           *)
FinishDelivery(x, result) ==
  LET held == {d \in deliveries :
        /\ d.source = x.source /\ d.webhook = x.webhook
        /\ d.status = "processing" /\ d.lease = x.lease}
  IN  /\ x \in dispatches
      /\ dispatches' = dispatches \ {x}
      /\ deliveries' = (deliveries \ held) \cup
           {[d EXCEPT !.status = Outcome(d, result), !.lease = 0] : d \in held}
      /\ UNCHANGED <<alerts, webhooks, alert_manifest, rows_lost, stalls>>

DispatchDies(x) ==
  /\ stalls > 0
  /\ x \in dispatches
  /\ dispatches' = dispatches \ {x}
  /\ stalls' = stalls - 1
  /\ UNCHANGED <<alerts, webhooks, deliveries, alert_manifest, rows_lost>>

RedriveDelivery(shared, d) ==
  /\ AlertsVerify(shared)
  /\ d.status = "dead" /\ webhooks[d.webhook] = "enabled"
  /\ Update(d, [d EXCEPT !.status = "pending", !.attempts = 0])
  /\ UNCHANGED <<alerts, webhooks, alert_manifest, dispatches, rows_lost, stalls>>

(* Somebody deletes an alert or a delivery.                                *)
LoseAlert ==
  /\ \/ \E i \in DOMAIN alerts :
          /\ alerts' = SubSeq(alerts, 1, i - 1) \o SubSeq(alerts, i + 1, Len(alerts))
          /\ UNCHANGED deliveries
     \/ (\E d \in deliveries : deliveries' = deliveries \ {d}) /\ UNCHANGED alerts
  /\ rows_lost' = TRUE
  /\ UNCHANGED <<webhooks, alert_manifest, dispatches, stalls>>

AlertsInit(budget) ==
  /\ alerts = <<>> /\ deliveries = {} /\ dispatches = {}
  /\ webhooks = [w \in Webhooks |-> "absent"]
  /\ alert_manifest = [count |-> 0, tip |-> <<>>]
  /\ rows_lost = FALSE /\ stalls = budget
-----------------------------------------------------------------------------
(* Properties.                                                             *)

(* What the shared store verifies fails if and only if a row was deleted,  *)
(* whatever workers and operators do to the deliveries meanwhile.          *)
AlertLossIsNoticed(shared) == shared => (AlertsVerify(shared) <=> ~rows_lost)

(* Nothing more is sent to a webhook once it is disabled: none of its      *)
(* deliveries waits for a worker, whatever was recorded, claimed, retried  *)
(* or answered at the same time, and so none stays unfinished for ever.    *)
DisabledIsSilent ==
  \A d \in deliveries :
    webhooks[d.webhook] = "disabled" => d.status \notin Unfinished

(* Every delivery comes to an end, delivered or dead, although workers die *)
(* and stall in the middle of it: one that is claimed and never finished   *)
(* is claimed again.                                                       *)
Settled(source, w) ==
  \A d \in deliveries : d.source = source /\ d.webhook = w =>
    d.status \in {"delivered", "dead"}

DeliveriesAreSettled ==
  \A source \in Sources, w \in Webhooks : []<>Settled(source, w)
-----------------------------------------------------------------------------
(* The inductive invariant.                                                *)

Of(source) == {d \in deliveries : d.source = source}

(* A loss leaves an alert or a delivery too few for good: nothing that is  *)
(* done with a delivery adds one, or takes one away.                       *)
OutboxInv ==
  /\ IsFiniteSet(deliveries)
  /\ \A d, e \in deliveries : d.source = e.source /\ d.webhook = e.webhook => d = e
  /\ Len(alerts) <= alert_manifest.count
  /\ IF rows_lost
     THEN \/ Len(alerts) < alert_manifest.count
          \/ \E i \in DOMAIN alerts :
               Cardinality(Of(alerts[i].source)) < alerts[i].expected
     ELSE AlertsVerify(TRUE) /\ \A d \in deliveries : Recorded(d.source)

AlertsInv(shared) ==
  /\ AlertsTypeOK /\ rows_lost \in BOOLEAN
  /\ IsFiniteSet(dispatches) /\ IsFiniteSet(Enabled)
  /\ DisabledIsSilent
  /\ shared => OutboxInv
=============================================================================
