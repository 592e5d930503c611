----------------------- MODULE AnchoredExecutionProofs -----------------------
(***************************************************************************)
(* What holds of anchored execution for every number of servers, keys and  *)
(* fingerprints, and for any number of crashes, lost or late messages,     *)
(* expired leases and restores: nothing is allowed twice, and the receiver *)
(* and the ledger remember what was allowed.                               *)
(***************************************************************************)
EXTENDS AnchoredExecution, FiniteSetTheorems, TLAPS

-----------------------------------------------------------------------------
(* Steps that write nothing to the ledger and nothing to the receiver.     *)

(* A handler goes on or ends, a delivery changes its status, a request is  *)
(* sent with what a delivery holds, an answer is used or lost.             *)
HandlersStay ==
  /\ handler' \in [Servers -> {Idle} \cup Evaluation]
  /\ \A s \in Servers : handler'[s] # Idle =>
       /\ handler[s] # Idle
       /\ handler'[s].id = handler[s].id /\ handler'[s].key = handler[s].key
       /\ handler'[s].fingerprint = handler[s].fingerprint

DeliveriesStay ==
  \A d \in deliveries' :
    /\ d \in S!Delivery
    /\ \E e \in deliveries : /\ d.revision = e.revision
                             /\ d.checkpoint = e.checkpoint
                             /\ d.status = "delivered" =>
                                  e.status = "delivered" \/ Reached(d.revision)

WireStays ==
  \A w \in wire' :
    /\ w \in [claim : S!Claim, checkpoint : S!Manifest]
    /\ w \in wire \/ \E e \in deliveries : /\ w.claim.revision = e.revision
                                           /\ w.checkpoint = e.checkpoint

LEMMA QuietStep ==
  ASSUME IInv, HandlersStay, DeliveriesStay, WireStays,
         claims' \subseteq S!Claim, leased' \in Nat, answers' \subseteq answers,
         UNCHANGED <<rows, manifest, records, vouched, aged, issued, receiver,
                     authorised, backup, traffic>>
  PROVE  IInv'
<1>1. TypeOK'
  BY DEF IInv, TypeOK, HandlersStay, DeliveriesStay, WireStays, receiver
<1>2. ASSUME NEW d \in AllDeliveries'
      PROVE  \E e \in AllDeliveries :
               /\ d.revision = e.revision /\ d.checkpoint = e.checkpoint
               /\ d.status = "delivered" => Reached(d.revision)
  <2>1. CASE d \in deliveries'
    BY <2>1 DEF IInv, DeliveriesStay, AllDeliveries, ReceiverInv
  <2>2. CASE d \notin deliveries'
    BY <1>2, <2>2 DEF IInv, AllDeliveries, BackedUp, ReceiverInv
  <2> QED
    BY <2>1, <2>2
<1>3. HistoryInv'
  <2>1. \A d \in AllDeliveries' : d.revision = d.checkpoint.revision
    BY <1>2 DEF IInv, HistoryInv
  <2>2. \A d \in deliveries' : Leads(d.checkpoint, manifest)
    BY DEF IInv, HistoryInv, DeliveriesStay
  <2>3. \A w \in wire' : /\ w.claim.revision = w.checkpoint.revision
                         /\ Leads(w.checkpoint, manifest)
    BY DEF IInv, HistoryInv, WireStays, AllDeliveries
  <2> QED
    BY <2>1, <2>2, <2>3 DEF IInv, HistoryInv, Leads, BackedUp
<1>4. ReceiverInv'
  BY <1>2 DEF IInv, ReceiverInv, Reached, Leads, receiver
<1>5. Checkpoints' \subseteq Checkpoints
  <2>1. \A d \in AllDeliveries' : d.checkpoint \in Checkpoints
    BY <1>2 DEF Checkpoints
  <2>2. \A w \in wire' : w.checkpoint \in Checkpoints
    BY DEF WireStays, Checkpoints, AllDeliveries
  <2> QED
    BY <2>1, <2>2 DEF Checkpoints, receiver, BackedUp
<1>6. KeysInv'
  BY <1>5 DEF IInv, KeysInv
<1>7. AuthorisedInv'
  BY <1>5 DEF IInv, AuthorisedInv, Holds, receiver
<1>8. HandlersInv'
  BY DEF IInv, HandlersInv, HandlersStay, Holds
<1> QED
  BY <1>1, <1>3, <1>4, <1>6, <1>7, <1>8 DEF IInv

(* The handler's answers that authorise nobody, and its end.               *)
LEMMA HandlerEnds ==
  ASSUME IInv, NEW ss \in SUBSET Servers,
         handler' = [s \in Servers |-> IF s \in ss THEN Idle ELSE handler[s]]
  PROVE  HandlersStay
BY DEF IInv, TypeOK, HandlersStay

LEMMA OneHandlerEnds ==
  ASSUME IInv, NEW s \in Servers, handler' = [handler EXCEPT ![s] = Idle]
  PROVE  HandlersStay
BY DEF IInv, TypeOK, HandlersStay

LEMMA HandlerMoves ==
  ASSUME IInv, NEW s \in Servers, handler[s] \in Evaluation,
         NEW phase \in {"reserved", "waiting", "dispatched"},
         handler' = [handler EXCEPT ![s].phase = phase]
  PROVE  HandlersStay
<1> DEFINE moved == [handler[s] EXCEPT !.phase = phase]
<1>1. /\ moved \in Evaluation /\ moved.id = handler[s].id
      /\ moved.key = handler[s].key /\ moved.fingerprint = handler[s].fingerprint
  BY DEF Evaluation
<1>2. handler' = [handler EXCEPT ![s] = moved]
  OBVIOUS
<1>3. handler[s] # Idle
  BY DEF Evaluation, Idle
<1> HIDE DEF moved
<1>4. handler \in [Servers -> {Idle} \cup Evaluation]
  BY DEF IInv, TypeOK
<1> QED
  BY <1>1, <1>2, <1>3, <1>4 DEF HandlersStay

LEMMA Unchanged ==
  ASSUME IInv
  PROVE  /\ UNCHANGED handler => HandlersStay
         /\ UNCHANGED deliveries => DeliveriesStay
         /\ UNCHANGED wire => WireStays
BY DEF IInv, TypeOK, HandlersStay, DeliveriesStay, WireStays

LEMMA UnchangedClaims ==
  ASSUME IInv
  PROVE  /\ UNCHANGED claims => claims' \subseteq S!Claim
         /\ UNCHANGED leased => leased' \in Nat
BY DEF IInv, TypeOK

LEMMA FirstCheckPreserves ==
  ASSUME IInv, NEW s \in Servers, FirstCheck(s)
  PROVE  IInv'
<1>1. handler[s] \in Evaluation
  BY DEF IInv, TypeOK, FirstCheck, Idle
<1>2. HandlersStay
  BY <1>1, HandlerMoves DEF FirstCheck
<1> QED
  BY <1>2, Unchanged, UnchangedClaims, QuietStep DEF FirstCheck, ledger

LEMMA EndingsPreserve ==
  ASSUME IInv, NEW s \in Servers, Unacknowledged(s) \/ RequestTimesOut(s)
  PROVE  IInv'
<1>1. HandlersStay
  BY OneHandlerEnds DEF Unacknowledged, RequestTimesOut
<1> QED
  BY <1>1, Unchanged, UnchangedClaims, QuietStep
  DEF Unacknowledged, RequestTimesOut, ledger, workers

LEMMA DispatchesPreserve ==
  ASSUME IInv, NEW s \in Servers,
         TimerFires(s) \/ ClaimNothing(s) \/ DispatchEnds(s) \/ DispatchFails(s)
  PROVE  IInv'
<1>1. CASE TimerFires(s) \/ ClaimNothing(s)
  BY <1>1, Unchanged, UnchangedClaims, QuietStep DEF TimerFires, ClaimNothing, ledger
<1>2. CASE DispatchEnds(s)
  <2>1. HandlersStay
    <3>1. CASE handler[s].phase = "waiting"
      <4>1. handler[s] \in Evaluation
        BY <3>1 DEF IInv, TypeOK, Idle
      <4> QED
        BY <1>2, <3>1, <4>1, HandlerMoves DEF DispatchEnds
    <3>2. CASE handler[s].phase # "waiting"
      BY <1>2, <3>2, Unchanged DEF DispatchEnds
    <3> QED
      BY <3>1, <3>2
  <2> QED
    BY <1>2, <2>1, Unchanged, UnchangedClaims, QuietStep DEF DispatchEnds, ledger
<1>3. CASE DispatchFails(s)
  <2>1. HandlersStay
    BY <1>3, OneHandlerEnds, Unchanged DEF DispatchFails
  <2>2. claims' \subseteq S!Claim /\ answers' \subseteq answers
    BY <1>3 DEF IInv, TypeOK, DispatchFails
  <2> QED
    BY <1>3, <2>1, <2>2, Unchanged, UnchangedClaims, QuietStep DEF DispatchFails
<1> QED
  BY <1>1, <1>2, <1>3

LEMMA ClaimPreserves ==
  ASSUME IInv, NEW s \in Servers, Claim(s)
  PROVE  IInv'
<1> DEFINE batch == S!Claimable
           taken(d) == [d EXCEPT !.status = "processing", !.attempts = @ + 1,
                                 !.lease = leased + 1, !.due = FALSE]
<1>1. batch \subseteq deliveries
  BY DEF S!Claimable
<1>2. /\ leased' = leased + 1
      /\ deliveries' = (deliveries \ batch) \cup {taken(d) : d \in batch}
      /\ claims' = claims \cup
           {[revision |-> d.revision, lease |-> leased + 1] : d \in batch}
      /\ wire' = wire \cup
           {[claim |-> [revision |-> d.revision, lease |-> leased + 1],
             checkpoint |-> d.checkpoint] : d \in batch}
      /\ UNCHANGED <<rows, manifest, records, vouched, aged, issued, receiver,
                     authorised, backup, traffic, handler, answers>>
  BY DEF Claim, S!ClaimDeliveries, S!ledgerVars
<1> HIDE DEF batch
<1>3. ASSUME NEW d \in S!Delivery
      PROVE  /\ taken(d) \in S!Delivery
             /\ taken(d).revision = d.revision
             /\ taken(d).checkpoint = d.checkpoint
             /\ taken(d).status = "processing"
  <2>1. leased + 1 \in Nat /\ d.attempts + 1 \in Nat
    BY DEF IInv, TypeOK, S!Delivery
  <2> QED
    BY <2>1 DEF S!Delivery
<1>4. DeliveriesStay
  <2>1. ASSUME NEW x \in deliveries'
        PROVE  x \in deliveries \/ \E d \in batch : x = taken(d)
    BY <1>2
  <2>2. deliveries \subseteq S!Delivery
    BY DEF IInv, TypeOK
  <2> HIDE DEF taken
  <2> QED
    BY <1>1, <1>3, <2>1, <2>2 DEF DeliveriesStay
<1>5. WireStays /\ claims' \subseteq S!Claim /\ leased' \in Nat
  <2>1. \A d \in deliveries : d.revision \in Nat /\ d.checkpoint \in S!Manifest
    BY DEF IInv, TypeOK, S!Delivery
  <2>2. leased + 1 \in Nat
    BY DEF IInv, TypeOK
  <2>3. \A d \in deliveries : [revision |-> d.revision, lease |-> leased + 1] \in S!Claim
    BY <2>1, <2>2 DEF S!Claim
  <2>4. claims' \subseteq S!Claim
    BY <1>1, <1>2, <2>3 DEF IInv, TypeOK
  <2>5. ASSUME NEW w \in wire'
        PROVE  /\ w \in [claim : S!Claim, checkpoint : S!Manifest]
               /\ w \in wire \/ \E e \in deliveries :
                    w.claim.revision = e.revision /\ w.checkpoint = e.checkpoint
    <3>1. CASE w \in wire
      BY <3>1 DEF IInv, TypeOK
    <3>2. CASE \E d \in batch :
                 w = [claim |-> [revision |-> d.revision, lease |-> leased + 1],
                      checkpoint |-> d.checkpoint]
      BY <1>1, <2>1, <2>3, <3>2
    <3> QED
      BY <1>2, <3>1, <3>2
  <2> QED
    BY <1>2, <2>2, <2>4, <2>5 DEF WireStays
<1>6. HandlersStay
  BY <1>2, Unchanged
<1> QED
  BY <1>2, <1>4, <1>5, <1>6, QuietStep

LEMMA LoseRequestPreserves ==
  ASSUME IInv, NEW m \in wire, LoseRequest(m)
  PROVE  IInv'
<1>1. WireStays
  BY DEF IInv, TypeOK, LoseRequest, WireStays
<1> QED
  BY <1>1, Unchanged, UnchangedClaims, QuietStep DEF LoseRequest, ledger

(* A result that is recorded, and whose it may be.                         *)
LEMMA FinishStays ==
  ASSUME IInv, NEW c \in claims, NEW result, Finish(c, result),
         result = "delivered" => Reached(c.revision)
  PROVE  /\ DeliveriesStay /\ claims' \subseteq S!Claim
         /\ UNCHANGED <<rows, manifest, records, vouched, aged, issued, leased>>
<1>1. CASE \E d \in deliveries : S!HoldsLease(d, c)
  <2>1. S!FinishDelivery(c, result)
    BY <1>1 DEF Finish
  <2>2. PICK d \in deliveries, status \in {"delivered", "pending", "dead"} :
          /\ S!HoldsLease(d, c)
          /\ status = "delivered" <=> result = "delivered"
          /\ S!Update(d, [d EXCEPT !.status = status, !.due = FALSE, !.lease = 0])
    BY <2>1 DEF S!FinishDelivery
  <2> DEFINE new == [d EXCEPT !.status = status, !.due = FALSE, !.lease = 0]
  <2>3. /\ new \in S!Delivery /\ new.revision = d.revision
        /\ new.checkpoint = d.checkpoint /\ new.status = status
    BY DEF IInv, TypeOK, S!Delivery
  <2>4. deliveries' = (deliveries \ {d}) \cup {new} /\ d.revision = c.revision
    BY <2>2 DEF S!Update, S!HoldsLease
  <2> HIDE DEF new
  <2>5. DeliveriesStay
    BY <2>2, <2>3, <2>4 DEF IInv, TypeOK, DeliveriesStay
  <2> QED
    BY <2>1, <2>5 DEF IInv, TypeOK, S!FinishDelivery, S!ledgerVars
<1>2. CASE ~\E d \in deliveries : S!HoldsLease(d, c)
  BY <1>2, Unchanged DEF IInv, TypeOK, Finish, S!DropClaim, S!ledgerVars
<1> QED
  BY <1>1, <1>2

LEMMA FinishPreserves ==
  ASSUME IInv, NEW c \in claims, FinishAnswered(c) \/ FinishFailed(c)
  PROVE  IInv'
<1>1. CASE FinishAnswered(c)
  <2>1. PICK a \in answers :
          /\ a.claim = c
          /\ Finish(c, IF a.outcome \in Refusals THEN "rejected" ELSE "delivered")
          /\ answers' = answers \ {a}
    BY <1>1 DEF FinishAnswered
  <2>2. a.outcome \notin Refusals => Reached(c.revision)
    BY <2>1 DEF IInv, ReceiverInv
  <2>3. /\ DeliveriesStay /\ claims' \subseteq S!Claim
        /\ UNCHANGED <<rows, manifest, records, vouched, aged, issued, leased>>
    BY <2>1, <2>2, FinishStays
  <2> QED
    BY <1>1, <2>1, <2>3, Unchanged, UnchangedClaims, QuietStep DEF FinishAnswered
<1>2. CASE FinishFailed(c)
  <2>1. PICK result \in {"retryable", "rejected"} : Finish(c, result)
    BY <1>2 DEF FinishFailed
  <2>2. /\ DeliveriesStay /\ claims' \subseteq S!Claim
        /\ UNCHANGED <<rows, manifest, records, vouched, aged, issued, leased>>
    BY <2>1, FinishStays
  <2> QED
    BY <1>2, <2>2, Unchanged, UnchangedClaims, QuietStep DEF FinishFailed
<1> QED
  BY <1>1, <1>2

LEMMA ClockAndRedrivePreserve ==
  ASSUME IInv, NEW d \in deliveries, FallsDue(d) \/ Redrive(d)
  PROVE  IInv'
<1>1. PICK new \in S!Delivery :
        /\ new.revision = d.revision /\ new.checkpoint = d.checkpoint
        /\ new.status # "delivered"
        /\ deliveries' = (deliveries \ {d}) \cup {new}
  <2>1. CASE FallsDue(d)
    <3> DEFINE due == [d EXCEPT !.due = TRUE]
    <3>1. /\ due \in S!Delivery /\ due.revision = d.revision
          /\ due.checkpoint = d.checkpoint /\ due.status = d.status
      BY DEF IInv, TypeOK, S!Delivery
    <3>2. /\ d.status # "delivered"
          /\ deliveries' = (deliveries \ {d}) \cup {due}
      BY <2>1 DEF FallsDue, S!DeliveryFallsDue, S!Update
    <3> QED
      BY <3>1, <3>2
  <2>2. CASE Redrive(d)
    <3> DEFINE again == [d EXCEPT !.status = "pending", !.attempts = 0, !.due = TRUE]
    <3>1. /\ again \in S!Delivery /\ again.revision = d.revision
          /\ again.checkpoint = d.checkpoint /\ again.status = "pending"
      BY DEF IInv, TypeOK, S!Delivery
    <3>2. deliveries' = (deliveries \ {d}) \cup {again}
      BY <2>2 DEF Redrive, S!Redrive, S!Update
    <3> QED
      BY <3>1, <3>2
  <2> QED
    BY <2>1, <2>2
<1>2. DeliveriesStay
  BY <1>1 DEF IInv, TypeOK, DeliveriesStay
<1> QED
  BY <1>2, Unchanged, UnchangedClaims, QuietStep
  DEF FallsDue, Redrive, S!DeliveryFallsDue, S!Redrive, S!ledgerVars, workers

LEMMA CrashPreserves ==
  ASSUME IInv, NEW s \in Servers, Crash(s)
  PROVE  IInv'
<1>1. HandlersStay
  <2>1. handler' = [x \in Servers |-> IF x \in {s} THEN Idle ELSE handler[x]]
    BY DEF Crash, Stopped
  <2> QED
    BY <2>1, HandlerEnds
<1>2. claims' \subseteq S!Claim /\ answers' \subseteq answers
  BY DEF IInv, TypeOK, Crash, Stopped
<1> QED
  BY <1>1, <1>2, Unchanged, UnchangedClaims, QuietStep DEF Crash
-----------------------------------------------------------------------------
(* The receiver.                                                           *)

LEMMA InitIInv == Init => IInv
<1> SUFFICES ASSUME Init PROVE IInv
  OBVIOUS
<1> USE DEF Init, S!Init, R!EmptyStore
<1>1. TypeOK
  <2>1. manifest \in S!Manifest
    BY DEF S!Manifest
  <2> QED
    BY <2>1 DEF TypeOK
<1>2. BackedUp = {} /\ AllDeliveries = {} /\ Checkpoints = {manifest}
  BY DEF BackedUp, AllDeliveries, Checkpoints
<1>3. HistoryInv /\ ReceiverInv
  BY <1>2 DEF HistoryInv, ReceiverInv
<1>4. KeysInv /\ AuthorisedInv /\ HandlersInv
  BY <1>2 DEF KeysInv, AuthorisedInv, HandlersInv
<1> QED
  BY <1>1, <1>3, <1>4 DEF IInv

(* What the answer of the receiver says of what it has.                    *)
LEMMA OutcomeMeaning ==
  ASSUME IInv, NEW c \in S!Manifest
  PROVE  LET e == EventOf(c) IN
         /\ R!Outcome(e) \in {"stored", "advanced"} =>
              \A l \in latest : l.revision < e.revision
         /\ R!Outcome(e) \in {"stored", "advanced"} \cup Refusals
              \/ Reached(e.revision)
<1> DEFINE e == EventOf(c)
           sameId == {x \in R!Received : x.id = e.id}
           reached == {l \in latest : l.tenant = e.tenant}
<1>1. e.revision \in Nat /\ e.tenant = Tenant
  BY DEF EventOf, S!Manifest
<1>2. reached = latest /\ \A l \in latest : l.revision \in Nat
  BY <1>1 DEF IInv, ReceiverInv, TypeOK, R!Event
<1>3. R!Outcome(e) =
        CASE e \in sameId -> "duplicate"
          [] e \notin sameId /\ sameId # {} -> "event_conflict"
          [] sameId = {} /\ reached = {} -> "stored"
          [] OTHER -> R!Comparison(e, CHOOSE l \in reached : TRUE)
  BY DEF R!Outcome
<1>4. CASE e \in sameId
  <2>1. PICK i \in DOMAIN events : events[i].event = e
    BY <1>4 DEF R!Received, R!ToSet
  <2>2. Reached(e.revision)
    BY <2>1 DEF IInv, ReceiverInv
  <2>3. R!Outcome(e) = "duplicate"
    BY <1>3, <1>4
  <2> QED
    BY <2>2, <2>3
<1>5. CASE e \notin sameId /\ sameId # {}
  <2>1. R!Outcome(e) = "event_conflict"
    BY <1>3, <1>5
  <2> QED
    BY <2>1 DEF Refusals
<1>6. CASE sameId = {} /\ reached = {}
  <2>1. R!Outcome(e) = "stored"
    BY <1>3, <1>6
  <2> QED
    BY <1>2, <1>6, <2>1
<1>7. CASE sameId = {} /\ reached # {}
  <2>1. PICK l \in latest : R!Outcome(e) = R!Comparison(e, l)
    BY <1>2, <1>3, <1>7
  <2>2. \A x \in latest : x = l
    BY DEF IInv, ReceiverInv
  <2>3. CASE e.revision < l.revision
    BY <1>1, <1>2, <2>1, <2>3 DEF R!Comparison, Refusals
  <2>4. CASE e.revision > l.revision
    <3>1. R!Outcome(e) = "advanced"
      BY <1>1, <1>2, <2>1, <2>4 DEF R!Comparison
    <3> QED
      BY <1>1, <1>2, <2>2, <2>4, <3>1
  <2>5. CASE e.revision = l.revision
    <3>1. R!Outcome(e) \in {"replay", "integrity_conflict"}
      BY <1>1, <1>2, <2>1, <2>5 DEF R!Comparison
    <3>2. Reached(e.revision)
      BY <1>1, <1>2, <2>5 DEF Reached
    <3> QED
      BY <3>1, <3>2
  <2> QED
    BY <1>1, <1>2, <2>3, <2>4, <2>5
<1> HIDE DEF sameId, reached, e
<1> QED
  BY <1>4, <1>5, <1>6, <1>7 DEF e

LEMMA CheckpointsHaveRevisions ==
  ASSUME IInv
  PROVE  \A c \in Checkpoints : c.revision \in Nat
BY DEF IInv, TypeOK, Checkpoints, AllDeliveries, BackedUp, Saved, S!Delivery,
       S!Manifest, R!Event

LEMMA ReceivePreserves ==
  ASSUME IInv, NEW m \in wire, Receive(m)
  PROVE  IInv'
<1> DEFINE e == EventOf(m.checkpoint)
<1>1. /\ m.claim \in S!Claim /\ m.checkpoint \in S!Manifest
      /\ m.claim.revision = m.checkpoint.revision
      /\ Leads(m.checkpoint, manifest)
  BY DEF IInv, TypeOK, HistoryInv
<1>2. /\ e \in R!Event /\ e.revision \in Nat /\ e.revision = m.checkpoint.revision
      /\ e.tenant = Tenant /\ e.hash = m.checkpoint
  BY <1>1 DEF EventOf, R!Event, S!Manifest
<1>3. /\ UNCHANGED <<rows, manifest, records, vouched, deliveries, claims, aged,
                     issued, leased, handler, authorised, backup, traffic>>
      /\ wire' = wire \ {m}
      /\ answers' = answers \cup {[claim |-> m.claim, outcome |-> R!Outcome(e)]}
  BY DEF Receive, ledger
<1>4. \/ /\ latest' = {e} /\ sequence' \in Nat
         /\ \A l \in latest : l.revision < e.revision
         /\ \E x \in R!StoredEvent :
              x.event = e /\ events' = Append(events, x)
      \/ /\ R!Outcome(e) \notin {"stored", "advanced"}
         /\ UNCHANGED receiver
  <2>1. CASE R!Outcome(e) \in {"stored", "advanced"}
    <3> DEFINE x == [sequence |-> sequence + 1, event |-> e,
                     previous |-> R!PreviousOf(e)]
    <3>1. /\ sequence' = sequence + 1 /\ events' = Append(events, x)
          /\ latest' = {l \in latest : l.tenant # e.tenant} \cup {e}
      BY <2>1 DEF Receive, R!Store
    <3>2. latest' = {e}
      BY <1>2, <3>1 DEF IInv, ReceiverInv
    <3>3. \A l \in latest : l.revision < e.revision
      BY <1>1, <2>1, OutcomeMeaning
    <3>4. R!PreviousOf(e) \in Nat
      <4>1. CASE events = <<>>
        BY <4>1 DEF R!PreviousOf
      <4>2. CASE events # <<>>
        <5>1. events[Len(events)] \in R!StoredEvent
          BY <4>2 DEF IInv, TypeOK
        <5> QED
          BY <4>2, <5>1 DEF R!PreviousOf, R!Last, R!StoredEvent
      <4> QED
        BY <4>1, <4>2
    <3>5. sequence + 1 \in Nat
      BY DEF IInv, TypeOK
    <3>6. x \in R!StoredEvent /\ x.event = e
      BY <1>2, <3>4, <3>5 DEF R!StoredEvent
    <3> QED
      BY <3>1, <3>2, <3>3, <3>5, <3>6
  <2>2. CASE R!Outcome(e) \notin {"stored", "advanced"}
    BY <2>2 DEF Receive, R!Store, R!store, receiver
  <2> QED
    BY <2>1, <2>2
<1> HIDE DEF e
<1>5. \A l \in latest : l.revision \in Nat
  BY DEF IInv, TypeOK, R!Event
<1> DEFINE ReachedNext(n) == \E l \in latest' : n <= l.revision
<1>6. ASSUME NEW n \in Nat, Reached(n)
      PROVE  ReachedNext(n)
  BY <1>2, <1>4, <1>5, <1>6 DEF Reached, receiver
<1>7. R!Outcome(e) \notin Refusals => ReachedNext(e.revision)
  <2>1. \/ R!Outcome(e) \in {"stored", "advanced"} \cup Refusals
        \/ Reached(e.revision)
    BY <1>1, OutcomeMeaning DEF e
  <2>2. latest' = {e} => ReachedNext(e.revision)
    BY <1>2
  <2> QED
    BY <1>2, <1>4, <1>6, <2>1, <2>2
<1>8. TypeOK'
  <2>1. events' \in Seq(R!StoredEvent)
    <3>1. events \in Seq(R!StoredEvent)
      BY DEF IInv, TypeOK
    <3> QED
      BY <1>4, <3>1 DEF receiver
  <2>2. latest' \subseteq R!Event /\ sequence' \in Nat
    BY <1>2, <1>4 DEF IInv, TypeOK, receiver
  <2> QED
    BY <1>1, <1>3, <2>1, <2>2 DEF IInv, TypeOK
<1>9. HistoryInv'
  BY <1>3 DEF IInv, HistoryInv, AllDeliveries, BackedUp, Leads
<1>10. ReceiverInv'
  <2>1. /\ \A l \in latest' : l.tenant = Tenant /\ l.hash.revision = l.revision
        /\ \A l, k \in latest' : l = k
        /\ traffic' => \A l \in latest' : Leads(l.hash, manifest')
    BY <1>1, <1>2, <1>3, <1>4 DEF IInv, ReceiverInv, receiver
  <2>2. \A i \in DOMAIN events' : ReachedNext(events'[i].event.revision)
    <3>1. ASSUME NEW i \in DOMAIN events
          PROVE  ReachedNext(events[i].event.revision)
      <4>1. events[i] \in R!StoredEvent
        BY DEF IInv, TypeOK
      <4>2. events[i].event.revision \in Nat
        BY <4>1 DEF R!StoredEvent, R!Event
      <4>3. Reached(events[i].event.revision)
        BY DEF IInv, ReceiverInv
      <4> QED
        BY <1>6, <4>2, <4>3
    <3>2. CASE UNCHANGED receiver
      BY <3>1, <3>2 DEF receiver
    <3>3. CASE ~UNCHANGED receiver
      <4>1. PICK x \in R!StoredEvent : x.event = e /\ events' = Append(events, x)
        BY <1>4, <3>3
      <4>2. ReachedNext(e.revision)
        BY <1>2, <1>4, <3>3
      <4>3. events \in Seq(R!StoredEvent)
        BY DEF IInv, TypeOK
      <4>4. ASSUME NEW i \in DOMAIN events'
            PROVE  (i \in DOMAIN events /\ events'[i] = events[i]) \/ events'[i] = x
        BY <4>1, <4>3
      <4> HIDE DEF ReachedNext
      <4> QED
        BY <3>1, <4>1, <4>2, <4>4
    <3> QED
      BY <3>2, <3>3
  <2>3. ASSUME NEW d \in AllDeliveries', d.status = "delivered"
        PROVE  ReachedNext(d.revision)
    <3>1. d \in AllDeliveries
      BY <1>3 DEF AllDeliveries, BackedUp
    <3>2. d.revision \in Nat
      BY <3>1 DEF IInv, TypeOK, AllDeliveries, BackedUp, Saved, S!Delivery
    <3> QED
      BY <1>6, <2>3, <3>1, <3>2 DEF IInv, ReceiverInv
  <2>4. ASSUME NEW a \in answers', a.outcome \notin Refusals
        PROVE  ReachedNext(a.claim.revision)
    <3>1. CASE a \in answers
      <4>1. a.claim.revision \in Nat
        BY <3>1 DEF IInv, TypeOK, S!Claim
      <4> QED
        BY <1>6, <2>4, <3>1, <4>1 DEF IInv, ReceiverInv
    <3>2. CASE a \notin answers
      BY <1>1, <1>2, <1>3, <1>7, <2>4, <3>2
    <3> QED
      BY <3>1, <3>2
  <2> QED
    BY <2>1, <2>2, <2>3, <2>4 DEF ReceiverInv, Reached
<1>11. Checkpoints' \subseteq Checkpoints
  BY <1>2, <1>3, <1>4 DEF Checkpoints, AllDeliveries, BackedUp, receiver
<1>12. KeysInv'
  BY <1>3, <1>11 DEF IInv, KeysInv
<1>13. AuthorisedInv'
  <2>1. \A c \in Checkpoints : c.revision \in Nat
    BY CheckpointsHaveRevisions
  <2>2. ASSUME NEW c \in Checkpoints, \A l \in latest' : l.revision <= c.revision
        PROVE  \A l \in latest : l.revision <= c.revision
    BY <1>2, <1>4, <1>5, <2>1, <2>2 DEF receiver
  <2>3. latest # {} => latest' # {}
    BY <1>4 DEF receiver
  <2> QED
    BY <1>3, <1>11, <2>2, <2>3 DEF IInv, AuthorisedInv, Holds
<1>14. HandlersInv'
  BY <1>3 DEF IInv, HandlersInv, Holds
<1> QED
  BY <1>8, <1>9, <1>10, <1>12, <1>13, <1>14 DEF IInv
-----------------------------------------------------------------------------
(* Changes of the ledger.                                                  *)

LEMMA FiniteRows ==
  ASSUME IInv
  PROVE  IsFiniteSet(rows)
<1> DEFINE f == [r \in rows |-> r.id]
<1>1. manifest \in Checkpoints /\ rows = manifest.accumulator /\ issued \in Nat
  BY DEF IInv, TypeOK, Checkpoints
<1>2. f \in Injection(rows, 1..issued)
  BY <1>1 DEF IInv, KeysInv, Injection, IsInjective
<1>3. IsFiniteSet(1..issued)
  BY <1>1, FS_Interval
<1> HIDE DEF f
<1> QED
  BY <1>2, <1>3, FS_Injection

(* What a ledger operation leaves alone, and what it writes: the rows, a   *)
(* manifest of the next revision that vouches for them, its delivery.      *)
Elsewhere ==
  UNCHANGED <<claims, aged, leased, receiver, wire, answers, backup, traffic>>

Written(acc) ==
  /\ rows' = acc /\ manifest' \in S!Manifest
  /\ manifest'.revision = manifest.revision + 1
  /\ manifest'.accumulator = acc
  /\ deliveries' = deliveries \cup {S!Queued(manifest')}

LEMMA WriteEffect ==
  ASSUME IInv, NEW acc \in SUBSET S!Row, NEW n \in Nat,
         rows' = acc, S!WriteManifest(acc, n)
  PROVE  Written(acc)
<1> DEFINE next == [revision |-> manifest.revision + 1, row_count |-> n,
                    accumulator |-> acc]
<1>1. next \in S!Manifest
  BY DEF IInv, TypeOK, S!Manifest
<1>2. manifest' = next /\ deliveries' = deliveries \cup {S!Queued(next)}
  BY DEF S!WriteManifest, S!NextManifest
<1>3. S!Queued(next) = S!Queued(manifest')
  BY <1>2
<1> QED
  BY <1>1, <1>2, <1>3 DEF Written

(* Every written ledger keeps the invariant, if it keeps what is allowed   *)
(* and what the handlers reserved.                                         *)
LEMMA WrittenPreserves ==
  ASSUME IInv, traffic, Elsewhere,
         NEW acc \in SUBSET S!Row, Written(acc),
         records' \in Seq(S!Record), vouched' \in Seq(S!Record),
         issued' \in Nat, issued <= issued',
         \A r \in acc : r.id \in 1..issued',
         \A r, q \in acc : r.key = q.key \/ r.id = q.id => r = q,
         authorised' \subseteq authorised,
         \A a \in authorised' : Holds(manifest', a),
         handler' \in [Servers -> {Idle} \cup Evaluation],
         HandlersInv'
  PROVE  IInv'
<1> DEFINE new == S!Queued(manifest')
<1>1. /\ new \in S!Delivery /\ new.revision = manifest'.revision
      /\ new.checkpoint = manifest' /\ new.status = "pending"
  BY DEF Written, S!Queued, S!Checkpoint, S!Delivery, S!Manifest
<1>2. /\ manifest' \in S!Manifest /\ rows' = manifest'.accumulator
      /\ manifest'.revision = manifest.revision + 1
      /\ manifest.revision \in Nat /\ manifest'.revision \in Nat
      /\ deliveries' = deliveries \cup {new}
      /\ manifest'.accumulator = acc
  BY DEF IInv, TypeOK, Written, S!Manifest
<1> HIDE DEF new
<1>3. TypeOK'
  <2>1. aged' \subseteq 1..issued'
    BY DEF IInv, TypeOK, Elsewhere
  <2>2. deliveries' \subseteq S!Delivery
    BY <1>1, <1>2 DEF IInv, TypeOK
  <2> QED
    BY <1>2, <2>1, <2>2 DEF IInv, TypeOK, Elsewhere, receiver
<1>4. \A c \in S!Manifest : Leads(c, manifest) => Leads(c, manifest')
  BY <1>2 DEF Leads, S!Manifest
<1>5. /\ \A d \in AllDeliveries' : d \in AllDeliveries \/ d = new
      /\ BackedUp' = BackedUp
  BY <1>2 DEF AllDeliveries, BackedUp, Elsewhere
<1>6. HistoryInv'
  <2>1. \A d \in AllDeliveries' : d.revision = d.checkpoint.revision
    BY <1>1, <1>5 DEF IInv, HistoryInv
  <2>2. Leads(manifest', manifest')
    BY <1>2 DEF Leads
  <2>3. \A d \in deliveries' : Leads(d.checkpoint, manifest')
    BY <1>1, <1>2, <1>4, <2>2 DEF IInv, HistoryInv, TypeOK, S!Delivery
  <2>4. \A w \in wire' : /\ w.claim.revision = w.checkpoint.revision
                         /\ Leads(w.checkpoint, manifest')
    BY <1>4 DEF IInv, HistoryInv, TypeOK, Elsewhere
  <2>5. \A b \in BackedUp' :
          /\ b.rows = b.manifest.accumulator
          /\ Leads(b.manifest, manifest')
          /\ \A d \in b.deliveries : Leads(d.checkpoint, b.manifest)
    BY <1>4, <1>5 DEF IInv, HistoryInv, TypeOK, BackedUp, Saved
  <2> QED
    BY <2>1, <2>3, <2>4, <2>5 DEF HistoryInv
<1>7. ReceiverInv'
  <2>1. \A l \in latest' : Leads(l.hash, manifest')
    BY <1>4 DEF IInv, ReceiverInv, TypeOK, R!Event, Elsewhere, receiver
  <2>2. \A d \in AllDeliveries' : d.status = "delivered" => Reached(d.revision)
    BY <1>1, <1>5 DEF IInv, ReceiverInv
  <2> QED
    BY <2>1, <2>2 DEF IInv, ReceiverInv, Reached, Elsewhere, receiver
<1>8. Checkpoints' \subseteq Checkpoints \cup {manifest'}
  <2>1. \A d \in AllDeliveries' : d.checkpoint \in Checkpoints \cup {manifest'}
    BY <1>1, <1>5 DEF Checkpoints
  <2> QED
    BY <1>5, <2>1 DEF Checkpoints, Elsewhere, receiver
<1>9. KeysInv'
  <2>1. \A c \in Checkpoints : \A r \in c.accumulator : r.id \in 1..issued'
    BY DEF IInv, TypeOK, KeysInv
  <2> QED
    BY <1>2, <1>8, <2>1 DEF IInv, KeysInv
<1>10. AuthorisedInv'
  <2>1. \A a \in authorised' : a.id \in 1..issued' /\ latest' # {}
    BY DEF IInv, AuthorisedInv, TypeOK, Elsewhere, receiver
  <2>2. ASSUME NEW a \in authorised', NEW c \in Checkpoints',
               \A l \in latest : l.revision <= c.revision
        PROVE  Holds(c, a)
    BY <1>8, <2>2 DEF IInv, AuthorisedInv
  <2> QED
    BY <2>1, <2>2 DEF AuthorisedInv, Holds, Elsewhere, receiver
<1> QED
  BY <1>3, <1>6, <1>7, <1>9, <1>10 DEF IInv

(* While traffic is let through, the ledger holds what is allowed.         *)
LEMMA LedgerHolds ==
  ASSUME IInv, traffic
  PROVE  /\ rows = manifest.accumulator /\ rows \subseteq S!Row
         /\ manifest \in S!Manifest /\ issued \in Nat
         /\ \A r \in rows : r.id \in 1..issued
         /\ \A r, q \in rows : r.key = q.key \/ r.id = q.id => r = q
         /\ \A a \in authorised : a.id \in 1..issued /\ Holds(manifest, a)
<1>1. manifest \in Checkpoints /\ manifest \in S!Manifest /\ issued \in Nat
  BY DEF IInv, TypeOK, Checkpoints
<1>2. \A l \in latest : l.revision <= manifest.revision
  BY DEF IInv, ReceiverInv, Leads
<1>3. \A a \in authorised : a.id \in 1..issued /\ Holds(manifest, a)
  BY <1>1, <1>2 DEF IInv, AuthorisedInv
<1> QED
  BY <1>1, <1>3 DEF IInv, TypeOK, KeysInv, S!Manifest

LEMMA EvaluatePreserves ==
  ASSUME IInv, NEW s \in Servers, NEW k \in Keys, NEW f \in Fingerprints,
         Evaluate(s, k, f)
  PROVE  IInv'
<1> DEFINE row == [key |-> k, fingerprint |-> f, state |-> "pending",
                   id |-> issued + 1, described |-> TRUE]
           acc == rows \cup {row}
           new == [phase |-> "reserved", key |-> k, fingerprint |-> f,
                   id |-> issued + 1]
<1>1. /\ traffic /\ handler[s] = Idle /\ S!ReserveResult(k, f) = "new"
      /\ rows' = acc /\ issued' = issued + 1
      /\ S!WriteManifest(S!Xor(manifest.accumulator, {row}),
                         manifest.row_count + 1)
      /\ UNCHANGED <<records, vouched, authorised>> /\ Elsewhere
      /\ handler' = [handler EXCEPT ![s] = new]
  BY DEF Evaluate, S!Reserve, Elsewhere, workers
<1>2. /\ rows = manifest.accumulator /\ rows \subseteq S!Row
      /\ manifest \in S!Manifest /\ issued \in Nat
      /\ \A r \in rows : r.id \in 1..issued
      /\ \A r, q \in rows : r.key = q.key \/ r.id = q.id => r = q
      /\ \A a \in authorised : a.id \in 1..issued /\ Holds(manifest, a)
  BY <1>1, LedgerHolds
<1>3. \A r \in rows : r.key # k
  BY <1>1 DEF S!ReserveResult
<1>4. row \in S!Row /\ row.id = issued + 1 /\ row.key = k /\ row.fingerprint = f
  BY <1>2 DEF S!Row
<1>5. new \in Evaluation /\ new.id = issued + 1 /\ new.key = k /\ new.fingerprint = f
  BY <1>2 DEF Evaluation
<1> HIDE DEF row, new
<1>6. S!Xor(manifest.accumulator, {row}) = acc
  BY <1>2, <1>3, <1>4 DEF S!Xor
<1>7. Written(acc)
  <2>1. acc \in SUBSET S!Row /\ manifest.row_count + 1 \in Nat
    BY <1>2, <1>4 DEF S!Manifest
  <2> QED
    BY <1>1, <1>6, <2>1, WriteEffect
<1>8. Holds(manifest', new) /\ \A a : Holds(manifest, a) => Holds(manifest', a)
  BY <1>2, <1>4, <1>5, <1>7 DEF Written, Holds
<1>9. handler' \in [Servers -> {Idle} \cup Evaluation]
  BY <1>1, <1>5 DEF IInv, TypeOK
<1>10. HandlersInv'
  <2>1. ASSUME NEW t \in Servers, handler'[t] # Idle
        PROVE  \/ t = s /\ handler'[t] = new
               \/ t # s /\ handler'[t] = handler[t]
    BY <1>1 DEF IInv, TypeOK
  <2>2. ASSUME NEW t \in Servers, handler[t] # Idle
        PROVE  /\ handler[t].id \in (1..issued) \ aged
               /\ Holds(manifest, handler[t])
               /\ \A a \in authorised : a.id # handler[t].id
               /\ \A u \in Servers :
                    handler[u] # Idle /\ handler[u].id = handler[t].id => u = t
    BY <2>2 DEF IInv, HandlersInv
  <2>3. issued + 1 \in (1..issued') \ aged
    BY <1>1, <1>2 DEF IInv, TypeOK
  <2>4. ASSUME NEW t \in Servers, handler'[t] # Idle
        PROVE  /\ handler'[t].id \in (1..issued') \ aged
               /\ Holds(manifest', handler'[t])
               /\ \A a \in authorised : a.id # handler'[t].id
               /\ \A u \in Servers :
                    handler'[u] # Idle /\ handler'[u].id = handler'[t].id => u = t
    BY <1>1, <1>2, <1>5, <1>8, <2>1, <2>2, <2>3, <2>4
  <2>5. traffic' /\ aged' = aged /\ authorised' = authorised
    BY <1>1 DEF Elsewhere
  <2> QED
    BY <2>4, <2>5 DEF HandlersInv, Holds
<1>11. /\ \A r \in acc : r.id \in 1..issued'
       /\ \A r, q \in acc : r.key = q.key \/ r.id = q.id => r = q
  BY <1>1, <1>2, <1>3, <1>4
<1>12. issued' \in Nat /\ issued <= issued' /\ acc \in SUBSET S!Row
  BY <1>1, <1>2, <1>4
<1>13. records' \in Seq(S!Record) /\ vouched' \in Seq(S!Record)
  BY <1>1 DEF IInv, TypeOK
<1>14. authorised' \subseteq authorised /\ \A a \in authorised' : Holds(manifest', a)
  BY <1>1, <1>2, <1>8
<1> HIDE DEF acc
<1> QED
  BY <1>1, <1>7, <1>9, <1>10, <1>11, <1>12, <1>13, <1>14, WrittenPreserves

(* A row leaves the ledger that is neither allowed nor a handler's.        *)
LEMMA DeletePreserves ==
  ASSUME IInv, traffic, S!Verified(FALSE), Elsewhere,
         NEW row \in rows, S!DeleteRow(row),
         records' \in Seq(S!Record), vouched' \in Seq(S!Record),
         UNCHANGED <<issued, handler>>,
         authorised' \subseteq authorised,
         \A a \in authorised' : a.id # row.id,
         \A s \in Servers : handler[s] # Idle => handler[s].id # row.id
  PROVE  IInv'
<1> DEFINE acc == rows \ {row}
<1>1. /\ rows = manifest.accumulator /\ rows \subseteq S!Row
      /\ manifest \in S!Manifest /\ issued \in Nat
      /\ \A r \in rows : r.id \in 1..issued
      /\ \A r, q \in rows : r.key = q.key \/ r.id = q.id => r = q
      /\ \A a \in authorised : a.id \in 1..issued /\ Holds(manifest, a)
  BY LedgerHolds
<1>2. S!Xor(manifest.accumulator, {row}) = acc
  BY <1>1 DEF S!Xor
<1>3. manifest.row_count - 1 \in Nat
  <2>1. /\ IsFiniteSet(acc)
        /\ Cardinality(acc) = Cardinality(rows) - 1
    BY FiniteRows, FS_RemoveElement
  <2>2. Cardinality(rows) = manifest.row_count
    BY DEF S!Verified, S!RowsVerify, S!Cardinality, Cardinality
  <2> QED
    BY <2>1, <2>2, FS_CardinalityType
<1>4. rows' = acc /\ S!WriteManifest(acc, manifest.row_count - 1)
  BY <1>2 DEF S!DeleteRow
<1>5. acc \in SUBSET S!Row /\ acc \subseteq rows
  BY <1>1
<1>6. \A a : a.id # row.id /\ Holds(manifest, a) => \E r \in acc :
        r.id = a.id /\ r.key = a.key /\ r.fingerprint = a.fingerprint
  BY <1>1 DEF Holds
<1> HIDE DEF acc
<1>7. Written(acc)
  BY <1>3, <1>4, <1>5, WriteEffect
<1>8. \A a : a.id # row.id /\ Holds(manifest, a) => Holds(manifest', a)
  BY <1>6, <1>7 DEF Written, Holds
<1>9. HandlersInv'
  <2>1. \A s \in Servers : handler[s] # Idle => Holds(manifest', handler[s])
    BY <1>8 DEF IInv, HandlersInv
  <2> QED
    BY <2>1 DEF IInv, HandlersInv, Elsewhere, Holds
<1>10. handler' \in [Servers -> {Idle} \cup Evaluation]
  BY DEF IInv, TypeOK
<1>11. \A a \in authorised' : Holds(manifest', a)
  BY <1>1, <1>8
<1>12. /\ issued' \in Nat /\ issued <= issued'
       /\ \A r \in acc : r.id \in 1..issued'
       /\ \A r, q \in acc : r.key = q.key \/ r.id = q.id => r = q
  BY <1>1, <1>5
<1> QED
  BY <1>5, <1>7, <1>9, <1>10, <1>11, <1>12, WrittenPreserves

(* A pending row becomes completed; whoever it was reserved for has it.    *)
LEMMA CompletePreserves ==
  ASSUME IInv, traffic, Elsewhere,
         NEW row \in rows, row.state = "pending", S!CompleteRow(row),
         records' \in Seq(S!Record), vouched' \in Seq(S!Record),
         UNCHANGED <<issued, handler, authorised>>
  PROVE  IInv'
<1> DEFINE completed == [row EXCEPT !.state = "completed"]
           acc == (rows \ {row}) \cup {completed}
<1>1. /\ rows = manifest.accumulator /\ rows \subseteq S!Row
      /\ manifest \in S!Manifest /\ issued \in Nat
      /\ \A r \in rows : r.id \in 1..issued
      /\ \A r, q \in rows : r.key = q.key \/ r.id = q.id => r = q
      /\ \A a \in authorised : a.id \in 1..issued /\ Holds(manifest, a)
  BY LedgerHolds
<1>2. /\ completed \in S!Row /\ completed # row /\ completed.id = row.id
      /\ completed.key = row.key /\ completed.fingerprint = row.fingerprint
  BY <1>1 DEF S!Row
<1>3. rows' = acc /\ S!WriteManifest(
        S!Xor(S!Xor(manifest.accumulator, {row}), {completed}),
        manifest.row_count)
  BY DEF S!CompleteRow
<1> HIDE DEF completed
<1>4. S!Xor(S!Xor(manifest.accumulator, {row}), {completed}) = acc
  <2>1. completed \notin rows
    BY <1>1, <1>2
  <2>2. S!Xor(manifest.accumulator, {row}) = rows \ {row}
    BY <1>1 DEF S!Xor
  <2> QED
    BY <2>1, <2>2 DEF S!Xor
<1>5. acc \in SUBSET S!Row /\ manifest.row_count \in Nat
  BY <1>1, <1>2 DEF S!Manifest
<1>6. Written(acc)
  <2> HIDE DEF acc
  <2> QED
    BY <1>3, <1>4, <1>5, WriteEffect
<1>7. \A a : Holds(manifest, a) => Holds(manifest', a)
  BY <1>1, <1>2, <1>6 DEF Written, Holds
<1>8. HandlersInv'
  <2>1. \A s \in Servers : handler[s] # Idle => Holds(manifest', handler[s])
    BY <1>7 DEF IInv, HandlersInv
  <2> QED
    BY <2>1 DEF IInv, HandlersInv, Elsewhere, Holds
<1>9. handler' \in [Servers -> {Idle} \cup Evaluation]
  BY DEF IInv, TypeOK
<1>10. authorised' \subseteq authorised /\ \A a \in authorised' : Holds(manifest', a)
  BY <1>1, <1>7
<1>11. /\ \A r \in acc : r.id \in 1..issued'
       /\ \A r, q \in acc : r.key = q.key \/ r.id = q.id => r = q
  BY <1>1, <1>2
<1>12. issued' \in Nat /\ issued <= issued'
  BY <1>1
<1> HIDE DEF acc
<1> QED
  BY <1>5, <1>6, <1>8, <1>9, <1>10, <1>11, <1>12, WrittenPreserves

LEMMA CallersPreserve ==
  ASSUME IInv, NEW a \in authorised, CallerCompletes(a) \/ CallerReleases(a)
  PROVE  IInv'
<1>1. traffic /\ Elsewhere /\ UNCHANGED <<records, vouched, issued, handler>>
  BY DEF CallerCompletes, CallerReleases, S!Complete, S!Release, Elsewhere, workers
<1>2. records' \in Seq(S!Record) /\ vouched' \in Seq(S!Record)
  BY <1>1 DEF IInv, TypeOK
<1>3. CASE CallerCompletes(a)
  <2>1. PICK row \in rows : row.state = "pending" /\ S!CompleteRow(row)
    BY <1>3 DEF CallerCompletes, S!Complete, S!Matching
  <2>2. UNCHANGED authorised
    BY <1>3 DEF CallerCompletes
  <2> QED
    BY <1>1, <1>2, <2>1, <2>2, CompletePreserves
<1>4. CASE CallerReleases(a)
  <2>1. PICK row \in rows :
          row.key = a.key /\ row.fingerprint = a.fingerprint /\ S!DeleteRow(row)
    BY <1>4 DEF CallerReleases, S!Release, S!Matching
  <2>2. S!Verified(FALSE) /\ authorised' = authorised \ {a}
    BY <1>4 DEF CallerReleases, S!Release
  <2>3. /\ rows = manifest.accumulator
        /\ \A r, q \in rows : r.key = q.key \/ r.id = q.id => r = q
        /\ \A b \in authorised : Holds(manifest, b)
    BY <1>1, LedgerHolds
  <2>4. row.id = a.id
    BY <2>1, <2>3 DEF Holds
  <2>5. ASSUME NEW b \in authorised, b.id = row.id
        PROVE  b = a
    <3>1. PICK r \in rows :
            r.id = b.id /\ r.key = b.key /\ r.fingerprint = b.fingerprint
      BY <2>3 DEF Holds
    <3>2. r = row
      BY <2>3, <2>5, <3>1
    <3>3. a \in Reservation /\ b \in Reservation
      BY DEF IInv, TypeOK
    <3> QED
      BY <2>1, <2>4, <2>5, <3>1, <3>2, <3>3 DEF Reservation
  <2>6. \A b \in authorised' : b.id # row.id
    BY <2>2, <2>5
  <2>7. \A s \in Servers : handler[s] # Idle => handler[s].id # row.id
    BY <2>4 DEF IInv, HandlersInv
  <2> QED
    BY <1>1, <1>2, <2>1, <2>2, <2>6, <2>7, DeletePreserves
<1> QED
  BY <1>3, <1>4

LEMMA ReconcilePreserves ==
  ASSUME IInv, NEW id \in 1..issued, Reconcile(id)
  PROVE  IInv'
<1> DEFINE outcome == IF \E a \in authorised : a.id = id
                      THEN "confirmed_executed" ELSE "confirmed_not_executed"
<1>1. /\ traffic /\ Elsewhere /\ UNCHANGED <<issued, handler, authorised>>
      /\ S!Verified(FALSE) /\ id \in aged
  BY DEF Reconcile, S!Reconcile, Elsewhere, workers
<1>2. PICK row \in rows :
        /\ row.id = id /\ row.state = "pending"
        /\ records' = Append(records, [reservation |-> id, key |-> row.key,
                                       outcome |-> outcome])
        /\ vouched' = Append(vouched, [reservation |-> id, key |-> row.key,
                                       outcome |-> outcome])
        /\ IF outcome = "confirmed_not_executed"
           THEN S!DeleteRow(row) ELSE S!CompleteRow(row)
  BY DEF Reconcile, S!Reconcile
<1>3. row \in S!Row
  BY <1>1, LedgerHolds
<1>4. records' \in Seq(S!Record) /\ vouched' \in Seq(S!Record)
  <2>1. [reservation |-> id, key |-> row.key, outcome |-> outcome] \in S!Record
    BY <1>3 DEF S!Record, S!Row
  <2>2. records \in Seq(S!Record) /\ vouched \in Seq(S!Record)
    BY DEF IInv, TypeOK
  <2> HIDE DEF outcome
  <2> QED
    BY <1>2, <2>1, <2>2
<1>5. CASE \E a \in authorised : a.id = id
  <2>1. S!CompleteRow(row)
    BY <1>2, <1>5
  <2> QED
    BY <1>1, <1>2, <1>4, <2>1, CompletePreserves
<1>6. CASE ~\E a \in authorised : a.id = id
  <2>1. S!DeleteRow(row)
    BY <1>2, <1>6
  <2>2. \A a \in authorised' : a.id # row.id
    BY <1>1, <1>2, <1>6
  <2>3. \A s \in Servers : handler[s] # Idle => handler[s].id # row.id
    BY <1>1, <1>2 DEF IInv, HandlersInv
  <2>4. authorised' \subseteq authorised
    BY <1>1
  <2> QED
    BY <1>1, <1>2, <1>4, <2>1, <2>2, <2>3, <2>4, DeletePreserves
<1> QED
  BY <1>5, <1>6

(* The second acknowledgement decides: the receiver has the checkpoint     *)
(* that the ledger has now, so whatever is level with it holds the         *)
(* reservation.                                                            *)
LEMMA AnswerPreserves ==
  ASSUME IInv, NEW s \in Servers, Answer(s)
  PROVE  IInv'
<1> DEFINE a == [key |-> handler[s].key, fingerprint |-> handler[s].fingerprint,
                 id |-> handler[s].id]
<1>1. /\ UNCHANGED <<ledger, receiver, workers, backup, traffic>>
      /\ authorised' = authorised \cup {a}
      /\ handler' = [handler EXCEPT ![s] = Idle]
  BY DEF Answer
<1>2. handler[s] # Idle /\ handler[s] \in Evaluation
  BY DEF IInv, TypeOK, Answer, Idle
<1>3. /\ a \in Reservation /\ a.id = handler[s].id /\ a.key = handler[s].key
      /\ a.fingerprint = handler[s].fingerprint
  BY <1>2 DEF Evaluation, Reservation
<1> HIDE DEF a
<1>4. PICK d \in deliveries :
        d.revision = manifest.revision /\ d.status = "delivered"
  BY DEF Answer, S!AnchorAcknowledged
<1>5. PICK l \in latest : manifest.revision <= l.revision
  <2>1. d \in AllDeliveries
    BY DEF AllDeliveries
  <2> QED
    BY <1>4, <2>1 DEF IInv, ReceiverInv, Reached
<1>6. traffic /\ Holds(manifest, a)
  BY <1>2, <1>3 DEF IInv, HandlersInv, Holds
<1>7. manifest.revision \in Nat /\ l.revision = manifest.revision
  BY <1>5, <1>6 DEF IInv, TypeOK, ReceiverInv, Leads, R!Event, S!Manifest
<1>8. ASSUME NEW c \in Checkpoints
      PROVE  Leads(c, manifest)
  <2>1. CASE c = manifest
    BY <1>7, <2>1 DEF Leads
  <2>2. CASE c \in {x.checkpoint : x \in deliveries} \cup {w.checkpoint : w \in wire}
    BY <2>2 DEF IInv, HistoryInv
  <2>3. CASE c \in {x.hash : x \in latest}
    BY <1>6, <2>3 DEF IInv, ReceiverInv
  <2>4. CASE \E b \in BackedUp :
               c = b.manifest \/ c \in {x.checkpoint : x \in b.deliveries}
    <3>1. PICK b \in BackedUp :
            c = b.manifest \/ c \in {x.checkpoint : x \in b.deliveries}
      BY <2>4
    <3>2. b \in Saved
      BY DEF IInv, TypeOK, BackedUp
    <3>3. b.manifest.revision \in Nat
      BY <3>2 DEF Saved, S!Manifest
    <3>4. c \in S!Manifest
      BY <3>1, <3>2 DEF Saved, S!Delivery
    <3>5. c.revision \in Nat
      BY <3>4 DEF S!Manifest
    <3>6. Leads(b.manifest, manifest) /\ (c = b.manifest \/ Leads(c, b.manifest))
      BY <3>1 DEF IInv, HistoryInv
    <3> QED
      BY <1>7, <3>3, <3>5, <3>6 DEF Leads
  <2> QED
    BY <2>1, <2>2, <2>3, <2>4 DEF Checkpoints, AllDeliveries
<1>9. ASSUME NEW c \in Checkpoints, \A x \in latest : x.revision <= c.revision
      PROVE  Holds(c, a)
  <2>1. c.revision <= manifest.revision /\ manifest.revision <= c.revision
    BY <1>7, <1>8, <1>9 DEF Leads
  <2>2. c.revision \in Nat
    BY CheckpointsHaveRevisions
  <2>3. c = manifest
    BY <1>7, <1>8, <2>1, <2>2 DEF Leads
  <2> QED
    BY <1>6, <2>3
<1>10. HandlersStay
  BY <1>1, OneHandlerEnds
<1>11. TypeOK'
  BY <1>1, <1>3, <1>10
  DEF IInv, TypeOK, HandlersStay, ledger, receiver, workers
<1>12. HistoryInv'
  BY <1>1 DEF IInv, HistoryInv, AllDeliveries, BackedUp, Leads, ledger, workers
<1>13. ReceiverInv'
  BY <1>1 DEF IInv, ReceiverInv, AllDeliveries, BackedUp, Reached, Leads, ledger,
              receiver, workers
<1>14. Checkpoints' = Checkpoints
  BY <1>1 DEF Checkpoints, AllDeliveries, BackedUp, ledger, receiver, workers
<1>15. KeysInv'
  BY <1>1, <1>14 DEF IInv, KeysInv, ledger
<1>16. AuthorisedInv'
  <2>1. a.id \in 1..issued
    BY <1>2, <1>3 DEF IInv, HandlersInv
  <2>2. ASSUME NEW b \in authorised'
        PROVE  /\ b.id \in 1..issued /\ latest # {}
               /\ \A c \in Checkpoints :
                    (\A x \in latest : x.revision <= c.revision) => Holds(c, b)
    BY <1>1, <1>5, <1>9, <2>1 DEF IInv, AuthorisedInv
  <2> QED
    BY <1>1, <1>14, <2>2 DEF AuthorisedInv, Holds, ledger, receiver
<1>17. HandlersInv'
  <2>1. ASSUME NEW t \in Servers, handler'[t] # Idle
        PROVE  t # s /\ handler'[t] = handler[t] /\ handler[t] # Idle
    BY <1>1, <2>1 DEF IInv, TypeOK
  <2>2. \A t \in Servers : handler'[t] # Idle => a.id # handler'[t].id
    BY <1>2, <1>3, <2>1 DEF IInv, HandlersInv
  <2>3. UNCHANGED <<traffic, issued, aged, manifest>>
    BY <1>1 DEF ledger
  <2> QED
    BY <1>1, <2>1, <2>2, <2>3 DEF IInv, HandlersInv, Holds
<1> QED
  BY <1>11, <1>12, <1>13, <1>15, <1>16, <1>17 DEF IInv

LEMMA AgesPreserves ==
  ASSUME IInv, NEW id \in 1..issued, ReservationAges(id)
  PROVE  IInv'
<1>1. /\ aged' = aged \cup {id}
      /\ UNCHANGED <<rows, manifest, records, vouched, deliveries, claims,
                     issued, leased, receiver, handler, workers, authorised,
                     backup, traffic>>
      /\ \A s \in Servers : handler[s] # Idle => handler[s].id # id
  BY DEF ReservationAges, S!ReservationAges, S!ledgerVars, S!outboxVars
<1>2. TypeOK'
  BY <1>1 DEF IInv, TypeOK, receiver, workers
<1>3. HistoryInv'
  BY <1>1 DEF IInv, HistoryInv, AllDeliveries, BackedUp, Leads, workers
<1>4. ReceiverInv'
  BY <1>1 DEF IInv, ReceiverInv, AllDeliveries, BackedUp, Reached, Leads,
              receiver, workers
<1>5. Checkpoints' = Checkpoints
  BY <1>1 DEF Checkpoints, AllDeliveries, BackedUp, receiver, workers
<1>6. KeysInv'
  BY <1>1, <1>5 DEF IInv, KeysInv
<1>7. AuthorisedInv'
  BY <1>1, <1>5 DEF IInv, AuthorisedInv, Holds, receiver
<1>8. HandlersInv'
  BY <1>1 DEF IInv, HandlersInv, Holds
<1> QED
  BY <1>2, <1>3, <1>4, <1>6, <1>7, <1>8 DEF IInv
-----------------------------------------------------------------------------
(* Backups and restores.                                                   *)

LEMMA TakeBackupPreserves ==
  ASSUME IInv, TakeBackup
  PROVE  IInv'
<1> DEFINE b == [rows |-> rows, manifest |-> manifest, records |-> records,
                 vouched |-> vouched, deliveries |-> deliveries]
<1>1. /\ backup' = b
      /\ UNCHANGED <<rows, manifest, records, vouched, deliveries, claims, aged,
                     issued, leased, receiver, handler, workers, authorised,
                     traffic>>
  BY DEF TakeBackup, ledger
<1>2. /\ b \in Saved /\ b.rows = rows /\ b.manifest = manifest
      /\ b.deliveries = deliveries
  BY DEF IInv, TypeOK, Saved, S!Manifest
<1> HIDE DEF b
<1>3. BackedUp' \subseteq {b}
  BY <1>1 DEF BackedUp
<1>4. TypeOK'
  BY <1>1, <1>2 DEF IInv, TypeOK, receiver, workers
<1>5. AllDeliveries' \subseteq deliveries
  BY <1>1, <1>2, <1>3 DEF AllDeliveries
<1>6. Leads(manifest, manifest)
  BY DEF IInv, TypeOK, S!Manifest, Leads
<1>7. HistoryInv'
  <2>1. \A d \in AllDeliveries' : d.revision = d.checkpoint.revision
    BY <1>5 DEF IInv, HistoryInv, AllDeliveries
  <2>2. \A x \in BackedUp' :
          /\ x.rows = x.manifest.accumulator
          /\ Leads(x.manifest, manifest)
          /\ \A d \in x.deliveries : Leads(d.checkpoint, x.manifest)
    BY <1>2, <1>3, <1>6 DEF IInv, HistoryInv, TypeOK
  <2> QED
    BY <1>1, <2>1, <2>2 DEF IInv, HistoryInv, Leads, workers
<1>8. ReceiverInv'
  <2>1. \A d \in AllDeliveries' : d.status = "delivered" => Reached(d.revision)
    BY <1>5 DEF IInv, ReceiverInv, AllDeliveries
  <2> QED
    BY <1>1, <2>1 DEF IInv, ReceiverInv, Reached, Leads, receiver, workers
<1>9. Checkpoints' \subseteq Checkpoints
  <2>1. \A d \in AllDeliveries' : d.checkpoint \in Checkpoints
    BY <1>5 DEF Checkpoints, AllDeliveries
  <2> QED
    BY <1>1, <1>2, <1>3, <2>1 DEF Checkpoints, receiver, workers
<1>10. KeysInv'
  BY <1>1, <1>9 DEF IInv, KeysInv
<1>11. AuthorisedInv'
  BY <1>1, <1>9 DEF IInv, AuthorisedInv, Holds, receiver
<1>12. HandlersInv'
  BY <1>1 DEF IInv, HandlersInv, Holds
<1> QED
  BY <1>4, <1>7, <1>8, <1>10, <1>11, <1>12 DEF IInv

LEMMA RestorePreserves ==
  ASSUME IInv, Restore
  PROVE  IInv'
<1>1. backup # NoBackup /\ backup \in Saved /\ BackedUp = {backup}
  BY DEF IInv, TypeOK, Restore, BackedUp
<1>2. /\ rows' = backup.rows /\ manifest' = backup.manifest
      /\ records' = backup.records /\ vouched' = backup.vouched
      /\ deliveries' = backup.deliveries
      /\ backup' = NoBackup /\ traffic' = FALSE /\ wire' = {}
      /\ UNCHANGED <<aged, issued, leased, receiver, authorised>>
      /\ handler' = [s \in Servers |-> Idle]
      /\ claims' \subseteq claims /\ answers' \subseteq answers
  BY DEF Restore, Stopped
<1>3. BackedUp' = {} /\ AllDeliveries' = backup.deliveries
  BY <1>2 DEF BackedUp, AllDeliveries
<1>4. backup.deliveries \subseteq AllDeliveries
  BY <1>1 DEF AllDeliveries
<1>5. TypeOK'
  <2>1. /\ manifest' \in S!Manifest /\ records' \in Seq(S!Record)
        /\ vouched' \in Seq(S!Record) /\ deliveries' \subseteq S!Delivery
    BY <1>1, <1>2 DEF Saved
  <2>2. rows' = manifest'.accumulator
    BY <1>1, <1>2 DEF IInv, HistoryInv
  <2>3. /\ claims' \subseteq S!Claim /\ \A a \in answers' : a.claim \in S!Claim
        /\ handler' \in [Servers -> {Idle} \cup Evaluation]
    BY <1>2 DEF IInv, TypeOK
  <2> QED
    BY <1>2, <2>1, <2>2, <2>3 DEF IInv, TypeOK, receiver
<1>6. HistoryInv'
  BY <1>1, <1>2, <1>3, <1>4 DEF IInv, HistoryInv
<1>7. ReceiverInv'
  BY <1>2, <1>3, <1>4 DEF IInv, ReceiverInv, Reached, receiver
<1>8. Checkpoints' \subseteq Checkpoints
  BY <1>1, <1>2, <1>3, <1>4 DEF Checkpoints, receiver
<1>9. KeysInv'
  BY <1>2, <1>8 DEF IInv, KeysInv
<1>10. AuthorisedInv'
  BY <1>2, <1>8 DEF IInv, AuthorisedInv, Holds, receiver
<1>11. HandlersInv'
  BY <1>2 DEF HandlersInv
<1> QED
  BY <1>5, <1>6, <1>7, <1>9, <1>10, <1>11 DEF IInv

(* The comparison is what lets traffic through again.                      *)
LEMMA ResumePreserves ==
  ASSUME IInv, Resume
  PROVE  IInv'
<1>1. /\ traffic' = TRUE
      /\ UNCHANGED <<rows, manifest, records, vouched, deliveries, claims, aged,
                     issued, leased, receiver, handler, workers, authorised,
                     backup>>
  BY DEF Resume, ledger
<1>2. TypeOK'
  BY <1>1 DEF IInv, TypeOK, receiver, workers
<1>3. HistoryInv'
  BY <1>1 DEF IInv, HistoryInv, AllDeliveries, BackedUp, Leads, workers
<1>4. \A l \in latest : Leads(l.hash, manifest)
  <2>1. ASSUME NEW l \in latest
        PROVE  Leads(l.hash, manifest)
    <3>1. CompareCheckpoint(l) \in {"same", "advanced"}
      BY DEF Resume
    <3>2. l.revision \in Nat /\ manifest.revision \in Nat /\ l.hash.revision = l.revision
      BY DEF IInv, TypeOK, ReceiverInv, R!Event, S!Manifest
    <3>3. CASE manifest.revision < l.revision
      BY <3>1, <3>2, <3>3 DEF CompareCheckpoint
    <3>4. CASE manifest.revision > l.revision
      BY <3>2, <3>4 DEF Leads
    <3>5. CASE manifest.revision = l.revision
      <4>1. l.hash = manifest
        BY <3>1, <3>2, <3>5 DEF CompareCheckpoint, S!Checkpoint
      <4> QED
        BY <3>2, <3>5, <4>1 DEF Leads
    <3> QED
      BY <3>2, <3>3, <3>4, <3>5
  <2> QED
    BY <2>1
<1>5. ReceiverInv'
  BY <1>1, <1>4 DEF IInv, ReceiverInv, AllDeliveries, BackedUp, Reached, Leads,
                    receiver, workers
<1>6. Checkpoints' = Checkpoints
  BY <1>1 DEF Checkpoints, AllDeliveries, BackedUp, receiver, workers
<1>7. KeysInv'
  BY <1>1, <1>6 DEF IInv, KeysInv
<1>8. AuthorisedInv'
  BY <1>1, <1>6 DEF IInv, AuthorisedInv, Holds, receiver
<1>9. HandlersInv'
  BY <1>1 DEF IInv, HandlersInv, Holds
<1> QED
  BY <1>2, <1>3, <1>5, <1>7, <1>8, <1>9 DEF IInv
-----------------------------------------------------------------------------
LEMMA StutterPreserves ==
  ASSUME IInv, UNCHANGED vars
  PROVE  IInv'
BY Unchanged, UnchangedClaims, QuietStep DEF vars, ledger, workers

LEMMA NextIInv == IInv /\ [Next]_vars => IInv'
<1> SUFFICES ASSUME IInv, [Next]_vars PROVE IInv'
  OBVIOUS
<1>1. CASE Handling
  BY <1>1, EvaluatePreserves, FirstCheckPreserves, AnswerPreserves, EndingsPreserve
  DEF Handling
<1>2. CASE Dispatching
  BY <1>2, DispatchesPreserve, ClaimPreserves, FinishPreserves, ReceivePreserves,
     LoseRequestPreserves, ClockAndRedrivePreserve
  DEF Dispatching
<1>3. CASE Settling
  BY <1>3, CallersPreserve, AgesPreserves, ReconcilePreserves DEF Settling
<1>4. CASE Recovering
  BY <1>4, CrashPreserves, TakeBackupPreserves, RestorePreserves, ResumePreserves
  DEF Recovering
<1>5. CASE UNCHANGED vars
  BY <1>5, StutterPreserves
<1> QED
  BY <1>1, <1>2, <1>3, <1>4, <1>5 DEF Next

(* Wherever a checkpoint is kept, in the ledger, the outbox, on its way,   *)
(* at the receiver or in a backup, IInv says how it relates to the others. *)
THEOREM Invariance == Spec => []IInv
<1> QED
  BY InitIInv, NextIInv, PTL DEF Spec

(* No key is ever allowed twice: not by two replicas, not after a crash,   *)
(* a lost answer or a late one, and not by a database that was restored    *)
(* from a backup, for any number of them.                                  *)
THEOREM NothingIsAllowedTwice == Spec => []AllowedOnce
<1>1. IInv => AllowedOnce
  <2> SUFFICES ASSUME IInv, NEW a \in authorised, NEW b \in authorised,
                      a.key = b.key
               PROVE  a = b
    BY DEF AllowedOnce
  <2>1. PICK l \in latest : TRUE
    BY DEF IInv, AuthorisedInv
  <2>2. /\ l.hash \in Checkpoints /\ l.revision \in Nat
        /\ \A x \in latest : x.revision <= l.hash.revision
    BY DEF IInv, TypeOK, ReceiverInv, Checkpoints, R!Event
  <2>3. Holds(l.hash, a) /\ Holds(l.hash, b)
    BY <2>2 DEF IInv, AuthorisedInv
  <2>4. a.id = b.id /\ a.fingerprint = b.fingerprint
    BY <2>2, <2>3 DEF IInv, KeysInv, Holds
  <2>5. a \in Reservation /\ b \in Reservation
    BY DEF IInv, TypeOK
  <2> QED
    BY <2>4, <2>5 DEF Reservation
<1> QED
  BY <1>1, Invariance, PTL

(* The checkpoint that the receiver retains covers every reservation that  *)
(* a caller was told is allowed.                                           *)
THEOREM ReceiverAlwaysRemembers == Spec => []ReceiverRemembers
<1>1. IInv => ReceiverRemembers
  <2> SUFFICES ASSUME IInv, NEW a \in authorised
               PROVE  \E l \in latest : \E r \in l.hash.accumulator :
                        r.id = a.id /\ r.key = a.key
    BY DEF ReceiverRemembers
  <2>1. PICK l \in latest : TRUE
    BY DEF IInv, AuthorisedInv
  <2>2. /\ l.hash \in Checkpoints /\ l.revision \in Nat
        /\ \A x \in latest : x.revision <= l.hash.revision
    BY DEF IInv, TypeOK, ReceiverInv, Checkpoints, R!Event
  <2>3. Holds(l.hash, a)
    BY <2>2 DEF IInv, AuthorisedInv
  <2> QED
    BY <2>3 DEF Holds
<1> QED
  BY <1>1, Invariance, PTL

(* While action traffic is let through, the ledger has the key of every    *)
(* allowed reservation, so the next request for it is a duplicate.         *)
THEOREM LedgerAlwaysHolds == Spec => []AllowedIsHeld
<1>1. IInv => AllowedIsHeld
  BY LedgerHolds DEF AllowedIsHeld, Holds
<1> QED
  BY <1>1, Invariance, PTL
=============================================================================
