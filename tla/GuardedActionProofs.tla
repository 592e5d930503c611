------------------------- MODULE GuardedActionProofs -------------------------
(***************************************************************************)
(* What holds of guarded actions for every number of callers, keys,        *)
(* attempts, approvers and challenges, in all three modes and under any    *)
(* policy of a local application.                                          *)
(***************************************************************************)
EXTENDS GuardedAction, FiniteSetTheorems, TLAPS

-----------------------------------------------------------------------------
(* The approvals.                                                          *)

(* A challenge is replaced by a new state of itself.                       *)
LEMMA PutKeeps ==
  ASSUME ApprovalsTypeOK, ChallengesInv,
         NEW ch \in challenges, NEW new \in Challenge,
         new.id = ch.id, new.status # "approved" => new.approver = {},
         Put(ch, new)
  PROVE  challenges' \subseteq Challenge /\ ChallengesInv'
<1>1. challenges' = (challenges \ {ch}) \cup {new}
  BY DEF Put
<1>2. new \notin challenges \ {ch}
  BY DEF ChallengesInv
<1>3. /\ IsFiniteSet(challenges \ {ch})
      /\ Cardinality(challenges \ {ch}) = Cardinality(challenges) - 1
  BY FS_RemoveElement DEF ChallengesInv
<1>4. /\ IsFiniteSet(challenges')
      /\ Cardinality(challenges') = Cardinality(challenges \ {ch}) + 1
  BY <1>1, <1>2, <1>3, FS_AddElement
<1>5. Cardinality(challenges) \in Nat
  BY FS_CardinalityType DEF ChallengesInv
<1>6. Cardinality(challenges') = Cardinality(challenges)
  BY <1>3, <1>4, <1>5
<1>7. \A x \in challenges' : x = new \/ (x \in challenges /\ x.id # ch.id)
  BY <1>1 DEF ChallengesInv
<1>8. ASSUME NEW x \in challenges'
      PROVE  /\ x.id \in 1..Cardinality(challenges)
             /\ x.status # "approved" => x.approver = {}
  BY <1>7 DEF ChallengesInv
<1>9. \A x, y \in challenges' : x.id = y.id => x = y
  BY <1>7 DEF ChallengesInv
<1> QED
  BY <1>1, <1>4, <1>6, <1>8, <1>9 DEF ChallengesInv, ApprovalsTypeOK

(* What every operation on the approvals leaves behind.                    *)
LEMMA ApprovalsStep ==
  ASSUME ApprovalsTypeOK, ChallengesInv, ApprovalsNext
  PROVE  /\ ApprovalsTypeOK' /\ ChallengesInv'
         /\ \A ch \in challenges : \E new \in challenges' :
              /\ new.id = ch.id /\ new.binding = ch.binding
              /\ new.status # "revoked" => Evidence(ch) \subseteq Evidence(new)
              /\ ch.status = "revoked" =>
                   new.status = "revoked" /\ Evidence(new) = {}
<1> DEFINE Lasts(ch, new) ==
      /\ new.id = ch.id /\ new.binding = ch.binding
      /\ new.status # "revoked" => Evidence(ch) \subseteq Evidence(new)
      /\ ch.status = "revoked" => new.status = "revoked" /\ Evidence(new) = {}
<1>0. \A ch \in challenges : Lasts(ch, ch)
  BY DEF Evidence, ChallengesInv
<1>1. ASSUME NEW a \in Actions, UpsertDescriptor(a)
      PROVE  ApprovalsTypeOK' /\ ChallengesInv' /\ challenges' = challenges
  <2>1. Cardinality({a}) <= 1
    BY FS_Singleton
  <2>2. changes + 1 \in Nat
    BY DEF ApprovalsTypeOK
  <2> QED
    BY <1>1, <2>1, <2>2 DEF UpsertDescriptor, ApprovalsTypeOK, ChallengesInv
<1>2. ASSUME NEW d \in decisions, RecordChallenge(d)
      PROVE  ApprovalsTypeOK' /\ ChallengesInv' /\ challenges \subseteq challenges'
  <2>1. PICK a \in descriptor : challenges' = challenges \cup
         {[id |-> Cardinality(challenges) + 1, binding |-> Binding(d, a),
           status |-> "pending", approver |-> {}, live |-> TRUE]}
    BY <1>2 DEF RecordChallenge
  <2> DEFINE new == [id |-> Cardinality(challenges) + 1, binding |-> Binding(d, a),
                     status |-> "pending", approver |-> {}, live |-> TRUE]
  <2>2. a \in Action /\ d \in Decision
    BY ApprovalAssumption DEF ApprovalsTypeOK
  <2>3. Binding(d, a) \in Bindings
    BY <2>2 DEF Binding, Bindings, Action, Decision
  <2>4. Cardinality(challenges) \in Nat
    BY FS_CardinalityType DEF ChallengesInv
  <2>5. new \in Challenge /\ new \notin challenges
    BY <2>3, <2>4 DEF Challenge, ChallengesInv
  <2>6. /\ IsFiniteSet(challenges')
        /\ Cardinality(challenges') = Cardinality(challenges) + 1
    BY <2>1, <2>5, FS_AddElement DEF ChallengesInv
  <2>7. ApprovalsTypeOK'
    BY <1>2, <2>1, <2>5 DEF RecordChallenge, ApprovalsTypeOK
  <2>8. \A x \in challenges' :
          x = new \/ (x \in challenges /\ x.id \in 1..Cardinality(challenges))
    BY <2>1 DEF ChallengesInv
  <2>9. ASSUME NEW x \in challenges'
        PROVE  /\ x.id \in 1..(Cardinality(challenges) + 1)
               /\ x.status # "approved" => x.approver = {}
    BY <2>4, <2>8 DEF ChallengesInv
  <2>10. ASSUME NEW x \in challenges', NEW y \in challenges', x.id = y.id
         PROVE  x = y
    <3>1. new.id = Cardinality(challenges) + 1
      OBVIOUS
    <3> HIDE DEF new
    <3>2. CASE x = new \/ y = new
      BY <2>4, <2>8, <2>10, <3>1, <3>2
    <3>3. CASE x \in challenges /\ y \in challenges
      BY <2>10, <3>3 DEF ChallengesInv
    <3> QED
      BY <2>8, <3>2, <3>3
  <2>11. ChallengesInv'
    BY <2>6, <2>9, <2>10 DEF ChallengesInv
  <2> QED
    BY <2>1, <2>7, <2>11
<1>3. ASSUME NEW ch \in challenges, NEW p \in Approvers, Approve(ch, p)
      PROVE  \E new \in Challenge :
               /\ Put(ch, new) /\ Lasts(ch, new)
               /\ new.status # "approved" => new.approver = {}
  <2> DEFINE new == [ch EXCEPT !.status = "approved", !.approver = {p}]
  <2>1. new \in Challenge /\ Put(ch, new) /\ new.id = ch.id
          /\ new.binding = ch.binding /\ new.status = "approved"
    BY <1>3 DEF Approve, Challenge, ApprovalsTypeOK
  <2>2. ch.status = "pending" /\ Evidence(ch) = {}
    BY <1>3 DEF Approve, ChallengesInv, Evidence
  <2> QED
    BY <2>1, <2>2
<1>4. ASSUME NEW ch \in challenges, Revoke(ch)
      PROVE  \E new \in Challenge :
               /\ Put(ch, new) /\ Lasts(ch, new)
               /\ new.status # "approved" => new.approver = {}
  <2> DEFINE new == [ch EXCEPT !.status = "revoked", !.approver = {}]
  <2>1. new \in Challenge /\ Put(ch, new) /\ new.id = ch.id
          /\ new.binding = ch.binding /\ new.status = "revoked"
          /\ new.approver = {}
    BY <1>4 DEF Revoke, Challenge, ApprovalsTypeOK
  <2> QED
    BY <2>1 DEF Evidence
<1>5. ASSUME NEW ch \in challenges, ChallengeExpires(ch)
      PROVE  \E new \in Challenge :
               /\ Put(ch, new) /\ Lasts(ch, new)
               /\ new.status # "approved" => new.approver = {}
  <2> DEFINE new == [ch EXCEPT !.live = FALSE]
  <2>1. new \in Challenge /\ Put(ch, new) /\ new.id = ch.id
          /\ new.binding = ch.binding /\ new.status = ch.status
          /\ new.approver = ch.approver
    BY <1>5 DEF ChallengeExpires, Challenge, ApprovalsTypeOK
  <2> QED
    BY <2>1 DEF Evidence, ChallengesInv
<1>6. ASSUME NEW ch \in challenges, NEW new \in Challenge,
             Put(ch, new), Lasts(ch, new),
             new.status # "approved" => new.approver = {},
             UNCHANGED <<decisions, descriptor, changes>>
      PROVE  /\ ApprovalsTypeOK' /\ ChallengesInv'
             /\ \A x \in challenges : \E y \in challenges' : Lasts(x, y)
  <2>1. challenges' = (challenges \ {ch}) \cup {new}
    BY <1>6 DEF Put
  <2>2. challenges' \subseteq Challenge /\ ChallengesInv'
    BY <1>6, PutKeeps
  <2>3. ApprovalsTypeOK'
    BY <1>6, <2>2 DEF ApprovalsTypeOK
  <2>4. ASSUME NEW x \in challenges
        PROVE  \E y \in challenges' : Lasts(x, y)
    <3> HIDE DEF Lasts
    <3> QED  BY <1>0, <1>6, <2>1
  <2> HIDE DEF Lasts
  <2> QED
    BY <2>2, <2>3, <2>4
<1>7. ASSUME NEW ch \in challenges,
             (\E p \in Approvers : Approve(ch, p)) \/ Revoke(ch) \/ ChallengeExpires(ch)
      PROVE  /\ ApprovalsTypeOK' /\ ChallengesInv'
             /\ \A x \in challenges : \E y \in challenges' : Lasts(x, y)
  <2>1. UNCHANGED <<decisions, descriptor, changes>>
    BY <1>7 DEF Approve, Revoke, ChallengeExpires
  <2>2. PICK new \in Challenge :
               /\ Put(ch, new) /\ Lasts(ch, new)
               /\ new.status # "approved" => new.approver = {}
    <3> HIDE DEF Lasts
    <3> QED  BY <1>3, <1>4, <1>5, <1>7
  <2> HIDE DEF Lasts
  <2> QED
    BY <1>6, <2>1, <2>2
<1>8. \/ \E a \in Actions : UpsertDescriptor(a)
      \/ \E d \in decisions : RecordChallenge(d)
      \/ \E ch \in challenges :
           (\E p \in Approvers : Approve(ch, p)) \/ Revoke(ch) \/ ChallengeExpires(ch)
  BY DEF ApprovalsNext
<1>9. /\ ApprovalsTypeOK' /\ ChallengesInv'
      /\ \A ch \in challenges : \E new \in challenges' : Lasts(ch, new)
  <2> HIDE DEF Lasts
  <2> QED  BY <1>0, <1>1, <1>2, <1>7, <1>8
<1> QED
  BY <1>9
-----------------------------------------------------------------------------
(* The gate.                                                               *)

LEMMA BindingType ==
  ASSUME NEW d \in Decision, NEW a \in Action
  PROVE  Binding(d, a) \in Bindings /\ Binding(d, a).side_effect = a.side_effect
BY DEF Binding, Bindings, Decision, Action

(* What the gate lets through without an approval needs none, and what it  *)
(* does not reserve has no effect, or the policy does without reservations.*)
LEMMA PreflightAuthorises ==
  ASSUME NEW d, NEW a, NEW p, NEW evidence, NEW live,
         Preflight(d, a, p, evidence, live) \in {"reserve", "allowed"}
  PROVE  /\ RequiresApproval(d, a, p) =>
              /\ evidence # {}
              /\ \A e \in evidence : e.binding = Binding(d, a)
         /\ Preflight(d, a, p, evidence, live) = "reserve" =>
              RequiresIdempotency(a, p)
         /\ Preflight(d, a, p, evidence, live) = "allowed" =>
              ~RequiresIdempotency(a, p)
<1> HIDE DEF RequiresApproval, RequiresIdempotency
<1> QED  BY DEF Preflight, ApprovalFits
-----------------------------------------------------------------------------
(* The ledger.                                                             *)

(* A settlement touches exactly the pending reservation it names, or none. *)
LEMMA SettledOne ==
  ASSUME LedgerInv, ledger \subseteq Entry, NEW e \in ledger, e.state = "pending"
  PROVE  /\ Settled("release", e.key, e.fingerprint) = ledger \ {e}
         /\ Settled("complete", e.key, e.fingerprint) =
              (ledger \ {e}) \cup {[e EXCEPT !.state = "completed"]}
<1> DEFINE found == {x \in ledger : /\ x.key = e.key /\ x.fingerprint = e.fingerprint
                                    /\ x.state = "pending"}
<1>1. found = {e}
  BY DEF LedgerInv
<1>2. {[x EXCEPT !.state = "completed"] : x \in {e}}
        = {[e EXCEPT !.state = "completed"]}
  OBVIOUS
<1>3. /\ Settled("release", e.key, e.fingerprint) = ledger \ found
      /\ Settled("complete", e.key, e.fingerprint) =
           (ledger \ found) \cup {[x EXCEPT !.state = "completed"] : x \in found}
  BY DEF Settled
<1> HIDE DEF found
<1> QED  BY <1>1, <1>2, <1>3

LEMMA SettledNone ==
  ASSUME NEW kind, NEW k, NEW f,
         \A e \in ledger : ~(e.key = k /\ e.fingerprint = f /\ e.state = "pending")
  PROVE  Settled(kind, k, f) = ledger
<1> DEFINE found == {e \in ledger : /\ e.key = k /\ e.fingerprint = f
                                    /\ e.state = "pending"}
<1>1. found = {}
  OBVIOUS
<1>2. {[e EXCEPT !.state = "completed"] : e \in {}} = {}
  OBVIOUS
<1>3. Settled(kind, k, f) =
        IF kind = "release" THEN ledger \ found
        ELSE (ledger \ found) \cup {[e EXCEPT !.state = "completed"] : e \in found}
  BY DEF Settled
<1> HIDE DEF found
<1> QED  BY <1>1, <1>2, <1>3

(* A new reservation keeps the ledger in order.                            *)
LEMMA ReservationAdded ==
  ASSUME LedgerInv, ledger \subseteq Entry, issued \in Nat,
         NEW k \in Keys, NEW f \in Bindings, f.side_effect # "none",
         \A e \in ledger : e.key # k,
         ledger' = ledger \cup {Reservation(k, f)}, issued' = issued + 1
  PROVE  ledger' \subseteq Entry /\ issued' \in Nat /\ LedgerInv'
<1>1. /\ Reservation(k, f) \in Entry
      /\ Reservation(k, f).key = k /\ Reservation(k, f).fingerprint = f
      /\ Reservation(k, f).id = issued + 1
  BY DEF Reservation, Entry
<1>2. \A e \in ledger : e.id \in 1..issued /\ e.id # issued + 1
  BY DEF LedgerInv
<1> QED
  BY <1>1, <1>2 DEF LedgerInv

(* A reservation that is settled keeps it in order, leaves all others, and *)
(* is gone only if it was released.                                        *)
LEMMA ReservationSettled ==
  ASSUME LedgerInv, ledger \subseteq Entry, issued' = issued,
         NEW e \in ledger, e.state = "pending",
         NEW kind \in {"complete", "release"},
         ledger' = Settled(kind, e.key, e.fingerprint)
  PROVE  /\ ledger' \subseteq Entry /\ LedgerInv'
         /\ \A x \in ledger : x.id # e.id => x \in ledger'
         /\ kind = "complete" =>
              \E x \in ledger' : x.id = e.id /\ x.key = e.key
<1> DEFINE new == [e EXCEPT !.state = "completed"]
<1>1. /\ new \in Entry /\ new.id = e.id /\ new.key = e.key
      /\ new.fingerprint = e.fingerprint
  BY DEF Entry
<1>2. \/ kind = "release" /\ ledger' = ledger \ {e}
      \/ kind = "complete" /\ ledger' = (ledger \ {e}) \cup {new}
  BY SettledOne
<1> HIDE DEF new
<1>3. \A x \in ledger' : (x \in ledger /\ x # e) \/ x = new
  BY <1>2
<1>4. \A x, y \in ledger' : x.key = y.key \/ x.id = y.id => x = y
  BY <1>1, <1>3 DEF LedgerInv
<1>5. \A x \in ledger' : x.id \in 1..issued /\ x.fingerprint.side_effect # "none"
  BY <1>1, <1>3 DEF LedgerInv
<1>6. LedgerInv'
  BY <1>4, <1>5 DEF LedgerInv
<1> QED
  BY <1>1, <1>2, <1>6
-----------------------------------------------------------------------------
(* Callers that move on.                                                   *)

(* A caller drops what it holds, or goes on holding it.                    *)
Follows(p, q) ==
  /\ p.id \in {0, q.id}
  /\ p.pc \in Unreported =>
       /\ q.pc \in Unreported /\ p.id = q.id
       /\ p.attempt = q.attempt /\ p.action = q.action
       /\ q.pc = "executed" => p.pc = "executed"

(* Nothing else changes that concerns a reservation.                       *)
LEMMA CallerFollows ==
  ASSUME TypeOK, HoldersInv,
         NEW c \in Callers, NEW p \in {Idle} \cup Caller, Follows(p, callers[c]),
         callers' = [callers EXCEPT ![c] = p],
         UNCHANGED <<mode, ledger, issued, requests, effects>>
  PROVE  callers' \in [Callers -> {Idle} \cup Caller] /\ HoldersInv'
<1>1. callers \in [Callers -> {Idle} \cup Caller]
  BY DEF TypeOK, ActionsTypeOK
<1>2. \A d \in Callers : callers'[d] = IF d = c THEN p ELSE callers[d]
  BY <1>1
<1>3. EffectivePolicy' = EffectivePolicy
  BY DEF EffectivePolicy
<1>5. ASSUME NEW d \in Callers
      PROVE  Follows(callers'[d], callers[d])
  BY <1>2 DEF Follows
<1>6. ASSUME NEW d \in Callers, callers'[d].pc \in Unreported
      PROVE  /\ \E a \in Actions : callers'[d].action = {a}
             /\ callers'[d].id = 0 =>
                  \A a \in callers'[d].action : ~RequiresIdempotency(a, EffectivePolicy)
             /\ callers'[d].id # 0 => Holds(callers[d])'
  <2>1. /\ callers[d].pc \in Unreported /\ callers'[d].id = callers[d].id
        /\ callers'[d].attempt = callers[d].attempt
        /\ callers'[d].action = callers[d].action
        /\ callers[d].pc = "executed" => callers'[d].pc = "executed"
    BY <1>5, <1>6 DEF Follows
  <2>2. /\ \E a \in Actions : callers[d].action = {a}
        /\ callers[d].id = 0 =>
             \A a \in callers[d].action : ~RequiresIdempotency(a, EffectivePolicy)
        /\ callers[d].id # 0 => Holds(callers[d])
    BY <2>1 DEF HoldersInv
  <2>3. callers'[d].id # 0 => Holds(callers[d])'
    BY <1>3, <2>1, <2>2 DEF Holds
  <2> QED
    BY <2>1, <2>2, <2>3
<1>7. ASSUME NEW d \in Callers
      PROVE  /\ callers'[d].id <= issued
             /\ \A x \in Callers :
                  callers'[x].id = callers'[d].id /\ callers'[d].id # 0 => x = d
  <2>1. issued \in Nat
    BY DEF TypeOK, ActionsTypeOK
  <2> QED
    BY <1>5, <2>1 DEF HoldersInv, Follows
<1>8. HoldersInv'
  BY <1>3, <1>6, <1>7 DEF HoldersInv, RequiresIdempotency
<1> QED
  BY <1>1, <1>8

(* A caller is told to go on, with a reservation of its own or without any *)
(* when none is needed; or it no longer listens.                           *)
LEMMA CallerDecides ==
  ASSUME TypeOK, LedgerInv, HoldersInv, RequestsInv, EffectsInv,
         NEW c \in Callers, NEW at \in Attempt, NEW a \in Actions,
         NEW reserve \in BOOLEAN,
         reserve <=> RequiresIdempotency(a, EffectivePolicy),
         reserve => \A e \in ledger : e.key # at.key,
         \/ callers' = callers
         \/ callers' = [callers EXCEPT ![c] =
              Process("decided", at, {a}, IF reserve THEN issued + 1 ELSE 0)],
         ledger' = IF reserve
                   THEN ledger \cup {Reservation(at.key, Binding(at.decision, a))}
                   ELSE ledger,
         issued' = IF reserve THEN issued + 1 ELSE issued,
         UNCHANGED <<mode, requests, effects>>
  PROVE  /\ callers' \in [Callers -> {Idle} \cup Caller]
         /\ ledger' \subseteq Entry /\ issued' \in Nat
         /\ LedgerInv' /\ HoldersInv' /\ RequestsInv' /\ EffectsInv'
<1> DEFINE f == Binding(at.decision, a)
           id == IF reserve THEN issued + 1 ELSE 0
           p == Process("decided", at, {a}, id)
<1>1. /\ callers \in [Callers -> {Idle} \cup Caller]
      /\ issued \in Nat /\ ledger \subseteq Entry
  BY DEF TypeOK, ActionsTypeOK
<1>2. a \in Action /\ at.decision \in Decision /\ at.key \in Keys
  BY ApprovalAssumption DEF Attempt
<1>3. f \in Bindings /\ f.side_effect = a.side_effect
  BY <1>2, BindingType
<1>4. id \in Nat
  BY <1>1
<1>5. p \in Caller /\ p.pc = "decided" /\ p.attempt = at /\ p.action = {a} /\ p.id = id
  BY <1>4 DEF Process, Caller, Unreported
<1>6. EffectivePolicy' = EffectivePolicy
  BY DEF EffectivePolicy
<1>7. reserve => /\ EffectivePolicy.idempotency /\ a.side_effect # "none"
                 /\ ledger' = ledger \cup {Reservation(at.key, f)}
                 /\ issued' = issued + 1
  BY DEF RequiresIdempotency
<1>8. ledger' \subseteq Entry /\ issued' \in Nat /\ LedgerInv'
  <2>1. CASE reserve
    <3> HIDE DEF f
    <3> QED  BY <1>1, <1>2, <1>3, <1>7, <2>1, ReservationAdded
  <2>2. CASE ~reserve
    BY <1>1, <2>2 DEF LedgerInv
  <2> QED  BY <2>1, <2>2
<1>9. ledger \subseteq ledger' /\ issued <= issued'
  BY <1>1
<1>10. RequestsInv' /\ EffectsInv'
  <2>1. \A r \in requests : r.id <= issued /\ r.id \in Nat
    BY DEF RequestsInv, TypeOK, ActionsTypeOK, Request
  <2>2. \A x \in effects : x.id <= issued /\ x.id \in Nat
    BY DEF EffectsInv, TypeOK, ActionsTypeOK, Effect
  <2>3. \A r \in requests : r.id <= issued'
    BY <1>1, <1>8, <1>9, <2>1
  <2>4. \A x \in effects : x.id <= issued'
    BY <1>1, <1>8, <1>9, <2>2
  <2>5. RequestsInv'
    BY <1>9, <2>3 DEF RequestsInv
  <2>6. EffectsInv'
    BY <1>6, <1>9, <2>4 DEF EffectsInv
  <2> QED  BY <2>5, <2>6
<1>11. \A d \in Callers : callers[d].id \in Nat /\ callers[d].id <= issued
  BY <1>1 DEF HoldersInv, Idle, Caller
<1>12. \A d \in Callers : callers'[d] = callers[d] \/ (d = c /\ callers'[d] = p)
  BY <1>1
<1>13. callers' \in [Callers -> {Idle} \cup Caller]
  BY <1>1, <1>5
<1>14. ASSUME NEW d \in Callers, callers[d].pc \in Unreported, callers[d].id # 0
       PROVE  Holds(callers[d]) /\ EffectivePolicy.idempotency
                /\ \E e \in ledger' :
                     /\ e.id = callers[d].id /\ e.key = callers[d].attempt.key
                     /\ e.state = "pending"
                     /\ \A x \in callers[d].action :
                          e.fingerprint = Binding(callers[d].attempt.decision, x)
  BY <1>9, <1>14 DEF HoldersInv, Holds
<1>15. ASSUME NEW d \in Callers, callers'[d] = callers[d]
       PROVE  /\ callers'[d].pc \in Unreported =>
                   /\ \E x \in Actions : callers'[d].action = {x}
                   /\ callers'[d].id = 0 =>
                        \A x \in callers'[d].action : ~RequiresIdempotency(x, EffectivePolicy)
                   /\ callers'[d].id # 0 => Holds(callers[d])'
  <2>1. CASE callers[d].pc \in Unreported /\ callers[d].id # 0
    <3>1. Holds(callers[d])'
      BY <1>6, <1>14, <1>15, <2>1 DEF Holds
    <3> QED  BY <1>15, <2>1, <3>1 DEF HoldersInv
  <2>2. CASE ~(callers[d].pc \in Unreported /\ callers[d].id # 0)
    BY <1>15, <2>2 DEF HoldersInv
  <2> QED  BY <2>1, <2>2
<1>16. ASSUME NEW d \in Callers, callers'[d] = p
       PROVE  /\ \E x \in Actions : callers'[d].action = {x}
              /\ callers'[d].id = 0 =>
                   \A x \in callers'[d].action : ~RequiresIdempotency(x, EffectivePolicy)
              /\ callers'[d].id # 0 => Holds(callers[d])'
  <2>1. CASE ~reserve
    BY <1>5, <1>16, <2>1
  <2>2. CASE reserve
    <3>1. id = issued + 1 /\ id # 0
      BY <1>1, <2>2
    <3>2. /\ Reservation(at.key, f) \in ledger'
          /\ Reservation(at.key, f).id = id /\ Reservation(at.key, f).key = at.key
          /\ Reservation(at.key, f).state = "pending"
          /\ Reservation(at.key, f).fingerprint = f
      BY <1>7, <2>2, <3>1 DEF Reservation
    <3>3. /\ \A r \in requests : r.id # id
          /\ \A x \in effects : x.id # id
      <4>1. \A r \in requests : r.id \in Nat /\ r.id <= issued
        BY DEF RequestsInv, TypeOK, ActionsTypeOK, Request
      <4>2. \A x \in effects : x.id \in Nat /\ x.id <= issued
        BY DEF EffectsInv, TypeOK, ActionsTypeOK, Effect
      <4> QED  BY <1>1, <3>1, <4>1, <4>2
    <3>4. \A x \in p.action : Binding(p.attempt.decision, x) = f
      BY <1>5
    <3> HIDE DEF p, f, id
    <3>5. Holds(callers[d])'
      BY <1>5, <1>6, <1>7, <1>16, <2>2, <3>2, <3>3, <3>4 DEF Holds
    <3> QED
      BY <1>5, <1>16, <3>1, <3>5
  <2> QED  BY <2>1, <2>2
<1>17. ASSUME NEW d \in Callers
       PROVE  /\ callers'[d].id <= issued'
              /\ \A x \in Callers :
                   callers'[x].id = callers'[d].id /\ callers'[d].id # 0 => x = d
  <2>1. id = 0 \/ (id = issued + 1 /\ issued' = issued + 1)
    OBVIOUS
  <2> HIDE DEF p, id
  <2> QED
    BY <1>1, <1>5, <1>8, <1>9, <1>11, <1>12, <2>1 DEF HoldersInv
<1>18. HoldersInv'
  <2> HIDE DEF p
  <2> QED  BY <1>6, <1>12, <1>15, <1>16, <1>17 DEF HoldersInv, RequiresIdempotency
<1> QED
  BY <1>8, <1>10, <1>13, <1>18

(* A reservation is settled that no caller still has to report and no      *)
(* other request is about, and released only if nothing happened under it. *)
LEMMA HolderSettles ==
  ASSUME TypeOK, LedgerInv, HoldersInv, RequestsInv, EffectsInv,
         NEW e \in ledger, e.state = "pending", NEW kind \in {"complete", "release"},
         ledger' = Settled(kind, e.key, e.fingerprint),
         kind = "release" => \A x \in effects : x.id # e.id,
         UNCHANGED <<mode, issued, effects>>,
         requests' \subseteq requests, \A q \in requests' : q.id # e.id,
         callers' \in [Callers -> {Idle} \cup Caller],
         \A d \in Callers :
           \/ callers'[d] = Idle
           \/ /\ callers'[d] = callers[d]
              /\ callers[d].pc \in Unreported => callers[d].id # e.id
  PROVE  /\ ledger' \subseteq Entry
         /\ LedgerInv' /\ HoldersInv' /\ RequestsInv' /\ EffectsInv'
<1>1. ledger \subseteq Entry /\ issued \in Nat
  BY DEF TypeOK, ActionsTypeOK
<1>2. /\ ledger' \subseteq Entry /\ LedgerInv'
      /\ \A x \in ledger : x.id # e.id => x \in ledger'
      /\ kind = "complete" => \E x \in ledger' : x.id = e.id /\ x.key = e.key
  BY <1>1, ReservationSettled
<1>3. EffectivePolicy' = EffectivePolicy
  BY DEF EffectivePolicy
<1>4. EffectsInv'
  <2>1. ASSUME NEW x \in effects, x.id # 0
        PROVE  \E y \in ledger' : y.id = x.id /\ y.key = x.key
    <3>1. PICK y \in ledger : y.id = x.id /\ y.key = x.key
      BY <2>1 DEF EffectsInv
    <3>2. CASE x.id # e.id
      BY <1>2, <3>1, <3>2
    <3>3. CASE x.id = e.id
      BY <1>2, <3>1, <3>3 DEF LedgerInv
    <3> QED  BY <3>2, <3>3
  <2> QED  BY <1>3, <2>1 DEF EffectsInv
<1>5. RequestsInv'
  <2>1. ASSUME NEW r \in requests', r.id # 0
        PROVE  \E y \in ledger' : /\ y.id = r.id /\ y.key = r.key
                                  /\ y.state = "pending"
                                  /\ y.fingerprint = r.fingerprint
    BY <1>2, <2>1 DEF RequestsInv
  <2> QED  BY <2>1 DEF RequestsInv
<1>6. Idle.id = 0 /\ Idle.pc \notin Unreported
  BY DEF Idle, Unreported
<1>7. ASSUME NEW d \in Callers, callers'[d] = callers[d],
             callers[d].pc \in Unreported, callers[d].id # 0
      PROVE  Holds(callers[d])'
  <2>1. callers[d].id # e.id /\ Holds(callers[d])
    BY <1>7, <1>6 DEF HoldersInv
  <2>2. \E y \in ledger' :
          /\ y.id = callers[d].id /\ y.key = callers[d].attempt.key
          /\ y.state = "pending"
          /\ \A a \in callers[d].action :
               y.fingerprint = Binding(callers[d].attempt.decision, a)
    BY <1>2, <2>1 DEF Holds
  <2> QED  BY <1>3, <1>7, <2>1, <2>2 DEF Holds
<1>8. \A d \in Callers : callers'[d] = callers[d] \/ callers'[d] = Idle
  OBVIOUS
<1>9. ASSUME NEW d \in Callers
      PROVE  /\ callers'[d].id <= issued
             /\ \A x \in Callers :
                  callers'[x].id = callers'[d].id /\ callers'[d].id # 0 => x = d
  BY <1>1, <1>8, <1>6 DEF HoldersInv
<1>10. ASSUME NEW d \in Callers, callers'[d].pc \in Unreported
       PROVE  /\ \E a \in Actions : callers'[d].action = {a}
              /\ callers'[d].id = 0 =>
                   \A a \in callers'[d].action : ~RequiresIdempotency(a, EffectivePolicy)
              /\ callers'[d].id # 0 => Holds(callers[d])'
  BY <1>7, <1>8, <1>6, <1>10 DEF HoldersInv
<1>11. HoldersInv'
  BY <1>3, <1>9, <1>10 DEF HoldersInv, RequiresIdempotency
<1> QED
  BY <1>2, <1>4, <1>5, <1>11
-----------------------------------------------------------------------------
(* What every step has in common.                                          *)

(* Who has been told to go on.                                             *)
Allowed == {"decided", "executing", "executed", "settling"}

(* AllowedWithinAuthority for one caller.                                  *)
WithinAuthority(p) ==
  \A a \in p.action :
    RequiresApproval(p.attempt.decision, a, EffectivePolicy)
    => \E e \in p.attempt.evidence :
         /\ e.binding = Binding(p.attempt.decision, a)
         /\ mode # "local" => e.challenge \notin p.attempt.revoked

LEMMA AuthorityOfOne ==
  AllowedWithinAuthority <=>
    \A c \in Callers : callers[c].pc \in Allowed => WithinAuthority(callers[c])
BY DEF AllowedWithinAuthority, WithinAuthority, Allowed

(* Only one caller is told anything new.                                   *)
LEMMA AuthorityKept ==
  ASSUME callers \in [Callers -> {Idle} \cup Caller], AllowedWithinAuthority,
         mode' = mode, NEW c \in Callers, NEW p,
         callers' = [callers EXCEPT ![c] = p],
         p.pc \in Allowed =>
           \/ WithinAuthority(p)
           \/ /\ callers[c].pc \in Allowed
              /\ p.attempt = callers[c].attempt /\ p.action = callers[c].action
  PROVE  AllowedWithinAuthority'
<1>1. \A d \in Callers : callers'[d] = IF d = c THEN p ELSE callers[d]
  OBVIOUS
<1>2. \A d \in Callers : callers[d].pc \in Allowed => WithinAuthority(callers[d])
  BY AuthorityOfOne
<1>3. ASSUME NEW d \in Callers, callers'[d].pc \in Allowed
      PROVE  WithinAuthority(callers[d])'
  BY <1>1, <1>2, <1>3 DEF WithinAuthority, EffectivePolicy
<1> QED
  BY <1>3 DEF AllowedWithinAuthority, WithinAuthority, Allowed

(* The approvals are as they were, but for another accepted decision.      *)
LEMMA ApprovalsUntouched ==
  ASSUME IInv, UNCHANGED <<descriptor, changes, challenges>>,
         decisions' \subseteq Decision
  PROVE  ApprovalsTypeOK' /\ ChallengesInv'
BY DEF IInv, TypeOK, ApprovalsTypeOK, ChallengesInv

(* A step of one caller that concerns nobody's reservation.                *)
LEMMA QuietStep ==
  ASSUME IInv, NEW c \in Callers, NEW p \in {Idle} \cup Caller,
         Follows(p, callers[c]),
         p.pc \in Allowed => /\ callers[c].pc \in Allowed
                             /\ p.attempt = callers[c].attempt
                             /\ p.action = callers[c].action,
         callers' = [callers EXCEPT ![c] = p],
         UNCHANGED <<mode, ledger, issued, requests, effects,
                     descriptor, changes, challenges>>,
         decisions' \subseteq Decision, attempts' \in Nat,
         handlers' \subseteq Handler, HandlersInv'
  PROVE  IInv'
<1>1. callers' \in [Callers -> {Idle} \cup Caller] /\ HoldersInv'
  BY CallerFollows DEF IInv
<1>2. ApprovalsTypeOK' /\ ChallengesInv'
  BY ApprovalsUntouched
<1>3. TypeOK'
  BY <1>1, <1>2 DEF IInv, TypeOK, ActionsTypeOK
<1>4. AllowedWithinAuthority'
  BY AuthorityKept DEF IInv, TypeOK, ActionsTypeOK
<1>5. EffectivePolicy' = EffectivePolicy
  BY DEF EffectivePolicy
<1>6. LedgerInv' /\ RequestsInv' /\ EffectsInv'
  BY <1>5 DEF IInv, LedgerInv, RequestsInv, EffectsInv
<1> QED
  BY <1>1, <1>2, <1>3, <1>4, <1>6 DEF IInv

(* The handlers stay within authority as long as nothing is un-revoked.    *)
LEMMA HandlersKept ==
  ASSUME HandlersInv, mode' = mode, challenges' = challenges,
         handlers' \subseteq handlers
  PROVE  HandlersInv'
BY DEF HandlersInv
-----------------------------------------------------------------------------
(* The actions of callers.                                                 *)

LEMMA CallerTypes ==
  ASSUME TypeOK, NEW c \in Callers
  PROVE  /\ callers \in [Callers -> {Idle} \cup Caller]
         /\ callers[c].pc # "idle" => callers[c] \in Caller
         /\ callers[c].pc = "idle" => callers[c] = Idle
BY DEF TypeOK, ActionsTypeOK, Idle, Caller, Unreported

LEMMA IdleFollows ==
  ASSUME NEW q
  PROVE  Follows(Idle, q) /\ Idle.pc \notin Allowed
BY DEF Follows, Idle, Unreported, Allowed

(* GiveUp, HookThrows and Crash.                                           *)
LEMMA FinishStep ==
  ASSUME IInv, NEW c \in Callers, Finish(c),
         UNCHANGED <<approvalVars, mode, ledger, issued, handlers, requests,
                     attempts, effects>>
  PROVE  IInv'
<1>1. callers' = [callers EXCEPT ![c] = Idle]
  BY DEF Finish
<1>2. HandlersInv'
  BY HandlersKept DEF IInv, approvalVars
<1>3. decisions' \subseteq Decision /\ attempts' \in Nat /\ handlers' \subseteq Handler
  BY DEF IInv, TypeOK, ApprovalsTypeOK, ActionsTypeOK, approvalVars
<1> QED
  BY <1>1, <1>2, <1>3, IdleFollows, QuietStep DEF approvalVars

LEMMA ValidateStep ==
  ASSUME IInv, NEW c \in Callers, Validate(c)
  PROVE  IInv'
<1>1. PICK d \in Decision, k \in Keys :
        /\ RecordAcceptedDecision(d)
        /\ callers' = [callers EXCEPT ![c] =
             Process("validated",
                     [number |-> attempts + 1, key |-> k, decision |-> d,
                      evidence |-> {}, revoked |-> {}], {}, 0)]
  BY DEF Validate
<1> DEFINE p == Process("validated",
                        [number |-> attempts + 1, key |-> k, decision |-> d,
                         evidence |-> {}, revoked |-> {}], {}, 0)
<1>2. attempts + 1 \in Nat
  BY DEF IInv, TypeOK, ActionsTypeOK
<1>3. p \in Caller /\ p.pc = "validated" /\ p.id = 0
  BY <1>2 DEF Process, Caller, Attempt
<1>4. Follows(p, callers[c]) /\ p.pc \notin Allowed
  BY <1>3 DEF Follows, Unreported, Allowed
<1>5. /\ decisions' \subseteq Decision /\ attempts' \in Nat
      /\ handlers' \subseteq Handler /\ HandlersInv'
  <2>1. HandlersInv'
    BY <1>1, HandlersKept DEF Validate, RecordAcceptedDecision, IInv
  <2> QED
    BY <1>1, <1>2, <2>1
    DEF Validate, RecordAcceptedDecision, IInv, TypeOK, ApprovalsTypeOK, ActionsTypeOK
<1>6. UNCHANGED <<mode, ledger, issued, requests, effects, descriptor, changes, challenges>>
  BY <1>1 DEF Validate, RecordAcceptedDecision
<1>7. callers' = [callers EXCEPT ![c] = p]
  BY <1>1
<1> HIDE DEF p
<1> QED
  BY <1>3, <1>4, <1>5, <1>6, <1>7, QuietStep

(* What a caller asks with is well formed, and what it remembers of the    *)
(* revoked challenges is true.                                             *)
LEMMA AskedType ==
  ASSUME IInv, NEW c \in Callers, callers[c] \in Caller,
         NEW evidence \in Presentable(callers[c].attempt.decision)
  PROVE  /\ Asked(c, evidence) \in Attempt
         /\ Asked(c, evidence).evidence = evidence
         /\ Asked(c, evidence).decision = callers[c].attempt.decision
         /\ Asked(c, evidence).key = callers[c].attempt.key
         /\ \A id \in Asked(c, evidence).revoked :
              \E ch \in challenges : ch.id = id /\ ch.status = "revoked"
<1> DEFINE revoked == {ch.id : ch \in {x \in challenges : x.status = "revoked"}}
<1>1. challenges \subseteq Challenge /\ callers[c].attempt \in Attempt
  BY DEF IInv, TypeOK, ApprovalsTypeOK, Caller
<1>2. ASSUME NEW ch \in challenges
      PROVE  Evidence(ch) \subseteq AnyEvidence
  BY <1>1 DEF Evidence, AnyEvidence, Challenge
<1>3. evidence \subseteq AnyEvidence
  BY <1>2 DEF Presentable
<1>4. revoked \subseteq Nat
  BY <1>1 DEF Challenge
<1>5. Asked(c, evidence) = [callers[c].attempt EXCEPT !.evidence = evidence, !.revoked = revoked]
  BY DEF Asked
<1>6. \A id \in revoked : \E ch \in challenges : ch.id = id /\ ch.status = "revoked"
  OBVIOUS
<1> HIDE DEF revoked
<1>7. Asked(c, evidence) \in Attempt
  BY <1>1, <1>3, <1>4, <1>5 DEF Attempt
<1>8. /\ Asked(c, evidence).evidence = evidence /\ Asked(c, evidence).revoked = revoked
      /\ Asked(c, evidence).decision = callers[c].attempt.decision
      /\ Asked(c, evidence).key = callers[c].attempt.key
  BY <1>1, <1>5 DEF Attempt
<1> QED
  BY <1>6, <1>7, <1>8

LEMMA AskStep ==
  ASSUME IInv, NEW c \in Callers, Ask(c)
  PROVE  IInv'
<1>1. PICK evidence \in Presentable(callers[c].attempt.decision) :
        /\ handlers' = handlers \cup
             {[pc |-> "descriptor", caller |-> c, attempt |-> Asked(c, evidence),
               action |-> {}]}
        /\ callers' = [callers EXCEPT ![c].pc = "asking",
                                      ![c].attempt = Asked(c, evidence)]
  BY DEF Ask
<1>2. mode # "local" /\ callers[c].pc = "validated" /\ callers[c] \in Caller
  BY CallerTypes DEF Ask, IInv
<1> DEFINE at == Asked(c, evidence)
           p == [callers[c] EXCEPT !.pc = "asking", !.attempt = at]
           h == [pc |-> "descriptor", caller |-> c, attempt |-> at, action |-> {}]
<1>3. at \in Attempt /\ \A id \in at.revoked :
        \E ch \in challenges : ch.id = id /\ ch.status = "revoked"
  BY <1>1, <1>2, AskedType
<1>4. callers' = [callers EXCEPT ![c] = p]
  BY <1>1, CallerTypes DEF IInv
<1> HIDE DEF at
<1>5. p \in Caller /\ p.pc = "asking" /\ p.id = callers[c].id
  BY <1>2, <1>3 DEF Caller
<1>6. Follows(p, callers[c]) /\ p.pc \notin Allowed
  BY <1>5 DEF Follows, Unreported, Allowed
<1>7. h \in Handler /\ h.attempt = at /\ h.pc = "descriptor"
  BY <1>3 DEF Handler
<1>8. handlers' = handlers \cup {h}
  BY <1>1 DEF at
<1> HIDE DEF p, h
<1>9. HandlersInv'
  BY <1>2, <1>3, <1>7, <1>8 DEF Ask, IInv, HandlersInv, approvalVars
<1>10. decisions' \subseteq Decision /\ attempts' \in Nat /\ handlers' \subseteq Handler
  BY <1>7, <1>8 DEF Ask, IInv, TypeOK, ApprovalsTypeOK, ActionsTypeOK, approvalVars
<1> QED
  BY <1>4, <1>5, <1>6, <1>9, <1>10, QuietStep DEF Ask, approvalVars

LEMMA ProceedStep ==
  ASSUME IInv, NEW c \in Callers, Proceed(c)
  PROVE  IInv'
<1> DEFINE p == [callers[c] EXCEPT !.pc = "executing"]
<1>1. callers[c].pc = "decided" /\ callers[c] \in Caller
  BY CallerTypes DEF Proceed, IInv
<1>2. callers' = [callers EXCEPT ![c] = p]
  BY CallerTypes DEF Proceed, Move, IInv
<1>3. /\ p \in Caller /\ p.pc = "executing" /\ p.id = callers[c].id
      /\ p.attempt = callers[c].attempt /\ p.action = callers[c].action
  BY <1>1 DEF Caller, Unreported
<1> HIDE DEF p
<1>4. Follows(p, callers[c])
  BY <1>1, <1>3 DEF Follows, Unreported
<1>5. HandlersInv'
  BY HandlersKept DEF Proceed, IInv, approvalVars
<1>6. decisions' \subseteq Decision /\ attempts' \in Nat /\ handlers' \subseteq Handler
  BY DEF Proceed, IInv, TypeOK, ApprovalsTypeOK, ActionsTypeOK, approvalVars
<1>7. callers[c].pc \in Allowed
  BY <1>1 DEF Allowed
<1> QED
  BY <1>2, <1>3, <1>4, <1>5, <1>6, <1>7, QuietStep DEF Proceed, approvalVars

(* A decision that lets the caller go on, with the authority it rests on.  *)
LEMMA DecisionStep ==
  ASSUME IInv, NEW c \in Callers, NEW at \in Attempt, NEW a \in Actions,
         NEW live, NEW gate, NEW reserve \in BOOLEAN,
         gate = Preflight(at.decision, a, EffectivePolicy, at.evidence, live),
         reserve \/ gate = "allowed",
         reserve => gate = "reserve" /\ ReserveResult(at.key, Binding(at.decision, a)) = "new",
         mode # "local" => \A e \in at.evidence : e.challenge \notin at.revoked,
         \/ callers' = callers
         \/ callers' = [callers EXCEPT ![c] =
              Process("decided", at, {a}, IF reserve THEN issued + 1 ELSE 0)],
         ledger' = IF reserve
                   THEN ledger \cup {Reservation(at.key, Binding(at.decision, a))}
                   ELSE ledger,
         issued' = IF reserve THEN issued + 1 ELSE issued,
         handlers' \subseteq handlers,
         UNCHANGED <<approvalVars, mode, requests, attempts, effects>>
  PROVE  IInv'
<1> DEFINE p == Process("decided", at, {a}, IF reserve THEN issued + 1 ELSE 0)
<1>1. /\ RequiresApproval(at.decision, a, EffectivePolicy) =>
           /\ at.evidence # {}
           /\ \A e \in at.evidence : e.binding = Binding(at.decision, a)
      /\ reserve <=> RequiresIdempotency(a, EffectivePolicy)
  <2> HIDE DEF RequiresApproval, RequiresIdempotency
  <2> QED  BY PreflightAuthorises
<1>2. reserve => \A e \in ledger : e.key # at.key
  BY DEF ReserveResult
<1>3. /\ callers' \in [Callers -> {Idle} \cup Caller]
      /\ ledger' \subseteq Entry /\ issued' \in Nat
      /\ LedgerInv' /\ HoldersInv' /\ RequestsInv' /\ EffectsInv'
  BY <1>1, <1>2, CallerDecides DEF IInv
<1>4. ApprovalsTypeOK' /\ ChallengesInv'
  BY ApprovalsUntouched DEF approvalVars, IInv, TypeOK, ApprovalsTypeOK
<1>5. TypeOK'
  BY <1>3, <1>4 DEF IInv, TypeOK, ActionsTypeOK
<1>6. HandlersInv'
  BY HandlersKept DEF IInv, approvalVars
<1>7. p.attempt = at /\ p.action = {a}
  BY DEF Process
<1>8. WithinAuthority(p)
  <2> HIDE DEF p
  <2> QED  BY <1>1, <1>7 DEF WithinAuthority, EffectivePolicy
<1>9. callers \in [Callers -> {Idle} \cup Caller] /\ AllowedWithinAuthority
  BY CallerTypes DEF IInv
<1>10. AllowedWithinAuthority'
  <2>1. CASE callers' = callers
    BY <1>9, <2>1 DEF AllowedWithinAuthority, EffectivePolicy
  <2>2. CASE callers' = [callers EXCEPT ![c] = p]
    <3> HIDE DEF p
    <3> QED  BY <1>8, <1>9, <2>2, AuthorityKept
  <2> QED  BY <2>1, <2>2
<1> QED
  BY <1>3, <1>4, <1>5, <1>6, <1>10 DEF IInv

LEMMA GateHereStep ==
  ASSUME IInv, NEW c \in Callers, GateHere(c)
  PROVE  IInv'
<1>1. PICK evidence \in Presentable(callers[c].attempt.decision), a \in descriptor :
       LET at      == Asked(c, evidence)
           f       == Binding(at.decision, a)
           gate    == Preflight(at.decision, a, LocalPolicy, evidence,
                                Live(evidence))
           reserve == gate = "reserve" /\ ReserveResult(at.key, f) = "new"
       IN  /\ callers' = [callers EXCEPT ![c] =
                IF reserve \/ gate = "allowed"
                THEN Process("decided", at, {a}, IF reserve THEN issued + 1 ELSE 0)
                ELSE Idle]
           /\ ledger' = IF reserve THEN ledger \cup {Reservation(at.key, f)}
                        ELSE ledger
           /\ issued' = IF reserve THEN issued + 1 ELSE issued
  BY DEF GateHere
<1> DEFINE at == Asked(c, evidence)
           gate == Preflight(at.decision, a, LocalPolicy, evidence, Live(evidence))
           reserve == gate = "reserve"
                        /\ ReserveResult(at.key, Binding(at.decision, a)) = "new"
<1>2. /\ mode = "local" /\ callers[c] \in Caller
      /\ UNCHANGED <<approvalVars, mode, handlers, requests, attempts, effects>>
  BY CallerTypes DEF GateHere, IInv
<1>3. /\ at \in Attempt /\ at.evidence = evidence /\ a \in Actions
      /\ EffectivePolicy = LocalPolicy
  BY <1>2, AskedType DEF EffectivePolicy, IInv, TypeOK, ApprovalsTypeOK
<1>4. /\ callers' = [callers EXCEPT ![c] =
           IF reserve \/ gate = "allowed"
           THEN Process("decided", at, {a}, IF reserve THEN issued + 1 ELSE 0)
           ELSE Idle]
      /\ ledger' = IF reserve THEN ledger \cup {Reservation(at.key, Binding(at.decision, a))}
                   ELSE ledger
      /\ issued' = IF reserve THEN issued + 1 ELSE issued
  BY <1>1
<1>5. /\ gate = Preflight(at.decision, a, EffectivePolicy, at.evidence, Live(evidence))
      /\ reserve \in BOOLEAN
      /\ reserve => gate = "reserve" /\ ReserveResult(at.key, Binding(at.decision, a)) = "new"
  BY <1>3
<1> HIDE DEF at, gate, reserve
<1>6. CASE reserve \/ gate = "allowed"
  BY <1>2, <1>3, <1>4, <1>5, <1>6, DecisionStep
<1>7. CASE ~(reserve \/ gate = "allowed")
  <2>1. Finish(c) /\ ledger' = ledger /\ issued' = issued
    BY <1>4, <1>7 DEF Finish
  <2> QED
    BY <1>2, <2>1, FinishStep
<1> QED
  BY <1>6, <1>7

(* The effect happens under a reservation that only this caller holds.     *)
LEMMA ExecuteStep ==
  ASSUME IInv, NEW c \in Callers, Execute(c)
  PROVE  IInv'
<1> DEFINE p == [callers[c] EXCEPT !.pc = "executed"]
           x == [key |-> callers[c].attempt.key, id |-> callers[c].id,
                 number |-> callers[c].attempt.number]
<1>1. callers[c].pc = "executing" /\ callers[c] \in Caller
  BY CallerTypes DEF Execute, IInv
<1>2. callers' = [callers EXCEPT ![c] = p]
  BY CallerTypes DEF Execute, Move, IInv
<1>3. /\ p \in Caller /\ p.pc = "executed" /\ p.id = callers[c].id
      /\ p.attempt = callers[c].attempt /\ p.action = callers[c].action
  BY <1>1 DEF Caller, Unreported
<1>4. x \in Effect /\ x.key = callers[c].attempt.key /\ x.id = callers[c].id
  BY <1>1 DEF Caller, Attempt, Effect
<1>5. /\ \A y \in effects' : y \in effects \/ y = x
      /\ x \in effects' => x \in effects \/ \E a \in callers[c].action : a.side_effect # "none"
      /\ effects \subseteq effects'
  BY DEF Execute
<1>6. UNCHANGED <<approvalVars, mode, ledger, issued, handlers, requests, attempts>>
  BY DEF Execute
<1> HIDE DEF p, x
<1>7. EffectivePolicy' = EffectivePolicy
  BY <1>6 DEF EffectivePolicy
<1>8. /\ HoldersInv /\ RequestsInv /\ EffectsInv
      /\ callers \in [Callers -> {Idle} \cup Caller]
      /\ callers[c].pc \in Unreported
  BY <1>1, CallerTypes DEF IInv, Unreported
<1>9. callers[c].id # 0 => Holds(callers[c])
  BY <1>8 DEF HoldersInv
<1>10. EffectsInv'
  <2>1. ASSUME x \in effects', x \notin effects
        PROVE  /\ x.id <= issued
               /\ x.id = 0 <=> ~EffectivePolicy.idempotency
               /\ x.id # 0 => \E e \in ledger : e.id = x.id /\ e.key = x.key
    <3>1. PICK a \in callers[c].action : a.side_effect # "none"
      BY <1>5, <2>1
    <3>2. CASE callers[c].id = 0
      BY <1>4, <1>8, <3>1, <3>2 DEF HoldersInv, RequiresIdempotency
    <3>3. CASE callers[c].id # 0
      BY <1>4, <1>8, <1>9, <3>3 DEF HoldersInv, Holds
    <3> QED  BY <3>2, <3>3
  <2>2. ASSUME NEW y \in effects'
        PROVE  /\ y.id <= issued
               /\ y.id = 0 <=> ~EffectivePolicy.idempotency
               /\ y.id # 0 => \E e \in ledger : e.id = y.id /\ e.key = y.key
    BY <1>5, <1>8, <2>1 DEF EffectsInv
  <2>3. ASSUME NEW y \in effects, y.id # 0
        PROVE  y.id # x.id
    BY <1>1, <1>4, <1>9, <2>3 DEF Holds
  <2>4. \A y, z \in effects' : y.id = z.id /\ y.id # 0 => y = z
    BY <1>5, <1>8, <2>3 DEF EffectsInv
  <2> QED  BY <1>6, <1>7, <2>2, <2>4 DEF EffectsInv
<1>11. RequestsInv'
  <2>1. \A r \in requests : r.id # 0 => r.id # x.id
    BY <1>4, <1>9 DEF Holds
  <2>2. ASSUME NEW r \in requests, r.id # 0, r.kind = "release", NEW y \in effects'
        PROVE  y.id # r.id
    BY <1>5, <1>8, <2>1, <2>2 DEF RequestsInv
  <2> QED  BY <1>6, <1>8, <2>2 DEF RequestsInv
<1>12. ASSUME NEW d \in Callers
       PROVE  /\ callers'[d].id = callers[d].id
              /\ callers'[d].pc \in Unreported => callers[d].pc \in Unreported
              /\ callers[d].pc \in Unreported =>
                   /\ callers'[d].attempt = callers[d].attempt
                   /\ callers'[d].action = callers[d].action
              /\ callers'[d].pc # "executed" =>
                   d # c /\ callers'[d].pc = callers[d].pc
  BY <1>2, <1>3, <1>8
<1>13. ASSUME NEW d \in Callers, callers'[d].pc \in Unreported, callers[d].id # 0
       PROVE  Holds(callers[d])'
  <2>1. Holds(callers[d])
    BY <1>8, <1>12, <1>13 DEF HoldersInv
  <2>2. callers'[d].pc # "executed" => \A y \in effects' : y.id # callers[d].id
    <3>1. ASSUME callers'[d].pc # "executed" PROVE x.id # callers[d].id
      BY <1>4, <1>8, <1>12, <1>13, <3>1 DEF HoldersInv
    <3>2. ASSUME callers'[d].pc # "executed", NEW y \in effects PROVE y.id # callers[d].id
      BY <1>12, <2>1, <3>2 DEF Holds
    <3> QED  BY <1>5, <3>1, <3>2
  <2> QED
    BY <1>6, <1>7, <1>12, <1>13, <2>1, <2>2 DEF Holds
<1>14. HoldersInv'
  BY <1>6, <1>7, <1>8, <1>12, <1>13 DEF HoldersInv, RequiresIdempotency
<1>15. AllowedWithinAuthority'
  BY <1>1, <1>2, <1>3, <1>6, <1>8, AuthorityKept DEF IInv, Allowed
<1>16. ApprovalsTypeOK' /\ ChallengesInv'
  BY <1>6, ApprovalsUntouched DEF approvalVars, IInv, TypeOK, ApprovalsTypeOK
<1>17. TypeOK'
  BY <1>2, <1>3, <1>4, <1>5, <1>6, <1>8, <1>16 DEF IInv, TypeOK, ActionsTypeOK
<1>18. LedgerInv' /\ HandlersInv'
  BY <1>6, HandlersKept DEF IInv, LedgerInv, approvalVars
<1> QED
  BY <1>10, <1>11, <1>14, <1>15, <1>16, <1>17, <1>18 DEF IInv

(* An outcome is reported: at once, or by a request that takes over what   *)
(* the caller held.                                                        *)
LEMMA ReportStep ==
  ASSUME IInv, NEW c \in Callers, NEW kind \in {"complete", "release"},
         \/ kind = "complete" /\ callers[c].pc = "executed"
         \/ kind = "release" /\ callers[c].pc = "executing",
         Report(c, kind),
         UNCHANGED <<approvalVars, mode, issued, handlers, attempts, effects>>
  PROVE  IInv'
<1>1. /\ callers[c] \in Caller /\ callers[c].pc \in Unreported \cap Allowed
      /\ callers \in [Callers -> {Idle} \cup Caller]
  BY CallerTypes DEF IInv, Unreported, Allowed
<1>2. PICK a \in callers[c].action :
        LET at == callers[c].attempt
            f  == Binding(at.decision, a)
        IN  IF mode = "local"
            THEN /\ ledger' = IF callers[c].id = 0 THEN ledger
                              ELSE Settled(kind, at.key, f)
                 /\ Finish(c)
                 /\ UNCHANGED requests
            ELSE /\ requests' = requests \cup
                      {[kind |-> kind, caller |-> c, number |-> at.number,
                        key |-> at.key, fingerprint |-> f, id |-> callers[c].id]}
                 /\ Move(c, "settling")
                 /\ UNCHANGED ledger
  BY DEF Report
<1> DEFINE at == callers[c].attempt
           f == Binding(at.decision, a)
<1>3. /\ at \in Attempt /\ a \in Action /\ f \in Bindings
      /\ f.side_effect = a.side_effect
  BY <1>1, BindingType, ApprovalAssumption DEF Caller, Attempt
<1>4. callers[c].id # 0 => Holds(callers[c])
  BY <1>1 DEF IInv, HoldersInv
<1>5. ApprovalsTypeOK' /\ ChallengesInv' /\ HandlersInv'
  BY ApprovalsUntouched, HandlersKept
  DEF approvalVars, IInv, TypeOK, ApprovalsTypeOK
<1>6. CASE mode = "local"
  <2>1. /\ callers' = [callers EXCEPT ![c] = Idle] /\ UNCHANGED requests
        /\ ledger' = IF callers[c].id = 0 THEN ledger ELSE Settled(kind, at.key, f)
    BY <1>2, <1>6 DEF Finish
  <2>2. CASE callers[c].id = 0
    BY <2>1, <2>2, FinishStep DEF Finish
  <2>3. CASE callers[c].id # 0
    <3>1. PICK e \in ledger :
            /\ e.id = callers[c].id /\ e.key = at.key /\ e.state = "pending"
            /\ e.fingerprint = f
      BY <1>4, <2>3 DEF Holds
    <3>2. ledger' = Settled(kind, e.key, e.fingerprint)
      BY <2>1, <2>3, <3>1
    <3> HIDE DEF at, f
    <3>3. kind = "release" => \A x \in effects : x.id # e.id
      BY <1>4, <2>3, <3>1 DEF Holds
    <3>4. requests = {}
      BY <1>6 DEF IInv, RequestsInv
    <3>5. /\ callers' \in [Callers -> {Idle} \cup Caller]
          /\ \A d \in Callers :
               \/ callers'[d] = Idle
               \/ callers'[d] = callers[d] /\ callers[d].id # e.id
      BY <1>1, <2>1, <2>3, <3>1 DEF IInv, HoldersInv
    <3>6. /\ ledger' \subseteq Entry
          /\ LedgerInv' /\ HoldersInv' /\ RequestsInv' /\ EffectsInv'
      BY <2>1, <3>1, <3>2, <3>3, <3>4, <3>5, HolderSettles DEF IInv
    <3>7. TypeOK'
      BY <1>5, <2>1, <3>5, <3>6 DEF IInv, TypeOK, ActionsTypeOK
    <3>8. AllowedWithinAuthority'
      BY <1>1, <2>1, IdleFollows, AuthorityKept DEF IInv
    <3> QED
      BY <1>5, <3>6, <3>7, <3>8 DEF IInv
  <2> QED  BY <2>2, <2>3
<1>7. CASE mode # "local"
  <2> DEFINE r == [kind |-> kind, caller |-> c, number |-> at.number,
                   key |-> at.key, fingerprint |-> f, id |-> callers[c].id]
             p == [callers[c] EXCEPT !.pc = "settling"]
  <2>1. requests' = requests \cup {r} /\ ledger' = ledger
    BY <1>2, <1>7
  <2>2. callers' = [callers EXCEPT ![c] = p]
    BY <1>1, <1>2, <1>7 DEF Move
  <2>3. r \in Request
    BY <1>1, <1>3 DEF Request, Attempt, Caller
  <2>4. /\ p \in Caller /\ p.pc = "settling" /\ p.id = callers[c].id
        /\ p.attempt = at /\ p.action = callers[c].action
    BY <1>1 DEF Caller
  <2>5. /\ r.id = callers[c].id /\ r.key = at.key /\ r.fingerprint = f
        /\ r.kind = kind
    OBVIOUS
  <2>6. EffectivePolicy = DefaultPolicy /\ EffectivePolicy' = EffectivePolicy
    BY <1>7 DEF EffectivePolicy
  <2> HIDE DEF r, p
  <2>7. r.id = 0 => r.fingerprint.side_effect = "none"
    BY <1>1, <1>3, <2>5, <2>6 DEF IInv, HoldersInv, RequiresIdempotency, DefaultPolicy
  <2>8. r.id # 0 =>
          /\ \A q \in requests : q.id # r.id
          /\ \E e \in ledger : /\ e.id = r.id /\ e.key = r.key /\ e.state = "pending"
                               /\ e.fingerprint = r.fingerprint
          /\ r.kind = "release" => \A x \in effects : x.id # r.id
    <3>1. kind = "release" => callers[c].pc # "executed"
      OBVIOUS
    <3> QED  BY <1>4, <2>5, <3>1 DEF Holds
  <2>9. RequestsInv'
    <3>1. r.id <= issued
      BY <2>5 DEF IInv, HoldersInv
    <3> QED
      BY <1>7, <2>1, <2>7, <2>8, <3>1 DEF IInv, RequestsInv
  <2>10. ASSUME NEW d \in Callers
         PROVE  /\ callers'[d].id = callers[d].id
                /\ callers'[d].pc \in Unreported => d # c /\ callers'[d] = callers[d]
    BY <1>1, <2>2, <2>4 DEF Unreported
  <2>11. ASSUME NEW d \in Callers, callers'[d].pc \in Unreported, callers[d].id # 0
         PROVE  Holds(callers[d])'
    <3>1. Holds(callers[d]) /\ d # c /\ callers'[d] = callers[d]
      BY <2>10, <2>11 DEF IInv, HoldersInv
    <3>2. r.id # callers[d].id
      BY <2>5, <2>11, <3>1 DEF IInv, HoldersInv
    <3> QED
      BY <2>1, <2>6, <3>1, <3>2 DEF Holds
  <2>12. HoldersInv'
    BY <2>6, <2>10, <2>11 DEF IInv, HoldersInv, RequiresIdempotency
  <2>13. LedgerInv' /\ EffectsInv'
    BY <2>1, <2>6 DEF IInv, LedgerInv, EffectsInv
  <2>14. AllowedWithinAuthority'
    BY <1>1, <2>2, <2>4, AuthorityKept DEF IInv
  <2>15. TypeOK'
    BY <1>1, <1>5, <2>1, <2>2, <2>3, <2>4 DEF IInv, TypeOK, ActionsTypeOK
  <2> QED
    BY <1>5, <2>9, <2>12, <2>13, <2>14, <2>15 DEF IInv
<1> QED
  BY <1>6, <1>7
-----------------------------------------------------------------------------
(* Handlers and requests.                                                  *)

(* The handler ends and the caller, if it still listens, is told no; or    *)
(* the handler goes on with what it has read.                              *)
LEMMA RefuseStep ==
  ASSUME IInv, NEW h \in handlers, Refuse(h),
         UNCHANGED <<approvalVars, mode, requests, attempts, effects>>
  PROVE  IInv'
<1>1. h.caller \in Callers
  BY DEF IInv, TypeOK, ActionsTypeOK, Handler
<1>2. /\ handlers' = handlers \ {h} /\ UNCHANGED <<ledger, issued>>
      /\ \/ callers' = [callers EXCEPT ![h.caller] = Idle]
         \/ callers' = callers
  BY DEF Refuse, Answered
<1>3. HandlersInv'
  BY <1>2, HandlersKept DEF IInv, approvalVars
<1>4. decisions' \subseteq Decision /\ attempts' \in Nat /\ handlers' \subseteq Handler
  BY <1>2 DEF IInv, TypeOK, ApprovalsTypeOK, ActionsTypeOK, approvalVars
<1>5. CASE callers' = [callers EXCEPT ![h.caller] = Idle]
  BY <1>1, <1>2, <1>3, <1>4, <1>5, IdleFollows, QuietStep DEF approvalVars
<1>6. CASE callers' = callers
  <2> DEFINE p == callers[h.caller]
  <2>1. /\ callers' = [callers EXCEPT ![h.caller] = p] /\ p \in {Idle} \cup Caller
        /\ Follows(p, callers[h.caller])
    BY <1>1, <1>6, CallerTypes DEF IInv, Follows
  <2>2. p.pc \in Allowed => /\ callers[h.caller].pc \in Allowed
                            /\ p.attempt = callers[h.caller].attempt
                            /\ p.action = callers[h.caller].action
    OBVIOUS
  <2> HIDE DEF p
  <2> QED
    BY <1>1, <1>2, <1>3, <1>4, <2>1, <2>2, QuietStep DEF approvalVars
<1> QED
  BY <1>2, <1>5, <1>6

LEMMA HandlersOnlyStep ==
  ASSUME IInv, handlers' \subseteq Handler, HandlersInv',
         UNCHANGED <<approvalVars, mode, ledger, issued, callers, requests,
                     attempts, effects>>
  PROVE  IInv'
<1>1. ApprovalsTypeOK' /\ ChallengesInv'
  BY ApprovalsUntouched DEF approvalVars, IInv, TypeOK, ApprovalsTypeOK
<1>2. TypeOK'
  BY <1>1 DEF IInv, TypeOK, ActionsTypeOK
<1>3. EffectivePolicy' = EffectivePolicy
  BY DEF EffectivePolicy
<1>4. /\ LedgerInv' /\ RequestsInv' /\ EffectsInv' /\ AllowedWithinAuthority'
  BY <1>3 DEF IInv, LedgerInv, RequestsInv, EffectsInv, AllowedWithinAuthority
<1>5. HoldersInv'
  BY <1>3 DEF IInv, HoldersInv, Holds
<1> QED
  BY <1>1, <1>2, <1>4, <1>5 DEF IInv

(* Evidence that the store recognises is not of a revoked challenge.       *)
LEMMA RecognisedIsLive ==
  ASSUME IInv, NEW h \in handlers, Recognised(h.attempt.evidence)
  PROVE  \A e \in h.attempt.evidence : e.challenge \notin h.attempt.revoked
<1>1. ASSUME NEW e \in h.attempt.evidence, e.challenge \in h.attempt.revoked
      PROVE  FALSE
  <2>1. PICK x \in challenges : x.status = "approved" /\ e.challenge = x.id
    BY DEF Recognised, VerifyRecordedApproval, Evidence
  <2>2. PICK y \in challenges : y.id = e.challenge /\ y.status = "revoked"
    BY <1>1 DEF IInv, HandlersInv
  <2> QED
    BY <2>1, <2>2 DEF IInv, ChallengesInv
<1> QED
  BY <1>1

LEMMA GateAndReserveStep ==
  ASSUME IInv, NEW h \in handlers, NEW a \in Actions, GateAndReserve(h, a),
         \A e \in h.attempt.evidence : e.challenge \notin h.attempt.revoked,
         UNCHANGED <<approvalVars, mode, requests, attempts, effects>>
  PROVE  IInv'
<1> DEFINE at == h.attempt
           gate == Preflight(at.decision, a, DefaultPolicy, at.evidence, Live(at.evidence))
           reserve == gate = "reserve"
                        /\ ReserveResult(at.key, Binding(at.decision, a)) = "new"
           known == [h EXCEPT !.action = {a}]
           id == IF reserve THEN issued + 1 ELSE 0
<1>1. /\ handlers' = handlers \ {h}
      /\ callers' = Answered(known, reserve \/ gate = "allowed", id)
      /\ ledger' = IF reserve THEN ledger \cup {Reservation(at.key, Binding(at.decision, a))}
                   ELSE ledger
      /\ issued' = IF reserve THEN issued + 1 ELSE issued
  BY DEF GateAndReserve
<1>2. h \in Handler /\ h.caller \in Callers /\ at \in Attempt /\ mode # "local"
  BY DEF IInv, TypeOK, ActionsTypeOK, Handler, HandlersInv
<1>3. known.caller = h.caller /\ known.attempt = at /\ known.action = {a}
  BY <1>2 DEF Handler
<1>4. EffectivePolicy = DefaultPolicy
  BY <1>2 DEF EffectivePolicy
<1>5. /\ gate = Preflight(at.decision, a, EffectivePolicy, at.evidence, Live(at.evidence))
      /\ reserve \in BOOLEAN
      /\ reserve => gate = "reserve" /\ ReserveResult(at.key, Binding(at.decision, a)) = "new"
  BY <1>4
<1> HIDE DEF gate, reserve, known
<1>6. CASE reserve \/ gate = "allowed"
  <2>1. \/ callers' = callers
        \/ callers' = [callers EXCEPT ![h.caller] = Process("decided", at, {a}, id)]
    BY <1>1, <1>3, <1>6 DEF Answered
  <2> QED
    BY <1>1, <1>2, <1>5, <1>6, <2>1, DecisionStep
<1>7. CASE ~(reserve \/ gate = "allowed")
  <2>1. Refuse(h)
    BY <1>1, <1>3, <1>7 DEF Refuse, Answered
  <2> QED
    BY <2>1, RefuseStep
<1> QED
  BY <1>6, <1>7

LEMMA HandlerStep ==
  ASSUME IInv, NEW h \in handlers, HandlerNext(h) \/ HandlerDies(h)
  PROVE  IInv'
<1>1. h \in Handler /\ descriptor \subseteq Actions /\ handlers \subseteq Handler
  BY DEF IInv, TypeOK, ActionsTypeOK, ApprovalsTypeOK
<1>2. CASE ReadDescriptor(h)
  <2>1. CASE Refuse(h)
    BY <1>2, <2>1, RefuseStep DEF ReadDescriptor
  <2>2. CASE ~Refuse(h)
    <3> DEFINE new == [h EXCEPT !.pc = "approval", !.action = descriptor]
    <3>1. /\ handlers' = (handlers \ {h}) \cup {new}
          /\ UNCHANGED <<ledger, issued, callers>>
          /\ UNCHANGED <<approvalVars, mode, requests, attempts, effects>>
      BY <1>2, <2>2 DEF ReadDescriptor
    <3>2. new \in Handler /\ new.attempt = h.attempt /\ new.pc = "approval"
      BY <1>1 DEF Handler
    <3> HIDE DEF new
    <3>3. handlers' \subseteq Handler /\ HandlersInv'
      BY <1>1, <3>1, <3>2 DEF IInv, HandlersInv, approvalVars
    <3> QED
      BY <3>1, <3>3, HandlersOnlyStep
  <2> QED  BY <2>1, <2>2
<1>3. CASE ReadApproval(h)
  <2>1. CASE Refuse(h)
    BY <1>3, <2>1, RefuseStep DEF ReadApproval
  <2>2. CASE ~Refuse(h)
    <3> DEFINE new == [h EXCEPT !.pc = "reserve"]
    <3>1. /\ handlers' = (handlers \ {h}) \cup {new}
          /\ UNCHANGED <<ledger, issued, callers>>
          /\ UNCHANGED <<approvalVars, mode, requests, attempts, effects>>
          /\ Recognised(h.attempt.evidence)
      BY <1>3, <2>2 DEF ReadApproval
    <3>2. new \in Handler /\ new.attempt = h.attempt
      BY <1>1 DEF Handler
    <3>3. \A e \in h.attempt.evidence : e.challenge \notin h.attempt.revoked
      BY <3>1, RecognisedIsLive
    <3> HIDE DEF new
    <3>4. handlers' \subseteq Handler /\ HandlersInv'
      BY <1>1, <3>1, <3>2, <3>3 DEF IInv, HandlersInv, approvalVars
    <3> QED
      BY <3>1, <3>4, HandlersOnlyStep
  <2> QED  BY <2>1, <2>2
<1>4. CASE Reserve(h)
  <2>1. PICK a \in h.action : GateAndReserve(h, a)
    BY <1>4 DEF Reserve
  <2>2. a \in Actions
    BY <1>1 DEF Handler
  <2>3. \A e \in h.attempt.evidence : e.challenge \notin h.attempt.revoked
    BY <1>4 DEF Reserve, IInv, HandlersInv
  <2> QED
    BY <1>4, <2>1, <2>2, <2>3, GateAndReserveStep DEF Reserve
<1>5. CASE EvaluateHere(h)
  <2>1. CASE Refuse(h)
    BY <1>5, <2>1, RefuseStep DEF EvaluateHere
  <2>2. CASE ~Refuse(h)
    <3>1. PICK a \in descriptor : GateAndReserve(h, a)
      BY <1>5, <2>2 DEF EvaluateHere
    <3>2. \A e \in h.attempt.evidence : e.challenge \notin h.attempt.revoked
      BY <1>5, <2>2, RecognisedIsLive DEF EvaluateHere
    <3> QED
      BY <1>1, <1>5, <3>1, <3>2, GateAndReserveStep DEF EvaluateHere
  <2> QED  BY <2>1, <2>2
<1>6. CASE HandlerDies(h)
  <2>1. handlers' \subseteq Handler /\ HandlersInv'
    BY <1>1, <1>6, HandlersKept DEF HandlerDies, IInv, approvalVars
  <2> QED
    BY <1>6, <2>1, HandlersOnlyStep DEF HandlerDies
<1> QED
  BY <1>2, <1>3, <1>4, <1>5, <1>6 DEF HandlerNext

(* A request that arrives settles its own reservation, or, if it has none, *)
(* nothing.                                                                *)
LEMMA HandleRequestStep ==
  ASSUME IInv, NEW r \in requests, HandleRequest(r)
  PROVE  IInv'
<1>1. /\ r \in Request /\ r.kind \in {"complete", "release"} /\ r.caller \in Callers
      /\ callers \in [Callers -> {Idle} \cup Caller]
  BY DEF IInv, TypeOK, ActionsTypeOK, Request
<1>2. /\ requests' = requests \ {r}
      /\ ledger' = Settled(r.kind, r.key, r.fingerprint)
      /\ UNCHANGED <<approvalVars, mode, issued, handlers, attempts, effects>>
      /\ \/ callers' = [callers EXCEPT ![r.caller] = Idle]
            /\ callers[r.caller].pc = "settling"
         \/ callers' = callers
  BY DEF HandleRequest, Finish
<1>3. EffectivePolicy' = EffectivePolicy
  BY <1>2 DEF EffectivePolicy
<1>4. ApprovalsTypeOK' /\ ChallengesInv' /\ HandlersInv'
  BY <1>2, ApprovalsUntouched, HandlersKept
  DEF approvalVars, IInv, TypeOK, ApprovalsTypeOK
<1>5. /\ callers' \in [Callers -> {Idle} \cup Caller]
      /\ \A d \in Callers : callers'[d] = Idle \/ callers'[d] = callers[d]
  BY <1>1, <1>2
<1>6. AllowedWithinAuthority'
  BY <1>2, <1>3, <1>5, IdleFollows DEF IInv, AllowedWithinAuthority, Allowed
<1>7. CASE r.id # 0
  <2>1. PICK e \in ledger : /\ e.id = r.id /\ e.key = r.key /\ e.state = "pending"
                            /\ e.fingerprint = r.fingerprint
    BY <1>7 DEF IInv, RequestsInv
  <2>2. /\ r.kind = "release" => \A x \in effects : x.id # e.id
        /\ \A q \in requests' : q.id # e.id
    BY <1>2, <1>7, <2>1 DEF IInv, RequestsInv
  <2>3. \A d \in Callers : callers[d].pc \in Unreported => callers[d].id # e.id
    BY <1>7, <2>1 DEF IInv, HoldersInv, Holds
  <2>4. /\ ledger' = Settled(r.kind, e.key, e.fingerprint)
        /\ requests' \subseteq requests /\ UNCHANGED <<mode, issued, effects>>
    BY <1>2, <2>1
  <2>5. /\ ledger' \subseteq Entry
        /\ LedgerInv' /\ HoldersInv' /\ RequestsInv' /\ EffectsInv'
    BY <1>1, <1>5, <2>1, <2>2, <2>3, <2>4, HolderSettles DEF IInv
  <2>6. TypeOK'
    BY <1>2, <1>4, <1>5, <2>5 DEF IInv, TypeOK, ActionsTypeOK
  <2> QED
    BY <1>4, <1>6, <2>5, <2>6 DEF IInv
<1>8. CASE r.id = 0
  <2>1. ledger' = ledger
    <3>1. \A e \in ledger : e.fingerprint # r.fingerprint
      BY <1>8 DEF IInv, RequestsInv, LedgerInv
    <3> QED  BY <1>2, <3>1, SettledNone
  <2>2. LedgerInv' /\ RequestsInv' /\ EffectsInv'
    BY <1>2, <1>3, <2>1 DEF IInv, LedgerInv, RequestsInv, EffectsInv
  <2>3. Idle.id = 0 /\ Idle.pc \notin Unreported
    BY DEF Idle, Unreported
  <2>4. ASSUME NEW d \in Callers, callers'[d].pc \in Unreported, callers[d].id # 0
        PROVE  Holds(callers[d])'
    <3>1. callers'[d] = callers[d] /\ Holds(callers[d])
      BY <1>5, <2>3, <2>4 DEF IInv, HoldersInv
    <3> QED
      BY <1>2, <1>3, <2>1, <3>1 DEF Holds
  <2>5. HoldersInv'
    <3>1. issued \in Nat
      BY DEF IInv, TypeOK, ActionsTypeOK
    <3> QED
      BY <1>2, <1>3, <1>5, <2>3, <2>4, <3>1 DEF IInv, HoldersInv, RequiresIdempotency
  <2>6. TypeOK'
    BY <1>2, <1>4, <1>5, <2>1 DEF IInv, TypeOK, ActionsTypeOK
  <2> QED
    BY <1>4, <1>6, <2>2, <2>5, <2>6 DEF IInv
<1> QED
  BY <1>7, <1>8

LEMMA LoseRequestStep ==
  ASSUME IInv, NEW r \in requests, LoseRequest(r)
  PROVE  IInv'
<1>1. /\ requests' = requests \ {r}
      /\ UNCHANGED <<approvalVars, mode, ledger, issued, callers, handlers,
                     attempts, effects>>
  BY DEF LoseRequest
<1>2. EffectivePolicy' = EffectivePolicy
  BY <1>1 DEF EffectivePolicy
<1>3. ApprovalsTypeOK' /\ ChallengesInv' /\ HandlersInv'
  BY <1>1, ApprovalsUntouched, HandlersKept
  DEF approvalVars, IInv, TypeOK, ApprovalsTypeOK
<1>4. LedgerInv' /\ RequestsInv' /\ EffectsInv' /\ AllowedWithinAuthority'
  BY <1>1, <1>2 DEF IInv, LedgerInv, RequestsInv, EffectsInv, AllowedWithinAuthority
<1>5. HoldersInv'
  BY <1>1, <1>2 DEF IInv, HoldersInv, Holds
<1>6. TypeOK'
  BY <1>1, <1>3 DEF IInv, TypeOK, ActionsTypeOK
<1> QED
  BY <1>3, <1>4, <1>5, <1>6 DEF IInv

(* An operator settles a reservation that nobody holds any more.           *)
LEMMA ReconcileStep ==
  ASSUME IInv, NEW e \in ledger, Reconcile(e)
  PROVE  IInv'
<1> DEFINE kind == IF \E x \in effects : x.id = e.id THEN "complete" ELSE "release"
<1>1. /\ e.state = "pending" /\ Abandoned(e.id)
      /\ ledger' = Settled(kind, e.key, e.fingerprint)
      /\ UNCHANGED <<approvalVars, mode, issued, callers, handlers, requests,
                     attempts, effects>>
  BY DEF Reconcile
<1>2. /\ \A c \in Callers : callers[c].id # e.id
      /\ \A r \in requests : r.id # e.id
  BY <1>1 DEF Abandoned
<1>3. kind \in {"complete", "release"}
        /\ (kind = "release" => \A x \in effects : x.id # e.id)
  OBVIOUS
<1> HIDE DEF kind
<1>4. callers' \in [Callers -> {Idle} \cup Caller]
  BY <1>1 DEF IInv, TypeOK, ActionsTypeOK
<1>5. /\ ledger' \subseteq Entry
      /\ LedgerInv' /\ HoldersInv' /\ RequestsInv' /\ EffectsInv'
  BY <1>1, <1>2, <1>3, <1>4, HolderSettles DEF IInv
<1>6. ApprovalsTypeOK' /\ ChallengesInv' /\ HandlersInv'
  BY <1>1, ApprovalsUntouched, HandlersKept
  DEF approvalVars, IInv, TypeOK, ApprovalsTypeOK
<1>7. TypeOK'
  BY <1>1, <1>4, <1>5, <1>6 DEF IInv, TypeOK, ActionsTypeOK
<1>8. AllowedWithinAuthority'
  BY <1>1 DEF IInv, AllowedWithinAuthority, EffectivePolicy
<1> QED
  BY <1>5, <1>6, <1>7, <1>8 DEF IInv

(* An approval is requested, given, revoked or expires.                    *)
LEMMA ApprovalStep ==
  ASSUME IInv, ApprovalsNext, UNCHANGED actionVars
  PROVE  IInv'
<1>1. /\ ApprovalsTypeOK' /\ ChallengesInv'
      /\ \A ch \in challenges : \E new \in challenges' :
           /\ new.id = ch.id
           /\ ch.status = "revoked" => new.status = "revoked"
  BY ApprovalsStep DEF IInv, TypeOK
<1>2. TypeOK'
  BY <1>1 DEF IInv, TypeOK, ActionsTypeOK, actionVars
<1>3. HandlersInv'
  <2>1. ASSUME NEW h \in handlers, NEW id \in h.attempt.revoked
        PROVE  \E ch \in challenges' : ch.id = id /\ ch.status = "revoked"
    BY <1>1 DEF IInv, HandlersInv
  <2> QED
    BY <2>1 DEF IInv, HandlersInv, actionVars
<1>4. EffectivePolicy' = EffectivePolicy
  BY DEF EffectivePolicy, actionVars
<1>5. LedgerInv' /\ RequestsInv' /\ EffectsInv' /\ AllowedWithinAuthority'
  BY <1>4 DEF IInv, LedgerInv, RequestsInv, EffectsInv, AllowedWithinAuthority, actionVars
<1>6. HoldersInv'
  BY <1>4 DEF IInv, HoldersInv, Holds, actionVars
<1> QED
  BY <1>1, <1>2, <1>3, <1>5, <1>6 DEF IInv
-----------------------------------------------------------------------------
(* The theorems.                                                           *)

LEMMA InitStep == Init => IInv
<1> SUFFICES ASSUME Init PROVE IInv
  OBVIOUS
<1>1. IsFiniteSet({}) /\ Cardinality({}) = 0
  BY FS_EmptySet
<1>2. ApprovalsTypeOK /\ ChallengesInv
  BY <1>1 DEF Init, ApprovalsInit, ApprovalsTypeOK, ChallengesInv
<1>3. TypeOK
  BY <1>2 DEF Init, TypeOK, ActionsTypeOK
<1>4. Idle.id = 0 /\ Idle.pc = "idle"
  BY DEF Idle
<1>5. LedgerInv /\ RequestsInv /\ EffectsInv /\ HandlersInv
  BY DEF Init, LedgerInv, RequestsInv, EffectsInv, HandlersInv
<1>6. HoldersInv /\ AllowedWithinAuthority
  BY <1>4 DEF Init, HoldersInv, AllowedWithinAuthority, Unreported
<1> QED
  BY <1>2, <1>3, <1>5, <1>6 DEF IInv

LEMMA NextStep == IInv /\ [Next]_vars => IInv'
<1> SUFFICES ASSUME IInv, [Next]_vars PROVE IInv'
  OBVIOUS
<1>1. ASSUME NEW c \in Callers, CallerNext(c)
      PROVE  IInv'
  <2>1. CASE Validate(c)           BY <2>1, ValidateStep
  <2>2. CASE Ask(c)                BY <2>2, AskStep
  <2>3. CASE GateHere(c)           BY <2>3, GateHereStep
  <2>4. CASE GiveUp(c)             BY <2>4, FinishStep DEF GiveUp
  <2>5. CASE Proceed(c)            BY <2>5, ProceedStep
  <2>6. CASE HookThrows(c)         BY <2>6, FinishStep DEF HookThrows
  <2>7. CASE Execute(c)            BY <2>7, ExecuteStep
  <2>8. CASE ReportCompletion(c)   BY <2>8, ReportStep DEF ReportCompletion
  <2>9. CASE ExecuteThrows(c)      BY <2>9, ReportStep DEF ExecuteThrows
  <2>10. CASE Crash(c)             BY <2>10, FinishStep DEF Crash
  <2> QED
    BY <1>1, <2>1, <2>2, <2>3, <2>4, <2>5, <2>6, <2>7, <2>8, <2>9, <2>10
    DEF CallerNext
<1>2. ASSUME NEW h \in handlers, HandlerNext(h) \/ HandlerDies(h)
      PROVE  IInv'
  BY <1>2, HandlerStep
<1>3. ASSUME NEW r \in requests, HandleRequest(r) \/ LoseRequest(r)
      PROVE  IInv'
  BY <1>3, HandleRequestStep, LoseRequestStep
<1>4. ASSUME NEW e \in ledger, Reconcile(e)
      PROVE  IInv'
  BY <1>4, ReconcileStep
<1>5. CASE ApprovalsNext /\ UNCHANGED actionVars
  BY <1>5, ApprovalStep
<1>6. CASE UNCHANGED vars
  <2>1. handlers' \subseteq Handler /\ HandlersInv'
    BY <1>6, HandlersKept DEF vars, actionVars, approvalVars, IInv, TypeOK, ActionsTypeOK
  <2> QED
    BY <1>6, <2>1, HandlersOnlyStep DEF vars, actionVars
<1> QED
  BY <1>1, <1>2, <1>3, <1>4, <1>5, <1>6 DEF Next

(* IInv holds in every reachable state: who holds a reservation, which     *)
(* requests are about it, what has happened under it, and what handlers    *)
(* have read, always fit together.                                         *)
THEOREM Invariance == Spec => []IInv
<1>1. Init => IInv
  BY InitStep
<1>2. IInv /\ [Next]_vars => IInv'
  BY NextStep
<1> QED
  BY <1>1, <1>2, PTL DEF Spec

(* One effect at most under an idempotency key, however many callers try   *)
(* it however often, whatever is lost, late or crashed on the way.         *)
THEOREM EffectsHappenOnce == Spec => []EffectAtMostOnce
<1>1. IInv => EffectAtMostOnce
  <2> SUFFICES ASSUME IInv, EffectivePolicy.idempotency,
                      NEW x \in effects, NEW y \in effects, x.key = y.key
               PROVE  x = y
    BY DEF EffectAtMostOnce
  <2>1. PICK d \in ledger : d.id = x.id /\ d.key = x.key
    BY DEF IInv, EffectsInv
  <2>2. PICK e \in ledger : e.id = y.id /\ e.key = y.key
    BY DEF IInv, EffectsInv
  <2>3. x.id = y.id
    BY <2>1, <2>2 DEF IInv, LedgerInv
  <2> QED
    BY <2>3 DEF IInv, EffectsInv
<1> QED
  BY <1>1, Invariance, PTL

(* Nobody is told to execute without the approval that its risk asks for.  *)
THEOREM AuthorityIsKept == Spec => []AllowedWithinAuthority
<1>1. IInv => AllowedWithinAuthority
  BY DEF IInv
<1> QED
  BY <1>1, Invariance, PTL

(* Evidence lasts exactly until its challenge is revoked.                  *)
THEOREM EvidenceLasts == Spec => EvidenceLastsUntilRevoked
<1>1. ASSUME IInv, [Next]_vars
      PROVE  [\A ch \in challenges : \E new \in challenges' :
                /\ new.id = ch.id /\ new.binding = ch.binding
                /\ new.status # "revoked" => Evidence(ch) \subseteq Evidence(new)
                /\ ch.status = "revoked" => new.status = "revoked" /\ Evidence(new) = {}
             ]_challenges
  <2>1. CASE ApprovalsNext
    BY <1>1, <2>1, ApprovalsStep DEF IInv, TypeOK
  <2>2. CASE ~ApprovalsNext
    <3>1. challenges' = challenges
      BY <1>1, <2>2
      DEF Next, CallerNext, HandlerNext, vars, approvalVars, Validate, Ask, GateHere,
          GiveUp, Proceed, HookThrows, Execute, ReportCompletion, ExecuteThrows, Crash,
          ReadDescriptor, ReadApproval, Reserve, EvaluateHere, HandlerDies,
          HandleRequest, LoseRequest, Reconcile, RecordAcceptedDecision
    <3> QED  BY <3>1
  <2> QED  BY <2>1, <2>2
<1> QED
  BY <1>1, Invariance, PTL DEF Spec, EvidenceLastsUntilRevoked
-----------------------------------------------------------------------------
(* The reservations implement the abstract ledger.                         *)

(* A key that the ledger calls new is free, and gets a reservation.        *)
LEMMA AdmitSimulated ==
  ASSUME NEW at \in Attempt, NEW a \in Actions,
         ReserveResult(at.key, Binding(at.decision, a)) = "new",
         ledger' = ledger \cup {Reservation(at.key, Binding(at.decision, a))},
         issued' = issued + 1
  PROVE  Ledger!Next
<1>1. at.key \in Keys /\ Binding(at.decision, a) \in Bindings
  BY BindingType, ApprovalAssumption DEF Attempt
<1>2. Ledger!Free(at.key)
  BY DEF ReserveResult, Ledger!Free
<1>3. Ledger!Admit(at.key, Binding(at.decision, a))
  BY <1>2 DEF Ledger!Admit, Reservation
<1> QED
  BY <1>1, <1>3 DEF Ledger!Next

(* A settlement concerns one pending reservation or none.                  *)
LEMMA SettleSimulated ==
  ASSUME IInv, NEW kind \in {"complete", "release"}, NEW k, NEW f,
         ledger' = Settled(kind, k, f), issued' = issued
  PROVE  [Ledger!Next]_<<ledger, issued>>
<1>1. LedgerInv /\ ledger \subseteq Entry
  BY DEF IInv, TypeOK, ActionsTypeOK
<1>2. ASSUME NEW e \in ledger, e.key = k, e.fingerprint = f, e.state = "pending"
      PROVE  Ledger!Next
  <2>1. CASE kind = "release"
    BY <1>1, <1>2, <2>1, SettledOne DEF Ledger!Next, Ledger!Withdraw
  <2>2. CASE kind = "complete"
    BY <1>1, <1>2, <2>2, SettledOne DEF Ledger!Next, Ledger!Settle
  <2> QED
    BY <2>1, <2>2
<1>3. CASE \A e \in ledger : ~(e.key = k /\ e.fingerprint = f /\ e.state = "pending")
  BY <1>3, SettledNone
<1> QED
  BY <1>2, <1>3

LEMMA GateSimulated ==
  ASSUME IInv, NEW h \in handlers, NEW a \in Actions, GateAndReserve(h, a)
  PROVE  [Ledger!Next]_<<ledger, issued>>
<1>1. h.attempt \in Attempt
  BY DEF IInv, TypeOK, ActionsTypeOK, Handler
<1>2. \/ UNCHANGED <<ledger, issued>>
      \/ /\ ReserveResult(h.attempt.key, Binding(h.attempt.decision, a)) = "new"
         /\ ledger' = ledger \cup
              {Reservation(h.attempt.key, Binding(h.attempt.decision, a))}
         /\ issued' = issued + 1
  BY DEF GateAndReserve
<1> QED
  BY <1>1, <1>2, AdmitSimulated

LEMMA HandlerSimulated ==
  ASSUME IInv, NEW h \in handlers, HandlerNext(h) \/ HandlerDies(h)
  PROVE  [Ledger!Next]_<<ledger, issued>>
<1>1. h.action \subseteq Actions /\ descriptor \subseteq Actions
  BY DEF IInv, TypeOK, ActionsTypeOK, ApprovalsTypeOK, Handler
<1>2. CASE ReadDescriptor(h) \/ ReadApproval(h) \/ HandlerDies(h)
  BY <1>2 DEF ReadDescriptor, ReadApproval, HandlerDies, Refuse
<1>3. CASE Reserve(h)
  BY <1>1, <1>3, GateSimulated DEF Reserve
<1>4. CASE EvaluateHere(h)
  <2>1. CASE Refuse(h)
    BY <2>1 DEF Refuse
  <2>2. CASE ~Refuse(h)
    BY <1>1, <1>4, <2>2, GateSimulated DEF EvaluateHere
  <2> QED
    BY <2>1, <2>2
<1> QED
  BY <1>2, <1>3, <1>4 DEF HandlerNext

LEMMA CallerSimulated ==
  ASSUME IInv, NEW c \in Callers, CallerNext(c)
  PROVE  [Ledger!Next]_<<ledger, issued>>
<1>1. CASE GateHere(c)
  <2>1. callers[c] \in Caller
    BY <1>1, CallerTypes DEF GateHere, IInv
  <2>2. PICK evidence \in Presentable(callers[c].attempt.decision), a \in descriptor :
          \/ UNCHANGED <<ledger, issued>>
          \/ LET at == Asked(c, evidence)
             IN  /\ ReserveResult(at.key, Binding(at.decision, a)) = "new"
                 /\ ledger' = ledger \cup {Reservation(at.key, Binding(at.decision, a))}
                 /\ issued' = issued + 1
    BY <1>1 DEF GateHere
  <2>3. Asked(c, evidence) \in Attempt /\ a \in Actions
    BY <2>1, AskedType DEF IInv, TypeOK, ApprovalsTypeOK
  <2> QED
    BY <2>2, <2>3, AdmitSimulated
<1>2. ASSUME NEW kind \in {"complete", "release"}, Report(c, kind), issued' = issued
      PROVE  [Ledger!Next]_<<ledger, issued>>
  BY <1>2, SettleSimulated DEF Report
<1>3. CASE ReportCompletion(c)
  BY <1>2, <1>3 DEF ReportCompletion
<1>4. CASE ExecuteThrows(c)
  BY <1>2, <1>4 DEF ExecuteThrows
<1>5. CASE Validate(c) \/ Ask(c) \/ GiveUp(c) \/ Proceed(c) \/ HookThrows(c)
            \/ Execute(c) \/ Crash(c)
  BY <1>5 DEF Validate, Ask, GiveUp, Proceed, HookThrows, Execute, Crash
<1> QED
  BY <1>1, <1>3, <1>4, <1>5 DEF CallerNext

LEMMA StepSimulated == IInv /\ [Next]_vars => [Ledger!Next]_<<ledger, issued>>
<1> SUFFICES ASSUME IInv, [Next]_vars
             PROVE  [Ledger!Next]_<<ledger, issued>>
  OBVIOUS
<1>1. ASSUME NEW r \in requests, HandleRequest(r)
      PROVE  [Ledger!Next]_<<ledger, issued>>
  <2>1. r.kind \in {"complete", "release"}
    BY DEF IInv, TypeOK, ActionsTypeOK, Request
  <2> QED
    BY <1>1, <2>1, SettleSimulated DEF HandleRequest
<1>2. ASSUME NEW e \in ledger, Reconcile(e)
      PROVE  [Ledger!Next]_<<ledger, issued>>
  <2>1. PICK kind \in {"complete", "release"} :
          ledger' = Settled(kind, e.key, e.fingerprint)
    BY <1>2 DEF Reconcile
  <2> QED
    BY <1>2, <2>1, SettleSimulated DEF Reconcile
<1>3. ASSUME NEW r \in requests, LoseRequest(r)
      PROVE  [Ledger!Next]_<<ledger, issued>>
  BY <1>3 DEF LoseRequest
<1>4. CASE UNCHANGED vars \/ UNCHANGED actionVars
  BY <1>4 DEF vars, actionVars
<1> QED
  BY <1>1, <1>2, <1>3, <1>4, CallerSimulated, HandlerSimulated DEF Next

(* In all three modes, for any number of callers and keys, the             *)
(* reservations behave as the idempotency ledger that ActionLedger         *)
(* specifies: a key admits one reservation at a time, and once its         *)
(* reservation is completed none ever again.                               *)
THEOREM Refinement == Spec => ImplementsLedger
<1>1. Init => Ledger!Init
  BY DEF Init, Ledger!Init
<1>2. Spec => []IInv /\ [][Next]_vars
  BY Invariance, PTL DEF Spec
<1>3. Spec => [][Ledger!Next]_<<ledger, issued>>
  BY <1>2, StepSimulated, PTL
<1>4. Spec => Ledger!Init
  BY <1>1 DEF Spec
<1> QED
  BY <1>3, <1>4 DEF ImplementsLedger, Ledger!Spec, Ledger!vars
=============================================================================
