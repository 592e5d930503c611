--------------------------- MODULE ActionApprovals ---------------------------
(***************************************************************************)
(* What the action gate of the managed server trusts besides the ledger:   *)
(* the accepted decisions it issued, the risk classification of the tool   *)
(* and the approval challenges.  The shared store keeps one table for      *)
(* each, and every operation below is one transaction on one row.          *)
(*                                                                         *)
(* createApprovalChallenge reads the descriptor before it stores the       *)
(* challenge; nobody knows the challenge until it is stored and it depends *)
(* on nothing else, so the two are one step here.  Rows are authenticated  *)
(* by an HMAC each, which nothing in this module breaks.                   *)
(***************************************************************************)
EXTENDS ActionGate, FiniteSets

CONSTANTS
  Actions,               \* classifications an administrator may register
  Approvers,             \* keys with the approve:action scope
  MaxChallenges,         \* bound: challenges created
  MaxReclassifications   \* bound: changes of the descriptor

ASSUME ApprovalAssumption ==
  /\ Actions \subseteq Action
  /\ MaxChallenges \in Nat
  /\ MaxReclassifications \in Nat

VARIABLES
  decisions,   \* sg_accepted_action_decisions
  descriptor,  \* sg_action_descriptors: {} or the tool's classification
  changes,     \* changes of the descriptor so far
  challenges   \* sg_action_approvals

approvalVars == <<decisions, descriptor, changes, challenges>>

Challenge == [id       : Nat,
              binding  : Bindings,
              status   : {"pending", "approved", "revoked"},
              approver : SUBSET Approvers,  \* of the stored evidence, if any
              live     : BOOLEAN]           \* expires_at is not over

(* The evidence a challenge holds, as its approver was given it.           *)
Evidence(ch) == {[challenge |-> ch.id, binding |-> ch.binding, approver |-> p] :
                   p \in ch.approver}

AnyEvidence == [challenge : Nat, binding : Bindings, approver : Approvers]

ApprovalsTypeOK ==
  /\ decisions \subseteq Decision
  /\ descriptor \subseteq Actions /\ Cardinality(descriptor) <= 1
  /\ changes \in Nat
  /\ challenges \subseteq Challenge

ApprovalsInit ==
  /\ decisions = {} /\ descriptor = {} /\ changes = 0 /\ challenges = {}

(* recordAcceptedDecision: validate() answers only after its decision is   *)
(* stored; the same decision stored again is left as it is.                *)
RecordAcceptedDecision(d) ==
  /\ decisions' = decisions \cup {d}
  /\ UNCHANGED <<descriptor, changes, challenges>>

VerifyAcceptedDecision(d) == d \in decisions

(* upsertActionDescriptor.                                                 *)
UpsertDescriptor(a) ==
  /\ changes < MaxReclassifications
  /\ descriptor # {a}
  /\ descriptor' = {a}
  /\ changes' = changes + 1
  /\ UNCHANGED <<decisions, challenges>>

(* recordActionChallenge for a decision and the present classification.    *)
RecordChallenge(d) ==
  /\ VerifyAcceptedDecision(d)
  /\ Cardinality(challenges) < MaxChallenges
  /\ \E a \in descriptor :
       challenges' = challenges \cup
         {[id |-> Cardinality(challenges) + 1, binding |-> Binding(d, a),
           status |-> "pending", approver |-> {}, live |-> TRUE]}
  /\ UNCHANGED <<decisions, descriptor, changes>>

Put(ch, new) == challenges' = (challenges \ {ch}) \cup {new}

(* Mutant of Approve: an approved challenge is signed again.               *)
ApproveAgain(ch, p) ==
  /\ ch.status # "revoked" /\ ch.live
  /\ Put(ch, [ch EXCEPT !.status = "approved", !.approver = {p}])
  /\ UNCHANGED <<decisions, descriptor, changes>>

(* approveActionChallenge: the first approval of a pending challenge that  *)
(* has not expired is stored.  An approved one is answered with the        *)
(* evidence it has, whoever asks.                                          *)
Approve(ch, p) ==
  /\ ch.status = "pending" /\ ch.live
  /\ Put(ch, [ch EXCEPT !.status = "approved", !.approver = {p}])
  /\ UNCHANGED <<decisions, descriptor, changes>>

(* revokeActionChallenge, at any time.                                     *)
Revoke(ch) ==
  /\ ch.status # "revoked"
  /\ Put(ch, [ch EXCEPT !.status = "revoked", !.approver = {}])
  /\ UNCHANGED <<decisions, descriptor, changes>>

(* expires_at passes.                                                      *)
ChallengeExpires(ch) ==
  /\ ch.live
  /\ Put(ch, [ch EXCEPT !.live = FALSE])
  /\ UNCHANGED <<decisions, descriptor, changes>>

(* verifyRecordedApproval: the evidence is the one that is stored now.     *)
VerifyRecordedApproval(e) ==
  \E ch \in challenges : ch.status = "approved" /\ e \in Evidence(ch)

(* The gate compares the time with the expiry that the evidence carries.   *)
Live(evidence) ==
  \A e \in evidence : \E ch \in challenges : ch.id = e.challenge /\ ch.live

ApprovalsNext ==
  \/ \E a \in Actions : UpsertDescriptor(a)
  \/ \E d \in decisions : RecordChallenge(d)
  \/ \E ch \in challenges :
       \/ \E p \in Approvers : Approve(ch, p)
       \/ Revoke(ch)
       \/ ChallengeExpires(ch)
-----------------------------------------------------------------------------
(* Challenges are told apart by their id; only an approved one has         *)
(* evidence.                                                               *)
ChallengesInv ==
  /\ IsFiniteSet(challenges)
  /\ \A ch \in challenges :
       /\ ch.id \in 1..Cardinality(challenges)
       /\ ch.status # "approved" => ch.approver = {}
  /\ \A x, y \in challenges : x.id = y.id => x = y

(* Evidence that was handed out is recognised until its challenge is       *)
(* revoked, and a revoked challenge never has any again: no second         *)
(* approval, expiry or change of the classification takes it away from the *)
(* caller that already holds it, or gives it back.                         *)
EvidenceLastsUntilRevoked ==
  [][\A ch \in challenges : \E new \in challenges' :
       /\ new.id = ch.id /\ new.binding = ch.binding
       /\ new.status # "revoked" => Evidence(ch) \subseteq Evidence(new)
       /\ ch.status = "revoked" => new.status = "revoked" /\ Evidence(new) = {}
    ]_challenges
=============================================================================
