----------------------------- MODULE ActionGate -----------------------------
(***************************************************************************)
(* evaluateActionGate of packages/core: may an accepted tool call run?     *)
(* The gate is a function of the validation decision, the classification   *)
(* of the tool, the policy and the approval that the caller presents; its  *)
(* only effect is the reservation it makes last, which the modules that    *)
(* use this one carry out.                                                 *)
(*                                                                         *)
(* One tool in one environment is described.  A hash is the value it is    *)
(* computed from: the binding of an action is the record of what may not   *)
(* change between the approval and the execution.                          *)
(***************************************************************************)
EXTENDS Naturals

CONSTANTS Args   \* valid_arguments of accepted decisions

RiskRank == [read |-> 0, low |-> 1, medium |-> 2, high |-> 3, critical |-> 4]

(* An accepted decision: the arguments as they will be executed, and       *)
(* whether they are the result of a repair.                                *)
Decision == [args : Args, repaired : BOOLEAN]

(* ActionDescriptor.                                                       *)
Action == [risk        : DOMAIN RiskRank,
           side_effect : {"none", "reversible", "irreversible"}]

Policy == [auto          : DOMAIN RiskRank,
           repaired_auto : DOMAIN RiskRank,
           idempotency   : BOOLEAN,
           environment   : BOOLEAN]   \* the environment is an allowed one

DefaultPolicy == [auto |-> "low", repaired_auto |-> "read",
                  idempotency |-> TRUE, environment |-> TRUE]

(* actionBinding, which is also the execution fingerprint.                 *)
Binding(d, a) == [args        |-> d.args,
                  repaired    |-> d.repaired,
                  risk        |-> a.risk,
                  side_effect |-> a.side_effect]

Bindings == [args        : Args,
             repaired    : BOOLEAN,
             risk        : DOMAIN RiskRank,
             side_effect : {"none", "reversible", "irreversible"}]

(* A critical action always needs an approval, any other one when its risk *)
(* is above the ceiling, which is lower for repaired arguments.            *)
RequiresApproval(d, a, p) ==
  \/ a.risk = "critical"
  \/ RiskRank[a.risk] > RiskRank[IF d.repaired THEN p.repaired_auto ELSE p.auto]

RequiresIdempotency(a, p) == p.idempotency /\ a.side_effect # "none"

(* Mutant of ApprovalFits: any approval of the tenant that is in time.     *)
ApprovalFitsAnything(e, d, a, live) == live

(* The evidence is bound to exactly these arguments, this risk and this    *)
(* side effect, and its challenge has not expired.                         *)
ApprovalFits(e, d, a, live) == e.binding = Binding(d, a) /\ live

(* What the gate says before it reserves, in the order of its checks;      *)
(* "reserve" leaves the answer to the ledger.                              *)
Preflight(d, a, p, evidence, live) ==
  IF ~p.environment THEN "rejected"
  ELSE IF RequiresApproval(d, a, p) /\ evidence = {} THEN "approval_required"
  ELSE IF /\ RequiresApproval(d, a, p)
          /\ \E e \in evidence : ~ApprovalFits(e, d, a, live)
       THEN "rejected"
  ELSE IF RequiresIdempotency(a, p) THEN "reserve"
  ELSE "allowed"
=============================================================================
