-------------------------- MODULE GuardedAction_MC --------------------------
(* Bounded instances of GuardedAction.  Two scenarios share one run:       *)
(*   callers       two callers and two approvers, one argument; the tool   *)
(*                 is classified once, before or while they work;          *)
(*   reclassified  one caller that may give up and try again while its     *)
(*                 first evaluation goes on, one approver, two arguments;  *)
(*                 the tool is classified and then reclassified.           *)
(* A scenario only bounds what callers start and administrators do; no     *)
(* action with a fairness condition is held back.                          *)
EXTENDS GuardedAction

CONSTANTS FirstCaller, FirstApprover, FirstArg
VARIABLE scenario

MC_Actions == {[risk |-> "low", side_effect |-> "reversible"],
               [risk |-> "critical", side_effect |-> "irreversible"]}

WithinScenario ==
  IF scenario = "callers"
  THEN changes <= 1 /\ \A d \in decisions : d.args = FirstArg
  ELSE /\ \A c \in Callers \ {FirstCaller} : callers[c] = Idle
       /\ \A ch \in challenges : ch.approver \subseteq {FirstApprover}
       /\ \A d \in decisions : d.repaired => d.args = FirstArg

MC_Init == Init /\ scenario \in {"callers", "reclassified"}
MC_Next == Next /\ UNCHANGED scenario /\ WithinScenario'
MC_Spec == MC_Init /\ [][MC_Next]_<<vars, scenario>> /\ Fairness
=============================================================================
