------------------------ MODULE ManagedValidation_MC ------------------------
(* Bounded instances of ManagedValidation: a behaviour is about requests,  *)
(* months and plans, or about webhooks, reports, or about the rate.        *)
EXTENDS ManagedValidation

CONSTANTS trial, team

MC_PlanLimit == [p \in {trial, team} |-> IF p = trial THEN 1 ELSE 3]

Nothing ==
  [deployments |-> {"local", "control"}, starts |-> {team}, decisions |-> Decisions,
   webhooks |-> FALSE, requests |-> 0, calls |-> 0, ticks |-> 0, keys |-> 0,
   plans |-> 0, months |-> 0, drifts |-> 0, purges |-> 0, losses |-> 0, reports |-> 0,
   forgotten |-> 0, reconciliations |-> 0, stalls |-> 0]

(* What retention and a deleted row do to the chain.                       *)
Audited == [Nothing EXCEPT !.decisions = {"valid"}, !.requests = 3, !.purges = 2,
                           !.losses = 1]

(* What the month and the plan do to the quota.                            *)
Charged == [Nothing EXCEPT !.starts = Plans, !.requests = 2, !.plans = 1, !.months = 1,
                           !.drifts = 1]

(* Which stores an answer finds written, in every deployment, and whose    *)
(* keys still authenticate.                                                *)
Deployed == [Nothing EXCEPT !.deployments = Deployments, !.requests = 2,
                            !.decisions = {"valid_with_repair", "rejected"},
                            !.reconciliations = 2, !.keys = 1]

(* What becomes of the deliveries of two alerts.                           *)
Alerted == [Nothing EXCEPT !.deployments = {"local", "joined"}, !.webhooks = TRUE,
                           !.decisions = {"rejected"},
                           !.requests = 1, !.reconciliations = 1, !.losses = 1,
                           !.stalls = 1]

(* What a deleted row does to the intelligence.                            *)
Reported == [Nothing EXCEPT !.decisions = {"valid", "rejected"}, !.requests = 2,
                            !.reports = 2, !.forgotten = 1]

Limited == [Nothing EXCEPT !.calls = 6, !.ticks = 4]

MC_Scenarios == {Audited, Charged, Deployed, Alerted, Reported, Limited}
=============================================================================
