------------------------ MODULE SharedActionState_MC ------------------------
(* Bounded instances of SharedActionState.  One run has two scenarios:     *)
(*   ledger   every change of the ledger, rows of any table lost, nothing  *)
(*            claimed from the outbox;                                     *)
(*   outbox   two changes of the ledger about one key at a time, batches   *)
(*            claimed by workers, and one row lost.                        *)
EXTENDS SharedActionState

CONSTANTS OutboxRevision, OutboxLosses
VARIABLE scenario

Symmetry == Permutations(Keys) \cup Permutations(Fingerprints)

WithinScenario ==
  IF scenario = "ledger" THEN leased = 0
  ELSE /\ manifest.revision <= OutboxRevision
       /\ losses <= OutboxLosses
       /\ \A r, other \in rows : r.key = other.key

MC_Init == Init /\ scenario \in {"ledger", "outbox"}
MC_Next == Next /\ UNCHANGED scenario /\ WithinScenario'
MC_Spec == MC_Init /\ [][MC_Next]_<<vars, scenario>>
=============================================================================
