------------------------ MODULE SqliteActionState_MC ------------------------
(* Bounded instances of SqliteActionState.                                 *)
EXTENDS SqliteActionState, TLC

MC_Symmetry == Permutations(Processes)
=============================================================================
