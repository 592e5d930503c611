------------------------ MODULE AnchoredExecution_MC ------------------------
(* Bounded instances of AnchoredExecution.                                 *)
EXTENDS AnchoredExecution, TLC

Symmetry == Permutations(Servers)
=============================================================================
