------------------------- MODULE AnchorReceiver_MC --------------------------
(* Bounded instance of AnchorReceiver.                                     *)
EXTENDS AnchorReceiver

Symmetry ==
  Permutations(Tenants) \cup Permutations(EventIds) \cup Permutations(Hashes)
=============================================================================
