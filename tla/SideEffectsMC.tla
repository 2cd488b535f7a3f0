--------------------------- MODULE SideEffectsMC ---------------------------
(* Small instances of SideEffects: callers and sweepers are model values,   *)
(* interchangeable because no action and no invariant names one of them.    *)
EXTENDS SideEffects, TLC

ProcessSymmetry == Permutations(Workers) \union Permutations(Sweepers)

=============================================================================
