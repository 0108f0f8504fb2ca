--------------------------- MODULE MCAccountStore ---------------------------
(* Values of the constants of AccountStore for the model checker. *)
EXTENDS AccountStore, TLC

CONSTANTS a1, a2

MCBoth == {a1, a2}
AccountSymmetry == Permutations(MCBoth)
=============================================================================
