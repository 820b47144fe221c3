-------------------------- MODULE MCTradeLifecycle --------------------------
(* Model-checking instances of TradeLifecycle. *)
EXTENDS TradeLifecycle, TLC

Symmetry == Permutations(ResIds) \cup Permutations(Jobs)

=============================================================================
