-------------------------- MODULE MCLedgerProtocol --------------------------
(* Model-checking instances of LedgerProtocol. *)
EXTENDS LedgerProtocol, TLC

Symmetry == Permutations(Mints) \cup Permutations(Wallets) \cup Permutations(ResIds)

=============================================================================
