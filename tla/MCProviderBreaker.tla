-------------------------- MODULE MCProviderBreaker --------------------------
(* ProviderBreaker with the numbers of the code: WORKERS = 8 of the decision
   service, and the threshold of a CircuitBreaker.  The callers fall into two
   interchangeable halves: all their permutations would cost more than they save. *)
EXTENDS ProviderBreaker, TLC

CONSTANTS w1, w2, w3, w4, w5, w6, w7, w8

Symmetry == Permutations({w1, w2, w3, w4}) \cup Permutations({w5, w6, w7, w8})

=============================================================================
