--------------------------- MODULE MCRuntimeConfig ---------------------------
(* Model-checking instance of RuntimeConfig: one setting, one service that reads
   its overrides again at every heartbeat and one that reads them once. *)
EXTENDS RuntimeConfig, TLC

CONSTANTS k1, v0, v1, r1

MCOneSave == {k1 :> v1}

=============================================================================
