----------------------------- MODULE MCExitLoop -----------------------------
(* ExitLoop with the plainest chain and no death of a process: a position of two
   units in a market where one unit is the most that sells unprotected. *)
EXTENDS ExitLoop

=============================================================================
