----------------------------- MODULE MCHardfile -----------------------------
(* Model-checking instances of Hardfile: two requests that meet in the table *)
(* of one unit; a second unit shares change_sem and the reset.               *)
EXTENDS Hardfile

CONSTANTS r1, r2

MCRequests == {r1, r2}
MCOneUnit == [r \in MCRequests |-> 0]
=============================================================================
