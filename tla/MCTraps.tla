------------------------------ MODULE MCTraps -------------------------------
(* Model-checking instance of Traps: one task with two contexts, nested by   *)
(* an interrupt or by a call.                                                *)
EXTENDS Traps

CONSTANTS t1, c1, c2

MCOneTask == {t1}
MCTwoCtx == {c1, c2}
=============================================================================
