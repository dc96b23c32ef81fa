------------------------------- MODULE MC68k --------------------------------
(* Model-checking instance of two parts of the emulator's 68k, one at a      *)
(* time: the extended traps it takes (Traps), with two tasks and two         *)
(* contexts, so that the calls of two traps overlap on two stacks in any     *)
(* order; and how it comes to know of interrupts (M68kInt).                  *)
EXTENDS Traps, M68kInt, TLC

CONSTANTS task1, task2, c1, c2, x1

MCTasks == {task1, task2}
MCCtx == {c1, c2}
MCContexts == {x1}
MCUses == {{"trace"}, {"trace", "states"}, {"traps"}}
MCSymmetry == Permutations(MCTasks) \cup Permutations(MCCtx)

VARIABLE part
mcVars == <<vars, m68kVars, part>>

MCInit ==
  /\ Init /\ M68kInit /\ part \in {"traps", "interrupts"}
  /\ part = "interrupts" \/ (exact /\ uses = {"traps"})

MCNext ==
  \/ part = "traps" /\ Next /\ UNCHANGED <<m68kVars, part>>
  \/ part = "interrupts" /\ M68kNext /\ UNCHANGED <<vars, part>>

MCSpec == MCInit /\ [][MCNext]_mcVars
=============================================================================
