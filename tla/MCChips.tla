------------------------------ MODULE MCChips -------------------------------
(* Model-checking instance of the parts of the CIAs, one at a time: the      *)
(* timers of one chip, the time of day of one chip, the keyboard.            *)
EXTENDS Cia, CiaTod, Keyboard, TLC

VARIABLE part
mcVars == <<ciaVars, todVars, kbVars, part>>

Ctl(reg, sets) == {[reg |-> reg, val |-> [bits |-> s, load |-> l]] : s \in sets, l \in BOOLEAN}
MCWrites == [c \in Chip |->
  [reg : {"talo", "tahi", "tbhi", "sdr"}, val : {0}]
  \cup Ctl("cra", {{"start", "oneshot"}, {"start", "out"}})
  \cup Ctl("crb", {{"start"}, {"start", "oneshot", "ta"}})]
MCMask == {{"ta"}}

MCInit == CiaInit /\ TodInit /\ KbInit /\ part \in {"timers", "tod", "keyboard"}
MCNext ==
  \/ part = "timers" /\ CiaNext /\ UNCHANGED <<todVars, kbVars, part>>
  \/ part = "tod" /\ TodNext /\ UNCHANGED <<ciaVars, kbVars, part>>
  \/ part = "keyboard" /\ KbNext /\ UNCHANGED <<ciaVars, todVars, part>>

MCSpec == MCInit /\ [][MCNext]_mcVars /\ KbFairness

PartsTypeOK == CiaTypeOK /\ TodTypeOK /\ KbTypeOK   \* the three type invariants
=============================================================================
