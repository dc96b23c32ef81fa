----------------------------- MODULE MCCommPipe -----------------------------
(* Model-checking instance of CommPipe, and of two users of such pipes, one  *)
(* at a time: Native2Amiga and UaeState. The pipe takes two data and has     *)
(* four slots (three usable) and chunks of two, so that it runs full, empty  *)
(* and half-buffered.                                                        *)
EXTENDS CommPipe, Native2Amiga, UaeState

CONSTANTS a, b     \* two data that can be told apart

MCItem == {a, b}

VARIABLE part
mcVars == <<vars, n2aVars, usVars, part>>

MCInit ==
  /\ Init /\ N2aInit /\ UsInit /\ part \in {"pipe", "requests", "machine"}
  /\ part = "machine" \/ (guiOpens /\ startGui)
  /\ part = "pipe" \/ (arg = a /\ got = a /\ \A s \in Slot : data[s] = a)

(* The requests are bounded, and a machine ends.                             *)
MCEnds == part # "pipe" /\ UNCHANGED mcVars

MCNext ==
  \/ part = "pipe" /\ Next /\ UNCHANGED <<n2aVars, usVars, part>>
  \/ part = "requests" /\ N2aNext /\ UNCHANGED <<vars, usVars, part>>
  \/ part = "machine" /\ UsNext /\ UNCHANGED <<vars, n2aVars, part>>
  \/ MCEnds

(* The host runs the threads, each part's for itself.                        *)
MCSpec ==
  /\ MCInit /\ [][MCNext]_mcVars
  /\ WF_vars(part = "pipe" /\ WriterNext) /\ WF_vars(part = "pipe" /\ ReaderNext)
  /\ \A t \in Thread : WF_n2aVars(part = "requests" /\ Sender(t))
  /\ WF_n2aVars(part = "requests" /\ Exter)
  /\ WF_usVars(part = "machine" /\ MainLoop) /\ WF_usVars(part = "machine" /\ GuiThread)

PartsTypeOK == TypeOK /\ N2aTypeOK /\ UsTypeOK   \* the three type invariants
=============================================================================
