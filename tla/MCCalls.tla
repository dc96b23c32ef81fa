------------------------------ MODULE MCCalls -------------------------------
(* Model-checking instance of the ways in which a call of the 68k leaves the *)
(* emulator thread and comes back, one at a time: a trap with a context of   *)
(* its own (one task, two contexts), a call of the socket library, and the   *)
(* requests of uaescsi.device.                                               *)
EXTENDS MCTraps, BsdSocket, ScsiDevice

CONSTANTS q1, q2

MCIoreq == {q1, q2}

VARIABLE part
mcVars == <<vars, bsVars, scVars, part>>

MCInit == Init /\ BsdInit /\ ScInit /\ part \in {"traps", "sockets", "scsi"}

(* A library that is closed for good, and the bounds on calls and commands   *)
MCEnds == part # "traps" /\ UNCHANGED mcVars

MCNext ==
  \/ part = "traps" /\ Next /\ UNCHANGED <<bsVars, scVars, part>>
  \/ part = "sockets" /\ BsdNext /\ UNCHANGED <<vars, scVars, part>>
  \/ part = "scsi" /\ ScNext /\ UNCHANGED <<vars, bsVars, part>>
  \/ MCEnds

(* The host schedules the emulator thread and the others, and change_sem is  *)
(* passed on; the 68k takes the interrupt that is requested.                 *)
MCSpec ==
  /\ MCInit /\ [][MCNext]_mcVars
  /\ WF_vars(part = "traps" /\ Traps) /\ \A c \in Ctx : WF_vars(part = "traps" /\ ThreadStep(c))
  /\ WF_bsVars(part = "sockets" /\ Caller) /\ WF_bsVars(part = "sockets" /\ SocketThread)
  /\ WF_bsVars(part = "sockets" /\ SignalInterrupt)
  /\ WF_scVars(part = "scsi" /\ Machine) /\ SF_scVars(part = "scsi" /\ IntReplies)
  /\ \A u \in ScsiUnit : /\ WF_scVars(part = "scsi" /\ DevThread(u))
                         /\ SF_scVars(part = "scsi" /\ Locks(u))

PartsTypeOK == TypeOK /\ BsdTypeOK /\ ScTypeOK   \* the three type invariants
=============================================================================
