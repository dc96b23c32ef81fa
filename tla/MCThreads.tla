----------------------------- MODULE MCThreads ------------------------------
(* Model-checking instance of two devices that hand buffers to a thread of   *)
(* the host, one at a time: the sound of SdlSound, the sectors of CdBuffer.  *)
EXTENDS SdlSound, CdBuffer

VARIABLE part
mcVars == <<sndVars, cdVars, part>>

MCInit == SndInit /\ CdInit /\ part \in {"sound", "cd"} /\ (part = "cd" \/ disc = "none")

InSound == part = "sound" /\ UNCHANGED <<cdVars, part>>
InCd == part = "cd" /\ UNCHANGED <<sndVars, part>>

MCEnds == part = "sound" /\ UNCHANGED mcVars   \* no sound, or a hang as stated

MCNext == (InSound /\ SndNext) \/ (InCd /\ CdNext) \/ MCEnds

(* The fairness of the part that runs; a line may have one action of each.   *)
MCSpec ==
  /\ MCInit /\ [][MCNext]_mcVars
  /\ WF_mcVars((InSound /\ EmuWaits) \/ (InCd /\ Parsing))
  /\ WF_mcVars((InSound /\ SoundThreads) \/ (InCd /\ Filling))
  /\ WF_mcVars((InSound /\ CallsBack) \/ (InCd /\ Restarting))
  /\ WF_mcVars(InSound /\ Callback)
  /\ SF_mcVars(InCd /\ Reading) /\ SF_mcVars(InCd /\ Locking)
=============================================================================
