------------------------------ MODULE MCSafety ------------------------------
(* Model-checking instance of directory file systems for safety, in three    *)
(* parts. The packets of a unit (FilesysUnit), where one command is started  *)
(* at most, so that the next is queued; or where both packets are good and   *)
(* started at once, but no locks are held. And the a_inodes they work on     *)
(* (AinoCache).                                                              *)
EXTENDS MCFilesysUnit, AinoCache

Queued == INSTANCE FilesysUnit WITH MaxStarted <- 1
Started == INSTANCE FilesysUnit WITH BadPacket <- {}, MaxHeld <- 0

CONSTANTS na, nb    \* two names
MCName == {na, nb}
MCSafetySymmetry == Permutations(MCTwoPackets) \cup Permutations(MCName)

VARIABLE part
mcVars == <<vars, aiVars, part>>

MCInit == Init /\ AinoInit /\ part \in {"queued", "started", "ainos"}

(* The bounds on the names that may be looked up end the exploration.        *)
MCEnds == part = "ainos" /\ UNCHANGED mcVars

MCNext ==
  \/ part = "queued" /\ Queued!Next /\ UNCHANGED <<aiVars, part>>
  \/ part = "started" /\ Started!Next /\ UNCHANGED <<aiVars, part>>
  \/ part = "ainos" /\ AinoNext /\ UNCHANGED <<vars, part>>
  \/ MCEnds

MCSpec == MCInit /\ [][MCNext]_mcVars
=============================================================================
