--------------------------- MODULE MCFilesysUnit ----------------------------
(* Model-checking instances of FilesysUnit.                                  *)
EXTENDS FilesysUnit, TLC

CONSTANTS p1, p2

MCOnePacket == {p1}
MCTwoPackets == {p1, p2}
MCOneVolume == [p \in MCOnePacket |-> 1]
MCTwoVolume == [p \in MCTwoPackets |-> 1]
MCNone == {}
MCBad == MCTwoPackets
=============================================================================
