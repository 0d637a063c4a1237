----------------------------- MODULE MCWaveRoom -----------------------------
(***************************************************************************)
(* Small instances of the Wave room for TLC.                               *)
(***************************************************************************)
EXTENDS WaveRoom

OneEach == [p \in Phones |-> 1]

\* The snapshots of those who joined may overtake each other.
TwoOfMembers == [p \in Phones |-> IF p \in Devices \ {Creator} THEN 2 ELSE 1]
=============================================================================
