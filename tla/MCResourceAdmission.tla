------------------------- MODULE MCResourceAdmission -------------------------
(***************************************************************************)
(* Small instances of resource admission for TLC.                          *)
(***************************************************************************)
EXTENDS ResourceAdmission, TLC

CONSTANTS a, b, u1, d1, t1

\* Two uploads of one account to one target.
SameUser == [o \in Ops |-> u1]
OneTarget == [o \in Ops |-> t1]

AllTransfers == [o \in Ops |-> "TRANSFER"]
AllPlaybacks == [o \in Ops |-> "PLAYBACK"]
NoDevices == [o \in Ops |-> NoDevice]
OneDevice == [o \in Ops |-> d1]

One == [k \in Kinds |-> 1]
Two == [k \in Kinds |-> 2]

Symmetry == Permutations(Permits)

\* A playback consults no target column, so its recordings are interchangeable.
PlaybackSymmetry == Symmetry \cup Permutations(Targets)
=============================================================================
