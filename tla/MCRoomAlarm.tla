---------------------------- MODULE MCRoomAlarm ----------------------------
(* Model values and symmetry for the runs of RoomAlarm. *)
EXTENDS RoomAlarm, TLC
CONSTANTS h1, a1, a2

OneHuman == {h1}
NoHuman == {}
OneAgent == {a1}
TwoAgents == {a1, a2}

Symmetry == Permutations(Agents)
=============================================================================
