--------------------------- MODULE MCMachineRental ---------------------------
(* Instances of MachineRental for TLC: two rooms with one machine each. *)
EXTENDS MachineRental, TLC

CONSTANTS c1, c2, r1, r2, m1, m2, m3, u1, u2

\* A machine lies in room r1, except m2, which lies in r2.
MCRoomOf == [m \in Machines |-> IF m = m2 THEN r2 ELSE r1]

\* Every client is logged in as the manager of all the rooms, or of one each.
SameManager  == [c \in Clients |-> Rooms]
EachItsRoom  == [c \in Clients |-> IF c = c1 THEN {r1} ELSE {r2}]

\* The second client is logged in as somebody who manages no room.
FirstManages == [c \in Clients |-> IF c = c1 THEN Rooms ELSE {}]

\* Clients with the same rights, and machines of one room, are interchangeable.
ClientAndMachineSymmetry == Permutations(Clients) \cup Permutations(Machines)
=============================================================================
