---------------------------- MODULE MCRoomAdmin ----------------------------
(* Instances of RoomAdmin for TLC. *)
EXTENDS RoomAdmin, TLC

CONSTANTS c1, c2, r1, r2, s1, a1

\* Every client is logged in as the same administrator.
SameAccount == [c \in Clients |-> a1]

\* Clients with one account are interchangeable, and so are room names.
ClientAndRoomSymmetry == Permutations(Clients) \cup Permutations(Rooms)
=============================================================================
