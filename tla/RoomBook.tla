------------------------------ MODULE RoomBook ------------------------------
(***************************************************************************)
(* What the room page promises, without clients, tables or statements: a   *)
(* room is there, with a status and a manager, or it is not; people sit    *)
(* down in open rooms only; and a room is opened, closed or given up only  *)
(* when nobody sits in it.                                                 *)
(***************************************************************************)
EXTENDS Integers

CONSTANTS Rooms, Managers, MaxUse, NULL

VARIABLES
    record,   \* the status and the manager of the rooms there are
    inUse     \* how many people sit in a room

vars == <<record, inUse>>

Closed == 0
Open   == 1

Init ==
    /\ record = [r \in Rooms |-> NULL]
    /\ inUse = [r \in Rooms |-> 0]

Create(r, m) ==
    /\ record[r] = NULL
    /\ \E st \in {Closed, Open} : record' = [record EXCEPT ![r] = [status |-> st, manager |-> m]]
    /\ inUse' = inUse

GiveUp(r) ==
    /\ record[r] # NULL /\ inUse[r] = 0
    /\ record' = [record EXCEPT ![r] = NULL]
    /\ inUse' = inUse

SitDown(r) ==
    /\ record[r] # NULL /\ record[r].status = Open /\ inUse[r] < MaxUse
    /\ inUse' = [inUse EXCEPT ![r] = @ + 1]
    /\ record' = record

Leave(r) ==
    /\ inUse[r] > 0
    /\ inUse' = [inUse EXCEPT ![r] = @ - 1]
    /\ record' = record

SetStatus(r, st) ==
    /\ record[r] # NULL /\ inUse[r] = 0
    /\ record' = [record EXCEPT ![r].status = st]
    /\ inUse' = inUse

HandOver(r, m) ==
    /\ record[r] # NULL
    /\ record' = [record EXCEPT ![r].manager = m]
    /\ inUse' = inUse

Next == \E r \in Rooms :
    \/ GiveUp(r) \/ SitDown(r) \/ Leave(r)
    \/ \E st \in {Closed, Open} : SetStatus(r, st)
    \/ \E m \in Managers : Create(r, m) \/ HandOver(r, m)

Spec == Init /\ [][Next]_vars
=============================================================================
