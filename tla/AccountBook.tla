---------------------------- MODULE AccountBook ----------------------------
(***************************************************************************)
(* What the accounts promise, without sessions, windows or transactions:   *)
(* an account stays once it is there, nobody rises, a super administrator  *)
(* stays one, and an administrator falls only while there is a super       *)
(* administrator to see to it.  Name and password may change without the   *)
(* rank, and that covers an edit that was cut short; a rank never changes  *)
(* without them.                                                           *)
(***************************************************************************)
EXTENDS Integers

CONSTANTS
    Ids, Values, NULL,
    First, Start   \* the accounts there are from the start

VARIABLES
    info,         \* name and password of every account
    permission    \* its rank, if it has one

vars == <<info, permission>>

User       == 1
Admin      == 2
SuperAdmin == 3

Init ==
    /\ info = [u \in Ids |-> IF Start[u] = NULL THEN NULL ELSE First]
    /\ permission = Start

Enter(u, v) ==
    /\ info[u] = NULL
    /\ info' = [info EXCEPT ![u] = v]
    /\ permission' \in {permission, [permission EXCEPT ![u] = User]}

\* By the owner, or by an edit that does not get as far as the rank.
ChangeNames(u, v) ==
    /\ info[u] # NULL
    /\ info' = [info EXCEPT ![u] = v]
    /\ permission' = permission

\* Name, password and rank change in one step.
ChangeOther(u, v, p) ==
    /\ permission[u] \in 0 .. Admin
    /\ permission[u] = Admin => \E boss \in Ids : permission[boss] = SuperAdmin
    /\ info' = [info EXCEPT ![u] = v]
    /\ permission' = [permission EXCEPT ![u] = p]

Next == \E u \in Ids, v \in Values :
    \/ Enter(u, v)
    \/ ChangeNames(u, v)
    \/ \E p \in 0 .. User : ChangeOther(u, v, p)

Spec == Init /\ [][Next]_vars
=============================================================================
