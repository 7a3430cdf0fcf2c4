----------------------------- MODULE RentalDesk -----------------------------
(***************************************************************************)
(* What the rental of machines promises, without windows, statements or    *)
(* clients: a machine is free or held by one person, a person holds one    *)
(* machine at most, a machine is handed to the next person only after it   *)
(* came back, and every machine that comes back leaves a bill, unless it   *)
(* is taken out of service while somebody sits at it.  That an empty       *)
(* machine is billed no more is not promised: the procedure that writes    *)
(* the bills is not part of the program.                                   *)
(***************************************************************************)
EXTENDS Integers

CONSTANTS Machines, Ids, NULL, Time

VARIABLES
    holder,   \* who sits at a machine
    bills     \* the rentals that were closed

vars == <<holder, bills>>

Init ==
    /\ holder = [m \in Machines |-> NULL]
    /\ bills = {}

Rent(m, u) ==
    /\ holder[m] = NULL
    /\ \A n \in Machines : holder[n] # u
    /\ holder' = [holder EXCEPT ![m] = u]
    /\ bills' = bills

Return(m, from, to) ==
    /\ holder[m] # NULL
    /\ from <= to
    /\ holder' = [holder EXCEPT ![m] = NULL]
    /\ bills' = bills \cup {[machine |-> m, from |-> from, to |-> to]}

BillAgain(m, from, to) ==
    /\ holder[m] = NULL
    /\ from <= to
    /\ holder' = holder
    /\ bills' = bills \cup {[machine |-> m, from |-> from, to |-> to]}

Withdraw(m) ==
    /\ holder[m] # NULL
    /\ holder' = [holder EXCEPT ![m] = NULL]
    /\ bills' = bills

Next == \E m \in Machines :
    \/ \E u \in Ids : Rent(m, u)
    \/ \E from, to \in Time : Return(m, from, to) \/ BillAgain(m, from, to)
    \/ Withdraw(m)

Spec == Init /\ [][Next]_vars
=============================================================================
