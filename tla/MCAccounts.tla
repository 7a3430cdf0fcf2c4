---------------------------- MODULE MCAccounts ----------------------------
(* Instances of Accounts for TLC. *)
EXTENDS Accounts, TLC

CONSTANTS c1, c2, boss, admin, novice, v1

\* A super administrator, an administrator, and somebody yet to register.
StartAll == [u \in Ids |-> IF u = boss THEN SADMIN ELSE IF u = admin THEN ADMIN ELSE NULL]

ClientSymmetry == Permutations(Clients)
=============================================================================
