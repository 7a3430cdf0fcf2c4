-------------------------- MODULE MCBackupRestore --------------------------
(* Instances of BackupRestore for TLC. *)
EXTENDS BackupRestore

CONSTANTS c1, c2, v1
=============================================================================
