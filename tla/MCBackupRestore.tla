-------------------------- MODULE MCBackupRestore --------------------------
(* Small instances of BackupRestore for TLC.                                  *)
EXTENDS BackupRestore, TLC

Interchangeable == Permutations(Requests)
=============================================================================
