-------------------------- MODULE MCBulkBackupRun --------------------------
(* Instances of BulkBackupRun for model checking.                          *)
EXTENDS BulkBackupRun, TLC

ItemSymmetry == Permutations(Items) \cup Permutations(Processors)
=============================================================================
