-------------------------- MODULE MCDataDirMigration --------------------------
(* TLC instances of DataDirMigration: one process that crashes and meets I/O  *)
(* errors, or three processes started together.                               *)
EXTENDS DataDirMigration, TLC

ItemSymmetry == Permutations(Files) \cup Permutations(Facts)
ProcessSymmetry == Permutations(Procs)
==============================================================================
