CONSTANTS
  Procs = {p1, p2, p3}
  Facts = {a}
  Files = {log}
  Nobody = Nobody
  Faults = {"copy", "commit", "sync", "rewrite", "retire"}
  MaxCrashes = 0
SYMMETRY ProcessSymmetry
SPECIFICATION Spec
INVARIANT OneMigrator
PROPERTY NewNeverOverwritten
