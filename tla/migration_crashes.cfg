CONSTANTS
  Procs = {p1}
  Facts = {a, b}
  Files = {log, notice}
  Nobody = Nobody
  Faults = {"copy", "commit", "rewrite", "retire"}
  MaxCrashes = 2
SPECIFICATION FairSpec
INVARIANT NothingVanishes NewIsComplete
PROPERTY RetiredOnlyWhenCopied EventuallyServes ImplementsDataHome
