------------------------ MODULE DataDirMigrationProofs ------------------------
(***************************************************************************)
(* Proofs about DataDirMigration for any number of processes, crashes,     *)
(* facts, files and every set of I/O errors.                               *)
(***************************************************************************)
EXTENDS DataDirMigration, FiniteSetTheorems, TLAPS

-------------------------------------------------------------------------------
(* Types.                                                                    *)

LockState == [owner : Procs \cup {Nobody}, stale : BOOLEAN]

LEMMA LockTyped ==
  NoLock \in LockState /\ \A p \in Procs : [owner |-> p, stale |-> FALSE] \in LockState
  BY DEF NoLock, LockState

LEMMA TypeInit == Init => TypeOK
  BY CrashesAssumption
  DEF Init, TypeOK, Directories, Paths, NoLock, Off, ProcessState, Labels, Migrating, Entries

LEMMA OffTyped == Off \in ProcessState
  BY DEF Off, ProcessState, Labels, Migrating, Entries, Directories, Paths

\* Two fields of a process change one after the other.
LEMMA TypeFields ==
  ASSUME NEW r \in ProcessState
  PROVE  /\ \A l \in Labels : [r EXCEPT !.pc = l] \in ProcessState
         /\ \A x \in {"skipped", "migrated", "failed"}, l \in Labels :
              [r EXCEPT !.status = x, !.pc = l] \in ProcessState
         /\ \A l \in Labels : [r EXCEPT !.try = 2, !.pc = l] \in ProcessState
         /\ \A n \in Nat, l \in Labels : [r EXCEPT !.counted = n, !.pc = l] \in ProcessState
         /\ \A S \in SUBSET Facts, l \in Labels :
              [r EXCEPT !.copy = S, !.pc = l] \in ProcessState
         /\ \A e \in Entries, l \in Labels :
              [r EXCEPT !.entry = e, !.pc = l] \in ProcessState
         /\ \A S \in SUBSET Entries, l \in Labels :
              [r EXCEPT !.left = S, !.pc = l] \in ProcessState
         /\ \A d \in Directories, l \in Labels :
              [r EXCEPT !.uses = d, !.pc = l] \in ProcessState
         /\ \A c \in Paths, l \in Labels : [r EXCEPT !.cfg = c, !.pc = l] \in ProcessState
  <1>1. ASSUME NEW q \in ProcessState, NEW l \in Labels
        PROVE  [q EXCEPT !.pc = l] \in ProcessState
    BY DEF ProcessState
  <1>2. \A x \in {"skipped", "migrated", "failed"} : [r EXCEPT !.status = x] \in ProcessState
    BY DEF ProcessState
  <1>3. [r EXCEPT !.try = 2] \in ProcessState BY DEF ProcessState
  <1>4. \A n \in Nat : [r EXCEPT !.counted = n] \in ProcessState BY DEF ProcessState
  <1>5. \A S \in SUBSET Facts : [r EXCEPT !.copy = S] \in ProcessState BY DEF ProcessState
  <1>6. \A e \in Entries : [r EXCEPT !.entry = e] \in ProcessState BY DEF ProcessState
  <1>7. \A S \in SUBSET Entries : [r EXCEPT !.left = S] \in ProcessState BY DEF ProcessState
  <1>8. \A d \in Directories : [r EXCEPT !.uses = d] \in ProcessState BY DEF ProcessState
  <1>9. \A c \in Paths : [r EXCEPT !.cfg = c] \in ProcessState BY DEF ProcessState
  <1> QED BY <1>1, <1>2, <1>3, <1>4, <1>5, <1>6, <1>7, <1>8, <1>9

\* A process only moves on, fails, gives up or tries the lock again.
LEMMA TypeMoves ==
  ASSUME TypeOK, NEW p \in Procs
  PROVE  /\ \A l \in Labels : Goto(p, l) => proc' \in [Procs -> ProcessState]
         /\ \A x \in {"skipped", "migrated", "failed"}, l \in Labels :
              proc' = [proc EXCEPT ![p].status = x, ![p].pc = l]
                => proc' \in [Procs -> ProcessState]
         /\ TryAgain(p) => proc' \in [Procs -> ProcessState]
  <1>1. proc \in [Procs -> ProcessState] /\ proc[p] \in ProcessState BY DEF TypeOK
  <1>2. \A l \in Labels : Goto(p, l) => proc' \in [Procs -> ProcessState]
    BY <1>1, TypeFields DEF Goto
  <1>3. ASSUME NEW x \in {"skipped", "migrated", "failed"}, NEW l \in Labels,
               proc' = [proc EXCEPT ![p].status = x, ![p].pc = l]
        PROVE  proc' \in [Procs -> ProcessState]
    <2>1. proc' = [proc EXCEPT ![p] = [proc[p] EXCEPT !.status = x, !.pc = l]] BY <1>1, <1>3
    <2> QED BY <1>1, <2>1, TypeFields
  <1>4. TryAgain(p) => proc' \in [Procs -> ProcessState]
    <2>1. [proc[p] EXCEPT !.try = 2, !.pc = "lock"] \in ProcessState
      BY <1>1, TypeFields DEF Labels
    <2> QED BY <1>1, <2>1, OffTyped DEF TryAgain
  <1> QED BY <1>2, <1>3, <1>4

\* The steps of Migrate that only move their process on.
LEMMA TypeMigrate ==
  ASSUME TypeOK, NEW p \in Procs,
         Decide(p) \/ AcquireLock(p) \/ StatLock(p) \/ Unlock(p) \/ CountTables(p)
           \/ VacuumInto(p) \/ Verify(p) \/ StatTarget(p) \/ CheckEntry(p) \/ Release(p)
  PROVE  TypeOK'
  <1>1. UNCHANGED <<db, newDir, newFiles, config, port, saved, crashes>>
    BY DEF Decide, AcquireLock, StatLock, Unlock, CountTables, VacuumInto, Verify, StatTarget,
           CheckEntry, Release, disk
  <1>2. lock' \in [owner : Procs \cup {Nobody}, stale : BOOLEAN]
    <2>1. UNCHANGED lock \/ lock' = NoLock \/ lock' = [owner |-> p, stale |-> FALSE]
      BY DEF Decide, AcquireLock, StatLock, Unlock, CountTables, VacuumInto, Verify, StatTarget,
             CheckEntry, Release
    <2>2. lock \in LockState BY DEF TypeOK, LockState
    <2> QED BY <2>1, <2>2, LockTyped DEF LockState
  <1> DEFINE Typed == proc' \in [Procs -> ProcessState]
  <1>3. Migrating \subseteq Labels /\ {"open", "lock", "stat", "unlock", "rewrite"} \subseteq Labels
    BY DEF Labels, Migrating
  <1>4. {"count", "vacuum", "verify", "commit", "place", "move", "rename", "release"}
          \subseteq Labels
    BY DEF Labels, Migrating
  <1>5. proc \in [Procs -> ProcessState] /\ proc[p] \in ProcessState BY DEF TypeOK
  <1>6. Abort(p) => Typed BY <1>4, TypeMoves DEF Abort
  <1>7. ASSUME Decide(p) \/ StatTarget(p) \/ Release(p) \/ Verify(p) PROVE Typed
    BY <1>3, <1>4, <1>6, <1>7, TypeMoves DEF Decide, StatTarget, Release, Verify
  <1>8. ASSUME StatLock(p) \/ Unlock(p) PROVE Typed
    BY <1>3, <1>5, <1>8, OffTyped, TypeMoves DEF StatLock, Unlock
  <1>9. ASSUME AcquireLock(p) PROVE Typed
    BY <1>3, <1>4, <1>9, TypeMoves DEF AcquireLock
  <1>10. ASSUME CountTables(p) PROVE Typed
    <2>1. ASSUME Has("old"),
                 proc' = [proc EXCEPT ![p].counted = Cardinality(db["old"]), ![p].pc = "vacuum"]
          PROVE  Typed
      <3>1. db["old"] \subseteq Facts BY <2>1 DEF Has, TypeOK
      <3>2. Cardinality(db["old"]) \in Nat
        BY <3>1, FactsAssumption, FS_Subset, FS_CardinalityType
      <3>3. proc' = [proc EXCEPT ![p] = [proc[p] EXCEPT !.counted = Cardinality(db["old"]),
                                                        !.pc = "vacuum"]]
        BY <1>5, <2>1
      <3> QED BY <1>4, <1>5, <3>2, <3>3, TypeFields
    <2> QED BY <1>6, <1>10, <2>1 DEF CountTables
  <1>11. ASSUME VacuumInto(p) PROVE Typed
    <2>1. ASSUME Has("old"), NEW S \in SUBSET db["old"],
                 proc' = [proc EXCEPT ![p].copy = S, ![p].pc = "verify"]
          PROVE  Typed
      <3>1. S \in SUBSET Facts BY <2>1 DEF Has, TypeOK
      <3>2. proc' = [proc EXCEPT ![p] = [proc[p] EXCEPT !.copy = S, !.pc = "verify"]]
        BY <1>5, <2>1
      <3> QED BY <1>4, <1>5, <3>1, <3>2, TypeFields
    <2> QED BY <1>6, <1>11, <2>1 DEF VacuumInto
  <1>12. ASSUME CheckEntry(p) PROVE Typed
    <2>1. ASSUME NEW e \in Entries, proc' = [proc EXCEPT ![p].entry = e, ![p].pc = "move"]
          PROVE  Typed
      <3>1. proc' = [proc EXCEPT ![p] = [proc[p] EXCEPT !.entry = e, !.pc = "move"]]
        BY <1>5, <2>1
      <3> QED BY <1>4, <1>5, <3>1, TypeFields
    <2> QED BY <1>6, <1>12, <2>1 DEF CheckEntry
  <1>13. Typed BY <1>7, <1>8, <1>9, <1>10, <1>11, <1>12
  <1> QED BY <1>1, <1>2, <1>13 DEF TypeOK

\* A new database is made of facts.
LEMMA WithTyped ==
  ASSUME DOMAIN db \subseteq Directories, \A d \in DOMAIN db : db[d] \subseteq Facts,
         NEW d \in Directories, NEW S \in SUBSET Facts
  PROVE  /\ DOMAIN With(d, S) \subseteq Directories
         /\ \A x \in DOMAIN With(d, S) : With(d, S)[x] \subseteq Facts
  BY DEF With

\* The steps that change the disk.
LEMMA TypeDisk ==
  ASSUME TypeOK, NEW p \in Procs, RenameStaging(p) \/ MoveEntry(p) \/ OpenDB(p)
  PROVE  TypeOK'
  <1>1. proc[p] \in ProcessState BY DEF TypeOK
  <1>2. proc[p].copy \in SUBSET Facts /\ proc[p].entry \in Entries
    BY <1>1 DEF ProcessState
  <1>3. Target(p) \in Directories BY DEF Target, Resolve, Directories
  <1>4. /\ DOMAIN db' \subseteq Directories
        /\ \A d \in DOMAIN db' : db'[d] \subseteq Facts
    <2>1. "new" \in Directories BY DEF Directories
    <2>2. UNCHANGED db \/ db' = With("new", proc[p].copy) \/ db' = With(Target(p), {})
      BY DEF RenameStaging, MoveEntry, OpenDB, disk
    <2>3. DOMAIN db \subseteq Directories /\ \A d \in DOMAIN db : db[d] \subseteq Facts
      BY DEF TypeOK
    <2> QED BY <1>2, <1>3, <2>1, <2>2, <2>3, WithTyped
  <1>5. newDir' \in BOOLEAN /\ newFiles' \subseteq Files
    BY <1>2 DEF TypeOK, RenameStaging, MoveEntry, OpenDB, disk, Entries
  <1>6. /\ config' \in Paths /\ lock' \in [owner : Procs \cup {Nobody}, stale : BOOLEAN]
        /\ saved' \subseteq Facts /\ crashes' \in 0 .. MaxCrashes
        /\ port' \in Procs \cup {Nobody}
    BY DEF TypeOK, RenameStaging, MoveEntry, OpenDB
  <1>7. proc' \in [Procs -> ProcessState]
    BY <1>3 DEF TypeOK, ProcessState, RenameStaging, MoveEntry, OpenDB, Committed, Abort, Labels,
                Migrating
  <1> QED BY <1>4, <1>5, <1>6, <1>7 DEF TypeOK

LEMMA TypeRetire ==
  ASSUME TypeOK, NEW p \in Procs, RewriteRelocatedPaths(p) \/ RetireOld(p)
  PROVE  TypeOK'
  <1>1. CASE RewriteRelocatedPaths(p)
    BY <1>1 DEF RewriteRelocatedPaths, TypeOK, ProcessState, Labels, Migrating, disk, Goto, Off,
                Directories, Entries, Paths
  <1>2. CASE RetireOld(p)
    <2> DEFINE after == [proc EXCEPT ![p].pc = "open"]
    <2>1. after \in [Procs -> ProcessState]
      BY DEF TypeOK, ProcessState, Labels, Migrating
    <2>2. proc' \in [Procs -> ProcessState]
      <3>1. \A q \in Procs : [after[q] EXCEPT !.uses = "retired"] \in ProcessState
        BY <2>1 DEF ProcessState, Directories
      <3> HIDE DEF after
      <3>2. \/ proc' = after
            \/ proc' = [q \in Procs |-> IF after[q].uses = "old"
                                        THEN [after[q] EXCEPT !.uses = "retired"]
                                        ELSE after[q]]
        BY <1>2 DEF RetireOld, after
      <3> QED BY <2>1, <3>1, <3>2
    <2>3. /\ DOMAIN db' \subseteq Directories
          /\ \A d \in DOMAIN db' : db'[d] \subseteq Facts
      BY <1>2 DEF RetireOld, TypeOK, Has, Directories
    <2>4. lock' \in [owner : Procs \cup {Nobody}, stale : BOOLEAN]
      <3>1. lock \in LockState BY DEF TypeOK, LockState
      <3>2. UNCHANGED lock \/ lock' = NoLock BY <1>2 DEF RetireOld
      <3> QED BY <3>1, <3>2, LockTyped DEF LockState
    <2>5. UNCHANGED <<newDir, newFiles, config, port, saved, crashes>>
      BY <1>2 DEF RetireOld
    <2> QED BY <2>2, <2>3, <2>4, <2>5 DEF TypeOK
  <1> QED BY <1>1, <1>2

LEMMA TypeRest ==
  ASSUME TypeOK,
         \/ \E p \in Procs : Start(p) \/ Stop(p) \/ Crash(p)
         \/ \E p \in Procs, f \in Facts : Save(p, f)
         \/ LockAges \/ ClearTarget
  PROVE  TypeOK'
  <1>1. ASSUME NEW p \in Procs, Start(p) \/ Stop(p) \/ Crash(p) PROVE TypeOK'
    <2>1. config \in Paths /\ proc \in [Procs -> ProcessState] BY DEF TypeOK
    <2>2. [Off EXCEPT !.pc = "decide", !.cfg = config] \in ProcessState
      <3>1. [Off EXCEPT !.pc = "decide", !.cfg = config]
              = [[Off EXCEPT !.cfg = config] EXCEPT !.pc = "decide"]
        BY DEF Off
      <3>2. [Off EXCEPT !.cfg = config] \in ProcessState
        BY <2>1, OffTyped DEF ProcessState
      <3> QED BY <3>1, <3>2, TypeFields DEF Labels
    <2>3. proc' \in [Procs -> ProcessState]
      BY <1>1, <2>1, <2>2, OffTyped DEF Start, Stop, Crash
    <2>4. crashes' \in 0 .. MaxCrashes
      BY <1>1, CrashesAssumption DEF Start, Stop, Crash, TypeOK
    <2>5. UNCHANGED <<db, newDir, newFiles, config, lock, port, saved>>
      BY <1>1 DEF Start, Stop, Crash, disk
    <2> QED BY <2>3, <2>4, <2>5 DEF TypeOK
  <1>2. ASSUME NEW p \in Procs, NEW f \in Facts, Save(p, f) PROVE TypeOK'
    BY <1>2 DEF Save, TypeOK
  <1>3. CASE LockAges BY <1>3 DEF LockAges, TypeOK, disk
  <1>4. CASE ClearTarget BY <1>4 DEF ClearTarget, TypeOK
  <1> QED BY <1>1, <1>2, <1>3, <1>4

LEMMA TypeStep == TypeOK /\ [Next]_vars => TypeOK'
  <1> SUFFICES ASSUME TypeOK, [Next]_vars PROVE TypeOK'
    OBVIOUS
  <1>1. CASE UNCHANGED vars
    BY <1>1 DEF vars, disk, TypeOK
  <1>2. CASE \E p \in Procs : Startup(p)
    <2>1. PICK p \in Procs : Startup(p) BY <1>2
    <2> QED BY <2>1, TypeMigrate, TypeDisk, TypeRetire DEF Startup
  <1>3. CASE \/ \E p \in Procs : Start(p) \/ Stop(p) \/ Crash(p)
             \/ \E p \in Procs, f \in Facts : Save(p, f)
             \/ LockAges \/ ClearTarget
    BY <1>3, TypeRest
  <1> QED BY <1>1, <1>2, <1>3 DEF Next

\* Every reachable state is well typed: each process is at one of its labels
\* and tries the lock at most twice.
THEOREM TypeCorrect == Spec => []TypeOK
  BY TypeInit, TypeStep, PTL DEF Spec

-------------------------------------------------------------------------------
(* The new directory is complete.                                            *)

Uncommitted == {"decide", "lock", "stat", "unlock", "count", "vacuum", "verify", "commit"}

\* What a process relies on.  Until it has placed the database, one that commits
\* entry by entry finds in the new directory every file it has moved already; one
\* that is about to open the new database finds it there.
Committing(p) ==
  /\ proc[p].pc \in Uncommitted => proc[p].left = Entries
  /\ proc[p].pc \in {"place", "move"} => Files \ proc[p].left \subseteq newFiles
  /\ At(p, "move") /\ proc[p].entry = DB => Files \subseteq newFiles
  /\ proc[p].pc \in {"rewrite", "retire"} => Has("new")
  /\ At(p, "release") => proc[p].status = "failed" \/ Has("new")
  /\ At(p, "open") => proc[p].status = "failed" \/ Has("new")

\* One of the two directories always has a database.
CommitInv ==
  NewIsComplete /\ (Has("old") \/ Has("new")) /\ \A p \in Procs : Committing(p)

\* What no step takes away from another process.
Preserved == (Has("new") => Has("new")') /\ newFiles \subseteq newFiles'

\* A process whose commit did not move on relies on nothing new.
LEMMA CommittingFrame ==
  ASSUME Preserved, NEW p \in Procs, Committing(p),
         /\ proc'[p].pc = proc[p].pc /\ proc'[p].left = proc[p].left
         /\ proc'[p].entry = proc[p].entry /\ proc'[p].status = proc[p].status
  PROVE  Committing(p)'
  BY DEF Committing, Preserved, At, Has

\* Nothing but the process changes.
LEMMA CommitAlone ==
  ASSUME TypeOK, CommitInv, NEW p \in Procs, UNCHANGED <<db, newFiles>>,
         \A q \in Procs \ {p} : proc'[q] = proc[q],
         Committing(p)'
  PROVE  CommitInv'
  <1>1. NewIsComplete' /\ (Has("old") \/ Has("new"))' /\ Preserved
    BY DEF CommitInv, NewIsComplete, Has, Preserved
  <1>2. \A q \in Procs \ {p} : Committing(q)'
    BY <1>1, CommittingFrame DEF CommitInv
  <1> QED BY <1>1, <1>2 DEF CommitInv

LEMMA CommitInit == Init => CommitInv
  BY DEF Init, CommitInv, Committing, NewIsComplete, Has, At, Off, Uncommitted

\* The steps of Migrate that only move their process on.
LEMMA CommitMigrate ==
  ASSUME TypeOK, CommitInv, NEW p \in Procs,
         Decide(p) \/ AcquireLock(p) \/ StatLock(p) \/ Unlock(p) \/ CountTables(p)
           \/ VacuumInto(p) \/ Verify(p) \/ StatTarget(p) \/ CheckEntry(p) \/ Release(p)
  PROVE  CommitInv'
  <1>1. UNCHANGED <<db, newFiles>>
    BY DEF Decide, AcquireLock, StatLock, Unlock, CountTables, VacuumInto, Verify, StatTarget,
           CheckEntry, Release, disk
  <1>2. proc \in [Procs -> ProcessState] /\ proc[p] \in ProcessState BY DEF TypeOK
  <1>3. \A q \in Procs \ {p} : proc'[q] = proc[q]
    BY <1>2 DEF Decide, AcquireLock, StatLock, Unlock, CountTables, VacuumInto, Verify, StatTarget,
           CheckEntry, Release, Goto, Abort, TryAgain
  <1>4. Committing(p) BY DEF CommitInv
  <1> USE DEF Committing, At, Has, Uncommitted
  <1>5. ASSUME Abort(p) PROVE Committing(p)'
    <2>1. proc'[p].pc = "release" /\ proc'[p].status = "failed"
      BY <1>2, <1>5 DEF Abort, ProcessState
    <2> QED BY <2>1
  <1>6. ASSUME proc'[p] = Off PROVE Committing(p)'
    BY <1>6 DEF Off
  <1>7. ASSUME Decide(p) PROVE Committing(p)'
    BY <1>1, <1>2, <1>4, <1>7 DEF Decide, Goto, ProcessState, CommitInv
  <1>8. ASSUME AcquireLock(p) PROVE Committing(p)'
    BY <1>1, <1>2, <1>4, <1>8 DEF AcquireLock, Goto, ProcessState
  <1>9. ASSUME TryAgain(p), proc[p].pc \in Uncommitted PROVE Committing(p)'
    <2>1. CASE proc[p].try = 1
      <3>1. proc'[p].pc = "lock" /\ proc'[p].left = proc[p].left
        BY <1>2, <1>9, <2>1 DEF TryAgain, ProcessState
      <3> QED BY <1>4, <1>9, <3>1
    <2>2. CASE proc[p].try # 1
      <3>1. proc'[p] = Off BY <1>2, <1>9, <2>2 DEF TryAgain
      <3> QED BY <1>6, <3>1
    <2> QED BY <2>1, <2>2
  <1>10. ASSUME StatLock(p) PROVE Committing(p)'
    <2>1. CASE Goto(p, "unlock")
      BY <1>2, <1>4, <1>10, <2>1 DEF StatLock, Goto, ProcessState
    <2>2. CASE proc' = [proc EXCEPT ![p] = Off]
      BY <1>2, <1>6, <2>2
    <2> QED BY <1>9, <1>10, <2>1, <2>2 DEF StatLock
  <1>11. ASSUME Unlock(p) PROVE Committing(p)'
    BY <1>9, <1>11 DEF Unlock
  <1>12. ASSUME CountTables(p) PROVE Committing(p)'
    <2>1. ASSUME proc' = [proc EXCEPT ![p].counted = Cardinality(db["old"]), ![p].pc = "vacuum"]
          PROVE  Committing(p)'
      <3>1. proc'[p].pc = "vacuum" /\ proc'[p].left = proc[p].left
        BY <1>2, <2>1 DEF ProcessState
      <3> QED BY <1>4, <1>12, <3>1 DEF CountTables
    <2> QED BY <1>5, <1>12, <2>1 DEF CountTables
  <1>13. ASSUME VacuumInto(p) PROVE Committing(p)'
    <2>1. ASSUME NEW S, proc' = [proc EXCEPT ![p].copy = S, ![p].pc = "verify"]
          PROVE  Committing(p)'
      <3>1. proc'[p].pc = "verify" /\ proc'[p].left = proc[p].left
        BY <1>2, <2>1 DEF ProcessState
      <3> QED BY <1>4, <1>13, <3>1 DEF VacuumInto
    <2> QED BY <1>5, <1>13, <2>1 DEF VacuumInto
  <1>14. ASSUME Verify(p) PROVE Committing(p)'
    <2>1. CASE Goto(p, "commit")
      BY <1>2, <1>4, <1>14, <2>1 DEF Verify, Goto, ProcessState
    <2> QED BY <1>5, <1>14, <2>1 DEF Verify
  <1>15. ASSUME StatTarget(p) PROVE Committing(p)'
    BY <1>2, <1>4, <1>15 DEF StatTarget, Goto, ProcessState, Entries
  <1>16. ASSUME CheckEntry(p) PROVE Committing(p)'
    <2>1. ASSUME NEW e \in Entries, NextEntry(p, e),
                 proc' = [proc EXCEPT ![p].entry = e, ![p].pc = "move"]
          PROVE  Committing(p)'
      <3>1. /\ proc'[p].pc = "move" /\ proc'[p].left = proc[p].left
            /\ proc'[p].entry = e
        BY <1>2, <2>1 DEF ProcessState
      <3>2. e = DB => Files \subseteq newFiles
        BY <1>4, <1>16, <2>1, EntriesAssumption DEF NextEntry, CheckEntry
      <3> QED BY <1>1, <1>4, <1>16, <3>1, <3>2 DEF CheckEntry
    <2> QED BY <1>5, <1>16, <2>1 DEF CheckEntry
  <1>17. ASSUME Release(p) PROVE Committing(p)'
    BY <1>1, <1>2, <1>4, <1>17 DEF Release, Goto, ProcessState
  <1>18. Committing(p)'
    BY <1>7, <1>8, <1>10, <1>11, <1>12, <1>13, <1>14, <1>15, <1>16, <1>17
  <1> QED BY <1>1, <1>3, <1>18, CommitAlone

\* The steps that change the disk.
LEMMA CommitDisk ==
  ASSUME TypeOK, CommitInv, NEW p \in Procs, RenameStaging(p) \/ MoveEntry(p) \/ OpenDB(p)
  PROVE  CommitInv'
  <1>1. proc \in [Procs -> ProcessState] /\ proc[p] \in ProcessState BY DEF TypeOK
  <1>2. \A q \in Procs \ {p} : proc'[q] = proc[q]
    BY <1>1 DEF RenameStaging, MoveEntry, OpenDB, Committed, Abort
  <1>3. Committing(p) /\ NewIsComplete /\ (Has("old") \/ Has("new")) BY DEF CommitInv
  <1>4. proc[p].entry \in Entries /\ newFiles \subseteq Files
    BY <1>1 DEF ProcessState, TypeOK
  <1> DEFINE Goal == /\ Preserved /\ NewIsComplete' /\ (Has("old") \/ Has("new"))'
                     /\ Committing(p)'
  <1>5. ASSUME Abort(p), UNCHANGED <<db, newFiles>> PROVE Goal
    <2>1. proc'[p].pc = "release" /\ proc'[p].status = "failed"
      BY <1>1, <1>5 DEF Abort, ProcessState
    <2> QED BY <1>3, <1>5, <2>1 DEF Committing, At, Has, Preserved, NewIsComplete, Uncommitted
  <1>6. ASSUME NEW x, Committed(p, x), db' = With("new", proc[p].copy), newFiles' = Files
        PROVE  Goal
    <2>1. proc'[p].pc = "release" BY <1>1, <1>6 DEF Committed, ProcessState
    <2>2. Has("new")' BY <1>6 DEF With, Has
    <2> QED BY <1>4, <1>6, <2>1, <2>2
        DEF Committing, At, Preserved, NewIsComplete, Uncommitted
  <1>7. ASSUME RenameStaging(p) PROVE Goal
    BY <1>5, <1>6, <1>7 DEF RenameStaging, disk
  <1>8. ASSUME MoveEntry(p) PROVE Goal
    <2>1. ASSUME proc[p].entry # DB, newFiles' = newFiles \cup {proc[p].entry}, UNCHANGED db,
                 proc' = [proc EXCEPT ![p].left = @ \ {proc[p].entry}, ![p].pc = "place"]
          PROVE  Goal
      <3>1. proc'[p].pc = "place" /\ proc'[p].left = proc[p].left \ {proc[p].entry}
        BY <1>1, <2>1 DEF ProcessState
      <3>2. Files \ proc'[p].left \subseteq newFiles'
        BY <1>3, <1>8, <2>1, <3>1 DEF Committing, MoveEntry, At
      <3>3. Committing(p)' BY <3>1, <3>2 DEF Committing, At, Uncommitted
      <3>4. NewIsComplete' BY <1>3, <1>4, <2>1 DEF NewIsComplete, Has, Entries
      <3> QED BY <1>3, <2>1, <3>3, <3>4 DEF Preserved, Has
    <2>2. ASSUME proc[p].entry = DB, db' = With("new", proc[p].copy), UNCHANGED newFiles,
                 Committed(p, "migrated") \/ Committed(p, "failed")
          PROVE  Goal
      <3>1. newFiles' = Files BY <1>3, <1>4, <1>8, <2>2 DEF Committing, MoveEntry, At
      <3> QED BY <1>6, <2>2, <3>1
    <2> QED BY <1>5, <1>8, <2>1, <2>2 DEF MoveEntry
  <1>9. ASSUME OpenDB(p) PROVE Goal
    <2>1. Target(p) = "old" \/ Has("new")
      BY <1>3, <1>9 DEF OpenDB, Target, Committing
    <2>2. (Has("new") <=> Has("new")') /\ (Has("old") => Has("old")')
      BY <1>9, <2>1 DEF OpenDB, With, Has
    <2>3. UNCHANGED newFiles BY <1>9 DEF OpenDB
    <2>4. proc'[p].pc = "running" BY <1>1, <1>9 DEF OpenDB, ProcessState
    <2>5. Committing(p)' BY <2>4 DEF Committing, At, Uncommitted
    <2> QED BY <1>3, <2>2, <2>3, <2>5 DEF Preserved, NewIsComplete
  <1>10. Goal BY <1>7, <1>8, <1>9
  <1>11. \A q \in Procs \ {p} : Committing(q)'
    BY <1>2, <1>10, CommittingFrame DEF CommitInv
  <1> QED BY <1>10, <1>11 DEF CommitInv

\* The old directory goes only when there is a new database.
LEMMA CommitRetire ==
  ASSUME TypeOK, CommitInv, NEW p \in Procs, RewriteRelocatedPaths(p) \/ RetireOld(p)
  PROVE  CommitInv'
  <1>1. proc \in [Procs -> ProcessState] /\ proc[p] \in ProcessState BY DEF TypeOK
  <1>2. Committing(p) BY DEF CommitInv
  <1>3. CASE RewriteRelocatedPaths(p)
    <2>1. UNCHANGED <<db, newFiles>> BY <1>3 DEF RewriteRelocatedPaths, disk
    <2>2. \A q \in Procs \ {p} : proc'[q] = proc[q]
      BY <1>1, <1>3 DEF RewriteRelocatedPaths, Goto
    <2>3. proc'[p].pc \in {"retire", "open", "off"}
      BY <1>1, <1>3 DEF RewriteRelocatedPaths, Goto, Off, ProcessState
    <2>4. Has("new")' BY <1>2, <1>3, <2>1 DEF RewriteRelocatedPaths, Committing, At, Has
    <2>5. Committing(p)' BY <2>3, <2>4 DEF Committing, At, Uncommitted
    <2> QED BY <2>1, <2>2, <2>5, CommitAlone
  <1>4. CASE RetireOld(p)
    <2>1. Has("new") BY <1>2, <1>4 DEF RetireOld, Committing, At
    <2>2. Has("new")' BY <1>4, <2>1 DEF RetireOld, Has
    <2>3. UNCHANGED newFiles BY <1>4 DEF RetireOld
    <2>4. Preserved BY <2>2, <2>3 DEF Preserved
    <2> DEFINE after == [proc EXCEPT ![p].pc = "open"]
    <2>5. after \in [Procs -> ProcessState] BY <1>1 DEF ProcessState, Labels
    <2>6. \A q \in Procs : /\ proc'[q].pc = after[q].pc /\ proc'[q].left = after[q].left
                           /\ proc'[q].entry = after[q].entry
                           /\ proc'[q].status = after[q].status
      <3> HIDE DEF after
      <3>1. \/ proc' = after
            \/ proc' = [q \in Procs |-> IF after[q].uses = "old"
                                        THEN [after[q] EXCEPT !.uses = "retired"]
                                        ELSE after[q]]
        BY <1>4 DEF RetireOld, after
      <3> QED BY <2>5, <3>1 DEF ProcessState
    <2>7. proc'[p].pc = "open" BY <1>1, <2>6 DEF ProcessState
    <2>8. Committing(p)' BY <2>2, <2>7 DEF Committing, At, Uncommitted
    <2>9. \A q \in Procs \ {p} : after[q] = proc[q] BY <1>1
    <2>10. \A q \in Procs \ {p} : Committing(q)'
      BY <2>4, <2>6, <2>9, CommittingFrame DEF CommitInv
    <2> QED BY <2>1, <2>2, <2>3, <2>8, <2>10 DEF CommitInv, NewIsComplete
  <1> QED BY <1>3, <1>4

LEMMA CommitRest ==
  ASSUME TypeOK, CommitInv,
         \/ \E p \in Procs : Start(p) \/ Stop(p) \/ Crash(p)
         \/ \E p \in Procs, f \in Facts : Save(p, f)
         \/ LockAges \/ ClearTarget
  PROVE  CommitInv'
  <1>1. proc \in [Procs -> ProcessState] BY DEF TypeOK
  <1>2. ASSUME NEW p \in Procs, Start(p) \/ Stop(p) \/ Crash(p) PROVE CommitInv'
    <2>1. UNCHANGED <<db, newFiles>> BY <1>2 DEF Start, Stop, Crash, disk
    <2>2. \A q \in Procs \ {p} : proc'[q] = proc[q] BY <1>1, <1>2 DEF Start, Stop, Crash
    <2>3. proc'[p].pc \in {"off", "decide"} /\ proc'[p].left = Entries
      <3>1. \/ proc'[p] = Off
            \/ proc'[p] = [Off EXCEPT !.pc = "decide", !.cfg = config]
        BY <1>1, <1>2 DEF Start, Stop, Crash
      <3>2. Off.left = Entries /\ Off.pc = "off" BY DEF Off
      <3> QED BY <3>1, <3>2, OffTyped DEF ProcessState
    <2>4. Committing(p)' BY <2>3 DEF Committing, At, Uncommitted
    <2> QED BY <2>1, <2>2, <2>4, CommitAlone
  <1>3. ASSUME UNCHANGED <<newFiles, proc>>, DOMAIN db' = DOMAIN db PROVE CommitInv'
    BY <1>3 DEF CommitInv, Committing, NewIsComplete, Has, At
  <1>4. ASSUME NEW p \in Procs, NEW f \in Facts, Save(p, f) PROVE CommitInv'
    <2>1. UNCHANGED <<newFiles, proc>> /\ DOMAIN db' = DOMAIN db BY <1>4 DEF Save
    <2> QED BY <1>3, <2>1
  <1>5. CASE LockAges BY <1>3, <1>5 DEF LockAges, disk
  <1>6. CASE ClearTarget
    <2>1. ~Has("new") /\ UNCHANGED <<db, proc>> BY <1>6 DEF ClearTarget
    <2>2. \A p \in Procs : proc[p].pc \notin {"place", "move"}
      BY <1>6 DEF ClearTarget, Migrating
    <2> QED BY <2>1, <2>2 DEF CommitInv, Committing, NewIsComplete, Has, At
  <1> QED BY <1>2, <1>4, <1>5, <1>6

LEMMA CommitStep == TypeOK /\ CommitInv /\ [Next]_vars => CommitInv'
  <1> SUFFICES ASSUME TypeOK, CommitInv, [Next]_vars PROVE CommitInv'
    OBVIOUS
  <1>1. CASE UNCHANGED vars
    BY <1>1 DEF vars, disk, CommitInv, Committing, NewIsComplete, Has, At
  <1>2. CASE \E p \in Procs : Startup(p)
    <2>1. PICK p \in Procs : Startup(p) BY <1>2
    <2> QED BY <2>1, CommitMigrate, CommitDisk, CommitRetire DEF Startup
  <1>3. CASE \/ \E p \in Procs : Start(p) \/ Stop(p) \/ Crash(p)
             \/ \E p \in Procs, f \in Facts : Save(p, f)
             \/ LockAges \/ ClearTarget
    BY <1>3, CommitRest
  <1> QED BY <1>1, <1>2, <1>3 DEF Next

\* However many processes migrate at once, in whatever steps they crash or fail,
\* a new directory that has a database has every other file.
THEOREM NewComplete == Spec => []NewIsComplete
  <1>1. CommitInv => NewIsComplete BY DEF CommitInv
  <1> QED BY <1>1, TypeInit, TypeStep, CommitInit, CommitStep, PTL DEF Spec

-------------------------------------------------------------------------------
(* Nothing saved vanishes: one process at a time, and no failing sync.       *)

Alone == (\A p, q \in Procs : p = q) /\ "sync" \notin Faults

BeforeCommit == {"lock", "stat", "unlock", "count", "vacuum", "verify", "commit", "rename",
                 "place", "move"}

\* The database has been committed and the old directory is still there.
Moved(p) ==
  proc[p].pc \in {"rewrite", "retire"} \/ (At(p, "release") /\ proc[p].status = "migrated")

\* What a process relies on: its copy is the old database, both databases are the
\* same between commit and retirement, and it opens the directory the facts are in.
Keeping(p) ==
  /\ ~At(p, "off") => proc[p].cfg = config
  /\ At(p, "decide") \/ proc[p].pc \in BeforeCommit => proc[p].status = "skipped"
  /\ proc[p].pc \in BeforeCommit => ~Has("new")
  /\ proc[p].pc \in {"vacuum", "verify"} => proc[p].counted = Cardinality(db["old"])
  /\ At(p, "verify") => proc[p].copy \subseteq db["old"]
  /\ proc[p].pc \in {"commit", "rename", "place", "move"} => proc[p].copy = db["old"]
  /\ proc[p].pc \in {"release", "open"} => (Has("new") <=> proc[p].status # "failed")
  /\ proc[p].pc \in {"rewrite", "retire"} => proc[p].status = "migrated"
  /\ Moved(p) => Has("old") /\ Has("new") /\ db["new"] = db["old"]
  /\ Running(p) => proc[p].uses = Home

StoredAtHome == Has(Home) /\ saved = db[Home]

KeptInv == StoredAtHome /\ \A p \in Procs : Keeping(p)

\* With one process, what it relies on is all there is.
LEMMA KeepAlone ==
  ASSUME Alone, NEW p \in Procs, StoredAtHome', Keeping(p)'
  PROVE  KeptInv'
  BY DEF Alone, KeptInv

LEMMA HomeSame ==
  ASSUME StoredAtHome, UNCHANGED <<db, config, saved>>
  PROVE  StoredAtHome' /\ Home' = Home
  BY DEF StoredAtHome, Home, Has

LEMMA KeptInit == Init => KeptInv
  BY DEF Init, KeptInv, StoredAtHome, Home, Keeping, Moved, Running, Has, At, Off, BeforeCommit

\* A process that ended relies on nothing.
LEMMA KeepingOff ==
  ASSUME NEW p \in Procs, proc'[p] = Off PROVE Keeping(p)'
  BY DEF Keeping, Moved, Running, At, Off, BeforeCommit

\* A migration that fails before its commit has left no new database.
LEMMA KeepingAbort ==
  ASSUME TypeOK, NEW p \in Procs, Keeping(p), proc[p].pc \in BeforeCommit, Abort(p),
         UNCHANGED <<db, config>>
  PROVE  Keeping(p)'
  <1>1. proc \in [Procs -> ProcessState] /\ proc[p] \in ProcessState BY DEF TypeOK
  <1>2. /\ proc'[p].pc = "release" /\ proc'[p].status = "failed"
        /\ proc'[p].cfg = proc[p].cfg
    BY <1>1 DEF Abort, ProcessState
  <1> QED BY <1>2 DEF Keeping, Moved, Running, At, Has, BeforeCommit

LEMMA KeepingTryAgain ==
  ASSUME TypeOK, NEW p \in Procs, Keeping(p), proc[p].pc \in BeforeCommit, TryAgain(p),
         UNCHANGED <<db, config>>
  PROVE  Keeping(p)'
  <1>1. proc \in [Procs -> ProcessState] /\ proc[p] \in ProcessState BY DEF TypeOK
  <1>2. CASE proc[p].try = 1
    <2>1. /\ proc'[p].pc = "lock" /\ proc'[p].status = proc[p].status
          /\ proc'[p].cfg = proc[p].cfg
      BY <1>1, <1>2 DEF TryAgain, ProcessState
    <2> QED BY <2>1 DEF Keeping, Moved, Running, At, Has, BeforeCommit
  <1>3. CASE proc[p].try # 1
    <2>1. proc'[p] = Off BY <1>1, <1>3 DEF TryAgain
    <2> QED BY <2>1, KeepingOff
  <1> QED BY <1>2, <1>3

\* Decision, lock, copy and the choice of how to commit.
LEMMA KeptMigrate ==
  ASSUME TypeOK, Alone, KeptInv, NEW p \in Procs,
         Decide(p) \/ AcquireLock(p) \/ StatLock(p) \/ Unlock(p) \/ CountTables(p)
           \/ VacuumInto(p) \/ Verify(p) \/ StatTarget(p) \/ CheckEntry(p) \/ Release(p)
  PROVE  KeptInv'
  <1>1. UNCHANGED <<db, config, saved>>
    BY DEF Decide, AcquireLock, StatLock, Unlock, CountTables, VacuumInto, Verify, StatTarget,
           CheckEntry, Release, disk
  <1>2. proc \in [Procs -> ProcessState] /\ proc[p] \in ProcessState BY DEF TypeOK
  <1>3. Keeping(p) /\ StoredAtHome BY DEF KeptInv
  <1>4. StoredAtHome' /\ Home' = Home BY <1>1, <1>3, HomeSame
  <1>5. ~Has("new") => Has("old") BY <1>3 DEF StoredAtHome, Home
  <1> DEFINE Step(l) == /\ proc'[p].pc = l /\ proc'[p].cfg = proc[p].cfg
                        /\ proc'[p].status = proc[p].status
                        /\ proc'[p].uses = proc[p].uses
             Same    == proc'[p].counted = proc[p].counted /\ proc'[p].copy = proc[p].copy
  <1>6. ASSUME NEW l, Goto(p, l) PROVE Step(l) /\ Same
    BY <1>2, <1>6 DEF Goto, ProcessState
  <1>7. proc[p].pc \in BeforeCommit /\ Abort(p) => Keeping(p)'
    BY <1>1, <1>3, KeepingAbort
  <1>8. proc[p].pc \in BeforeCommit /\ TryAgain(p) => Keeping(p)'
    BY <1>1, <1>3, KeepingTryAgain
  <1>9. ASSUME Decide(p) PROVE Keeping(p)'
    <2>1. \/ Step("lock") /\ ~Has("new")
          \/ Step("open") /\ Has("new")
      BY <1>5, <1>6, <1>9 DEF Decide
    <2> QED BY <1>1, <1>3, <1>9, <2>1
        DEF Keeping, Moved, Running, At, Has, BeforeCommit, Decide
  <1>10. ASSUME AcquireLock(p) PROVE Keeping(p)'
    <2>1. At(p, "lock") /\ ~Has("new") BY <1>3, <1>10 DEF AcquireLock, Keeping, At, BeforeCommit
    <2>2. Step("count") \/ Step("stat") BY <1>5, <1>6, <1>10, <2>1 DEF AcquireLock
    <2> QED BY <1>1, <1>3, <2>1, <2>2 DEF Keeping, Moved, Running, At, Has, BeforeCommit
  <1>11. ASSUME StatLock(p) PROVE Keeping(p)'
    <2>1. CASE Goto(p, "unlock")
      <3>1. Step("unlock") BY <1>6, <2>1
      <3> QED BY <1>1, <1>3, <1>11, <3>1
          DEF Keeping, Moved, Running, At, Has, BeforeCommit, StatLock
    <2>2. CASE proc' = [proc EXCEPT ![p] = Off]
      BY <1>2, <2>2, KeepingOff
    <2> QED BY <1>8, <1>11, <2>1, <2>2 DEF StatLock, BeforeCommit, At
  <1>12. ASSUME Unlock(p) PROVE Keeping(p)'
    BY <1>8, <1>12 DEF Unlock, BeforeCommit, At
  <1>13. ASSUME CountTables(p) PROVE Keeping(p)'
    <2>1. ASSUME proc' = [proc EXCEPT ![p].counted = Cardinality(db["old"]), ![p].pc = "vacuum"]
          PROVE  Keeping(p)'
      <3>1. Step("vacuum") /\ proc'[p].counted = Cardinality(db["old"])
        BY <1>2, <2>1 DEF ProcessState
      <3> QED BY <1>1, <1>3, <1>13, <3>1
          DEF Keeping, Moved, Running, At, Has, BeforeCommit, CountTables
    <2> QED BY <1>7, <1>13, <2>1 DEF CountTables, BeforeCommit, At
  <1>14. ASSUME VacuumInto(p) PROVE Keeping(p)'
    <2>1. ASSUME NEW S \in SUBSET db["old"],
                 proc' = [proc EXCEPT ![p].copy = S, ![p].pc = "verify"]
          PROVE  Keeping(p)'
      <3>1. /\ Step("verify") /\ proc'[p].copy = S
            /\ proc'[p].counted = proc[p].counted
        BY <1>2, <2>1 DEF ProcessState
      <3> QED BY <1>1, <1>3, <1>14, <3>1
          DEF Keeping, Moved, Running, At, Has, BeforeCommit, VacuumInto
    <2> QED BY <1>7, <1>14, <2>1 DEF VacuumInto, BeforeCommit, At
  <1>15. ASSUME Verify(p) PROVE Keeping(p)'
    <2>1. CASE Verified(p) /\ Goto(p, "commit")
      <3>1. Step("commit") /\ Same BY <1>6, <2>1
      <3>2. proc[p].copy = db["old"]
        <4>1. proc[p].copy \subseteq db["old"] /\ proc[p].counted = Cardinality(db["old"])
          BY <1>3, <1>15 DEF Verify, Keeping, At
        <4>2. IsFiniteSet(db["old"])
          BY <2>1, FactsAssumption, FS_Subset DEF Verified, Has, TypeOK
        <4> QED BY <2>1, <4>1, <4>2, FS_Subset DEF Verified
      <3> QED BY <1>1, <1>3, <1>15, <3>1, <3>2
          DEF Keeping, Moved, Running, At, Has, BeforeCommit, Verify
    <2> QED BY <1>7, <1>15, <2>1 DEF Verify, BeforeCommit, At
  <1>16. ASSUME StatTarget(p) PROVE Keeping(p)'
    <2>1. Same /\ (Step("place") \/ Step("rename")) BY <1>6, <1>16 DEF StatTarget
    <2> QED BY <1>1, <1>3, <1>16, <2>1
        DEF Keeping, Moved, Running, At, Has, BeforeCommit, StatTarget
  <1>17. ASSUME CheckEntry(p) PROVE Keeping(p)'
    <2>1. ASSUME NEW e, proc' = [proc EXCEPT ![p].entry = e, ![p].pc = "move"]
          PROVE  Keeping(p)'
      <3>1. Step("move") /\ Same BY <1>2, <2>1 DEF ProcessState
      <3> QED BY <1>1, <1>3, <1>17, <3>1
          DEF Keeping, Moved, Running, At, Has, BeforeCommit, CheckEntry
    <2> QED BY <1>7, <1>17, <2>1 DEF CheckEntry, BeforeCommit, At
  <1>18. ASSUME Release(p) PROVE Keeping(p)'
    <2>1. \/ Step("rewrite") /\ proc[p].status = "migrated"
          \/ Step("open") /\ proc[p].status # "migrated"
      BY <1>6, <1>18 DEF Release
    <2> QED BY <1>1, <1>3, <1>18, <2>1
        DEF Keeping, Moved, Running, At, Has, BeforeCommit, Release
  <1>19. Keeping(p)'
    BY <1>9, <1>10, <1>11, <1>12, <1>13, <1>14, <1>15, <1>16, <1>17, <1>18
  <1> QED BY <1>4, <1>19, KeepAlone

\* The commit makes a new database equal to the old one; opening makes none.
LEMMA KeptDisk ==
  ASSUME TypeOK, Alone, KeptInv, NEW p \in Procs, RenameStaging(p) \/ MoveEntry(p) \/ OpenDB(p)
  PROVE  KeptInv'
  <1>1. proc \in [Procs -> ProcessState] /\ proc[p] \in ProcessState BY DEF TypeOK
  <1>2. Keeping(p) /\ StoredAtHome BY DEF KeptInv
  <1>3. UNCHANGED <<config, saved>> BY DEF RenameStaging, MoveEntry, OpenDB
  <1>4. ASSUME Abort(p), UNCHANGED db, proc[p].pc \in BeforeCommit PROVE KeptInv'
    BY <1>2, <1>3, <1>4, HomeSame, KeepingAbort, KeepAlone
  <1>5. ASSUME proc[p].pc \in {"rename", "move"}, Committed(p, "migrated"),
               db' = With("new", proc[p].copy)
        PROVE  KeptInv'
    <2>1. /\ proc'[p].pc = "release" /\ proc'[p].status = "migrated"
          /\ proc'[p].cfg = proc[p].cfg
      BY <1>1, <1>5 DEF Committed, ProcessState
    <2>2. ~Has("new") /\ Has("old") /\ proc[p].copy = db["old"] /\ saved = db["old"]
      BY <1>2, <1>5 DEF Keeping, BeforeCommit, StoredAtHome, Home
    <2>3. /\ Has("new")' /\ Has("old")'
          /\ db'["new"] = db["old"] /\ db'["old"] = db["old"]
      BY <1>5, <2>2 DEF With, Has
    <2>4. Keeping(p)'
      BY <1>2, <1>3, <1>5, <2>1, <2>3 DEF Keeping, Moved, Running, At, BeforeCommit
    <2>5. StoredAtHome' BY <1>3, <2>2, <2>3 DEF StoredAtHome, Home, Resolve
    <2> QED BY <2>4, <2>5, KeepAlone
  <1>6. ASSUME RenameStaging(p) PROVE KeptInv'
    BY <1>4, <1>5, <1>6 DEF RenameStaging, disk, At, BeforeCommit
  <1>7. ASSUME MoveEntry(p) PROVE KeptInv'
    <2>1. ASSUME UNCHANGED db,
                 proc' = [proc EXCEPT ![p].left = @ \ {proc[p].entry}, ![p].pc = "place"]
          PROVE  KeptInv'
      <3>1. /\ proc'[p].pc = "place" /\ proc'[p].status = proc[p].status
            /\ proc'[p].cfg = proc[p].cfg /\ proc'[p].copy = proc[p].copy
        BY <1>1, <2>1 DEF ProcessState
      <3>2. Keeping(p)'
        BY <1>2, <1>3, <1>7, <2>1, <3>1
        DEF Keeping, Moved, Running, At, Has, BeforeCommit, MoveEntry
      <3> QED BY <1>2, <1>3, <2>1, <3>2, HomeSame, KeepAlone
    <2>2. "sync" \notin Faults BY DEF Alone
    <2> QED BY <1>4, <1>5, <1>7, <2>1, <2>2 DEF MoveEntry, At, BeforeCommit
  <1>8. ASSUME OpenDB(p) PROVE KeptInv'
    <2>1. Target(p) = Home
      BY <1>2, <1>8 DEF OpenDB, Keeping, At, Target, Home
    <2>2. UNCHANGED db BY <1>2, <1>8, <2>1 DEF OpenDB, StoredAtHome
    <2>3. /\ proc'[p].pc = "running" /\ proc'[p].uses = Target(p)
          /\ proc'[p].cfg = proc[p].cfg
      BY <1>1, <1>8 DEF OpenDB, ProcessState
    <2>4. StoredAtHome' /\ Home' = Home BY <1>2, <1>3, <2>2, HomeSame
    <2>5. Keeping(p)'
      BY <1>2, <1>3, <1>8, <2>1, <2>3, <2>4
      DEF Keeping, Moved, Running, At, BeforeCommit, OpenDB
    <2> QED BY <2>4, <2>5, KeepAlone
  <1> QED BY <1>6, <1>7, <1>8

\* The configuration names the new database before the old one is put away.
LEMMA KeptRetire ==
  ASSUME TypeOK, Alone, KeptInv, NEW p \in Procs, RewriteRelocatedPaths(p) \/ RetireOld(p)
  PROVE  KeptInv'
  <1>1. proc \in [Procs -> ProcessState] /\ proc[p] \in ProcessState BY DEF TypeOK
  <1>2. Keeping(p) /\ StoredAtHome BY DEF KeptInv
  <1>3. /\ proc[p].status = "migrated" /\ proc[p].cfg = config
        /\ Has("old") /\ Has("new") /\ db["new"] = db["old"]
    BY <1>2 DEF RewriteRelocatedPaths, RetireOld, Keeping, Moved, At
  <1>4. saved = db["new"] BY <1>2, <1>3 DEF StoredAtHome, Home, Resolve
  <1>5. CASE RewriteRelocatedPaths(p)
    <2>1. UNCHANGED <<db, saved>> BY <1>5 DEF RewriteRelocatedPaths, disk
    <2>2. StoredAtHome' BY <1>3, <1>4, <2>1 DEF StoredAtHome, Home, Resolve, Has
    <2>3. \/ proc'[p] = Off
          \/ /\ proc'[p].pc \in {"retire", "open"} /\ proc'[p].status = "migrated"
             /\ proc'[p].cfg = config'
      BY <1>1, <1>3, <1>5 DEF RewriteRelocatedPaths, Goto, ProcessState
    <2>4. Keeping(p)'
      BY <1>3, <2>1, <2>3, KeepingOff DEF Keeping, Moved, Running, At, Has, BeforeCommit
    <2> QED BY <2>2, <2>4, KeepAlone
  <1>6. CASE RetireOld(p)
    <2>1. UNCHANGED <<config, saved>> BY <1>6 DEF RetireOld
    <2> DEFINE after == [proc EXCEPT ![p].pc = "open"]
    <2>2. after \in [Procs -> ProcessState] BY <1>1 DEF ProcessState, Labels
    <2>3. /\ proc'[p].pc = "open" /\ proc'[p].status = "migrated"
          /\ proc'[p].cfg = proc[p].cfg
      <3>1. /\ after[p].pc = "open" /\ after[p].status = "migrated"
            /\ after[p].cfg = proc[p].cfg
        BY <1>1, <1>3 DEF ProcessState
      <3> HIDE DEF after
      <3>2. \/ proc' = after
            \/ proc' = [q \in Procs |-> IF after[q].uses = "old"
                                        THEN [after[q] EXCEPT !.uses = "retired"]
                                        ELSE after[q]]
        BY <1>6 DEF RetireOld, after
      <3> QED BY <2>2, <3>1, <3>2 DEF ProcessState
    <2>4. Has("new")' /\ db'["new"] = db["new"] BY <1>3, <1>6 DEF RetireOld, Has
    <2>5. Resolve(config) = "new" \/ UNCHANGED db
      BY <1>3, <1>6 DEF RetireOld, ReadyToRetire
    <2>6. StoredAtHome'
      BY <1>2, <1>3, <1>4, <2>1, <2>4, <2>5 DEF StoredAtHome, Home, Has
    <2>7. Keeping(p)'
      BY <1>3, <2>1, <2>3, <2>4 DEF Keeping, Moved, Running, At, BeforeCommit
    <2> QED BY <2>6, <2>7, KeepAlone
  <1> QED BY <1>5, <1>6

LEMMA KeptRest ==
  ASSUME TypeOK, Alone, KeptInv,
         \/ \E p \in Procs : Start(p) \/ Stop(p) \/ Crash(p)
         \/ \E p \in Procs, f \in Facts : Save(p, f)
         \/ LockAges \/ ClearTarget
  PROVE  KeptInv'
  <1>1. proc \in [Procs -> ProcessState] BY DEF TypeOK
  <1>2. StoredAtHome BY DEF KeptInv
  <1>3. ASSUME NEW p \in Procs, Start(p) \/ Stop(p) \/ Crash(p) PROVE KeptInv'
    <2>1. UNCHANGED <<db, config, saved>> BY <1>3 DEF Start, Stop, Crash, disk
    <2>2. Keeping(p)'
      <3>1. CASE Start(p)
        <4>1. /\ proc'[p].pc = "decide" /\ proc'[p].cfg = config
              /\ proc'[p].status = "skipped"
          BY <1>1, <3>1 DEF Start, Off
        <4> QED BY <2>1, <4>1 DEF Keeping, Moved, Running, At, BeforeCommit
      <3>2. CASE Stop(p) \/ Crash(p)
        <4>1. proc'[p] = Off BY <1>1, <3>2 DEF Stop, Crash
        <4> QED BY <4>1, KeepingOff
      <3> QED BY <1>3, <3>1, <3>2
    <2> QED BY <1>2, <2>1, <2>2, HomeSame, KeepAlone
  <1>4. ASSUME NEW p \in Procs, NEW f \in Facts, Save(p, f) PROVE KeptInv'
    <2>1. Running(p) /\ proc[p].uses = Home BY <1>4 DEF Save, KeptInv, Keeping
    <2>2. UNCHANGED <<config, proc>> /\ saved' = saved \cup {f} BY <1>4 DEF Save
    <2>3. db' = [db EXCEPT ![Home] = @ \cup {f}] BY <1>4, <2>1 DEF Save
    <2>4. DOMAIN db' = DOMAIN db BY <2>3
    <2>5. Home' = Home BY <2>2, <2>4 DEF Home, Has
    <2>6. StoredAtHome'
      <3>1. db'[Home] = db[Home] \cup {f} BY <1>2, <2>3 DEF StoredAtHome, Has, TypeOK
      <3> QED BY <1>2, <2>2, <2>4, <2>5, <3>1 DEF StoredAtHome, Has
    <2>7. Keeping(p)'
      BY <2>1, <2>2, <2>5, <1>4 DEF KeptInv, Keeping, Moved, Running, At, BeforeCommit
    <2> QED BY <2>6, <2>7, KeepAlone
  <1>5. ASSUME UNCHANGED <<db, config, saved, proc>> PROVE KeptInv'
    BY <1>5 DEF KeptInv, StoredAtHome, Home, Keeping, Moved, Running, At, Has
  <1>6. LockAges \/ ClearTarget => UNCHANGED <<db, config, saved, proc>>
    BY DEF LockAges, ClearTarget, disk
  <1> QED BY <1>3, <1>4, <1>5, <1>6

LEMMA KeptStep == TypeOK /\ Alone /\ KeptInv /\ [Next]_vars => KeptInv'
  <1> SUFFICES ASSUME TypeOK, Alone, KeptInv, [Next]_vars PROVE KeptInv'
    OBVIOUS
  <1>1. CASE UNCHANGED vars
    BY <1>1 DEF vars, disk, KeptInv, StoredAtHome, Home, Keeping, Moved, Running, At, Has
  <1>2. CASE \E p \in Procs : Startup(p)
    <2>1. PICK p \in Procs : Startup(p) BY <1>2
    <2> QED BY <2>1, KeptMigrate, KeptDisk, KeptRetire DEF Startup
  <1>3. CASE \/ \E p \in Procs : Start(p) \/ Stop(p) \/ Crash(p)
             \/ \E p \in Procs, f \in Facts : Save(p, f)
             \/ LockAges \/ ClearTarget
    BY <1>3, KeptRest
  <1> QED BY <1>1, <1>2, <1>3 DEF Next

LEMMA Kept == ASSUME Alone PROVE Spec => [](TypeOK /\ KeptInv)
  BY TypeInit, TypeStep, KeptInit, KeptStep, PTL DEF Spec

\* However often the one process crashes, whatever is lost in copies, fails to be
\* renamed, written or retired: what a user saved is in the database that is shown.
THEOREM NothingLost == ASSUME Alone PROVE Spec => []NothingVanishes
  <1>1. KeptInv => NothingVanishes
    BY DEF KeptInv, NothingVanishes, StoredAtHome, Keeping
  <1> QED BY <1>1, Kept, PTL

\* A directory disappears by its retirement only.
LEMMA OnlyRetired ==
  ASSUME Next, Has("old"), ~Has("old")'
  PROVE  \E p \in Procs : RetireOld(p)
  <1>1. \A d, S : db' # With(d, S) BY DEF With, Has
  <1>2. DOMAIN db' # DOMAIN db BY DEF Has
  <1>3. ~LockAges /\ ~ClearTarget /\ \A p \in Procs, f \in Facts : ~Save(p, f)
    BY <1>2 DEF LockAges, ClearTarget, Save, disk
  <1>4. ASSUME NEW p \in Procs
        PROVE  /\ ~Start(p) /\ ~Decide(p) /\ ~AcquireLock(p) /\ ~StatLock(p) /\ ~Unlock(p)
               /\ ~CountTables(p) /\ ~VacuumInto(p) /\ ~Verify(p) /\ ~StatTarget(p)
               /\ ~CheckEntry(p) /\ ~Release(p) /\ ~RewriteRelocatedPaths(p)
               /\ ~Stop(p) /\ ~Crash(p)
    BY <1>2 DEF Start, Decide, AcquireLock, StatLock, Unlock, CountTables, VacuumInto, Verify,
                StatTarget, CheckEntry, Release, RewriteRelocatedPaths, Stop, Crash, disk
  <1>5. ASSUME NEW p \in Procs PROVE ~RenameStaging(p) /\ ~MoveEntry(p) /\ ~OpenDB(p)
    BY <1>1, <1>2 DEF RenameStaging, MoveEntry, OpenDB, disk
  <1> QED BY <1>3, <1>4, <1>5 DEF Next, Startup

\* Under the same assumption the old directory is put away only when the new one has
\* each of its facts.
THEOREM RetiredWhenCopied == ASSUME Alone PROVE Spec => RetiredOnlyWhenCopied
  <1>1. ASSUME KeptInv, [Next]_vars
        PROVE  [Has("old") /\ ~Has("old")' => db["old"] \subseteq db'["new"]]_vars
    <2>1. SUFFICES ASSUME Has("old"), ~Has("old")' PROVE db["old"] \subseteq db'["new"]
      OBVIOUS
    <2>2. ~UNCHANGED vars BY <2>1 DEF vars, disk, Has
    <2>3. PICK p \in Procs : RetireOld(p) BY <1>1, <2>1, <2>2, OnlyRetired
    <2>4. Has("new") /\ db["new"] = db["old"]
      BY <1>1, <2>3 DEF RetireOld, KeptInv, Keeping, Moved, At
    <2> QED BY <2>1, <2>3, <2>4 DEF RetireOld, Has
  <1>2. Spec => [][Next]_vars BY DEF Spec
  <1> QED BY <1>1, <1>2, Kept, PTL DEF RetiredOnlyWhenCopied

\* Only Save changes what is saved.
LEMMA OnlySaved ==
  ASSUME [Next]_vars, \A p \in Procs, f \in Facts : ~Save(p, f)
  PROVE  UNCHANGED saved
  BY DEF Next, vars, Start, Startup, Stop, Crash, LockAges, ClearTarget, Decide, AcquireLock,
         StatLock, Unlock, CountTables, VacuumInto, Verify, StatTarget, RenameStaging,
         CheckEntry, MoveEntry, Release, RewriteRelocatedPaths, RetireOld, OpenDB

\* However often the program crashes and whatever fails: from outside, the steps of the
\* migration open the program, close it or change nothing.
THEOREM MigrationIsInvisible == ASSUME Alone PROVE Spec => ImplementsDataHome
  <1> DEFINE Shows == {db[proc[q].uses] : q \in {r \in Procs : Running(r)}}
  <1>1. Init => DirHome!Init
    BY DEF Init, DirHome!Init, Home, Has, Running, At, Off
  <1>2. ASSUME KeptInv, KeptInv', [Next]_vars
        PROVE  [DirHome!Next]_(DirHome!homeVars)
    <2>1. db[Home] = saved /\ db'[Home'] = saved' BY <1>2 DEF KeptInv, StoredAtHome
    <2>2. ASSUME NEW p \in Procs
          PROVE  /\ Shows = IF Running(p) THEN {saved} ELSE {}
                 /\ Shows' = IF Running(p)' THEN {saved'} ELSE {}
      BY <1>2, <2>2 DEF Alone, KeptInv, StoredAtHome, Keeping
    <2>3. ASSUME NEW p \in Procs, NEW f \in Facts, Save(p, f) PROVE DirHome!Save(f)
      <3>1. Running(p) /\ Running(p)' /\ f \notin saved /\ saved' = saved \cup {f}
        BY <2>3 DEF Save, Running, At
      <3> QED BY <2>1, <2>2, <3>1 DEF DirHome!Save, DirHome!IsOpen
    <2>4. CASE \A p \in Procs, f \in Facts : ~Save(p, f)
      <3>1. UNCHANGED saved BY <1>2, <2>4, OnlySaved
      <3>2. CASE Procs = {}
        BY <2>1, <3>1, <3>2 DEF DirHome!homeVars
      <3>3. ASSUME NEW p \in Procs
            PROVE  DirHome!Open \/ DirHome!Close \/ UNCHANGED DirHome!homeVars
        BY <2>1, <2>2, <3>1, <3>3 DEF DirHome!Open, DirHome!Close, DirHome!IsOpen, DirHome!homeVars
      <3> QED BY <3>2, <3>3 DEF DirHome!Next
    <2> QED BY <2>3, <2>4 DEF DirHome!Next
  <1>3. Spec => [][Next]_vars BY DEF Spec
  <1>4. Spec => Init BY DEF Spec
  <1> QED BY <1>1, <1>2, <1>3, <1>4, Kept, PTL DEF ImplementsDataHome, DirHome!Spec

-------------------------------------------------------------------------------
(* Several processes and no crash: the lock holds until the old directory is *)
(* retired, and the new database is nobody's to replace.                     *)

NoCrashes == MaxCrashes = 0

\* A lock that is there is fresh and its owner migrates.  Until the old directory is
\* retired it is there, and whoever migrates owns the lock; and whoever is about to
\* move the database has found no other in the new directory.
Exclusive ==
  /\ ~lock.stale
  /\ lock # NoLock => lock.owner \in Procs /\ proc[lock.owner].pc \in Migrating
  /\ ~Has("retired") => /\ Has("old")
                        /\ \A p \in Procs : proc[p].pc \in Migrating => lock.owner = p
  /\ Has("retired") => Has("new")
  /\ \A p \in Procs : ~At(p, "unlock") /\ (At(p, "move") /\ proc[p].entry = DB => ~Has("new"))

\* What a step of p leaves of the others.
OthersStay(p) ==
  \A q \in Procs \ {p} : /\ proc'[q].pc = proc[q].pc /\ proc'[q].entry = proc[q].entry
                         /\ proc'[q].status = proc[q].status /\ proc'[q].cfg = proc[q].cfg

\* A step that neither begins nor ends a migration nor commits it.
Onward(p) ==
  /\ UNCHANGED lock /\ DOMAIN db' = DOMAIN db /\ OthersStay(p)
  /\ proc'[p].pc \in Migrating <=> proc[p].pc \in Migrating
  /\ proc'[p].pc # "unlock"
  /\ proc'[p].pc = "move" /\ proc'[p].entry = DB => ~Has("new")

LEMMA OnwardKeeps ==
  ASSUME TypeOK, Exclusive, NEW p \in Procs, Onward(p)
  PROVE  Exclusive'
  <1>1. \A q \in Procs : proc'[q].pc \in Migrating <=> proc[q].pc \in Migrating
    BY DEF Onward, OthersStay
  <1>2. \A q \in Procs : proc'[q].pc # "unlock"
    BY DEF Onward, OthersStay, Exclusive, At
  <1>3. \A q \in Procs : proc'[q].pc = "move" /\ proc'[q].entry = DB => ~Has("new")
    BY DEF Onward, OthersStay, Exclusive, At
  <1>4. \A d : Has(d)' <=> Has(d) BY DEF Onward, Has
  <1>5. lock' = lock BY DEF Onward
  <1> QED BY <1>1, <1>2, <1>3, <1>4, <1>5 DEF Exclusive, At

\* What the assignments to a process mean for its fields.
LEMMA FieldsMoved ==
  ASSUME TypeOK, NEW p \in Procs
  PROVE  /\ \A l : Goto(p, l) => /\ proc'[p].pc = l /\ proc'[p].entry = proc[p].entry
                                 /\ proc'[p].status = proc[p].status
                                 /\ proc'[p].cfg = proc[p].cfg /\ OthersStay(p)
         /\ \A x, l : proc' = [proc EXCEPT ![p].status = x, ![p].pc = l] =>
              /\ proc'[p].pc = l /\ proc'[p].entry = proc[p].entry
              /\ proc'[p].status = x /\ proc'[p].cfg = proc[p].cfg /\ OthersStay(p)
         /\ TryAgain(p) =>
              /\ OthersStay(p)
              /\ \/ proc'[p] = Off
                 \/ /\ proc'[p].pc = "lock" /\ proc'[p].entry = proc[p].entry
                    /\ proc'[p].status = proc[p].status /\ proc'[p].cfg = proc[p].cfg
         /\ proc' = [proc EXCEPT ![p] = Off] => proc'[p] = Off /\ OthersStay(p)
  <1>1. proc \in [Procs -> ProcessState] /\ proc[p] \in ProcessState BY DEF TypeOK
  <1>2. ASSUME NEW l, Goto(p, l)
        PROVE  /\ proc'[p].pc = l /\ proc'[p].entry = proc[p].entry
               /\ proc'[p].status = proc[p].status
               /\ proc'[p].cfg = proc[p].cfg /\ OthersStay(p)
    BY <1>1, <1>2 DEF Goto, OthersStay, ProcessState
  <1>3. ASSUME NEW x, NEW l, proc' = [proc EXCEPT ![p].status = x, ![p].pc = l]
        PROVE  /\ proc'[p].pc = l /\ proc'[p].entry = proc[p].entry
               /\ proc'[p].status = x /\ proc'[p].cfg = proc[p].cfg /\ OthersStay(p)
    BY <1>1, <1>3 DEF OthersStay, ProcessState
  <1>4. ASSUME TryAgain(p)
        PROVE  /\ OthersStay(p)
               /\ \/ proc'[p] = Off
                  \/ /\ proc'[p].pc = "lock" /\ proc'[p].entry = proc[p].entry
                     /\ proc'[p].status = proc[p].status /\ proc'[p].cfg = proc[p].cfg
    BY <1>1, <1>4 DEF TryAgain, OthersStay, ProcessState
  <1>5. proc' = [proc EXCEPT ![p] = Off] => proc'[p] = Off /\ OthersStay(p)
    BY <1>1 DEF OthersStay
  <1> QED BY <1>2, <1>3, <1>4, <1>5

\* Abort leads to the release of the lock.
LEMMA AbortOnward ==
  ASSUME TypeOK, NEW p \in Procs, Abort(p), proc[p].pc \in Migrating, UNCHANGED <<db, lock>>
  PROVE  Onward(p)
  <1>1. proc' = [proc EXCEPT ![p].status = "failed", ![p].pc = "release"] BY DEF Abort
  <1>2. proc'[p].pc = "release" /\ OthersStay(p) BY <1>1, FieldsMoved
  <1> QED BY <1>2 DEF Onward, Migrating

LEMMA OnwardSteps ==
  ASSUME TypeOK, CommitInv, Exclusive, NEW p \in Procs,
         \/ Start(p) \/ Decide(p) \/ StatLock(p) \/ Unlock(p) \/ CountTables(p) \/ VacuumInto(p)
         \/ Verify(p) \/ StatTarget(p) \/ CheckEntry(p) \/ RewriteRelocatedPaths(p) \/ Stop(p)
         \/ AcquireLock(p) /\ lock' = lock
  PROVE  Onward(p)
  <1>1. proc \in [Procs -> ProcessState] /\ proc[p] \in ProcessState BY DEF TypeOK
  <1>2. ~lock.stale /\ ~At(p, "unlock") BY DEF Exclusive
  <1>3. Off.pc = "off" BY DEF Off
  <1> DEFINE Here(l) == proc[p].pc = l
  <1>4. CASE Start(p)
    <2>1. proc'[p].pc = "decide" /\ OthersStay(p)
      BY <1>1, <1>4 DEF Start, OthersStay, Off
    <2> QED BY <1>4, <2>1 DEF Start, disk, Onward, Migrating, At
  <1>5. CASE Decide(p)
    BY <1>5, FieldsMoved DEF Decide, disk, Onward, Migrating, At
  <1>6. CASE AcquireLock(p) /\ lock' = lock
    <2>1. lock' = [owner |-> p, stale |-> FALSE] /\ lock = NoLock => lock' # lock
      BY NobodyAssumption DEF NoLock
    <2>2. \/ proc' = [proc EXCEPT ![p].status = "failed", ![p].pc = "open"] \/ Goto(p, "stat")
      BY <1>6, <2>1 DEF AcquireLock, LockFree
    <2>3. proc'[p].pc \in {"open", "stat"} /\ OthersStay(p)
      BY <2>2, FieldsMoved
    <2> QED BY <1>6, <2>3 DEF AcquireLock, disk, Onward, Migrating, At
  <1>7. CASE StatLock(p)
    <2>1. TryAgain(p) \/ proc' = [proc EXCEPT ![p] = Off]
      BY <1>2, <1>7 DEF StatLock, LockIsStale
    <2>2. proc'[p].pc \in {"off", "lock"} /\ OthersStay(p)
      BY <1>3, <2>1, FieldsMoved
    <2> QED BY <1>7, <2>2 DEF StatLock, disk, Onward, Migrating, At
  <1>8. CASE Unlock(p)
    BY <1>2, <1>8 DEF Unlock
  <1>9. CASE CountTables(p)
    <2>1. UNCHANGED <<db, lock>> /\ proc[p].pc \in Migrating
      BY <1>9 DEF CountTables, disk, At, Migrating
    <2>2. ASSUME proc' = [proc EXCEPT ![p].counted = Cardinality(db["old"]), ![p].pc = "vacuum"]
          PROVE  Onward(p)
      <3>1. proc'[p].pc = "vacuum" /\ OthersStay(p)
        BY <1>1, <2>2 DEF OthersStay, ProcessState
      <3> QED BY <2>1, <3>1 DEF Onward, Migrating
    <2> QED BY <1>9, <2>1, <2>2, AbortOnward DEF CountTables
  <1>10. CASE VacuumInto(p)
    <2>1. UNCHANGED <<db, lock>> /\ proc[p].pc \in Migrating
      BY <1>10 DEF VacuumInto, disk, At, Migrating
    <2>2. ASSUME NEW S, proc' = [proc EXCEPT ![p].copy = S, ![p].pc = "verify"]
          PROVE  Onward(p)
      <3>1. proc'[p].pc = "verify" /\ OthersStay(p)
        BY <1>1, <2>2 DEF OthersStay, ProcessState
      <3> QED BY <2>1, <3>1 DEF Onward, Migrating
    <2> QED BY <1>10, <2>1, <2>2, AbortOnward DEF VacuumInto
  <1>11. CASE Verify(p)
    <2>1. UNCHANGED <<db, lock>> /\ proc[p].pc \in Migrating
      BY <1>11 DEF Verify, disk, At, Migrating
    <2>2. CASE Goto(p, "commit")
      BY <2>1, <2>2, FieldsMoved DEF Onward, Migrating
    <2> QED BY <1>11, <2>1, <2>2, AbortOnward DEF Verify
  <1>12. CASE StatTarget(p)
    BY <1>12, FieldsMoved DEF StatTarget, disk, Onward, Migrating, At
  <1>13. CASE CheckEntry(p)
    <2>1. UNCHANGED <<db, lock>> /\ proc[p].pc \in Migrating
      BY <1>13 DEF CheckEntry, disk, At, Migrating
    <2>2. ASSUME NEW e \in Entries, MayPlace(e),
                 proc' = [proc EXCEPT ![p].entry = e, ![p].pc = "move"]
          PROVE  Onward(p)
      <3>1. proc'[p].pc = "move" /\ proc'[p].entry = e /\ OthersStay(p)
        BY <1>1, <2>2 DEF OthersStay, ProcessState
      <3>2. e = DB => ~Has("new") BY <2>2 DEF MayPlace, InTarget
      <3> QED BY <2>1, <3>1, <3>2 DEF Onward, Migrating
    <2> QED BY <1>13, <2>1, <2>2, AbortOnward DEF CheckEntry
  <1>14. CASE RewriteRelocatedPaths(p)
    <2>1. proc'[p].pc \in {"retire", "open", "off"} /\ OthersStay(p)
      BY <1>1, <1>14 DEF RewriteRelocatedPaths, Goto, Off, ProcessState, OthersStay
    <2> QED BY <1>14, <2>1 DEF RewriteRelocatedPaths, disk, Onward, Migrating, At
  <1>15. CASE Stop(p)
    BY <1>3, <1>15, FieldsMoved DEF Stop, Running, disk, Onward, Migrating, At
  <1> QED BY <1>4, <1>5, <1>6, <1>7, <1>8, <1>9, <1>10, <1>11, <1>12, <1>13, <1>14, <1>15

LEMMA ExclusiveInit == Init => Exclusive
  BY DEF Init, Exclusive, NoLock, Has, At, Off, Migrating

\* The lock is taken when nobody has it, and released by its owner alone.
LEMMA ExclusiveLock ==
  ASSUME TypeOK, CommitInv, Exclusive, NEW p \in Procs, AcquireLock(p) \/ Release(p)
  PROVE  Exclusive'
  <1>1. CASE AcquireLock(p) /\ lock' # lock
    <2>1. /\ lock = NoLock /\ lock' = [owner |-> p, stale |-> FALSE] /\ Has("old")
          /\ Goto(p, "count") /\ UNCHANGED db
      BY <1>1 DEF AcquireLock, LockFree, disk
    <2>2. proc'[p].pc = "count" /\ OthersStay(p) BY <2>1, FieldsMoved
    <2>3. lock.owner \notin Procs BY <2>1, NobodyAssumption DEF NoLock
    <2>4. ~Has("retired") => \A q \in Procs : proc[q].pc \notin Migrating
      BY <2>3 DEF Exclusive
    <2>5. \A d : Has(d)' <=> Has(d) BY <2>1 DEF Has
    <2>6. lock'.owner = p /\ ~lock'.stale BY <2>1
    <2>7. lock'.owner \in Procs /\ proc'[lock'.owner].pc \in Migrating
      BY <2>2, <2>6 DEF Migrating
    <2>8. ~Has("retired")' => /\ Has("old")'
                              /\ \A q \in Procs : proc'[q].pc \in Migrating => lock'.owner = q
      BY <2>1, <2>2, <2>4, <2>5, <2>6 DEF OthersStay
    <2>9. \A q \in Procs : /\ proc'[q].pc # "unlock"
                           /\ proc'[q].pc = "move" /\ proc'[q].entry = DB => ~Has("new")'
      BY <2>2, <2>5 DEF OthersStay, Exclusive, At
    <2>10. Has("retired")' => Has("new")' BY <2>5 DEF Exclusive
    <2> QED BY <2>6, <2>7, <2>8, <2>9, <2>10 DEF Exclusive, At
  <1>2. CASE AcquireLock(p) /\ lock' = lock
    BY <1>2, OnwardSteps, OnwardKeeps
  <1>3. CASE Release(p)
    <2>1. lock' = NoLock /\ UNCHANGED db /\ proc[p].pc \in Migrating
      BY <1>3 DEF Release, disk, At, Migrating
    <2>2. proc'[p].pc \in {"rewrite", "open"} /\ OthersStay(p)
      BY <1>3, FieldsMoved DEF Release
    <2>3. ~Has("retired") => \A q \in Procs \ {p} : proc[q].pc \notin Migrating
      BY <2>1 DEF Exclusive
    <2>4. \A d : Has(d)' <=> Has(d) BY <2>1 DEF Has
    <2>5. ~lock'.stale BY <2>1 DEF NoLock
    <2>6. ~Has("retired")' => /\ Has("old")'
                              /\ \A q \in Procs : proc'[q].pc \notin Migrating
      BY <2>2, <2>3, <2>4 DEF OthersStay, Exclusive, Migrating
    <2>7. \A q \in Procs : /\ proc'[q].pc # "unlock"
                           /\ proc'[q].pc = "move" /\ proc'[q].entry = DB => ~Has("new")'
      BY <2>2, <2>4 DEF OthersStay, Exclusive, At
    <2>8. Has("retired")' => Has("new")' BY <2>4 DEF Exclusive
    <2> QED BY <2>1, <2>5, <2>6, <2>7, <2>8 DEF Exclusive, At
  <1> QED BY <1>1, <1>2, <1>3

\* The one that migrates commits.
LEMMA ExclusiveCommit ==
  ASSUME TypeOK, CommitInv, Exclusive, NEW p \in Procs, RenameStaging(p) \/ MoveEntry(p)
  PROVE  Exclusive'
  <1>1. proc \in [Procs -> ProcessState] /\ proc[p] \in ProcessState BY DEF TypeOK
  <1>2. UNCHANGED lock /\ proc[p].pc \in Migrating
    BY DEF RenameStaging, MoveEntry, At, Migrating
  <1>3. ASSUME Abort(p), UNCHANGED db PROVE Exclusive'
    BY <1>2, <1>3, AbortOnward, OnwardKeeps
  <1>4. ASSUME NEW x, Committed(p, x), db' = With("new", proc[p].copy), ~Has("new")
        PROVE  Exclusive'
    <2>1. proc' = [proc EXCEPT ![p].status = x, ![p].pc = "release"] BY <1>4 DEF Committed
    <2>2. proc'[p].pc = "release" /\ OthersStay(p)
      BY <1>1, <2>1 DEF OthersStay, ProcessState
    <2>3. Has("new")' /\ \A d : d # "new" => (Has(d)' <=> Has(d)) BY <1>4 DEF With, Has
    <2>4. ~Has("retired") /\ Has("old") BY <1>4 DEF Exclusive
    <2>5. \A q \in Procs : proc[q].pc \in Migrating => q = p BY <1>2, <2>4 DEF Exclusive
    <2>6. \A q \in Procs : proc'[q].pc \in Migrating => lock'.owner = q
      BY <1>2, <2>2, <2>4, <2>5 DEF OthersStay, Exclusive
    <2>7. \A q \in Procs : proc'[q].pc # "unlock" /\ proc'[q].pc # "move"
      BY <2>2, <2>5 DEF OthersStay, Exclusive, At, Migrating
    <2>8. lock'.owner = p BY <1>2, <2>4 DEF Exclusive
    <2>9. proc'[p].pc \in Migrating BY <2>2 DEF Migrating
    <2>10. ~Has("retired")' /\ Has("old")' BY <2>3, <2>4
    <2>11. ~lock'.stale BY <1>2 DEF Exclusive
    <2> QED BY <2>6, <2>7, <2>8, <2>9, <2>10, <2>11 DEF Exclusive, At
  <1>5. CASE RenameStaging(p)
    <2>1. Committed(p, "migrated") /\ ~Has("new") => Exclusive'
      BY <1>3, <1>4, <1>5 DEF RenameStaging, disk
    <2> QED BY <1>3, <1>5, <2>1 DEF RenameStaging, disk
  <1>6. CASE MoveEntry(p)
    <2>1. ASSUME proc[p].entry # DB, UNCHANGED db,
                 proc' = [proc EXCEPT ![p].left = @ \ {proc[p].entry}, ![p].pc = "place"]
          PROVE  Exclusive'
      <3>1. proc'[p].pc = "place" /\ OthersStay(p)
        BY <1>1, <2>1 DEF OthersStay, ProcessState
      <3>2. Onward(p) BY <1>2, <2>1, <3>1 DEF Onward, Migrating
      <3> QED BY <3>2, OnwardKeeps
    <2>2. proc[p].entry = DB => ~Has("new") BY <1>6 DEF MoveEntry, Exclusive
    <2>3. ASSUME NEW x, proc[p].entry = DB, Committed(p, x), db' = With("new", proc[p].copy)
          PROVE  Exclusive'
      BY <1>4, <2>2, <2>3
    <2> QED BY <1>3, <1>6, <2>1, <2>3 DEF MoveEntry
  <1> QED BY <1>5, <1>6

\* Before the old directory is retired nobody opens a database that is not there.
LEMMA OpenFindsNew ==
  ASSUME TypeOK, CommitInv, Exclusive, NEW p \in Procs, OpenDB(p)
  PROVE  /\ OthersStay(p) /\ proc'[p].pc = "running"
         /\ proc'[p].status = proc[p].status /\ proc'[p].cfg = proc[p].cfg
         /\ Has("new")' <=> Has("new")
         /\ Has("retired")' <=> Has("retired")
         /\ Has("old") => Has("old")'
         /\ Has("old")' /\ ~Has("old") => Target(p) = "old" /\ Has("retired")
  <1>1. proc \in [Procs -> ProcessState] /\ proc[p] \in ProcessState BY DEF TypeOK
  <1>2. /\ OthersStay(p) /\ proc'[p].pc = "running"
        /\ proc'[p].status = proc[p].status /\ proc'[p].cfg = proc[p].cfg
    BY <1>1 DEF OpenDB, OthersStay, ProcessState
  <1>3. Target(p) \in {"old", "new"} BY DEF Target, Resolve
  <1>4. Target(p) = "old" \/ Has("new")
    BY DEF OpenDB, Target, CommitInv, Committing
  <1>5. \A d : d # Target(p) => (d \in DOMAIN db' <=> d \in DOMAIN db) BY DEF OpenDB, With, Has
  <1>6. Target(p) \in DOMAIN db' BY DEF OpenDB, With, Has
  <1>7. ~Has("retired") => Has("old") BY DEF Exclusive
  <1>8. CASE Target(p) = "old" BY <1>2, <1>5, <1>6, <1>7, <1>8 DEF Has
  <1>9. CASE Target(p) = "new" BY <1>2, <1>4, <1>5, <1>6, <1>9 DEF Has
  <1> QED BY <1>3, <1>8, <1>9

LEMMA ExclusiveOpen ==
  ASSUME TypeOK, CommitInv, Exclusive, NEW p \in Procs, OpenDB(p)
  PROVE  Exclusive'
  <1>1. UNCHANGED lock /\ proc[p].pc \notin Migrating BY DEF OpenDB, At, Migrating
  <1>2. proc'[p].pc = "running" /\ OthersStay(p) BY OpenFindsNew
  <1>3. \A q \in Procs : proc'[q].pc \in Migrating <=> proc[q].pc \in Migrating
    BY <1>1, <1>2 DEF OthersStay, Migrating
  <1>4. \A q \in Procs : /\ proc'[q].pc # "unlock"
                         /\ proc'[q].pc = "move" /\ proc'[q].entry = DB => ~Has("new")'
    BY <1>2, OpenFindsNew DEF OthersStay, Exclusive, At
  <1> QED BY <1>1, <1>3, <1>4, OpenFindsNew DEF Exclusive, At

\* What a retirement changes of the processes is where they save.
LEMMA RetireFields ==
  ASSUME TypeOK, NEW p \in Procs, RetireOld(p)
  PROVE  /\ OthersStay(p) /\ proc'[p].pc = "open"
         /\ proc'[p].status = proc[p].status /\ proc'[p].cfg = proc[p].cfg
  <1>1. proc \in [Procs -> ProcessState] /\ proc[p] \in ProcessState BY DEF TypeOK
  <1> DEFINE after == [proc EXCEPT ![p].pc = "open"]
  <1>2. after \in [Procs -> ProcessState] BY <1>1 DEF ProcessState, Labels
  <1>3. \A q \in Procs : /\ proc'[q].pc = after[q].pc /\ proc'[q].entry = after[q].entry
                         /\ proc'[q].cfg = after[q].cfg /\ proc'[q].status = after[q].status
    <2> HIDE DEF after
    <2>1. \/ proc' = after
          \/ proc' = [q \in Procs |-> IF after[q].uses = "old"
                                      THEN [after[q] EXCEPT !.uses = "retired"]
                                      ELSE after[q]]
      BY DEF RetireOld, after
    <2> QED BY <1>2, <2>1 DEF ProcessState
  <1>4. \A q \in Procs \ {p} : after[q] = proc[q] BY <1>1
  <1>5. after[p].pc = "open" /\ after[p].status = proc[p].status /\ after[p].cfg = proc[p].cfg
    BY <1>1 DEF ProcessState
  <1> QED BY <1>3, <1>4, <1>5 DEF OthersStay

\* The old directory is put away, or all stays as it is.
LEMMA Retirement ==
  ASSUME NEW p \in Procs, RetireOld(p)
  PROVE  \/ /\ ReadyToRetire(p) /\ Has("old") /\ ~Has("retired") /\ lock' = NoLock
            /\ ~Has("old")' /\ Has("retired")' /\ (Has("new")' <=> Has("new"))
         \/ DOMAIN db' = DOMAIN db /\ UNCHANGED lock
  BY DEF RetireOld, Has

LEMMA ExclusiveRetire ==
  ASSUME TypeOK, CommitInv, Exclusive, NEW p \in Procs, RetireOld(p)
  PROVE  Exclusive'
  <1>1. proc'[p].pc = "open" /\ OthersStay(p) BY RetireFields
  <1>2. proc[p].pc \notin Migrating BY DEF RetireOld, At, Migrating
  <1>3. CASE DOMAIN db' = DOMAIN db /\ UNCHANGED lock
    <2>1. Onward(p) BY <1>1, <1>2, <1>3 DEF Onward, Migrating
    <2> QED BY <2>1, OnwardKeeps
  <1>4. CASE /\ ReadyToRetire(p) /\ Has("old") /\ ~Has("retired") /\ lock' = NoLock
             /\ ~Has("old")' /\ Has("retired")' /\ (Has("new")' <=> Has("new"))
    <2>1. ~lock'.stale BY <1>4 DEF NoLock
    <2>2. Has("new") BY <1>4 DEF ReadyToRetire
    <2>3. \A q \in Procs : /\ proc'[q].pc # "unlock"
                           /\ proc'[q].pc = "move" /\ proc'[q].entry = DB => ~Has("new")'
      BY <1>1, <1>4 DEF OthersStay, Exclusive, At
    <2> QED BY <1>4, <2>1, <2>2, <2>3 DEF Exclusive, At
  <1> QED BY <1>3, <1>4, Retirement

LEMMA ExclusiveStep == TypeOK /\ CommitInv /\ NoCrashes /\ Exclusive /\ [Next]_vars => Exclusive'
  <1> SUFFICES ASSUME TypeOK, CommitInv, NoCrashes, Exclusive, [Next]_vars PROVE Exclusive'
    OBVIOUS
  <1>1. ASSUME UNCHANGED <<lock, proc>>, DOMAIN db' = DOMAIN db PROVE Exclusive'
    BY <1>1 DEF Exclusive, Has, At
  <1>2. CASE UNCHANGED vars BY <1>1, <1>2 DEF vars, disk
  <1>3. ASSUME NEW p \in Procs, Startup(p) PROVE Exclusive'
    BY <1>3, OnwardSteps, OnwardKeeps, ExclusiveLock, ExclusiveCommit, ExclusiveOpen,
       ExclusiveRetire DEF Startup
  <1>4. ASSUME NEW p \in Procs, Start(p) \/ Stop(p) PROVE Exclusive'
    BY <1>4, OnwardSteps, OnwardKeeps
  <1>5. ASSUME NEW p \in Procs, Crash(p) PROVE FALSE
    BY <1>5 DEF Crash, NoCrashes, TypeOK
  <1>6. ASSUME NEW p \in Procs, NEW f \in Facts, Save(p, f) PROVE Exclusive'
    BY <1>1, <1>6 DEF Save
  <1>7. ASSUME LockAges PROVE FALSE
    BY <1>7 DEF LockAges, Exclusive
  <1>8. ASSUME ClearTarget PROVE Exclusive'
    BY <1>1, <1>8 DEF ClearTarget
  <1> QED BY <1>2, <1>3, <1>4, <1>5, <1>6, <1>7, <1>8 DEF Next

LEMMA StaysExclusive == ASSUME NoCrashes PROVE Spec => [](TypeOK /\ CommitInv /\ Exclusive)
  BY TypeInit, TypeStep, CommitInit, CommitStep, ExclusiveInit, ExclusiveStep, PTL DEF Spec

\* Without crashes, whatever number of processes start at once and whatever fails: what is in
\* the new database stays in it.
THEOREM NewKept == ASSUME NoCrashes PROVE Spec => NewNeverOverwritten
  <1>1. ASSUME TypeOK, CommitInv, Exclusive, Next, Has("new")
        PROVE  db["new"] \subseteq db'["new"]
    <2>1. ASSUME UNCHANGED db PROVE db["new"] \subseteq db'["new"] BY <2>1
    <2>2. ASSUME NEW p \in Procs, NEW f \in Facts, Save(p, f) PROVE db["new"] \subseteq db'["new"]
      BY <1>1, <2>2 DEF Save, Has
    <2>3. ASSUME NEW p \in Procs, RenameStaging(p) \/ MoveEntry(p)
          PROVE  db["new"] \subseteq db'["new"]
      <3>1. At(p, "move") /\ proc[p].entry = DB => FALSE BY <1>1 DEF Exclusive
      <3>2. UNCHANGED db BY <1>1, <2>3, <3>1 DEF RenameStaging, MoveEntry, disk
      <3> QED BY <3>2
    <2>4. ASSUME NEW p \in Procs, OpenDB(p) PROVE db["new"] \subseteq db'["new"]
      BY <1>1, <2>4 DEF OpenDB, With, Has
    <2>5. ASSUME NEW p \in Procs, RetireOld(p) PROVE db["new"] \subseteq db'["new"]
      BY <1>1, <2>5 DEF RetireOld, Has
    <2>6. ASSUME NEW p \in Procs, Startup(p) \/ Start(p) \/ Stop(p) \/ Crash(p)
          PROVE  \/ UNCHANGED db
                 \/ RenameStaging(p) \/ MoveEntry(p) \/ OpenDB(p) \/ RetireOld(p)
      BY <2>6 DEF Startup, Start, Stop, Crash, Decide, AcquireLock, StatLock, Unlock, CountTables,
                  VacuumInto, Verify, StatTarget, CheckEntry, Release, RewriteRelocatedPaths, disk
    <2>7. LockAges \/ ClearTarget => UNCHANGED db BY DEF LockAges, ClearTarget, disk
    <2> QED BY <1>1, <2>1, <2>2, <2>3, <2>4, <2>5, <2>6, <2>7 DEF Next
  <1>2. ASSUME TypeOK, CommitInv, Exclusive, [Next]_vars
        PROVE  [Has("new") => db["new"] \subseteq db'["new"]]_vars
    BY <1>1, <1>2
  <1>3. Spec => [][Next]_vars BY DEF Spec
  <1> QED BY <1>2, <1>3, StaysExclusive, PTL DEF NewNeverOverwritten

-------------------------------------------------------------------------------
(* Up to three processes: one migrates, also after the lock has gone with    *)
(* the old directory.                                                        *)

AtMostThree == IsFiniteSet(Procs) /\ Cardinality(Procs) <= 3

\* At the lock, or past it.
Busy == {"lock", "stat", "unlock"} \cup Migrating

\* A process that has nothing to do with the old directory any more.
Settled(p) == proc[p].pc \notin Busy /\ proc[p].status # "failed" /\ Resolve(proc[p].cfg) = "new"

\* The configuration names the new directory for good once it does; and only a migration
\* that succeeded rewrites it.
Configured(p) ==
  /\ ~At(p, "off") /\ Resolve(proc[p].cfg) = "new" => Resolve(config) = "new"
  /\ proc[p].pc \in {"rewrite", "retire"} => proc[p].status = "migrated"

\* The process that retired the old directory is out of the way, and so is another one that
\* has made an old directory anew.  Nobody becomes busy again.
RetiredInv ==
  /\ \A p \in Procs : Configured(p)
  /\ Has("retired") =>
       /\ Resolve(config) = "new"
       /\ ~Has("old") => OneMigrator
       /\ \E p \in Procs : /\ Settled(p)
                           /\ Has("old") => \E q \in Procs \ {p} : proc[q].pc \notin Busy

\* What every step does to its process.
Tame(p) ==
  /\ OthersStay(p)
  /\ proc'[p].pc \in Busy => proc[p].pc \in Busy \/ ~Has("new")
  /\ proc'[p].pc \in Migrating => proc[p].pc \in Migrating \/ Has("old")
  /\ Configured(p)'
  /\ Resolve(config) = "new" => Resolve(config)' = "new"
  /\ Resolve(config) = "new" /\ Has("new") /\ Settled(p) => Settled(p)'

LEMMA TameMigrating ==
  ASSUME TypeOK, RetiredInv, NEW p \in Procs, OthersStay(p), UNCHANGED config,
         proc[p].pc \in Busy, proc'[p].cfg = proc[p].cfg,
         proc'[p].pc \notin {"rewrite", "retire"} \/ proc'[p].status = "migrated",
         proc'[p].pc \in Migrating => proc[p].pc \in Migrating \/ Has("old")
  PROVE  Tame(p)
  BY DEF Tame, RetiredInv, Configured, Settled, At, Busy, Migrating

LEMMA OffTame ==
  ASSUME TypeOK, RetiredInv, NEW p \in Procs, OthersStay(p), proc'[p] = Off,
         Resolve(config) = "new" => Resolve(config)' = "new"
  PROVE  Tame(p)
  BY DEF Tame, Configured, Settled, At, Busy, Migrating, Off, Resolve

LEMMA TameLock ==
  ASSUME TypeOK, RetiredInv, NEW p \in Procs,
         Start(p) \/ Decide(p) \/ AcquireLock(p) \/ StatLock(p) \/ Unlock(p) \/ Release(p) \/ Stop(p)
  PROVE  Tame(p)
  <1>1. proc \in [Procs -> ProcessState] /\ proc[p] \in ProcessState BY DEF TypeOK
  <1>2. UNCHANGED config BY DEF Start, Decide, AcquireLock, StatLock, Unlock, Release, Stop
  <1>3. proc' = [proc EXCEPT ![p] = Off] => Tame(p) BY <1>2, FieldsMoved, OffTame
  <1>4. CASE Start(p)
    <2>1. /\ proc'[p].pc = "decide" /\ proc'[p].cfg = config /\ proc'[p].status = "skipped"
          /\ OthersStay(p)
      BY <1>1, <1>4 DEF Start, OthersStay, Off
    <2> QED BY <1>2, <2>1 DEF Tame, Configured, Settled, At, Busy, Migrating
  <1>5. CASE Decide(p)
    <2>1. /\ proc'[p].pc = (IF Has("old") /\ ~Has("new") THEN "lock" ELSE "open")
          /\ proc'[p].cfg = proc[p].cfg /\ proc'[p].status = proc[p].status /\ OthersStay(p)
      BY <1>5, FieldsMoved DEF Decide
    <2> QED BY <1>2, <1>5, <2>1 DEF Tame, RetiredInv, Configured, Settled, At, Busy, Migrating, Decide
  <1>6. ASSUME AcquireLock(p) PROVE Tame(p)
    <2>1. \/ proc' = [proc EXCEPT ![p].status = "failed", ![p].pc = "open"]
          \/ Goto(p, "count") /\ Has("old")
          \/ Goto(p, "stat")
      BY <1>6 DEF AcquireLock
    <2>2. /\ proc'[p].pc \in {"open", "count", "stat"} /\ (proc'[p].pc = "count" => Has("old"))
          /\ proc'[p].cfg = proc[p].cfg /\ OthersStay(p)
      BY <2>1, FieldsMoved
    <2>3. proc[p].pc \in Busy BY <1>6 DEF AcquireLock, At, Busy
    <2> QED BY <1>2, <2>2, <2>3, TameMigrating DEF Migrating
  <1>7. ASSUME TryAgain(p), proc[p].pc \in Busy PROVE Tame(p)
    <2>1. CASE proc'[p] = Off BY <1>2, <1>7, <2>1, FieldsMoved, OffTame
    <2>2. CASE proc'[p].pc = "lock" /\ proc'[p].cfg = proc[p].cfg
      BY <1>2, <1>7, <2>2, FieldsMoved, TameMigrating DEF Migrating
    <2> QED BY <1>7, <2>1, <2>2, FieldsMoved
  <1>8. CASE StatLock(p)
    <2>1. proc[p].pc \in Busy BY <1>8 DEF StatLock, At, Busy
    <2>2. CASE Goto(p, "unlock")
      BY <1>2, <2>1, <2>2, FieldsMoved, TameMigrating DEF Migrating
    <2> QED BY <1>3, <1>7, <1>8, <2>1, <2>2 DEF StatLock
  <1>9. CASE Unlock(p)
    BY <1>7, <1>9 DEF Unlock, At, Busy
  <1>10. CASE Release(p)
    <2>1. /\ proc'[p].pc = (IF proc[p].status = "migrated" THEN "rewrite" ELSE "open")
          /\ proc'[p].cfg = proc[p].cfg /\ proc'[p].status = proc[p].status /\ OthersStay(p)
      BY <1>10, FieldsMoved DEF Release
    <2>2. proc[p].pc \in Busy BY <1>10 DEF Release, At, Busy, Migrating
    <2> QED BY <1>2, <2>1, <2>2, TameMigrating DEF Migrating
  <1>11. CASE Stop(p) BY <1>3, <1>11 DEF Stop
  <1> QED BY <1>4, <1>5, <1>6, <1>8, <1>9, <1>10, <1>11

\* The steps from the lock to the commit.
LEMMA TameCopy ==
  ASSUME TypeOK, RetiredInv, NEW p \in Procs,
         CountTables(p) \/ VacuumInto(p) \/ Verify(p) \/ StatTarget(p) \/ CheckEntry(p)
           \/ RenameStaging(p) \/ MoveEntry(p)
  PROVE  Tame(p)
  <1>1. proc \in [Procs -> ProcessState] /\ proc[p] \in ProcessState BY DEF TypeOK
  <1>2. UNCHANGED config /\ proc[p].pc \in Migrating
    BY DEF CountTables, VacuumInto, Verify, StatTarget, CheckEntry, RenameStaging, MoveEntry, At,
           Migrating
  <1>3. ASSUME OthersStay(p), proc'[p].pc \in Migrating, proc'[p].cfg = proc[p].cfg
        PROVE  Tame(p)
    <2>1. proc[p].pc \in Busy /\ proc'[p].pc \notin {"rewrite", "retire"}
      BY <1>2, <1>3 DEF Busy, Migrating
    <2> QED BY <1>2, <1>3, <2>1, TameMigrating
  <1>4. ASSUME NEW x, proc' = [proc EXCEPT ![p].status = x, ![p].pc = "release"] PROVE Tame(p)
    BY <1>1, <1>3, <1>4 DEF OthersStay, ProcessState, Migrating
  <1>5. ASSUME NEW l \in Migrating, Goto(p, l) PROVE Tame(p)
    BY <1>3, <1>5, FieldsMoved
  <1>6. ASSUME NEW n, proc' = [proc EXCEPT ![p].counted = n, ![p].pc = "vacuum"] PROVE Tame(p)
    BY <1>1, <1>3, <1>6 DEF OthersStay, ProcessState, Migrating
  <1>7. ASSUME NEW S, proc' = [proc EXCEPT ![p].copy = S, ![p].pc = "verify"] PROVE Tame(p)
    BY <1>1, <1>3, <1>7 DEF OthersStay, ProcessState, Migrating
  <1>8. ASSUME NEW e, proc' = [proc EXCEPT ![p].entry = e, ![p].pc = "move"] PROVE Tame(p)
    BY <1>1, <1>3, <1>8 DEF OthersStay, ProcessState, Migrating
  <1>9. ASSUME NEW S, proc' = [proc EXCEPT ![p].left = @ \ S, ![p].pc = "place"] PROVE Tame(p)
    BY <1>1, <1>3, <1>9 DEF OthersStay, ProcessState, Migrating
  <1>10. {"commit", "place", "rename"} \subseteq Migrating BY DEF Migrating
  <1>11. CASE CountTables(p) BY <1>4, <1>6, <1>11 DEF CountTables, Abort
  <1>12. CASE VacuumInto(p) BY <1>4, <1>7, <1>12 DEF VacuumInto, Abort
  <1>13. CASE Verify(p) BY <1>4, <1>5, <1>10, <1>13 DEF Verify, Abort
  <1>14. CASE StatTarget(p) BY <1>5, <1>10, <1>14 DEF StatTarget
  <1>15. CASE CheckEntry(p) BY <1>4, <1>8, <1>15 DEF CheckEntry, Abort
  <1>16. CASE RenameStaging(p) BY <1>4, <1>16 DEF RenameStaging, Abort, Committed
  <1>17. CASE MoveEntry(p) BY <1>4, <1>9, <1>17 DEF MoveEntry, Abort, Committed
  <1> QED BY <1>11, <1>12, <1>13, <1>14, <1>15, <1>16, <1>17

\* After the migration.
LEMMA TameRest ==
  ASSUME TypeOK, CommitInv, Exclusive, RetiredInv, NEW p \in Procs,
         RewriteRelocatedPaths(p) \/ RetireOld(p) \/ OpenDB(p)
  PROVE  Tame(p)
  <1>1. proc \in [Procs -> ProcessState] /\ proc[p] \in ProcessState BY DEF TypeOK
  <1>2. Configured(p) BY DEF RetiredInv
  <1>3. CASE RewriteRelocatedPaths(p)
    <2>1. Resolve("new") = "new" /\ Resolve("old") = "old" BY DEF Resolve
    <2>2. Resolve(config) = "new" => Resolve(config)' = "new"
      BY <1>3, <2>1 DEF RewriteRelocatedPaths
    <2>3. CASE proc' = [proc EXCEPT ![p] = Off]
      BY <2>2, <2>3, FieldsMoved, OffTame
    <2>4. CASE /\ config' = "new"
               /\ proc' = [proc EXCEPT ![p].cfg = "new", ![p].pc = "retire"]
      <3>1. /\ proc'[p].pc = "retire" /\ proc'[p].cfg = "new" /\ proc'[p].status = proc[p].status
            /\ OthersStay(p)
        BY <1>1, <2>4 DEF OthersStay, ProcessState
      <3> QED BY <1>2, <1>3, <2>1, <2>2, <2>4, <3>1
          DEF Tame, Configured, Settled, At, Busy, Migrating, RewriteRelocatedPaths
    <2>5. CASE UNCHANGED config /\ (Goto(p, "retire") \/ Goto(p, "open"))
      <3>1. /\ proc'[p].pc \in {"retire", "open"} /\ proc'[p].cfg = proc[p].cfg
            /\ proc'[p].status = proc[p].status /\ OthersStay(p)
        BY <2>5, FieldsMoved
      <3> QED BY <1>2, <1>3, <2>2, <2>5, <3>1
          DEF Tame, Configured, Settled, At, Busy, Migrating, RewriteRelocatedPaths
    <2> QED BY <1>3, <2>3, <2>4, <2>5 DEF RewriteRelocatedPaths
  <1>4. CASE RetireOld(p) \/ OpenDB(p)
    <2>1. /\ OthersStay(p) /\ proc'[p].pc \in {"open", "running"}
          /\ proc'[p].status = proc[p].status /\ proc'[p].cfg = proc[p].cfg
      BY <1>4, RetireFields, OpenFindsNew
    <2>2. UNCHANGED config /\ ~At(p, "off") BY <1>4 DEF RetireOld, OpenDB, At
    <2> QED BY <1>2, <2>1, <2>2 DEF Tame, Configured, Settled, At, Busy, Migrating
  <1> QED BY <1>3, <1>4

\* The processes of a tame step.
LEMMA TameOnes ==
  ASSUME RetiredInv, NEW p \in Procs, Tame(p)
  PROVE  /\ \A q \in Procs : Configured(q)'
         /\ Has("new") => \A q \in Procs : proc'[q].pc \in Busy => proc[q].pc \in Busy
         /\ ~Has("old") => \A q \in Procs : proc'[q].pc \in Migrating => proc[q].pc \in Migrating
         /\ Resolve(config) = "new" /\ Has("new") => \A q \in Procs : Settled(q) => Settled(q)'
         /\ Resolve(config) = "new" => Resolve(config)' = "new"
  BY DEF Tame, OthersStay, RetiredInv, Configured, Settled, At

\* Neither a retirement nor an old directory made anew.
LEMMA RetiredSame ==
  ASSUME Exclusive, RetiredInv, NEW p \in Procs, Tame(p),
         Has("retired")' => Has("retired"), Has("old")' <=> Has("old")
  PROVE  RetiredInv'
  <1>1. \A q \in Procs : Configured(q)' BY TameOnes
  <1>2. ASSUME Has("retired")'
        PROVE  /\ Resolve(config)' = "new"
               /\ ~Has("old")' => OneMigrator'
               /\ \E q \in Procs : /\ Settled(q)'
                                   /\ Has("old")' => \E r \in Procs \ {q} : proc'[r].pc \notin Busy
    <2>1. Has("retired") /\ Has("new") /\ Resolve(config) = "new"
      BY <1>2 DEF Exclusive, RetiredInv
    <2>2. PICK q \in Procs : /\ Settled(q)
                             /\ Has("old") => \E r \in Procs \ {q} : proc[r].pc \notin Busy
      BY <2>1 DEF RetiredInv
    <2>3. Settled(q)' BY <2>1, <2>2, TameOnes
    <2>4. Has("old")' => \E r \in Procs \ {q} : proc'[r].pc \notin Busy
      BY <2>1, <2>2, TameOnes
    <2>5. ~Has("old")' => OneMigrator'
      BY <2>1, TameOnes DEF RetiredInv, OneMigrator
    <2> QED BY <2>1, <2>3, <2>4, <2>5, TameOnes
  <1> QED BY <1>1, <1>2 DEF RetiredInv

\* The old directory is made anew by one that is not settled.
LEMMA RetiredOpen ==
  ASSUME TypeOK, CommitInv, Exclusive, RetiredInv, NEW p \in Procs, OpenDB(p)
  PROVE  RetiredInv'
  <1>1. Tame(p) BY TameRest
  <1>2. CASE Has("old")' <=> Has("old") BY <1>1, <1>2, RetiredSame, OpenFindsNew
  <1>3. CASE Has("old")' /\ ~Has("old")
    <2>1. /\ Target(p) = "old" /\ Has("retired") /\ Has("new") /\ Resolve(config) = "new"
          /\ proc'[p].pc = "running"
      BY <1>3, OpenFindsNew DEF Exclusive, RetiredInv
    <2>2. PICK q \in Procs : Settled(q) BY <2>1 DEF RetiredInv
    <2>3. q # p BY <2>1, <2>2 DEF Settled, Target
    <2>4. Settled(q)' /\ Resolve(config)' = "new" BY <1>1, <2>1, <2>2, TameOnes
    <2>5. proc'[p].pc \notin Busy BY <2>1 DEF Busy, Migrating
    <2>6. \A r \in Procs : Configured(r)' BY <1>1, TameOnes
    <2> QED BY <1>3, <2>3, <2>4, <2>5, <2>6 DEF RetiredInv
  <1> QED BY <1>2, <1>3, OpenFindsNew

\* Whoever retires the old directory is settled from then on.
LEMMA RetiredRetire ==
  ASSUME TypeOK, CommitInv, Exclusive, RetiredInv, NEW p \in Procs, RetireOld(p)
  PROVE  RetiredInv'
  <1>1. Tame(p) BY TameRest
  <1>2. CASE DOMAIN db' = DOMAIN db BY <1>1, <1>2, RetiredSame DEF Has
  <1>3. CASE ReadyToRetire(p) /\ ~Has("retired") /\ ~Has("old")'
    <2>1. /\ Resolve(proc[p].cfg) = "new" /\ proc[p].pc = "retire"
          /\ proc[p].status = "migrated"
      BY <1>3 DEF ReadyToRetire, RetireOld, At, RetiredInv, Configured
    <2>2. Resolve(config) = "new" BY <2>1 DEF RetiredInv, Configured, At
    <2>3. Settled(p)' BY <2>1, RetireFields DEF Settled, Busy, Migrating
    <2>4. OneMigrator'
      <3>1. \A q \in Procs : proc'[q].pc \in Migrating => proc[q].pc \in Migrating
        BY RetireFields DEF OthersStay, Migrating
      <3> QED BY <1>3, <3>1 DEF Exclusive, OneMigrator
    <2> QED BY <1>1, <1>3, <2>2, <2>3, <2>4, TameOnes DEF RetiredInv
  <1> QED BY <1>2, <1>3, Retirement

LEMMA RetiredInit == Init => RetiredInv
  BY DEF Init, RetiredInv, Configured, Has, At, Off

LEMMA RetiredStep ==
  TypeOK /\ CommitInv /\ NoCrashes /\ Exclusive /\ RetiredInv /\ [Next]_vars => RetiredInv'
  <1> SUFFICES ASSUME TypeOK, CommitInv, NoCrashes, Exclusive, RetiredInv, [Next]_vars
               PROVE  RetiredInv'
    OBVIOUS
  <1>1. ASSUME UNCHANGED <<config, proc>>, DOMAIN db' = DOMAIN db PROVE RetiredInv'
    BY <1>1 DEF RetiredInv, Configured, Settled, OneMigrator, Has, At
  <1>2. CASE UNCHANGED vars BY <1>1, <1>2 DEF vars, disk
  <1>3. ASSUME NEW p \in Procs, RenameStaging(p) \/ MoveEntry(p) PROVE RetiredInv'
    <2>1. UNCHANGED db \/ db' = With("new", proc[p].copy)
      BY <1>3 DEF RenameStaging, MoveEntry, disk
    <2>2. (Has("retired")' <=> Has("retired")) /\ (Has("old")' <=> Has("old"))
      BY <2>1 DEF With, Has
    <2> QED BY <1>3, <2>2, TameCopy, RetiredSame
  <1>4. ASSUME NEW p \in Procs,
               \/ Start(p) \/ Decide(p) \/ AcquireLock(p) \/ StatLock(p) \/ Unlock(p) \/ Release(p)
               \/ Stop(p) \/ CountTables(p) \/ VacuumInto(p) \/ Verify(p) \/ StatTarget(p)
               \/ CheckEntry(p) \/ RewriteRelocatedPaths(p)
        PROVE  RetiredInv'
    <2>1. UNCHANGED db
      BY <1>4 DEF Start, Stop, Decide, AcquireLock, StatLock, Unlock, CountTables, VacuumInto,
                  Verify, StatTarget, CheckEntry, Release, RewriteRelocatedPaths, disk
    <2>2. Tame(p) BY <1>4, TameLock, TameCopy, TameRest
    <2> QED BY <2>1, <2>2, RetiredSame DEF Has
  <1>5. ASSUME NEW p \in Procs, Startup(p) PROVE RetiredInv'
    BY <1>3, <1>4, <1>5, RetiredOpen, RetiredRetire DEF Startup
  <1>6. ASSUME NEW p \in Procs, Crash(p) PROVE FALSE
    BY <1>6 DEF Crash, NoCrashes, TypeOK
  <1>7. ASSUME NEW p \in Procs, NEW f \in Facts, Save(p, f) PROVE RetiredInv'
    BY <1>1, <1>7 DEF Save
  <1>8. LockAges \/ ClearTarget => RetiredInv'
    BY <1>1 DEF LockAges, ClearTarget, disk
  <1> QED BY <1>2, <1>4, <1>5, <1>6, <1>7, <1>8 DEF Next

\* Of three processes two cannot migrate while two others are out of the way.
LEMMA ThreeAreFew ==
  ASSUME AtMostThree, NEW p \in Procs, NEW q \in Procs, NEW r \in Procs, NEW s \in Procs,
         p # q, r \notin {p, q}, s \notin {p, q}
  PROVE  r = s
  <1> SUFFICES ASSUME r # s PROVE FALSE
    OBVIOUS
  <1>1. IsFiniteSet({}) /\ Cardinality({}) = 0 BY FS_EmptySet
  <1>2. IsFiniteSet({p}) /\ Cardinality({p}) = 1 BY FS_Singleton
  <1>3. IsFiniteSet({p} \cup {q}) /\ Cardinality({p} \cup {q}) = 2 BY <1>2, FS_AddElement
  <1>4. IsFiniteSet({p} \cup {q} \cup {r}) /\ Cardinality({p} \cup {q} \cup {r}) = 3
    BY <1>3, FS_AddElement
  <1>5. Cardinality({p} \cup {q} \cup {r} \cup {s}) = 4 BY <1>4, FS_AddElement
  <1>6. {p} \cup {q} \cup {r} \cup {s} \subseteq Procs OBVIOUS
  <1>7. Cardinality({p} \cup {q} \cup {r} \cup {s}) <= Cardinality(Procs) /\ Cardinality(Procs) \in Nat
    BY <1>6, FS_Subset, FS_CardinalityType DEF AtMostThree
  <1> QED BY <1>5, <1>7 DEF AtMostThree

\* At most three processes that do not crash never migrate two at a time, whatever else fails
\* and although the lock goes with the old directory.
THEOREM NeverTwoMigrate == ASSUME NoCrashes, AtMostThree PROVE Spec => []OneMigrator
  <1>1. ASSUME Exclusive, RetiredInv PROVE OneMigrator
    <2>1. CASE ~Has("retired") BY <1>1, <2>1 DEF Exclusive, OneMigrator
    <2>2. CASE Has("retired") /\ ~Has("old") BY <1>1, <2>2 DEF RetiredInv
    <2>3. CASE Has("retired") /\ Has("old")
      <3>1. PICK p \in Procs, q \in Procs : p # q /\ proc[p].pc \notin Busy /\ proc[q].pc \notin Busy
        BY <1>1, <2>3 DEF RetiredInv, Settled
      <3>2. \A r \in Procs : proc[r].pc \in Migrating => r \notin {p, q} BY <3>1 DEF Busy
      <3> QED BY <3>1, <3>2, ThreeAreFew DEF OneMigrator
    <2> QED BY <2>1, <2>2, <2>3
  <1> QED BY <1>1, StaysExclusive, RetiredInit, RetiredStep, TypeInit, TypeStep, CommitInit,
             CommitStep, ExclusiveInit, ExclusiveStep, PTL DEF Spec

-------------------------------------------------------------------------------
(* Every start-up ends: a process passes its labels in one direction, takes  *)
(* the lock at most twice and each entry of staging once.                    *)

\* The labels a process may pass to with the same entries left, in the same attempt at
\* the lock.
Passes(l, m) ==
  \/ l = "decide"  /\ m \in {"lock", "open"}
  \/ l = "lock"    /\ m \in {"count", "stat", "open"}
  \/ l = "stat"    /\ m = "unlock"
  \/ l = "count"   /\ m \in {"vacuum", "release"}
  \/ l = "vacuum"  /\ m \in {"verify", "release"}
  \/ l = "verify"  /\ m \in {"commit", "release"}
  \/ l = "commit"  /\ m \in {"rename", "place"}
  \/ l \in {"rename", "place", "move"} /\ m = "release"
  \/ l = "release" /\ m \in {"rewrite", "open"}
  \/ l = "rewrite" /\ m \in {"retire", "open"}
  \/ l = "retire"  /\ m = "open"
  \/ l = "open"    /\ m = "running"

\* What one step of its start-up makes of the state of a process.
Advances(r, s) ==
  \/ s.pc = "off"
  \/ Passes(r.pc, s.pc) /\ s.left = r.left /\ s.try = r.try
  \/ r.pc \in {"stat", "unlock"} /\ s.pc = "lock" /\ s.left = r.left /\ r.try = 1 /\ s.try = 2
  \/ r.pc = "place" /\ s.pc = "move" /\ s.left = r.left /\ s.entry \in s.left
  \/ r.pc = "move" /\ s.pc = "place" /\ s.left = r.left \ {r.entry}

\* A bound of the steps a process has left until it serves or has ended.
StepsLeft(r) ==
  LET entries == 2 * Cardinality(r.left)
      again   == IF r.try = 1 THEN 3 ELSE 0
  IN CASE r.pc = "off"     -> 0
       [] r.pc = "running" -> 0
       [] r.pc = "open"    -> 1
       [] r.pc = "retire"  -> 2
       [] r.pc = "rewrite" -> 3
       [] r.pc = "release" -> 4
       [] r.pc = "move"    -> entries + 5
       [] r.pc = "place"   -> entries + 6
       [] r.pc = "rename"  -> entries + 6
       [] r.pc = "commit"  -> entries + 7
       [] r.pc = "verify"  -> entries + 8
       [] r.pc = "vacuum"  -> entries + 9
       [] r.pc = "count"   -> entries + 10
       [] r.pc = "unlock"  -> entries + 11 + again
       [] r.pc = "stat"    -> entries + 12 + again
       [] r.pc = "lock"    -> entries + 13 + again
       [] OTHER            -> entries + 17

\* The entry under way has not been moved.
EntryIsLeft == \A p \in Procs : At(p, "move") => proc[p].entry \in proc[p].left

LEMMA StepsTyped ==
  ASSUME IsFiniteSet(Files), NEW r \in ProcessState
  PROVE  /\ IsFiniteSet(r.left) /\ Cardinality(r.left) \in 0 .. Cardinality(Files) + 1
         /\ Cardinality(Files) \in Nat
         /\ StepsLeft(r) \in 0 .. 2 * Cardinality(Files) + 19
  <1>1. IsFiniteSet(Entries) /\ Cardinality(Entries) = Cardinality(Files) + 1
    BY FS_AddElement, EntriesAssumption DEF Entries
  <1>2. r.left \subseteq Entries /\ r.pc \in Labels BY DEF ProcessState
  <1>3. IsFiniteSet(r.left) /\ Cardinality(r.left) <= Cardinality(Entries)
    BY <1>1, <1>2, FS_Subset
  <1>4. Cardinality(r.left) \in Nat /\ Cardinality(Files) \in Nat
    BY <1>3, FS_CardinalityType
  <1>5. Cardinality(r.left) \in 0 .. Cardinality(Files) + 1 BY <1>1, <1>3, <1>4
  <1>6. StepsLeft(r) \in Nat /\ StepsLeft(r) <= 2 * Cardinality(r.left) + 17
    <2>1. CASE r.pc \in {"off", "running", "open", "retire", "rewrite", "release"}
      BY <1>4, <2>1 DEF StepsLeft
    <2>2. CASE r.pc \in {"move", "place", "rename", "commit", "verify", "vacuum", "count"}
      BY <1>4, <2>2 DEF StepsLeft
    <2>3. CASE r.pc \in {"unlock", "stat", "lock", "decide"}
      BY <1>4, <2>3 DEF StepsLeft
    <2> QED BY <1>2, <2>1, <2>2, <2>3 DEF Labels, Migrating
  <1>7. StepsLeft(r) \in 0 .. 2 * Cardinality(Files) + 19
    BY <1>4, <1>5, <1>6
  <1> QED BY <1>3, <1>4, <1>5, <1>7

LEMMA StepsSame ==
  ASSUME IsFiniteSet(Files), NEW r \in ProcessState, NEW s \in ProcessState,
         s.pc = r.pc, s.left = r.left, s.try = r.try
  PROVE  StepsLeft(s) = StepsLeft(r)
  <1>1. Cardinality(r.left) \in Nat /\ r.pc \in Labels BY StepsTyped DEF ProcessState
  <1>2. CASE r.pc \in {"off", "running", "open", "retire", "rewrite", "release"}
    BY <1>2 DEF StepsLeft
  <1>3. CASE r.pc \in {"move", "place", "rename", "commit", "verify", "vacuum", "count"}
    BY <1>1, <1>3 DEF StepsLeft
  <1>4. CASE r.pc \in {"unlock", "stat", "lock", "decide"}
    BY <1>1, <1>4 DEF StepsLeft
  <1> QED BY <1>1, <1>2, <1>3, <1>4 DEF Labels, Migrating

LEMMA AdvancesDown ==
  ASSUME IsFiniteSet(Files), NEW r \in ProcessState, NEW s \in ProcessState,
         r.pc \notin {"off", "running"}, r.pc = "move" => r.entry \in r.left, Advances(r, s)
  PROVE  StepsLeft(s) < StepsLeft(r)
  <1>1. /\ Cardinality(r.left) \in Nat /\ Cardinality(s.left) \in Nat
        /\ IsFiniteSet(r.left)
    BY StepsTyped
  <1>2. r.pc \in Labels /\ r.try \in 1 .. 2 BY DEF ProcessState
  <1>3. CASE s.pc = "off"
    BY <1>1, <1>2, <1>3 DEF StepsLeft, Labels, Migrating
  <1>4. CASE Passes(r.pc, s.pc) /\ s.left = r.left /\ s.try = r.try
    <2>1. CASE r.pc \in {"decide", "lock", "stat"}
      BY <1>1, <1>4, <2>1 DEF StepsLeft, Passes
    <2>2. CASE r.pc \in {"count", "vacuum", "verify", "commit"}
      BY <1>1, <1>4, <2>2 DEF StepsLeft, Passes
    <2>3. CASE r.pc \in {"rename", "place", "move"}
      BY <1>1, <1>4, <2>3 DEF StepsLeft, Passes
    <2>4. CASE r.pc \in {"release", "rewrite", "retire", "open"}
      BY <1>4, <2>4 DEF StepsLeft, Passes
    <2> QED BY <1>4, <2>1, <2>2, <2>3, <2>4 DEF Passes
  <1>5. CASE /\ r.pc \in {"stat", "unlock"} /\ s.pc = "lock" /\ s.left = r.left
             /\ r.try = 1 /\ s.try = 2
    BY <1>1, <1>5 DEF StepsLeft
  <1>6. CASE r.pc = "place" /\ s.pc = "move" /\ s.left = r.left
    BY <1>1, <1>6 DEF StepsLeft
  <1>7. CASE r.pc = "move" /\ s.pc = "place" /\ s.left = r.left \ {r.entry}
    <2>1. Cardinality(s.left) = Cardinality(r.left) - 1
      BY <1>1, <1>7, FS_RemoveElement
    <2> QED BY <1>1, <1>7, <2>1 DEF StepsLeft
  <1> QED BY <1>3, <1>4, <1>5, <1>6, <1>7 DEF Advances

\* What a step of p leaves of the others, as far as their progress goes.
OthersWait(p) ==
  \A q \in Procs \ {p} : /\ proc'[q].pc = proc[q].pc /\ proc'[q].left = proc[q].left
                         /\ proc'[q].try = proc[q].try /\ proc'[q].entry = proc[q].entry

LEMMA ProgressMoved ==
  ASSUME TypeOK, NEW p \in Procs
  PROVE  /\ \A l : Goto(p, l) => /\ proc'[p].pc = l /\ proc'[p].left = proc[p].left
                                 /\ proc'[p].try = proc[p].try /\ OthersWait(p)
         /\ \A x, l : proc' = [proc EXCEPT ![p].status = x, ![p].pc = l] =>
              /\ proc'[p].pc = l /\ proc'[p].left = proc[p].left
              /\ proc'[p].try = proc[p].try /\ OthersWait(p)
         /\ TryAgain(p) /\ proc[p].pc \in {"stat", "unlock"} =>
              Advances(proc[p], proc'[p]) /\ OthersWait(p)
         /\ proc' = [proc EXCEPT ![p] = Off] => proc'[p].pc = "off" /\ OthersWait(p)
  <1>1. proc \in [Procs -> ProcessState] /\ proc[p] \in ProcessState BY DEF TypeOK
  <1>2. ASSUME NEW l, Goto(p, l)
        PROVE  /\ proc'[p].pc = l /\ proc'[p].left = proc[p].left
               /\ proc'[p].try = proc[p].try /\ OthersWait(p)
    BY <1>1, <1>2 DEF Goto, OthersWait, ProcessState
  <1>3. ASSUME NEW x, NEW l, proc' = [proc EXCEPT ![p].status = x, ![p].pc = l]
        PROVE  /\ proc'[p].pc = l /\ proc'[p].left = proc[p].left
               /\ proc'[p].try = proc[p].try /\ OthersWait(p)
    BY <1>1, <1>3 DEF OthersWait, ProcessState
  <1>4. ASSUME proc' = [proc EXCEPT ![p] = Off] PROVE proc'[p].pc = "off" /\ OthersWait(p)
    BY <1>1, <1>4 DEF OthersWait, Off
  <1>5. ASSUME TryAgain(p), proc[p].pc \in {"stat", "unlock"}
        PROVE  Advances(proc[p], proc'[p]) /\ OthersWait(p)
    <2>1. CASE proc[p].try = 1
      <3>1. /\ proc'[p].pc = "lock" /\ proc'[p].left = proc[p].left
            /\ proc'[p].try = 2 /\ OthersWait(p)
        BY <1>1, <1>5, <2>1 DEF TryAgain, OthersWait, ProcessState
      <3> QED BY <1>5, <2>1, <3>1 DEF Advances
    <2>2. CASE proc[p].try # 1
      <3>1. proc' = [proc EXCEPT ![p] = Off] BY <1>1, <1>5, <2>2 DEF TryAgain
      <3> QED BY <1>4, <3>1 DEF Advances
    <2> QED BY <2>1, <2>2
  <1> QED BY <1>2, <1>3, <1>4, <1>5

\* Each step of the start-up leads on.
LEMMA StartupAdvances ==
  ASSUME TypeOK, NEW p \in Procs, Startup(p)
  PROVE  Advances(proc[p], proc'[p]) /\ OthersWait(p)
  <1>1. proc \in [Procs -> ProcessState] /\ proc[p] \in ProcessState BY DEF TypeOK
  <1> DEFINE Pass(l) == /\ proc'[p].pc = l /\ proc'[p].left = proc[p].left
                        /\ proc'[p].try = proc[p].try /\ OthersWait(p)
             Done == Advances(proc[p], proc'[p]) /\ OthersWait(p)
  <1> SUFFICES Done OBVIOUS
  <1>2. ASSUME NEW l, Pass(l), Passes(proc[p].pc, l) PROVE Done
    BY <1>2 DEF Advances
  <1>3. Abort(p) => Pass("release") BY ProgressMoved DEF Abort
  <1>4. \A x : Committed(p, x) => Pass("release") BY ProgressMoved DEF Committed
  <1>5. ASSUME Abort(p) \/ (\E x : Committed(p, x)),
               proc[p].pc \in {"count", "vacuum", "verify", "rename", "place", "move"}
        PROVE  Done
    BY <1>2, <1>3, <1>4, <1>5 DEF Passes
  <1>6. proc' = [proc EXCEPT ![p] = Off] => Done BY ProgressMoved DEF Advances
  <1> HIDE DEF Done
  <1>7. ASSUME NEW l, Goto(p, l), Passes(proc[p].pc, l) PROVE Done
    BY <1>2, <1>7, ProgressMoved
  <1>8. CASE Decide(p) BY <1>7, <1>8 DEF Decide, At, Passes
  <1>9. CASE AcquireLock(p)
    <2>1. CASE proc' = [proc EXCEPT ![p].status = "failed", ![p].pc = "open"]
      <3>1. Pass("open") BY <2>1, ProgressMoved
      <3> QED BY <1>2, <1>9, <3>1 DEF AcquireLock, At, Passes
    <2> QED BY <1>7, <1>9, <2>1 DEF AcquireLock, At, Passes
  <1>10. CASE StatLock(p)
    BY <1>6, <1>7, <1>10, ProgressMoved DEF StatLock, At, Passes, Done
  <1>11. CASE Unlock(p) BY <1>11, ProgressMoved DEF Unlock, At, Done
  <1>12. CASE CountTables(p)
    <2>1. ASSUME proc' = [proc EXCEPT ![p].counted = Cardinality(db["old"]), ![p].pc = "vacuum"]
          PROVE  Done
      <3>1. Pass("vacuum") BY <1>1, <2>1 DEF OthersWait, ProcessState
      <3> QED BY <1>2, <1>12, <3>1 DEF CountTables, At, Passes
    <2> QED BY <1>5, <1>12, <2>1 DEF CountTables, At
  <1>13. CASE VacuumInto(p)
    <2>1. ASSUME NEW S, proc' = [proc EXCEPT ![p].copy = S, ![p].pc = "verify"] PROVE Done
      <3>1. Pass("verify") BY <1>1, <2>1 DEF OthersWait, ProcessState
      <3> QED BY <1>2, <1>13, <3>1 DEF VacuumInto, At, Passes
    <2> QED BY <1>5, <1>13, <2>1 DEF VacuumInto, At
  <1>14. CASE Verify(p) BY <1>5, <1>7, <1>14 DEF Verify, At, Passes
  <1>15. CASE StatTarget(p) BY <1>7, <1>15 DEF StatTarget, At, Passes
  <1>16. CASE RenameStaging(p) BY <1>5, <1>16 DEF RenameStaging, At
  <1>17. CASE CheckEntry(p)
    <2>1. ASSUME NEW e \in proc[p].left, proc' = [proc EXCEPT ![p].entry = e, ![p].pc = "move"]
          PROVE  Done
      <3>1. Pass("move") /\ proc'[p].entry = e BY <1>1, <2>1 DEF OthersWait, ProcessState
      <3> QED BY <1>17, <2>1, <3>1 DEF CheckEntry, At, Advances, Done
    <2> QED BY <1>5, <1>17, <2>1 DEF CheckEntry, NextEntry, At
  <1>18. CASE MoveEntry(p)
    <2>1. ASSUME proc' = [proc EXCEPT ![p].left = @ \ {proc[p].entry}, ![p].pc = "place"]
          PROVE  Done
      <3>1. /\ proc'[p].pc = "place" /\ proc'[p].left = proc[p].left \ {proc[p].entry}
            /\ OthersWait(p)
        BY <1>1, <2>1 DEF OthersWait, ProcessState
      <3> QED BY <1>18, <3>1 DEF MoveEntry, At, Advances, Done
    <2> QED BY <1>5, <1>18, <2>1 DEF MoveEntry, At
  <1>19. CASE Release(p) BY <1>7, <1>19 DEF Release, At, Passes
  <1>20. CASE RewriteRelocatedPaths(p)
    <2>1. CASE proc' = [proc EXCEPT ![p].cfg = "new", ![p].pc = "retire"]
      <3>1. Pass("retire") BY <1>1, <2>1 DEF OthersWait, ProcessState
      <3> QED BY <1>2, <1>20, <3>1 DEF RewriteRelocatedPaths, At, Passes
    <2> QED BY <1>6, <1>7, <1>20, <2>1 DEF RewriteRelocatedPaths, At, Passes
  <1>21. CASE RetireOld(p)
    <2> DEFINE after == [proc EXCEPT ![p].pc = "open"]
    <2>1. after \in [Procs -> ProcessState] BY <1>1 DEF ProcessState, Labels
    <2>2. \A q \in Procs : /\ proc'[q].pc = after[q].pc /\ proc'[q].entry = after[q].entry
                           /\ proc'[q].left = after[q].left /\ proc'[q].try = after[q].try
      <3> HIDE DEF after
      <3>1. \/ proc' = after
            \/ proc' = [q \in Procs |-> IF after[q].uses = "old"
                                        THEN [after[q] EXCEPT !.uses = "retired"]
                                        ELSE after[q]]
        BY <1>21 DEF RetireOld, after
      <3> QED BY <2>1, <3>1 DEF ProcessState
    <2>3. \A q \in Procs \ {p} : after[q] = proc[q] BY <1>1
    <2>4. after[p].pc = "open" /\ after[p].left = proc[p].left /\ after[p].try = proc[p].try
      BY <1>1 DEF ProcessState
    <2>5. Pass("open") BY <2>2, <2>3, <2>4 DEF OthersWait
    <2> QED BY <1>2, <1>21, <2>5 DEF RetireOld, At, Passes
  <1>22. CASE OpenDB(p)
    <2>1. Pass("running") BY <1>1, <1>22 DEF OpenDB, OthersWait, ProcessState
    <2> QED BY <1>2, <1>22, <2>1 DEF OpenDB, At, Passes
  <1> QED
    BY <1>8, <1>9, <1>10, <1>11, <1>12, <1>13, <1>14, <1>15, <1>16, <1>17, <1>18, <1>19, <1>20,
       <1>21, <1>22 DEF Startup

LEMMA StartsUp ==
  ASSUME NEW p \in Procs, Startup(p) PROVE proc[p].pc \notin {"off", "running"}
  BY DEF Startup, Decide, AcquireLock, StatLock, Unlock, CountTables, VacuumInto, Verify,
         StatTarget, RenameStaging, CheckEntry, MoveEntry, Release, RewriteRelocatedPaths,
         RetireOld, OpenDB, At

\* What any step makes of a process: it starts, advances, ends, or stays where it is.
LEMMA ProgressOf ==
  ASSUME TypeOK, [Next]_vars, NEW q \in Procs
  PROVE  \/ Startup(q) /\ Advances(proc[q], proc'[q])
         \/ Start(q) /\ proc'[q].pc = "decide"
         \/ proc'[q].pc = "off"
         \/ /\ proc'[q].pc = proc[q].pc /\ proc'[q].left = proc[q].left
            /\ proc'[q].try = proc[q].try /\ proc'[q].entry = proc[q].entry
  <1>1. proc \in [Procs -> ProcessState] BY DEF TypeOK
  <1>2. CASE \E p \in Procs : Startup(p)
    BY <1>2, StartupAdvances DEF OthersWait
  <1>3. CASE \E p \in Procs : Start(p)
    BY <1>1, <1>3 DEF Start, Off
  <1>4. CASE \E p \in Procs : Stop(p) \/ Crash(p)
    BY <1>1, <1>4 DEF Stop, Crash, Off
  <1>5. CASE UNCHANGED proc
    BY <1>5
  <1>6. UNCHANGED vars \/ LockAges \/ ClearTarget \/ (\E p \in Procs, f \in Facts : Save(p, f))
          => UNCHANGED proc
    BY DEF vars, LockAges, ClearTarget, Save
  <1> QED BY <1>2, <1>3, <1>4, <1>5, <1>6 DEF Next

LEMMA EntryStep == TypeOK /\ EntryIsLeft /\ [Next]_vars => EntryIsLeft'
  <1> SUFFICES ASSUME TypeOK, EntryIsLeft, [Next]_vars, NEW q \in Procs, proc'[q].pc = "move"
               PROVE  proc'[q].entry \in proc'[q].left
    BY DEF EntryIsLeft, At
  <1> QED BY ProgressOf DEF Advances, Passes, EntryIsLeft, At

\* A step of its start-up brings a process nearer to its end, and nothing but a new start
\* takes it further away.
GetsOn ==
  [][\A p \in Procs :
       /\ Startup(p) => StepsLeft(proc[p])' < StepsLeft(proc[p])
       /\ ~Start(p)  => StepsLeft(proc[p])' <= StepsLeft(proc[p])]_vars

\* Every start-up ends (acquireLock retries once, commitStaging goes through the entries
\* once): whatever others do, crash or leave behind, a process serves or has ended after
\* at most 2 |Files| + 19 steps of its own.
THEOREM StartupsEnd ==
  ASSUME IsFiniteSet(Files)
  PROVE  Spec => /\ [](\A p \in Procs : StepsLeft(proc[p]) \in 0 .. 2 * Cardinality(Files) + 19)
                 /\ GetsOn
  <1>1. ASSUME TypeOK
        PROVE  \A p \in Procs : StepsLeft(proc[p]) \in 0 .. 2 * Cardinality(Files) + 19
    BY <1>1, StepsTyped DEF TypeOK
  <1>2. ASSUME TypeOK, TypeOK', EntryIsLeft, [Next]_vars
        PROVE  [\A p \in Procs :
                  /\ Startup(p) => StepsLeft(proc[p])' < StepsLeft(proc[p])
                  /\ ~Start(p)  => StepsLeft(proc[p])' <= StepsLeft(proc[p])]_vars
    <2> SUFFICES ASSUME NEW p \in Procs
                 PROVE  /\ Startup(p) => StepsLeft(proc'[p]) < StepsLeft(proc[p])
                        /\ ~Start(p)  => StepsLeft(proc'[p]) <= StepsLeft(proc[p])
      OBVIOUS
    <2>1. proc[p] \in ProcessState /\ proc'[p] \in ProcessState BY <1>2 DEF TypeOK
    <2>2. StepsLeft(proc[p]) \in Nat /\ StepsLeft(proc'[p]) \in Nat BY <2>1, StepsTyped
    <2>3. Startup(p) => StepsLeft(proc'[p]) < StepsLeft(proc[p])
      BY <1>2, <2>1, StartsUp, StartupAdvances, AdvancesDown DEF EntryIsLeft, At
    <2>4. proc'[p].pc = "off" => StepsLeft(proc'[p]) = 0 BY DEF StepsLeft
    <2>5. ASSUME proc'[p].pc = proc[p].pc, proc'[p].left = proc[p].left,
                 proc'[p].try = proc[p].try
          PROVE  StepsLeft(proc'[p]) = StepsLeft(proc[p])
      BY <2>1, <2>5, StepsSame
    <2>6. ~Start(p) => StepsLeft(proc'[p]) <= StepsLeft(proc[p])
      BY <1>2, <2>2, <2>3, <2>4, <2>5, ProgressOf
    <2> QED BY <2>3, <2>6
  <1>3. Init => EntryIsLeft BY DEF Init, EntryIsLeft, At, Off
  <1> QED BY <1>1, <1>2, TypeInit, TypeStep, <1>3, EntryStep, PTL DEF Spec, GetsOn
===============================================================================
