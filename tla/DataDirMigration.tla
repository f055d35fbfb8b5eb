--------------------------- MODULE DataDirMigration ---------------------------
(***************************************************************************)
(* The move of the data directory at start-up, from the name the program   *)
(* had before (combomgr) to its present one (tacpendium): what             *)
(* prepareDataDirWith in cmd/tacpendium/main.go and the package            *)
(* internal/infra/datadir do to the old directory, the new one, the lock   *)
(* file and config.toml, by processes that crash, are started twice, or    *)
(* meet I/O errors.                                                        *)
(*                                                                         *)
(* A database is the set of facts saved in it.  The other files of the     *)
(* directory never change, so the old directory always holds all of Files. *)
(* Staging directories are private to a process and swept after an hour;   *)
(* what a crash leaves of one is never read and is left out.  The paths a  *)
(* user names outside of both directories are not migrated and left out.   *)
(***************************************************************************)
EXTENDS Integers, FiniteSets

CONSTANTS
  Procs,       \* processes of the program, started again after they end
  Facts,       \* what a user saves
  Files,       \* entries of the data directory besides the database
  Nobody,      \* no process
  Faults,      \* the I/O errors that may happen: see IOFaults
  MaxCrashes   \* bound: processes killed before they end

IOFaults == {"copy", "commit", "sync", "rewrite", "retire"}

ASSUME FaultsAssumption == Faults \subseteq IOFaults
ASSUME NobodyAssumption == Nobody \notin Procs
ASSUME CrashesAssumption == MaxCrashes \in Nat
ASSUME FactsAssumption == IsFiniteSet(Facts)

VARIABLES
  db,        \* databases on disk: directory -> facts saved in it
  newDir,    \* the new directory exists (with or without a database)
  newFiles,  \* entries of the new directory besides the database
  config,    \* database.path in config.toml
  lock,      \* .migrating.lock of the old directory
  port,      \* the process that last listened on the configured port
  saved,     \* facts the users have saved
  crashes,   \* processes killed so far
  proc       \* the processes

disk == <<db, newDir, newFiles>>
vars == <<db, newDir, newFiles, config, lock, port, saved, crashes, proc>>

Directories == {"old", "new", "retired"}
DB == "db"                       \* the database as an entry of staging
Entries == Files \cup {DB}

ASSUME EntriesAssumption == DB \notin Files

\* "alias" is a spelling of the old path that resolves to it but differs from
\* it as a string (a symbolic link, the case of a drive letter).
Paths == {"unset", "old", "alias", "new"}

NoLock == [owner |-> Nobody, stale |-> FALSE]

\* Where a process is in run().
Migrating == {"count", "vacuum", "verify", "commit", "rename", "place", "move",
              "release"}
Labels == Migrating \cup {"off", "decide", "lock", "stat", "unlock", "rewrite",
                          "retire", "open", "running"}

Off == [pc |-> "off", cfg |-> "unset", try |-> 1, counted |-> 0, copy |-> {},
        left |-> Entries, entry |-> DB, status |-> "skipped", uses |-> "none"]

ProcessState ==
  [pc : Labels, cfg : Paths, try : 1 .. 2, counted : Nat, copy : SUBSET Facts,
   left : SUBSET Entries, entry : Entries,
   status : {"skipped", "migrated", "failed"}, uses : Directories \cup {"none"}]

TypeOK ==
  /\ DOMAIN db \subseteq Directories
  /\ \A d \in DOMAIN db : db[d] \subseteq Facts
  /\ newDir \in BOOLEAN /\ newFiles \subseteq Files
  /\ config \in Paths
  /\ lock \in [owner : Procs \cup {Nobody}, stale : BOOLEAN]
  /\ port \in Procs \cup {Nobody}
  /\ saved \subseteq Facts
  /\ crashes \in 0 .. MaxCrashes
  /\ proc \in [Procs -> ProcessState]

Has(d) == d \in DOMAIN db
With(d, S) == [x \in DOMAIN db \cup {d} |-> IF x = d THEN S ELSE db[x]]

Init ==
  /\ \E S \in SUBSET Facts : db = [d \in {"old"} |-> S] /\ saved = S
  /\ newDir \in BOOLEAN /\ newFiles = {}
  /\ config \in Paths
  /\ lock = NoLock /\ port = Nobody /\ crashes = 0
  /\ proc = [p \in Procs |-> Off]

At(p, l) == proc[p].pc = l
Goto(p, l) == proc' = [proc EXCEPT ![p].pc = l]

-------------------------------------------------------------------------------
(* Starting: probe for a running instance, read the configuration, decide.   *)

Running(p) == At(p, "running")

\* The probe finds who listens on the configured port.
InstanceDetected == port # Nobody /\ Running(port)

\* A process that finds another opens its window and ends.
Start(p) ==
  /\ At(p, "off") /\ ~InstanceDetected
  /\ proc' = [proc EXCEPT ![p] = [Off EXCEPT !.pc = "decide", !.cfg = config]]
  /\ UNCHANGED <<disk, config, lock, port, saved, crashes>>

Decide(p) ==
  /\ At(p, "decide")
  /\ Goto(p, IF Has("old") /\ ~Has("new") THEN "lock" ELSE "open")
  /\ UNCHANGED <<disk, config, lock, port, saved, crashes>>

-------------------------------------------------------------------------------
(* acquireLock: create the lock file, or look how old the one there is,      *)
(* remove it if it is stale and try once more.                               *)

\* Mutant: the lock file is opened without O_EXCL.
LockFreeNotExclusive == TRUE

LockFree == lock = NoLock

AcquireLock(p) ==
  /\ At(p, "lock")
  /\ \/ /\ ~Has("old")
        /\ proc' = [proc EXCEPT ![p].status = "failed", ![p].pc = "open"]
        /\ UNCHANGED lock
     \/ /\ Has("old") /\ LockFree
        /\ lock' = [owner |-> p, stale |-> FALSE]
        /\ Goto(p, "count")
     \/ /\ Has("old") /\ ~LockFree
        /\ Goto(p, "stat") /\ UNCHANGED lock
  /\ UNCHANGED <<disk, config, port, saved, crashes>>

\* The loop ends after its second attempt: the process gives up (Blocked).
TryAgain(p) ==
  proc' = [proc EXCEPT ![p] =
             IF @.try = 1 THEN [@ EXCEPT !.try = 2, !.pc = "lock"] ELSE Off]

\* Mutant: the age of the lock is not looked at.
LockIsStaleNever == FALSE

LockIsStale == lock.stale

StatLock(p) ==
  /\ At(p, "stat")
  /\ \/ lock = NoLock /\ TryAgain(p)
     \/ lock # NoLock /\ LockIsStale /\ Goto(p, "unlock")
     \/ lock # NoLock /\ ~LockIsStale /\ proc' = [proc EXCEPT ![p] = Off]
  /\ UNCHANGED <<disk, config, lock, port, saved, crashes>>

Unlock(p) ==
  /\ At(p, "unlock")
  /\ lock' = NoLock /\ TryAgain(p)
  /\ UNCHANGED <<disk, config, port, saved, crashes>>

-------------------------------------------------------------------------------
(* populateStaging: checkpoint and count, copy, verify.                      *)

\* Any failure after the lock: staging is removed, the lock released.
Abort(p) == proc' = [proc EXCEPT ![p].status = "failed", ![p].pc = "release"]

CountTables(p) ==
  /\ At(p, "count")
  /\ IF Has("old")
     THEN proc' = [proc EXCEPT ![p].counted = Cardinality(db["old"]),
                               ![p].pc = "vacuum"]
     ELSE Abort(p)
  /\ UNCHANGED <<disk, config, lock, port, saved, crashes>>

\* A copy that goes wrong loses facts (Params.CopyDB) or is reported.
VacuumInto(p) ==
  /\ At(p, "vacuum")
  /\ \/ /\ Has("old")
        /\ \E S \in SUBSET db["old"] :
             /\ S = db["old"] \/ "copy" \in Faults
             /\ proc' = [proc EXCEPT ![p].copy = S, ![p].pc = "verify"]
     \/ /\ ~Has("old") \/ "copy" \in Faults
        /\ Abort(p)
  /\ UNCHANGED <<disk, config, lock, port, saved, crashes>>

\* Mutant: the counts are not compared.
VerifiedUncounted(p) ==
  Has("old") /\ \A q \in Procs \ {p} : proc[q].uses # "old"

\* The counts agree, and no -wal of another process is left in the old
\* directory.
Verified(p) ==
  /\ Has("old") /\ \A q \in Procs \ {p} : proc[q].uses # "old"
  /\ Cardinality(proc[p].copy) = proc[p].counted

Verify(p) ==
  /\ At(p, "verify")
  /\ IF Verified(p) THEN Goto(p, "commit") ELSE Abort(p)
  /\ UNCHANGED <<disk, config, lock, port, saved, crashes>>

-------------------------------------------------------------------------------
(* commitStaging: one rename, or entry by entry into a directory that exists.*)

Committed(p, status) ==
  proc' = [proc EXCEPT ![p].status = status, ![p].pc = "release"]

StatTarget(p) ==
  /\ At(p, "commit")
  /\ Goto(p, IF newDir THEN "place" ELSE "rename")
  /\ UNCHANGED <<disk, config, lock, port, saved, crashes>>

\* os.Rename refuses a directory that appeared meanwhile; one that appears
\* while it looks is replaced only if it is empty.
RenameStaging(p) ==
  /\ At(p, "rename")
  /\ \/ /\ newFiles = {} /\ ~Has("new")
        /\ db' = With("new", proc[p].copy)
        /\ newDir' = TRUE /\ newFiles' = Files
        /\ Committed(p, "migrated")
     \/ /\ newDir \/ "commit" \in Faults
        /\ Abort(p) /\ UNCHANGED disk
  /\ UNCHANGED <<config, lock, port, saved, crashes>>

InTarget(e) == IF e = DB THEN Has("new") ELSE e \in newFiles

\* Mutants: the database is moved in any turn; whatever is there is replaced.
NextEntryAnyOrder(p, e) == e \in proc[p].left
MayPlaceAnyway(e) == TRUE

\* The database is the last entry.
NextEntry(p, e) == e \in proc[p].left /\ (e = DB => proc[p].left = {DB})
MayPlace(e) == ~InTarget(e)

CheckEntry(p) ==
  /\ At(p, "place")
  /\ \E e \in Entries :
       /\ NextEntry(p, e)
       /\ IF MayPlace(e)
          THEN proc' = [proc EXCEPT ![p].entry = e, ![p].pc = "move"]
          ELSE Abort(p)
  /\ UNCHANGED <<disk, config, lock, port, saved, crashes>>

\* The rename of an entry, and after the database the sync of the directory,
\* whose error is an error of the whole migration.
MoveEntry(p) ==
  /\ At(p, "move")
  /\ LET e == proc[p].entry IN
     \/ /\ e # DB
        /\ newFiles' = newFiles \cup {e} /\ UNCHANGED db
        /\ proc' = [proc EXCEPT ![p].left = @ \ {e}, ![p].pc = "place"]
     \/ /\ e = DB
        /\ db' = With("new", proc[p].copy) /\ UNCHANGED newFiles
        /\ \/ Committed(p, "migrated")
           \/ "sync" \in Faults /\ Committed(p, "failed")
     \/ /\ "commit" \in Faults
        /\ Abort(p) /\ UNCHANGED <<db, newFiles>>
  /\ UNCHANGED <<newDir, config, lock, port, saved, crashes>>

\* The deferred release() removes the lock file, whoever made it.
Release(p) ==
  /\ At(p, "release")
  /\ lock' = NoLock
  /\ Goto(p, IF proc[p].status = "migrated" THEN "rewrite" ELSE "open")
  /\ UNCHANGED <<disk, config, port, saved, crashes>>

-------------------------------------------------------------------------------
(* After Migrate: the configuration, then the old directory.                 *)

\* A path below the old directory is recognised by its spelling.
RewriteRelocatedPaths(p) ==
  /\ At(p, "rewrite")
  /\ \/ /\ config = "old"
        /\ config' = "new"
        /\ proc' = [proc EXCEPT ![p].cfg = "new", ![p].pc = "retire"]
     \/ /\ config # "old"
        /\ Goto(p, "retire") /\ UNCHANGED config
     \/ /\ "rewrite" \in Faults                \* nothing written: keep the old
        /\ Goto(p, "open") /\ UNCHANGED config
     \/ /\ "rewrite" \in Faults /\ config = "old"   \* written, not read back
        /\ config' = "new" /\ proc' = [proc EXCEPT ![p] = Off]
  /\ UNCHANGED <<disk, lock, port, saved, crashes>>

Resolve(path) == IF path \in {"old", "alias"} THEN "old" ELSE "new"

\* Mutant: retire as soon as the configuration is rewritten.
ReadyToRetireAlways(p) == TRUE

ReadyToRetire(p) == Resolve(proc[p].cfg) = "new" /\ Has("new")

\* The rename takes the lock file and the open databases along.  Only one
\* directory is ever retired here: a second process finds the new database.
RetireOld(p) ==
  /\ At(p, "retire")
  /\ LET after == [proc EXCEPT ![p].pc = "open"] IN
     \/ /\ ReadyToRetire(p) /\ Has("old") /\ ~Has("retired")
        /\ db' = [d \in (DOMAIN db \ {"old"}) \cup {"retired"} |->
                    db[IF d = "retired" THEN "old" ELSE d]]
        /\ proc' = [q \in Procs |-> IF after[q].uses = "old"
                                    THEN [after[q] EXCEPT !.uses = "retired"]
                                    ELSE after[q]]
        /\ lock' = NoLock
     \/ /\ ~ReadyToRetire(p) \/ ~Has("old") \/ "retire" \in Faults
        /\ proc' = after /\ UNCHANGED <<db, lock>>
  /\ UNCHANGED <<newDir, newFiles, config, port, saved, crashes>>

-------------------------------------------------------------------------------
(* Serving, stopping, crashing.                                              *)

\* Mutant: a failed migration changes nothing of what is opened.
TargetAsConfigured(p) == Resolve(proc[p].cfg)

\* A failed migration falls back on the old directory.
Target(p) == IF proc[p].status = "failed" THEN "old" ELSE Resolve(proc[p].cfg)

\* migration.Run, Open and ListenAvailable: a database that is not there is
\* created; the port in use is the configured one from now on.
OpenDB(p) ==
  /\ At(p, "open")
  /\ db' = IF Has(Target(p)) THEN db ELSE With(Target(p), {})
  /\ newDir' = (newDir \/ Target(p) = "new")
  /\ proc' = [proc EXCEPT ![p].uses = Target(p), ![p].pc = "running"]
  /\ port' = p
  /\ UNCHANGED <<newFiles, config, lock, saved, crashes>>

Save(p, f) ==
  /\ Running(p) /\ f \notin saved
  /\ db' = [db EXCEPT ![proc[p].uses] = @ \cup {f}]
  /\ saved' = saved \cup {f}
  /\ UNCHANGED <<newDir, newFiles, config, lock, port, crashes, proc>>

Stop(p) ==
  /\ Running(p)
  /\ proc' = [proc EXCEPT ![p] = Off]
  /\ UNCHANGED <<disk, config, lock, port, saved, crashes>>

Crash(p) ==
  /\ ~At(p, "off") /\ crashes < MaxCrashes
  /\ crashes' = crashes + 1
  /\ proc' = [proc EXCEPT ![p] = Off]
  /\ UNCHANGED <<disk, config, lock, port, saved>>

\* Copying takes milliseconds, a lock five minutes to become stale: only a lock
\* whose owner no longer migrates grows that old.
LockAges ==
  /\ lock # NoLock /\ ~lock.stale
  /\ proc[lock.owner].pc \notin Migrating
  /\ lock' = [lock EXCEPT !.stale = TRUE]
  /\ UNCHANGED <<disk, config, port, saved, crashes, proc>>

\* The user removes what the message of commitStaging names.
ClearTarget ==
  /\ newFiles # {} /\ ~Has("new")
  /\ \A p \in Procs : proc[p].pc \notin Migrating
  /\ newFiles' = {}
  /\ UNCHANGED <<db, newDir, config, lock, port, saved, crashes, proc>>

Startup(p) ==
  \/ Decide(p) \/ AcquireLock(p) \/ StatLock(p) \/ Unlock(p)
  \/ CountTables(p) \/ VacuumInto(p) \/ Verify(p)
  \/ StatTarget(p) \/ RenameStaging(p) \/ CheckEntry(p) \/ MoveEntry(p)
  \/ Release(p) \/ RewriteRelocatedPaths(p) \/ RetireOld(p) \/ OpenDB(p)

Next ==
  \/ \E p \in Procs : Start(p) \/ Startup(p) \/ Stop(p) \/ Crash(p)
  \/ \E p \in Procs, f \in Facts : Save(p, f)
  \/ LockAges \/ ClearTarget

Spec == Init /\ [][Next]_vars

\* The steps of a process that was started go on, a user who wants to work
\* starts the program again, and time passes.
Fairness ==
  /\ \A p \in Procs : WF_vars(Start(p)) /\ WF_vars(Startup(p))
  /\ WF_vars(LockAges)

FairSpec == Spec /\ Fairness

-------------------------------------------------------------------------------
(* Properties.                                                               *)

\* Nothing a user saved is missing from the database the program shows, in
\* whatever step earlier starts were cut off or failed (migrate.go, RetireOld:
\* the order config.toml, then retirement; ReadyToRetire).
NothingVanishes ==
  \A p \in Procs : Running(p) => saved \subseteq db[proc[p].uses]

\* Where the facts are: the old directory until there is a new database, then
\* the directory config.toml names.
Home == IF Has("new") THEN Resolve(config) ELSE "old"

DirHome ==
  INSTANCE DataHome
    WITH stored <- db[Home],
         shown  <- {db[proc[p].uses] : p \in {q \in Procs : Running(q)}}

\* One process at a time, without a failing sync, is a DataHome
\* (prepareDataDirWith and the fallback on its failure, main.go): from outside,
\* each step of the migration opens the program, closes it or changes nothing,
\* and what is shown is all that was saved and nothing else.
ImplementsDataHome == DirHome!Spec

\* The database decides which directory is the real one, so a new directory
\* with a database has every other file too (commitStaging moves it last).
NewIsComplete == Has("new") => newFiles = Files

\* The old directory is retired only when each fact in it is in the new one.
RetiredOnlyWhenCopied ==
  [][Has("old") /\ ~Has("old")' => db["old"] \subseteq db'["new"]]_vars

\* acquireLock returns held when there is a live lock: two processes never
\* migrate at the same time.
OneMigrator ==
  \A p, q \in Procs :
    proc[p].pc \in Migrating /\ proc[q].pc \in Migrating => p = q

\* A new database is never replaced by a copy of the old one: what is saved in
\* it stays in it.
NewNeverOverwritten == [][Has("new") => db["new"] \subseteq db'["new"]]_vars

\* A migration that was cut off does not keep the program from starting for
\* good: the lock it left becomes stale (lock.go).
EventuallyServes == []<>(\E p \in Procs : Running(p))
===============================================================================
