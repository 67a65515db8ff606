---------------------------- MODULE SchedulerLock ----------------------------
(***************************************************************************)
(* The lock file of the scheduled reference batch and the runs that take   *)
(* it: ReferenceSchedulerLock in server/app/services/reference_scheduler.py *)
(* and run_reference_scheduled_batch in reference_scheduler_runner.py.     *)
(*                                                                         *)
(* A run is a process: started by the task scheduler or by hand, it lives  *)
(* once.  A step is one call to the file system, or one of the events of   *)
(* the child process that does the batch.                                  *)
(***************************************************************************)
EXTENDS Integers, FiniteSets

CONSTANTS
    Runs,         \* the processes, and the tokens of their locks
    Absent,       \* there is no lock file
    StaleAfter,   \* lock_stale_seconds
    Timeout,      \* timeout_seconds of the child
    OpenMoves,    \* whether a file may be moved or removed while it is open: it
                  \* may on POSIX systems, it may not on Windows
    MaxTime       \* bound: the clock stops here

ASSUME SchedulerAssumption ==
    /\ Absent \notin Runs
    /\ StaleAfter \in Nat \ {0} /\ Timeout \in Nat \ {0} /\ MaxTime \in Nat
    /\ OpenMoves \subseteq BOOLEAN

VARIABLES
    file,       \* the run whose lock is at the path of the lock file, or Absent
    lock,       \* the lock file each run has made: none, still empty, or full
    reading,    \* the lock file each run has open to read, by the run that made it
    at,         \* where each run is
    started,    \* when it started: started_at of its lock
    attempts,   \* the attempts of acquire() it has used up
    recovered,  \* whether it moved a lock away: recovered_stale_lock_path
    child,      \* its child process
    forked,     \* when the child started
    now,
    refused     \* history: the runs that were refused the removal of a lock file

fileVars == <<file, lock, reading, refused>>
runVars == <<started, attempts, recovered, child, forked, now>>
vars == <<fileVars, at, runVars>>

Acquiring == {"create", "open", "read", "archive"}
Holding == {"write", "undo", "prepare", "batch", "release", "check", "unlink"}
Over == {"skipped", "failed", "ended", "crashed"}

TypeOK ==
    /\ file \in Runs \cup {Absent}
    /\ lock \in [Runs -> {"none", "empty", "full"}]
    /\ reading \in [Runs -> Runs \cup {Absent}]
    /\ at \in [Runs -> {"idle"} \cup Acquiring \cup Holding \cup Over]
    /\ started \in [Runs -> Nat]
    /\ attempts \in [Runs -> 0..3]
    /\ recovered \in [Runs -> BOOLEAN]
    /\ child \in [Runs -> {"none", "running", "over"}]
    /\ forked \in [Runs -> Nat]
    /\ now \in Nat
    /\ refused \subseteq Runs
    /\ \A r \in Runs : child[r] = "running" => at[r] \in {"batch", "crashed"}

Goto(r, place) == at' = [at EXCEPT ![r] = place]

\* The file at the path is open: its owner still writes, or a run reads it.
InUse == file # Absent /\ (at[file] = "write" \/ \E r \in Runs : reading[r] = file)

Movable == ~InUse \/ TRUE \in OpenMoves

\* The PermissionError that nobody catches.
Refuses == InUse /\ FALSE \in OpenMoves

\* _read_metadata opens what is at the path, if there is something.
OpenFile(r, there, missing) ==
    /\ reading' = [reading EXCEPT ![r] = file]
    /\ Goto(r, IF file = Absent THEN missing ELSE there)
    /\ UNCHANGED <<file, lock, refused, runVars>>

CloseFile(r) == reading' = [reading EXCEPT ![r] = Absent]

\* unlink() of what is at the path.
RemoveFile(r, place) ==
    /\ \/ /\ Movable
          /\ file' = Absent
          /\ Goto(r, place)
          /\ UNCHANGED refused
       \/ /\ Refuses
          /\ refused' = refused \cup {r}
          /\ Goto(r, "failed")
          /\ UNCHANGED file
    /\ UNCHANGED <<lock, reading, runVars>>

-----------------------------------------------------------------------------
(* acquire().                                                              *)

\* A disabled subscription ends the run before it looks for the lock.
Start(r) ==
    /\ at[r] = "idle"
    /\ \/ Goto(r, "create")
       \/ Goto(r, "skipped")
    /\ started' = [started EXCEPT ![r] = now]
    /\ UNCHANGED <<fileVars, attempts, recovered, child, forked, now>>

TakePath(r) ==
    /\ file' = r /\ lock' = [lock EXCEPT ![r] = "empty"]
    /\ Goto(r, "write")

\* Defect: a file that exists is opened as well.
CreateShared(r) ==
    /\ at[r] = "create"
    /\ TakePath(r)
    /\ UNCHANGED <<reading, refused, runVars>>

\* O_CREAT | O_EXCL makes an empty file, or finds one.
Create(r) ==
    /\ at[r] = "create"
    /\ \/ file = Absent /\ TakePath(r)
       \/ file # Absent /\ Goto(r, "open") /\ UNCHANGED <<file, lock>>
    /\ UNCHANGED <<reading, refused, runVars>>

\* The metadata follows, into the file that was opened, wherever it is now.
Write(r) ==
    /\ at[r] = "write"
    /\ lock' = [lock EXCEPT ![r] = "full"]
    /\ Goto(r, "prepare")
    /\ UNCHANGED <<file, reading, refused, runVars>>

\* A write that fails closes the file, and then removes the file that is at the path.
WriteFails(r) ==
    /\ at[r] = "write"
    /\ Goto(r, "undo")
    /\ UNCHANGED <<fileVars, runVars>>

Undo(r) == at[r] = "undo" /\ RemoveFile(r, "failed")

OpenLock(r) == at[r] = "open" /\ OpenFile(r, "read", "archive")

\* _is_stale: what cannot be read counts as stale, and age is as of the start.
Stale(r) ==
    \/ lock[reading[r]] # "full"
    \/ started[r] - started[reading[r]] >= StaleAfter

Read(r) ==
    /\ at[r] = "read"
    /\ Goto(r, IF Stale(r) THEN "archive" ELSE "skipped")
    /\ CloseFile(r)
    /\ UNCHANGED <<file, lock, refused, runVars>>

\* The next attempt, of three.
Retry(r) ==
    /\ attempts' = [attempts EXCEPT ![r] = @ + 1]
    /\ Goto(r, IF attempts[r] < 2 THEN "create" ELSE "failed")

\* Defect: the stale lock is copied, and stays.
ArchiveCopy(r) ==
    /\ at[r] = "archive"
    /\ Retry(r)
    /\ recovered' = [recovered EXCEPT ![r] = @ \/ file # Absent]
    /\ UNCHANGED <<fileVars, started, child, forked, now>>

\* os.replace moves away whatever is at the path by now.  A file that is open
\* may refuse to be moved, which ends the run.
Archive(r) ==
    /\ at[r] = "archive"
    /\ \/ /\ file = Absent
          /\ Retry(r)
          /\ UNCHANGED <<file, recovered>>
       \/ /\ file # Absent /\ Movable
          /\ file' = Absent
          /\ recovered' = [recovered EXCEPT ![r] = TRUE]
          /\ Retry(r)
       \/ /\ Refuses
          /\ Goto(r, "failed")
          /\ UNCHANGED <<file, attempts, recovered>>
    /\ UNCHANGED <<lock, reading, refused, started, child, forked, now>>

-----------------------------------------------------------------------------
(* The run that holds the lock.                                            *)

\* The database is verified and backed up, then the child is started.
Fork(r) ==
    /\ at[r] = "prepare"
    /\ Goto(r, "batch")
    /\ child' = [child EXCEPT ![r] = "running"]
    /\ forked' = [forked EXCEPT ![r] = now]
    /\ UNCHANGED <<fileVars, started, attempts, recovered, now>>

\* Defect: the lock is not released when the preparation fails.
PrepareLeaves(r) ==
    /\ at[r] = "prepare"
    /\ Goto(r, "ended")
    /\ UNCHANGED <<fileVars, runVars>>

PrepareFails(r) ==
    /\ at[r] = "prepare"
    /\ Goto(r, "release")
    /\ UNCHANGED <<fileVars, runVars>>

\* Defect: the run goes on at the timeout and leaves the child alone.
ChildLeft(r) ==
    /\ child[r] = "running"
    /\ IF at[r] = "batch" THEN Goto(r, "release") ELSE UNCHANGED at
    /\ UNCHANGED <<fileVars, runVars>>

\* The child ends, or its parent kills it at the timeout; the child of a run
\* that crashed has nobody to kill it.
ChildEnds(r) ==
    /\ child[r] = "running"
    /\ child' = [child EXCEPT ![r] = "over"]
    /\ IF at[r] = "batch" THEN Goto(r, "release") ELSE UNCHANGED at
    /\ UNCHANGED <<fileVars, started, attempts, recovered, forked, now>>

\* release() reads the token, and removes the file if it is its own.
Release(r) == at[r] = "release" /\ OpenFile(r, "check", "ended")

Check(r) ==
    /\ at[r] = "check"
    /\ Goto(r, IF reading[r] = r /\ lock[r] = "full" THEN "unlink" ELSE "ended")
    /\ CloseFile(r)
    /\ UNCHANGED <<file, lock, refused, runVars>>

\* Only FileNotFoundError is caught.
Unlink(r) == at[r] = "unlink" /\ RemoveFile(r, "ended")

\* The process dies; its lock file and its child stay.
Crash(r) ==
    /\ at[r] \in Acquiring \cup Holding
    /\ Goto(r, "crashed")
    /\ CloseFile(r)
    /\ UNCHANGED <<file, lock, refused, runVars>>

\* Time does not pass the timeout of a child that has its parent.
Tick ==
    /\ now < MaxTime
    /\ \A r \in Runs : at[r] = "batch" => now - forked[r] < Timeout
    /\ now' = now + 1
    /\ UNCHANGED <<fileVars, at, started, attempts, recovered, child, forked>>

-----------------------------------------------------------------------------
Init ==
    /\ file = Absent
    /\ lock = [r \in Runs |-> "none"]
    /\ reading = [r \in Runs |-> Absent]
    /\ at = [r \in Runs |-> "idle"]
    /\ started = [r \in Runs |-> 0]
    /\ attempts = [r \in Runs |-> 0]
    /\ recovered = [r \in Runs |-> FALSE]
    /\ child = [r \in Runs |-> "none"]
    /\ forked = [r \in Runs |-> 0]
    /\ now = 0
    /\ refused = {}

Next ==
    \/ \E r \in Runs :
          \/ Start(r) \/ Create(r) \/ Write(r) \/ WriteFails(r) \/ Undo(r)
          \/ OpenLock(r) \/ Read(r) \/ Archive(r)
          \/ Fork(r) \/ PrepareFails(r) \/ ChildEnds(r)
          \/ Release(r) \/ Check(r) \/ Unlink(r) \/ Crash(r)
    \/ Tick

Spec == Init /\ [][Next]_vars

-----------------------------------------------------------------------------
(* What the lock gives.                                                    *)

OneBatch == \A r, s \in Runs : child[r] = "running" /\ child[s] = "running" => r = s

\* As long as no run has moved a lock away, at most one batch is under way,
\* also when a run crashes, a write fails or a batch runs for long: O_EXCL and
\* the removal by the owner are enough.
ExclusiveUntilRecovery == (\A r \in Runs : ~recovered[r]) => OneBatch

\* The path is free once the runs that took the lock have ended, in whatever
\* order they moved, removed and rewrote it.  What leaves a file behind is a crash
\* or, where open files cannot be removed, that another run had the lock open to
\* read it when its owner was about to remove it.
LeftoverIsExplained ==
    file # Absent =>
        \/ at[file] \in Holding \cup {"crashed"}
        \/ file \in refused /\ FALSE \in OpenMoves

\* An attempt is spent only on a lock of another run, one per run, so a run
\* fails for concurrent retries only where three others took the lock.
TookLock(r) == lock[r] # "none"

AttemptsAreRaces ==
    \A r \in Runs : attempts[r] <= Cardinality({s \in Runs \ {r} : TookLock(s)})

-----------------------------------------------------------------------------
\* "Atomic file lock for one reference batch at a time."
OneBatchAtATime == OneBatch
=============================================================================
