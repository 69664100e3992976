----------------------------- MODULE SpawnLock ------------------------------
(***************************************************************************)
(* hooks.EnsureDaemon in several hook processes at once: the advisory file *)
(* lock of hooks.AcquireLock around one fork of the daemon.  The lock file *)
(* is created with O_EXCL and only then receives its holder's PID; a file  *)
(* whose content names no live process is unlinked by whoever reads it;    *)
(* release unlinks the path whatever file it names.  A process creates at  *)
(* most one lock file, so a file is named by its creator.                  *)
(***************************************************************************)
EXTENDS Naturals

CONSTANTS Procs,        \* hook processes that found the daemon unreachable
          MaxAttempts,  \* 3: iterations of AcquireLock's loop
          Absent,       \* the path names no file
          Leftover      \* a file left by a process that died holding the lock

\* One iteration may go to removing the leftover, so the code's 3 could be 2.
ASSUME SpawnLockAssumption ==
    /\ Procs # {}
    /\ MaxAttempts \in Nat /\ MaxAttempts > 1
    /\ Absent \notin Procs /\ Leftover \notin Procs /\ Absent # Leftover

VARIABLES
    pc,        \* where each process is in EnsureDaemon
    attempt,   \* loop iterations begun
    lockFile,  \* the file the path names: its creator, Leftover or Absent
    written,   \* processes whose PID is in the file they created
    spawned    \* processes that forked a daemon

vars == <<pc, attempt, lockFile, written, spawned>>

Pcs == {"create", "classify", "reclaim", "writePid", "spawn", "release", "done", "crashed"}
Running(p) == pc[p] \notin {"done", "crashed"}

TypeOK ==
    /\ pc \in [Procs -> Pcs]
    /\ attempt \in [Procs -> 1 .. MaxAttempts]
    /\ lockFile \in Procs \cup {Absent, Leftover}
    /\ written \subseteq Procs
    /\ spawned \subseteq Procs

Init ==
    /\ pc = [p \in Procs |-> "create"]
    /\ attempt = [p \in Procs |-> 1]
    /\ lockFile \in {Absent, Leftover}
    /\ written = {}
    /\ spawned = {}

Goto(p, label) == pc' = [pc EXCEPT ![p] = label]

\* Slip: any existing file is taken for a live holder's.
AnyHolder == lockFile # Absent

\* The file names a process and that process runs.
LiveHolder == lockFile \in written /\ pc[lockFile] # "crashed"

\* isLockStale: absent by now, empty, unparsable, or the holder is dead.
isLockStale == ~LiveHolder

-----------------------------------------------------------------------------
\* OpenFile(O_CREATE|O_EXCL).
Create(p) ==
    /\ pc[p] = "create"
    /\ \/ /\ lockFile = Absent
          /\ lockFile' = p
          /\ Goto(p, "writePid")
       \/ /\ lockFile # Absent
          /\ Goto(p, "classify")
          /\ UNCHANGED lockFile
    /\ UNCHANGED <<attempt, written, spawned>>

\* A live holder: EnsureDaemon returns and leaves the spawn to it.
Yield(p) ==
    /\ pc[p] = "classify" /\ ~isLockStale
    /\ Goto(p, "done")
    /\ UNCHANGED <<attempt, lockFile, written, spawned>>

Stale(p) ==
    /\ pc[p] = "classify" /\ isLockStale
    /\ Goto(p, "reclaim")
    /\ UNCHANGED <<attempt, lockFile, written, spawned>>

\* Slip: off by one.
MayRetryOnceMore(p) == attempt[p] <= MaxAttempts

MayRetry(p) == attempt[p] < MaxAttempts

\* Unlink the path, whatever it names by now, and go round the loop; after
\* the last attempt AcquireLock gives up as if the lock were held.
Reclaim(p) ==
    /\ pc[p] = "reclaim"
    /\ lockFile' = Absent
    /\ \/ /\ MayRetry(p)
          /\ attempt' = [attempt EXCEPT ![p] = @ + 1]
          /\ Goto(p, "create")
       \/ /\ ~MayRetry(p)
          /\ Goto(p, "done")
          /\ UNCHANGED attempt
    /\ UNCHANGED <<written, spawned>>

\* writePIDAndBuildReleaser: into the file it created, linked or not.
WritePid(p) ==
    /\ pc[p] = "writePid"
    /\ written' = written \cup {p}
    /\ Goto(p, "spawn")
    /\ UNCHANGED <<attempt, lockFile, spawned>>

\* runner.Start("browzer", "daemon", "start", "--background").
Spawn(p) ==
    /\ pc[p] = "spawn"
    /\ spawned' = spawned \cup {p}
    /\ Goto(p, "release")
    /\ UNCHANGED <<attempt, lockFile, written>>

\* Slip: the lock file stays.
ReleaseKeepsFile(p) ==
    /\ pc[p] = "release"
    /\ Goto(p, "done")
    /\ UNCHANGED <<attempt, lockFile, written, spawned>>

\* The releaser unlinks the path.
Release(p) ==
    /\ pc[p] = "release"
    /\ lockFile' = Absent
    /\ Goto(p, "done")
    /\ UNCHANGED <<attempt, written, spawned>>

Crash(p) ==
    /\ Running(p)
    /\ Goto(p, "crashed")
    /\ UNCHANGED <<attempt, lockFile, written, spawned>>

Step(p) ==
    \/ Create(p) \/ Yield(p) \/ Stale(p) \/ Reclaim(p)
    \/ WritePid(p) \/ Spawn(p) \/ Release(p)

Next == \E p \in Procs : Step(p) \/ Crash(p)

Spec == Init /\ [][Next]_vars

-----------------------------------------------------------------------------
(* Properties *)

\* EnsureDaemon: processes that see ok = FALSE "let the lock-holder do the
\* spawn".  There always is one: whoever returned without spawning yielded to
\* a process that spawned, is on its way to spawn, or died.  The non-blocking
\* lock never makes everybody leave, also when they met a dead holder's file
\* and unlinked each other's.
YieldsToASpawner ==
    \A p \in Procs : pc[p] = "done" /\ p \notin spawned =>
        \E q \in Procs \ {p} : q \in spawned \/ pc[q] \in {"writePid", "spawn", "crashed"}

\* A lock file outlives its holders only when one of them died: otherwise the
\* path is free once everybody has returned (acquire_lock.go, the releaser),
\* although releasers and reclaimers unlink one another's files.
FreeWhenAllReturned ==
    (\A p \in Procs : pc[p] = "done") => lockFile = Absent
=============================================================================
