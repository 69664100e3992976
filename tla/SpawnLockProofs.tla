-------------------------- MODULE SpawnLockProofs ---------------------------
(***************************************************************************)
(* For every set of processes: the types of SpawnLock, and that the lock   *)
(* neither makes everybody leave without a spawner nor stays behind.       *)
(*                                                                         *)
(* The argument: Tried(q) - q forked, holds a file it created, or died -   *)
(* is stable.  The file on the path was created by a process that tried    *)
(* (or is the leftover), so whoever yields to it yields to one that tried; *)
(* and who comes round the loop again finds a file only if another process *)
(* created it after the leftover was gone.                                 *)
(***************************************************************************)
EXTENDS SpawnLock, TLAPS

Tried(q) == q \in spawned \/ pc[q] \in {"writePid", "spawn", "crashed"}

\* What each process's program counter says about the two sets.
ProcInv ==
    \A p \in Procs :
        /\ p \in spawned => pc[p] \in {"release", "done", "crashed"}
        /\ p \in written => pc[p] \in {"spawn", "release", "done", "crashed"}
        /\ pc[p] = "release" => p \in spawned

\* What the path can name.
FileInv ==
    /\ lockFile \in Procs => pc[lockFile] \in {"writePid", "spawn", "release", "crashed"}
    /\ \A p \in Procs : pc[p] = "done" \/ attempt[p] > 1 => lockFile # Leftover

\* A process in its second round met somebody else's file.
RoundInv ==
    \A p \in Procs :
        pc[p] \in {"classify", "reclaim"} /\ attempt[p] > 1 => \E q \in Procs : Tried(q)

IInv == TypeOK /\ ProcInv /\ FileInv /\ RoundInv /\ YieldsToASpawner

-----------------------------------------------------------------------------
\* The initial states satisfy the invariant.
LEMMA InitIInv == Init => IInv
  BY SpawnLockAssumption
  DEF Init, IInv, TypeOK, ProcInv, FileInv, RoundInv, YieldsToASpawner, Pcs

\* Having tried is for ever.
LEMMA TriedStable ==
    ASSUME TypeOK, ProcInv, [Next]_vars, NEW q \in Procs, Tried(q)
    PROVE  Tried(q)'
<1>1. CASE UNCHANGED vars
  BY <1>1 DEF vars, Tried
<1>2. ASSUME NEW p \in Procs, Step(p) \/ Crash(p) PROVE Tried(q)'
  BY <1>2 DEF TypeOK, ProcInv, Tried, Step, Goto, Create, Yield, Stale, Reclaim,
              WritePid, Spawn, Release, Crash, Running
<1> QED BY <1>1, <1>2 DEF Next

\* Every step preserves the types.
LEMMA TypeStep == TypeOK /\ [Next]_vars => TypeOK'
<1> SUFFICES ASSUME TypeOK, [Next]_vars PROVE TypeOK'
  OBVIOUS
<1> USE SpawnLockAssumption DEF TypeOK, Pcs, Goto
<1>1. CASE UNCHANGED vars
  BY <1>1 DEF vars
<1>2. ASSUME NEW p \in Procs, Step(p) \/ Crash(p) PROVE TypeOK'
  <2>1. CASE Create(p)    BY <2>1 DEF Create
  <2>2. CASE Yield(p)     BY <2>2 DEF Yield
  <2>3. CASE Stale(p)     BY <2>3 DEF Stale
  <2>4. CASE Reclaim(p)   BY <2>4 DEF Reclaim, MayRetry
  <2>5. CASE WritePid(p)  BY <2>5 DEF WritePid
  <2>6. CASE Spawn(p)     BY <2>6 DEF Spawn
  <2>7. CASE Release(p)   BY <2>7 DEF Release
  <2>8. CASE Crash(p)     BY <2>8 DEF Crash
  <2> QED BY <1>2, <2>1, <2>2, <2>3, <2>4, <2>5, <2>6, <2>7, <2>8 DEF Step
<1> QED BY <1>1, <1>2 DEF Next

\* Every step preserves what the program counters say.
LEMMA ProcStep == TypeOK /\ ProcInv /\ [Next]_vars => ProcInv'
<1> SUFFICES ASSUME TypeOK, ProcInv, [Next]_vars PROVE ProcInv'
  OBVIOUS
<1> USE DEF TypeOK, ProcInv, Goto
<1>1. CASE UNCHANGED vars
  BY <1>1 DEF vars
<1>2. ASSUME NEW p \in Procs, Step(p) \/ Crash(p) PROVE ProcInv'
  <2>1. CASE Create(p)    BY <2>1 DEF Create
  <2>2. CASE Yield(p)     BY <2>2 DEF Yield
  <2>3. CASE Stale(p)     BY <2>3 DEF Stale
  <2>4. CASE Reclaim(p)   BY <2>4 DEF Reclaim
  <2>5. CASE WritePid(p)  BY <2>5 DEF WritePid
  <2>6. CASE Spawn(p)     BY <2>6 DEF Spawn
  <2>7. CASE Release(p)   BY <2>7 DEF Release
  <2>8. CASE Crash(p)     BY <2>8 DEF Crash
  <2> QED BY <1>2, <2>1, <2>2, <2>3, <2>4, <2>5, <2>6, <2>7, <2>8 DEF Step
<1> QED BY <1>1, <1>2 DEF Next

\* Every step preserves what the path can name.
LEMMA FileStep == TypeOK /\ FileInv /\ [Next]_vars => FileInv'
<1> SUFFICES ASSUME TypeOK, FileInv, [Next]_vars PROVE FileInv'
  OBVIOUS
<1> USE SpawnLockAssumption DEF TypeOK, FileInv, Goto
<1>1. CASE UNCHANGED vars
  BY <1>1 DEF vars
<1>2. ASSUME NEW p \in Procs, Step(p) \/ Crash(p) PROVE FileInv'
  <2>1. CASE Create(p)    BY <2>1 DEF Create
  <2>2. CASE Yield(p)     BY <2>2 DEF Yield, isLockStale, LiveHolder
  <2>3. CASE Stale(p)     BY <2>3 DEF Stale
  <2>4. CASE Reclaim(p)   BY <2>4 DEF Reclaim, MayRetry
  <2>5. CASE WritePid(p)  BY <2>5 DEF WritePid
  <2>6. CASE Spawn(p)     BY <2>6 DEF Spawn
  <2>7. CASE Release(p)   BY <2>7 DEF Release
  <2>8. CASE Crash(p)     BY <2>8 DEF Crash
  <2> QED BY <1>2, <2>1, <2>2, <2>3, <2>4, <2>5, <2>6, <2>7, <2>8 DEF Step
<1> QED BY <1>1, <1>2 DEF Next

\* The file's creator has tried.
LEMMA CreatorTried ==
    ASSUME ProcInv, FileInv, lockFile \in Procs
    PROVE  Tried(lockFile)
  BY DEF ProcInv, FileInv, Tried

\* A process that meets a file in its second round met a creator.
LEMMA RoundStep ==
    IInv /\ [Next]_vars => RoundInv'
<1> SUFFICES ASSUME IInv, [Next]_vars PROVE RoundInv'
  OBVIOUS
<1> USE SpawnLockAssumption DEF IInv
<1>1. SUFFICES ASSUME NEW p \in Procs,
                      pc'[p] \in {"classify", "reclaim"}, attempt'[p] > 1
               PROVE  \E q \in Procs : Tried(q)'
  BY DEF RoundInv
<1>2. SUFFICES \E q \in Procs : Tried(q)
  BY TriedStable
<1>3. CASE pc[p] \in {"classify", "reclaim"} /\ attempt[p] > 1
  BY <1>3 DEF RoundInv
<1>4. CASE ~(pc[p] \in {"classify", "reclaim"} /\ attempt[p] > 1)
  <2>1. Create(p) /\ attempt[p] > 1
    BY <1>1, <1>4 DEF TypeOK, Next, vars, Step, Goto, Create, Yield, Stale, Reclaim,
       WritePid, Spawn, Release, Crash
  <2>2. lockFile \in Procs
    BY <1>1, <2>1 DEF Create, TypeOK, FileInv, Goto
  <2> QED BY <2>2, CreatorTried
<1> QED BY <1>3, <1>4

\* Whoever leaves without having spawned leaves somebody behind.
LEMMA YieldStep ==
    IInv /\ [Next]_vars => YieldsToASpawner'
<1> SUFFICES ASSUME IInv, [Next]_vars,
                    NEW p \in Procs, pc'[p] = "done", p \notin spawned'
             PROVE  \E q \in Procs \ {p} : Tried(q)'
  BY DEF YieldsToASpawner, Tried
<1> USE DEF IInv
<1>1. SUFFICES \E q \in Procs \ {p} : Tried(q)
  BY TriedStable
<1>2. CASE pc[p] = "done" /\ p \notin spawned
  BY <1>2 DEF YieldsToASpawner, Tried
<1>3. CASE ~(pc[p] = "done" /\ p \notin spawned)
  <2>1. Yield(p) \/ (Reclaim(p) /\ ~MayRetry(p))
    BY <1>3 DEF TypeOK, ProcInv, Next, vars, Step, Goto, Create, Yield, Stale, Reclaim,
       WritePid, Spawn, Release, Crash
  <2>2. p \notin spawned /\ ~Tried(p)
    BY <2>1 DEF Yield, Reclaim, ProcInv, Tried
  <2>3. \E q \in Procs : Tried(q)
    <3>1. CASE Yield(p)
      BY <3>1, CreatorTried DEF Yield, isLockStale, LiveHolder, TypeOK
    <3>2. CASE Reclaim(p) /\ ~MayRetry(p)
      BY <3>2, SpawnLockAssumption DEF Reclaim, MayRetry, RoundInv, TypeOK
    <3> QED BY <2>1, <3>1, <3>2
  <2> QED BY <2>2, <2>3
<1> QED BY <1>2, <1>3

\* The inductive step.
LEMMA NextIInv == IInv /\ [Next]_vars => IInv'
  BY TypeStep, ProcStep, FileStep, RoundStep, YieldStep DEF IInv

\* The invariant holds of every reachable state.
THEOREM Inductive == Spec => []IInv
  BY InitIInv, NextIInv, PTL DEF Spec

\* AcquireLock's loop stays within its attempts and the lock path names one
\* of the files the code creates.
THEOREM TypeCorrect == Spec => []TypeOK
<1>1. IInv => TypeOK
  BY DEF IInv
<1> QED BY <1>1, Inductive, PTL

\* EnsureDaemon never leaves everybody without a spawner, for any number of
\* hook processes.
THEOREM SomebodySpawns == Spec => []YieldsToASpawner
<1>1. IInv => YieldsToASpawner
  BY DEF IInv
<1> QED BY <1>1, Inductive, PTL

\* Without a crash the lock file is gone when everybody has returned.
THEOREM LockIsFreed == Spec => []FreeWhenAllReturned
<1>1. IInv => FreeWhenAllReturned
  BY SpawnLockAssumption DEF IInv, TypeOK, FileInv, FreeWhenAllReturned
<1> QED BY <1>1, Inductive, PTL
=============================================================================
