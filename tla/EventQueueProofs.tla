-------------------------- MODULE EventQueueProofs --------------------------
(***************************************************************************)
(* For any hooks and daemons, any rotation threshold and any number of     *)
(* files: the file-based queue implements QueueContract.  No line is       *)
(* replayed twice, whatever daemons boot, overlap and die, and a line that *)
(* left the queue does not come back.                                      *)
(*                                                                         *)
(* The argument: the names that lines are drained from denote different    *)
(* files (NamesInv), a line is in one file at most (LineInv), and so the   *)
(* replay of a line takes it out of the queue for good (ReplayInv).  That  *)
(* events disappear only in known steps needs in addition that an answer   *)
(* tells the truth about the table (AnswerInv).                            *)
(* At the end, what the guards of a hook do besides.                       *)
(***************************************************************************)
EXTENDS EventQueue, Sequences, Decisions, FiniteSetTheorems, WellFoundedInduction, TLAPS

\* The files of the queue are different files, all created before.
NamesInv ==
    /\ pending < nextInode /\ backup < nextInode
    /\ \A h \in Hooks : fd[h] < nextInode
    /\ \A d \in Daemons : drain[d] < nextInode
    /\ pending # 0 => pending # backup
    /\ \A d \in Daemons :
         /\ drain[d] # 0 <=> daemonPc[d] = "scanning"
         /\ drain[d] # 0 => drain[d] # pending /\ drain[d] # backup
         /\ \A o \in Daemons : drain[d] # 0 /\ drain[o] = drain[d] => o = d

\* A line is written once, into one file that exists.
LineInv ==
    /\ \A i \in Inodes : i = 0 \/ i >= nextInode => file[i] = {}
    /\ \A h \in Hooks :
         /\ hookPc[h] = "write" => fd[h] # 0
         /\ h \in overflow => hookPc[h] \in {"ensure", "done"}
         /\ \A i \in Inodes : h \in file[i] =>
                /\ hookPc[h] \in {"ensure", "done"} /\ h \notin overflow
                /\ \A j \in Inodes : h \in file[j] => j = i

\* Membership in Queued, for one event.
Awaited(h) ==
    \/ h \in file[pending] \/ h \in file[backup] \/ h \in overflow
    \/ \E d \in Daemons : daemonPc[d] = "scanning" /\ h \in file[drain[d]] /\ h \notin scanned[d]

ReplayInv ==
    \A h \in Hooks : replays[h] # 0 => hookPc[h] \in {"ensure", "done"} /\ ~Awaited(h)

IInv == TypeOK /\ NamesInv /\ LineInv /\ ReplayInv

-----------------------------------------------------------------------------
\* Queued consists of the awaited events.
LEMMA QueuedAwaited == TypeOK => Queued = {h \in Hooks : Awaited(h)}
<1> SUFFICES ASSUME TypeOK PROVE Queued = {h \in Hooks : Awaited(h)}
  OBVIOUS
<1>1. ASSUME NEW h PROVE h \in Queued <=> h \in Hooks /\ Awaited(h)
  <2>1. h \in UNION {ToScan(d) : d \in Daemons} <=> \E d \in Daemons : h \in ToScan(d)
    OBVIOUS
  <2>2. \A d \in Daemons : h \in ToScan(d) <=>
            daemonPc[d] = "scanning" /\ h \in file[drain[d]] /\ h \notin scanned[d]
    BY DEF ToScan
  <2>3. /\ \A i \in Inodes : file[i] \subseteq Hooks
        /\ pending \in Inodes /\ backup \in Inodes /\ overflow \subseteq Hooks
        /\ \A d \in Daemons : drain[d] \in Inodes
    BY DEF TypeOK
  <2> QED BY <2>1, <2>2, <2>3 DEF Queued, Awaited
<1> QED BY <1>1

LEMMA QueuedAwaitedNext == TypeOK' => (Queued = {h \in Hooks : Awaited(h)})'
  BY QueuedAwaited, PTL

\* Both rows a step can record are rows.
LEMMA RowTypes ==
    ASSUME NEW h \in Hooks
    PROVE  TrackParams(h) \in Row /\ UnmarshalTrackParams(pendingEnvelope(h)) \in Row
<1>1. TrackParams(h) \in Row
  <2>1. DOMAIN TrackParams(h) = TrackFields
    BY DEF TrackParams, TrackFields
  <2>2. TrackParams(h) = [k \in TrackFields |-> TrackParams(h)[k]]
    BY <2>1 DEF TrackParams, TrackFields
  <2>3. \A k \in TrackFields : TrackParams(h)[k] \in Hooks \cup {"now", ""}
    <3>1. TrackParams(h)["ts"] = "now" /\ TrackParams(h)["source"] = h
      BY DEF TrackParams
    <3> QED BY <3>1 DEF TrackFields
  <2> QED BY <2>2, <2>3 DEF Row
<1>2. "ts" \notin DOMAIN pendingEnvelope(h) /\ "source" \notin DOMAIN pendingEnvelope(h)
  BY DEF pendingEnvelope
<1>3. UnmarshalTrackParams(pendingEnvelope(h)) = [k \in TrackFields |-> ""]
  BY <1>2 DEF UnmarshalTrackParams, TrackFields
<1> QED BY <1>1, <1>3 DEF Row

\* Initially there are no files.
LEMMA InitIInv == Init => IInv
<1> SUFFICES ASSUME Init PROVE IInv
  OBVIOUS
<1> USE EventQueueAssumption
<1>1. TypeOK
  BY DEF Init, TypeOK, HookPcs, DaemonPcs, Inodes
<1>2. NamesInv
  BY DEF Init, NamesInv
<1>3. LineInv
  BY DEF Init, LineInv, Inodes
<1>4. ReplayInv
  BY DEF Init, ReplayInv
<1> QED BY <1>1, <1>2, <1>3, <1>4 DEF IInv

\* Every step preserves the types.
LEMMA TypeStep == TypeOK /\ [Next]_vars => TypeOK'
<1> SUFFICES ASSUME TypeOK, [Next]_vars PROVE TypeOK'
  OBVIOUS
<1> USE EventQueueAssumption
    DEF TypeOK, HookPcs, DaemonPcs, Inodes, hookVars, fileVars, daemonVars, tableVars
<1>1. CASE UNCHANGED vars
  BY <1>1 DEF vars
<1>2. ASSUME NEW h \in Hooks, HookStep(h) PROVE TypeOK'
  <2>1. CASE Send(h)
    BY <2>1 DEF Send
  <2>2. CASE DialFails(h)
    BY <2>2 DEF DialFails, Fallback
  <2>3. CASE Reply(h)
    BY <2>3 DEF Reply, Fallback
  <2>4. CASE Timeout(h)
    BY <2>4 DEF Timeout, Fallback
  <2>5. CASE AppendOverflow(h)
    BY <2>5 DEF AppendOverflow
  <2>6. CASE StatPending(h)
    BY <2>6 DEF StatPending
  <2>7. CASE RotatePending(h)
    <3>1. backup' \in Inodes /\ pending' \in Inodes
      BY <2>7 DEF RotatePending
    <3>2. hookPc' \in [Hooks -> HookPcs]
      BY <2>7 DEF RotatePending
    <3> QED BY <2>7, <3>1, <3>2 DEF RotatePending
  <2>8. CASE OpenPending(h)
    <3>1. fd' \in [Hooks -> Inodes] /\ pending' \in Inodes /\ nextInode' \in 1 .. MaxInode + 1
      <4>1. CASE pending # 0 /\ fd' = [fd EXCEPT ![h] = pending] /\ UNCHANGED <<nextInode, pending>>
        BY <4>1
      <4>2. CASE /\ nextInode <= MaxInode /\ fd' = [fd EXCEPT ![h] = nextInode]
                 /\ pending' = nextInode /\ nextInode' = nextInode + 1
        <5>1. nextInode \in Inodes /\ nextInode + 1 \in 1 .. MaxInode + 1
          BY <4>2
        <5> QED BY <4>2, <5>1
      <4> QED BY <2>8, <4>1, <4>2 DEF OpenPending
    <3>2. hookPc' \in [Hooks -> HookPcs]
      BY <2>8 DEF OpenPending
    <3> QED BY <2>8, <3>1, <3>2 DEF OpenPending
  <2>9. CASE WritePending(h)
    BY <2>9 DEF WritePending
  <2>10. CASE EnsureDaemon(h)
    BY <2>10 DEF EnsureDaemon
  <2> QED BY <1>2, <2>1, <2>2, <2>3, <2>4, <2>5, <2>6, <2>7, <2>8, <2>9, <2>10 DEF HookStep
<1>3. ASSUME NEW d \in Daemons, DaemonStep(d) \/ Boot(d) \/ Cleanup(d) \/ Exit(d) PROVE TypeOK'
  <2>1. CASE DrainRename(d)
    <3>1. drain' \in [Daemons -> Inodes] /\ pending' \in Inodes
      BY <2>1 DEF DrainRename, Claim
    <3>2. daemonPc' \in [Daemons -> DaemonPcs]
      BY <2>1 DEF DrainRename
    <3> QED BY <2>1, <3>1, <3>2 DEF DrainRename
  <2>2. CASE DrainLine(d)
    BY <2>2, RowTypes DEF DrainLine
  <2>3. CASE DrainDone(d)
    BY <2>3 DEF DrainDone
  <2>4. CASE Boot(d)
    BY <2>4 DEF Boot
  <2>5. CASE Cleanup(d)
    BY <2>5 DEF Cleanup
  <2>6. CASE Exit(d)
    BY <2>6 DEF Exit
  <2>7. ASSUME NEW h \in Hooks, HandleTrack(d, h) PROVE TypeOK'
    BY <2>7, RowTypes DEF HandleTrack, Answer
  <2> QED BY <1>3, <2>1, <2>2, <2>3, <2>4, <2>5, <2>6, <2>7 DEF DaemonStep
<1> QED BY <1>1, <1>2, <1>3 DEF Next

\* Every step keeps the names apart.
LEMMA NamesStep == TypeOK /\ NamesInv /\ [Next]_vars => NamesInv'
<1> SUFFICES ASSUME TypeOK, NamesInv, [Next]_vars PROVE NamesInv'
  OBVIOUS
<1> USE EventQueueAssumption
    DEF TypeOK, NamesInv, Inodes, hookVars, fileVars, daemonVars, tableVars
<1>1. CASE UNCHANGED vars
  BY <1>1 DEF vars
<1>2. ASSUME NEW h \in Hooks, HookStep(h) PROVE NamesInv'
  <2>1. CASE Send(h)
    BY <2>1 DEF Send
  <2>2. CASE DialFails(h)
    BY <2>2 DEF DialFails, Fallback
  <2>3. CASE Reply(h)
    BY <2>3 DEF Reply, Fallback
  <2>4. CASE Timeout(h)
    BY <2>4 DEF Timeout, Fallback
  <2>5. CASE AppendOverflow(h)
    BY <2>5 DEF AppendOverflow
  <2>6. CASE StatPending(h)
    BY <2>6 DEF StatPending
  <2>7. CASE RotatePending(h)
    BY <2>7 DEF RotatePending
  <2>8. CASE OpenPending(h)
    <3>1. CASE pending # 0 /\ fd' = [fd EXCEPT ![h] = pending] /\ UNCHANGED <<nextInode, pending>>
      BY <2>8, <3>1 DEF OpenPending
    <3>2. CASE /\ pending = 0 /\ fd' = [fd EXCEPT ![h] = nextInode]
               /\ pending' = nextInode /\ nextInode' = nextInode + 1
      BY <2>8, <3>2 DEF OpenPending
    <3> QED BY <2>8, <3>1, <3>2 DEF OpenPending
  <2>9. CASE WritePending(h)
    BY <2>9 DEF WritePending
  <2>10. CASE EnsureDaemon(h)
    BY <2>10 DEF EnsureDaemon
  <2> QED BY <1>2, <2>1, <2>2, <2>3, <2>4, <2>5, <2>6, <2>7, <2>8, <2>9, <2>10 DEF HookStep
<1>3. ASSUME NEW d \in Daemons, DaemonStep(d) \/ Boot(d) \/ Cleanup(d) \/ Exit(d) PROVE NamesInv'
  <2>1. CASE DrainRename(d)
    <3>1. CASE /\ pending # 0 /\ Claim(d) /\ daemonPc' = [daemonPc EXCEPT ![d] = "scanning"]
      BY <2>1, <3>1 DEF DrainRename, Claim
    <3>2. CASE /\ daemonPc' = [daemonPc EXCEPT ![d] = "serving"] /\ UNCHANGED <<drain, pending>>
      BY <2>1, <3>2 DEF DrainRename
    <3> QED BY <2>1, <3>1, <3>2 DEF DrainRename
  <2>2. CASE DrainLine(d)
    BY <2>2 DEF DrainLine
  <2>3. CASE DrainDone(d)
    BY <2>3 DEF DrainDone
  <2>4. CASE Boot(d)
    BY <2>4 DEF Boot
  <2>5. CASE Cleanup(d)
    BY <2>5 DEF Cleanup
  <2>6. CASE Exit(d)
    BY <2>6 DEF Exit
  <2>7. ASSUME NEW h \in Hooks, HandleTrack(d, h) PROVE NamesInv'
    BY <2>7 DEF HandleTrack, Answer
  <2> QED BY <1>3, <2>1, <2>2, <2>3, <2>4, <2>5, <2>6, <2>7 DEF DaemonStep
<1> QED BY <1>1, <1>2, <1>3 DEF Next

\* Every step keeps each line in one file.
LEMMA LineStep == TypeOK /\ NamesInv /\ LineInv /\ [Next]_vars => LineInv'
<1> SUFFICES ASSUME TypeOK, NamesInv, LineInv, [Next]_vars PROVE LineInv'
  OBVIOUS
<1> USE EventQueueAssumption
    DEF TypeOK, NamesInv, LineInv, Inodes, hookVars, fileVars, daemonVars, tableVars
<1>1. CASE UNCHANGED vars
  BY <1>1 DEF vars
<1>2. ASSUME NEW h \in Hooks, HookStep(h) PROVE LineInv'
  <2>1. CASE Send(h)
    BY <2>1 DEF Send
  <2>2. CASE DialFails(h)
    BY <2>2 DEF DialFails, Fallback
  <2>3. CASE Reply(h)
    BY <2>3 DEF Reply, Fallback
  <2>4. CASE Timeout(h)
    BY <2>4 DEF Timeout, Fallback
  <2>5. CASE AppendOverflow(h)
    BY <2>5 DEF AppendOverflow
  <2>6. CASE StatPending(h)
    BY <2>6 DEF StatPending
  <2>7. CASE RotatePending(h)
    BY <2>7 DEF RotatePending
  <2>8. CASE OpenPending(h)
    BY <2>8 DEF OpenPending
  <2>9. CASE WritePending(h)
    BY <2>9 DEF WritePending
  <2>10. CASE EnsureDaemon(h)
    BY <2>10 DEF EnsureDaemon
  <2> QED BY <1>2, <2>1, <2>2, <2>3, <2>4, <2>5, <2>6, <2>7, <2>8, <2>9, <2>10 DEF HookStep
<1>3. ASSUME NEW d \in Daemons, DaemonStep(d) \/ Boot(d) \/ Cleanup(d) \/ Exit(d) PROVE LineInv'
  <2>1. CASE DrainRename(d)
    BY <2>1 DEF DrainRename, Claim
  <2>2. CASE DrainLine(d)
    BY <2>2 DEF DrainLine
  <2>3. CASE DrainDone(d)
    BY <2>3 DEF DrainDone
  <2>4. CASE Boot(d)
    BY <2>4 DEF Boot
  <2>5. CASE Cleanup(d)
    BY <2>5 DEF Cleanup
  <2>6. CASE Exit(d)
    BY <2>6 DEF Exit
  <2>7. ASSUME NEW h \in Hooks, HandleTrack(d, h) PROVE LineInv'
    BY <2>7 DEF HandleTrack, Answer
  <2> QED BY <1>3, <2>1, <2>2, <2>3, <2>4, <2>5, <2>6, <2>7 DEF DaemonStep
<1> QED BY <1>1, <1>2, <1>3 DEF Next

\* What a step does to the queue: events leave it unreplayed, or one that was
\* never in it enters, or one is replayed and leaves.
Shrinks ==
    /\ replays' = replays
    /\ \A g \in Hooks : Awaited(g)' => Awaited(g)

Enters(h) ==
    /\ hookPc[h] \in {"stat", "write"} /\ hookPc'[h] = "ensure"
    /\ replays' = replays
    /\ ~Awaited(h)
    /\ \A g \in Hooks \ {h} : Awaited(g)' <=> Awaited(g)

IsReplayed(h) ==
    /\ hookPc' = hookPc
    /\ replays' = [replays EXCEPT ![h] = @ + 1]
    /\ Awaited(h) /\ ~Awaited(h)'
    /\ \A g \in Hooks \ {h} : Awaited(g)' <=> Awaited(g)

Outcome == Shrinks \/ \E h \in Hooks : Enters(h) \/ IsReplayed(h)

\* Every step is one of these.
LEMMA QueueStep == TypeOK /\ NamesInv /\ LineInv /\ [Next]_vars => Outcome
<1> SUFFICES ASSUME TypeOK, NamesInv, LineInv, [Next]_vars PROVE Outcome
  OBVIOUS
<1> USE EventQueueAssumption
    DEF TypeOK, NamesInv, LineInv, Awaited, Inodes, hookVars, fileVars, daemonVars, tableVars
<1>same. ASSUME /\ file' = file /\ pending' = pending /\ backup' = backup /\ overflow' = overflow
                /\ drain' = drain /\ scanned' = scanned /\ replays' = replays
                /\ \A d \in Daemons : daemonPc'[d] = "scanning" => daemonPc[d] = "scanning"
         PROVE  Outcome
  BY <1>same DEF Outcome, Shrinks
<1>1. CASE UNCHANGED vars
  BY <1>1, <1>same DEF vars
<1>2. ASSUME NEW h \in Hooks, HookStep(h) PROVE Outcome
  <2>1. CASE Send(h)
    BY <2>1, <1>same DEF Send
  <2>2. CASE DialFails(h)
    BY <2>2, <1>same DEF DialFails, Fallback
  <2>3. CASE Reply(h)
    BY <2>3, <1>same DEF Reply, Fallback
  <2>4. CASE Timeout(h)
    BY <2>4, <1>same DEF Timeout, Fallback
  <2>5. CASE AppendOverflow(h)
    <3>1. Enters(h)
      BY <2>5 DEF AppendOverflow, Enters
    <3> QED BY <3>1 DEF Outcome
  <2>6. CASE StatPending(h)
    BY <2>6, <1>same DEF StatPending
  <2>7. CASE RotatePending(h)
    <3>1. Shrinks
      BY <2>7 DEF RotatePending, Shrinks
    <3> QED BY <3>1 DEF Outcome
  <2>8. CASE OpenPending(h)
    <3>1. Shrinks
      BY <2>8 DEF OpenPending, Shrinks
    <3> QED BY <3>1 DEF Outcome
  <2>9. CASE WritePending(h)
    <3>1. hookPc[h] = "write" /\ hookPc'[h] = "ensure" /\ replays' = replays /\ ~Awaited(h)
      BY <2>9 DEF WritePending
    <3>2. \A g \in Hooks \ {h}, i \in Inodes : g \in file'[i] <=> g \in file[i]
      BY <2>9 DEF WritePending
    <3>3. /\ pending' = pending /\ backup' = backup /\ overflow' = overflow
          /\ daemonPc' = daemonPc /\ drain' = drain /\ scanned' = scanned
      BY <2>9 DEF WritePending
    <3>4. Enters(h)
      BY <3>1, <3>2, <3>3 DEF Enters
    <3> QED BY <3>4 DEF Outcome
  <2>10. CASE EnsureDaemon(h)
    <3>1. Shrinks
      BY <2>10 DEF EnsureDaemon, Shrinks
    <3> QED BY <3>1 DEF Outcome
  <2> QED BY <1>2, <2>1, <2>2, <2>3, <2>4, <2>5, <2>6, <2>7, <2>8, <2>9, <2>10 DEF HookStep
<1>3. ASSUME NEW d \in Daemons, DaemonStep(d) \/ Boot(d) \/ Cleanup(d) \/ Exit(d) PROVE Outcome
  <2>1. CASE DrainRename(d)
    <3>1. Shrinks
      <4>1. CASE pending # 0 /\ Claim(d) /\ daemonPc' = [daemonPc EXCEPT ![d] = "scanning"]
        <5>1. /\ file' = file /\ backup' = backup /\ overflow' = overflow /\ scanned' = scanned
              /\ replays' = replays
          BY <2>1 DEF DrainRename
        <5>2. /\ pending' = 0 /\ file[0] = {} /\ drain'[d] = pending
              /\ \A o \in Daemons \ {d} : drain'[o] = drain[o] /\ daemonPc'[o] = daemonPc[o]
          BY <4>1 DEF Claim
        <5> QED BY <5>1, <5>2 DEF Shrinks
      <4>2. CASE daemonPc' = [daemonPc EXCEPT ![d] = "serving"] /\ UNCHANGED <<drain, pending>>
        BY <2>1, <4>2 DEF DrainRename, Shrinks
      <4> QED BY <2>1, <4>1, <4>2 DEF DrainRename
    <3> QED BY <3>1 DEF Outcome
  <2>2. CASE DrainLine(d)
    <3>1. PICK h \in file[drain[d]] \ scanned[d] :
            /\ scanned' = [scanned EXCEPT ![d] = @ \cup {h}]
            /\ \/ replays' = [replays EXCEPT ![h] = @ + 1]
               \/ replays' = replays
      BY <2>2 DEF DrainLine
    <3>2. h \in Hooks /\ daemonPc[d] = "scanning" /\ Awaited(h)
      BY <2>2, <3>1 DEF DrainLine
    <3>3. /\ hookPc' = hookPc /\ file' = file /\ pending' = pending /\ backup' = backup
          /\ overflow' = overflow /\ daemonPc' = daemonPc /\ drain' = drain
      BY <2>2 DEF DrainLine
    <3>4. ~Awaited(h)'
      <4>1. h \notin file[pending] /\ h \notin file[backup] /\ h \notin overflow
        BY <3>1, <3>2
      <4>2. \A o \in Daemons : daemonPc[o] = "scanning" /\ h \in file[drain[o]] => o = d
        BY <3>1, <3>2
      <4> QED BY <3>1, <3>3, <4>1, <4>2
    <3>5. \A g \in Hooks \ {h} : Awaited(g)' <=> Awaited(g)
      BY <3>1, <3>3
    <3>6. CASE replays' = [replays EXCEPT ![h] = @ + 1]
      BY <3>2, <3>3, <3>4, <3>5, <3>6 DEF Outcome, IsReplayed
    <3>7. CASE replays' = replays
      <4> HIDE DEF Awaited
      <4> QED BY <3>2, <3>4, <3>5, <3>7 DEF Outcome, Shrinks
    <3> QED BY <3>1, <3>6, <3>7
  <2>3. CASE DrainDone(d)
    <3>1. Shrinks
      BY <2>3 DEF DrainDone, Shrinks
    <3> QED BY <3>1 DEF Outcome
  <2>4. CASE Boot(d)
    BY <2>4, <1>same DEF Boot
  <2>5. CASE Cleanup(d)
    BY <2>5, <1>same DEF Cleanup
  <2>6. CASE Exit(d)
    <3>1. Shrinks
      BY <2>6 DEF Exit, Shrinks
    <3> QED BY <3>1 DEF Outcome
  <2>7. ASSUME NEW h \in Hooks, HandleTrack(d, h) PROVE Outcome
    BY <2>7, <1>same DEF HandleTrack, Answer
  <2> QED BY <1>3, <2>1, <2>2, <2>3, <2>4, <2>5, <2>6, <2>7 DEF DaemonStep
<1> QED BY <1>1, <1>2, <1>3 DEF Next

\* A hook that has returned from the append does not come back to it.
LEMMA FinishedStep ==
    ASSUME TypeOK, [Next]_vars, NEW h \in Hooks, hookPc[h] \in {"ensure", "done"}
    PROVE  hookPc'[h] \in {"ensure", "done"}
<1> USE DEF TypeOK, hookVars
<1>1. CASE UNCHANGED vars
  BY <1>1 DEF vars
<1>2. ASSUME NEW g \in Hooks, HookStep(g) PROVE hookPc'[h] \in {"ensure", "done"}
  BY <1>2 DEF HookStep, Send, DialFails, Reply, Timeout, Fallback, AppendOverflow, StatPending,
              RotatePending, OpenPending, WritePending, EnsureDaemon
<1>3. ASSUME NEW d \in Daemons, DaemonStep(d) \/ Boot(d) \/ Cleanup(d) \/ Exit(d)
      PROVE  hookPc'[h] \in {"ensure", "done"}
  BY <1>3 DEF DaemonStep, DrainRename, DrainLine, DrainDone, HandleTrack, Boot, Cleanup, Exit
<1> QED BY <1>1, <1>2, <1>3 DEF Next

\* A line is in the queue only when its hook has returned from the append.
LEMMA AwaitedFinished ==
    ASSUME TypeOK, LineInv, NEW h \in Hooks, Awaited(h)
    PROVE  hookPc[h] \in {"ensure", "done"}
  BY DEF TypeOK, LineInv, Awaited

\* Every step keeps replayed lines out of the queue.
LEMMA ReplayStep ==
    TypeOK /\ NamesInv /\ LineInv /\ ReplayInv /\ [Next]_vars => ReplayInv'
<1> SUFFICES ASSUME TypeOK, NamesInv, LineInv, ReplayInv, [Next]_vars, NEW g \in Hooks, replays'[g] # 0
             PROVE  hookPc'[g] \in {"ensure", "done"} /\ ~Awaited(g)'
  BY DEF ReplayInv
<1>1. CASE Shrinks
  BY <1>1, FinishedStep DEF Shrinks, ReplayInv
<1>2. ASSUME NEW h \in Hooks, Enters(h) PROVE hookPc'[g] \in {"ensure", "done"} /\ ~Awaited(g)'
  <2>1. g # h
    BY <1>2 DEF Enters, ReplayInv
  <2> QED BY <1>2, <2>1, FinishedStep DEF Enters, ReplayInv
<1>3. ASSUME NEW h \in Hooks, IsReplayed(h) PROVE hookPc'[g] \in {"ensure", "done"} /\ ~Awaited(g)'
  <2>1. CASE g = h
    BY <1>3, <2>1, AwaitedFinished, FinishedStep DEF IsReplayed
  <2>2. CASE g # h
    <3>1. replays[g] # 0
      BY <1>3, <2>2 DEF IsReplayed, TypeOK
    <3> QED BY <1>3, <2>2, <3>1, FinishedStep DEF IsReplayed, ReplayInv
  <2> QED BY <2>1, <2>2
<1> QED BY <1>1, <1>2, <1>3, QueueStep DEF Outcome

\* Every step of the hooks and daemons is a step of the contract, or none.
LEMMA StepRefines ==
    IInv /\ IInv' /\ [Next]_vars => [Contract!Next]_<<Queued, replays>>
<1> SUFFICES ASSUME IInv, IInv', [Next]_vars PROVE [Contract!Next]_<<Queued, replays>>
  OBVIOUS
<1> USE DEF IInv
<1>1. Queued = {h \in Hooks : Awaited(h)} /\ Queued' = {h \in Hooks : Awaited(h)'}
  BY QueuedAwaited, QueuedAwaitedNext
<1>2. CASE Shrinks
  <2>1. Queued' = Queued \ (Queued \ Queued')
    BY <1>1, <1>2 DEF Shrinks
  <2>2. Contract!Lose(Queued \ Queued')
    BY <1>2, <2>1 DEF Contract!Lose, Shrinks
  <2> QED BY <2>2 DEF Contract!Next
<1>3. ASSUME NEW h \in Hooks, Enters(h) PROVE [Contract!Next]_<<Queued, replays>>
  <2>1. h \notin Queued /\ replays[h] = 0
    BY <1>1, <1>3 DEF Enters, ReplayInv
  <2>2. CASE Awaited(h)'
    <3>1. Queued' = Queued \cup {h}
      BY <1>1, <1>3, <2>2 DEF Enters
    <3>2. Contract!Enqueue(h)
      BY <1>3, <2>1, <3>1 DEF Contract!Enqueue, Enters
    <3> QED BY <3>2 DEF Contract!Next
  <2>3. CASE ~Awaited(h)'
    BY <1>1, <1>3, <2>1, <2>3 DEF Enters
  <2> QED BY <2>2, <2>3
<1>4. ASSUME NEW h \in Hooks, IsReplayed(h) PROVE [Contract!Next]_<<Queued, replays>>
  <2>1. h \in Queued /\ replays[h] = 0
    BY <1>1, <1>4 DEF IsReplayed, ReplayInv
  <2>2. Queued' = Queued \ {h}
    BY <1>1, <1>4 DEF IsReplayed
  <2>3. replays' = [replays EXCEPT ![h] = 1]
    BY <1>4, <2>1 DEF IsReplayed, TypeOK
  <2>4. Contract!Replay(h)
    BY <2>1, <2>2, <2>3 DEF Contract!Replay
  <2> QED BY <2>4 DEF Contract!Next
<1> QED BY <1>2, <1>3, <1>4, QueueStep DEF Outcome

-----------------------------------------------------------------------------
\* An answer comes from a daemon that has left its boot, and "ok" from one with
\* a tracker means that the row is there.  Only a scanning daemon has consumed
\* lines.
AnswerInv ==
    /\ \A h \in Hooks :
         /\ call[h] \in Daemons => daemonPc[call[h]] \in {"serving", "dead"}
         /\ response[h] # "none" => hookPc[h] = "sent" /\ call[h] \in Daemons
         /\ response[h] = "ok" /\ tracker[call[h]] => TrackParams(h) \in rows
    /\ \A d \in Daemons : daemonPc[d] # "scanning" => scanned[d] = {}

LEMMA InitAnswer == Init => AnswerInv
  BY EventQueueAssumption DEF Init, AnswerInv

\* Every step keeps answers truthful.
LEMMA AnswerStep == TypeOK /\ AnswerInv /\ [Next]_vars => AnswerInv'
<1> SUFFICES ASSUME TypeOK, AnswerInv, [Next]_vars PROVE AnswerInv'
  OBVIOUS
<1> USE EventQueueAssumption DEF TypeOK, AnswerInv, hookVars, fileVars, daemonVars, tableVars
<1>1. CASE UNCHANGED vars
  BY <1>1 DEF vars
<1>2. ASSUME NEW h \in Hooks, HookStep(h) PROVE AnswerInv'
  <2>1. CASE Send(h)
    BY <2>1 DEF Send
  <2>2. CASE DialFails(h)
    BY <2>2 DEF DialFails, Fallback
  <2>3. CASE Reply(h)
    BY <2>3 DEF Reply, Fallback
  <2>4. CASE Timeout(h)
    BY <2>4 DEF Timeout, Fallback
  <2>5. CASE AppendOverflow(h)
    BY <2>5 DEF AppendOverflow
  <2>6. CASE StatPending(h)
    BY <2>6 DEF StatPending
  <2>7. CASE RotatePending(h)
    BY <2>7 DEF RotatePending
  <2>8. CASE OpenPending(h)
    BY <2>8 DEF OpenPending
  <2>9. CASE WritePending(h)
    BY <2>9 DEF WritePending
  <2>10. CASE EnsureDaemon(h)
    BY <2>10 DEF EnsureDaemon
  <2> QED BY <1>2, <2>1, <2>2, <2>3, <2>4, <2>5, <2>6, <2>7, <2>8, <2>9, <2>10 DEF HookStep
<1>3. ASSUME NEW d \in Daemons, DaemonStep(d) \/ Boot(d) \/ Cleanup(d) \/ Exit(d) PROVE AnswerInv'
  <2>1. CASE DrainRename(d)
    BY <2>1 DEF DrainRename, Claim
  <2>2. CASE DrainLine(d)
    BY <2>2 DEF DrainLine
  <2>3. CASE DrainDone(d)
    BY <2>3 DEF DrainDone
  <2>4. CASE Boot(d)
    BY <2>4 DEF Boot
  <2>5. CASE Cleanup(d)
    <3>1. \A h \in Hooks : TrackParams(h) \in rows => TrackParams(h) \in rows'
      BY <2>5 DEF Cleanup, TrackParams
    <3> QED BY <2>5, <3>1 DEF Cleanup
  <2>6. CASE Exit(d)
    BY <2>6 DEF Exit
  <2>7. ASSUME NEW h \in Hooks, HandleTrack(d, h) PROVE AnswerInv'
    BY <2>7 DEF HandleTrack, Answer
  <2> QED BY <1>3, <2>1, <2>2, <2>3, <2>4, <2>5, <2>6, <2>7 DEF DaemonStep
<1> QED BY <1>1, <1>2, <1>3 DEF Next

\* The steps in which an event may disappear.
MayLose(h) ==
    \/ \E d \in Daemons : daemonPc[d] = "scanning" /\ (DrainLine(d) \/ Exit(d))
    \/ \E g \in Hooks : RotatePending(g)
    \/ WritePending(h) /\ fd[h] \notin {pending, backup}
    \/ Reply(h) /\ ~tracker[call[h]]

\* What an event is lost without.
Kept(h) == Awaited(h) \/ TrackParams(h) \in rows \/ replays[h] # 0

LEMMA LostKept == TypeOK => \A h \in Hooks : Lost(h) <=> hookPc[h] \in {"ensure", "done"} /\ ~Kept(h)
  BY QueuedAwaited DEF Lost, Kept, TypeOK

LEMMA LostKeptNext ==
    TypeOK' => (\A h \in Hooks : Lost(h) <=> hookPc[h] \in {"ensure", "done"} /\ ~Kept(h))'
  BY LostKept, PTL

\* In every other step what is kept stays kept, and a hook that finishes its
\* append leaves the event kept.
LEMMA KeepStep ==
    ASSUME IInv, AnswerInv, [Next]_vars, NEW x \in Hooks, ~MayLose(x)
    PROVE  /\ Kept(x) => Kept(x)'
           /\ hookPc'[x] \in {"ensure", "done"} => hookPc[x] \in {"ensure", "done"} \/ Kept(x)'
<1> DEFINE Stays == Kept(x) => Kept(x)'
           Ends == hookPc'[x] \in {"ensure", "done"} => hookPc[x] \in {"ensure", "done"} \/ Kept(x)'
<1> SUFFICES Stays /\ Ends
  OBVIOUS
<1> USE EventQueueAssumption
    DEF IInv, TypeOK, Inodes, Kept, Awaited, hookVars, fileVars, daemonVars, tableVars
<1>same. ASSUME /\ file' = file /\ pending' = pending /\ backup' = backup /\ overflow' = overflow
                /\ daemonPc' = daemonPc /\ drain' = drain /\ scanned' = scanned
                /\ rows \subseteq rows' /\ replays' = replays
         PROVE  Stays
  BY <1>same
<1>1. CASE UNCHANGED vars
  BY <1>1 DEF vars
<1>2. ASSUME NEW h \in Hooks, HookStep(h) PROVE Stays /\ Ends
  <2>1. CASE Send(h)
    BY <2>1 DEF Send
  <2>2. CASE DialFails(h)
    BY <2>2 DEF DialFails, Fallback
  <2>3. CASE Reply(h)
    <3>1. Stays
      BY <2>3, <1>same DEF Reply
    <3>2. Ends
      <4>1. CASE h = x /\ response[h] = "ok"
        <5>1. tracker[call[h]]
          BY <2>3, <4>1 DEF MayLose
        <5>2. TrackParams(x) \in rows
          BY <4>1, <5>1 DEF AnswerInv
        <5> QED BY <2>3, <5>2 DEF Reply
      <4>2. CASE h = x /\ response[h] # "ok"
        BY <2>3, <4>2 DEF Reply, Fallback
      <4>3. CASE h # x
        BY <2>3, <4>3 DEF Reply, Fallback
      <4> QED BY <4>1, <4>2, <4>3
    <3> QED BY <3>1, <3>2
  <2>4. CASE Timeout(h)
    BY <2>4 DEF Timeout, Fallback
  <2>5. CASE AppendOverflow(h)
    BY <2>5 DEF AppendOverflow
  <2>6. CASE StatPending(h)
    BY <2>6 DEF StatPending
  <2>7. CASE RotatePending(h)
    BY <2>7 DEF MayLose
  <2>8. CASE OpenPending(h)
    <3>1. Ends
      BY <2>8 DEF OpenPending
    <3>2. /\ file' = file /\ backup' = backup /\ overflow' = overflow /\ daemonPc' = daemonPc
          /\ drain' = drain /\ scanned' = scanned /\ rows' = rows /\ replays' = replays
      BY <2>8 DEF OpenPending
    <3>3. CASE pending' = pending
      <4>1. Stays
        BY <1>same, <3>2, <3>3
      <4> QED BY <3>1, <4>1
    <3>4. CASE pending = 0
      <4>1. x \notin file[pending]
        BY <3>4 DEF LineInv
      <4> QED BY <3>1, <3>2, <4>1
    <3> QED BY <2>8, <3>1, <3>3, <3>4 DEF OpenPending
  <2>9. CASE WritePending(h)
    <3>1. /\ pending' = pending /\ backup' = backup /\ overflow' = overflow /\ daemonPc' = daemonPc
          /\ drain' = drain /\ scanned' = scanned /\ rows' = rows /\ replays' = replays
          /\ \A i \in Inodes : file[i] \subseteq file'[i]
      BY <2>9 DEF WritePending
    <3>2. Stays
      BY <3>1
    <3>3. CASE h = x
      <4>1. fd[x] \in {pending, backup}
        BY <2>9, <3>3 DEF MayLose
      <4>2. x \in file'[fd[x]]
        BY <2>9, <3>3 DEF WritePending
      <4> QED BY <3>1, <3>2, <4>1, <4>2
    <3>4. CASE h # x
      BY <2>9, <3>2, <3>4 DEF WritePending
    <3> QED BY <3>3, <3>4
  <2>10. CASE EnsureDaemon(h)
    BY <2>10 DEF EnsureDaemon
  <2> QED BY <1>2, <2>1, <2>2, <2>3, <2>4, <2>5, <2>6, <2>7, <2>8, <2>9, <2>10 DEF HookStep
<1>3. ASSUME NEW d \in Daemons, DaemonStep(d) \/ Boot(d) \/ Cleanup(d) \/ Exit(d) PROVE Stays /\ Ends
  <2>1. CASE DrainRename(d)
    <3>1. /\ file' = file /\ backup' = backup /\ overflow' = overflow /\ scanned' = scanned
          /\ rows' = rows /\ replays' = replays /\ hookPc' = hookPc /\ daemonPc[d] = "booting"
      BY <2>1 DEF DrainRename
    <3>2. \A o \in Daemons \ {d} : drain'[o] = drain[o] /\ daemonPc'[o] = daemonPc[o]
      BY <2>1 DEF DrainRename, Claim
    <3>3. CASE pending # 0 /\ Claim(d) /\ daemonPc' = [daemonPc EXCEPT ![d] = "scanning"]
      <4>1. drain'[d] = pending /\ daemonPc'[d] = "scanning" /\ scanned[d] = {}
        BY <3>1, <3>3 DEF Claim, AnswerInv
      <4> QED BY <3>1, <3>2, <4>1
    <3>4. CASE daemonPc' = [daemonPc EXCEPT ![d] = "serving"] /\ UNCHANGED <<drain, pending>>
      BY <3>1, <3>2, <3>4
    <3> QED BY <2>1, <3>3, <3>4 DEF DrainRename
  <2>2. CASE DrainLine(d)
    BY <2>2 DEF MayLose, DrainLine
  <2>3. CASE DrainDone(d)
    BY <2>3 DEF DrainDone
  <2>4. CASE Boot(d)
    BY <2>4 DEF Boot
  <2>5. CASE Cleanup(d)
    <3>1. TrackParams(x) \in rows => TrackParams(x) \in rows'
      BY <2>5 DEF Cleanup, TrackParams
    <3> QED BY <2>5, <3>1 DEF Cleanup
  <2>6. CASE Exit(d)
    <3>1. daemonPc[d] # "scanning"
      BY <2>6 DEF MayLose
    <3> QED BY <2>6, <3>1 DEF Exit
  <2>7. ASSUME NEW h \in Hooks, HandleTrack(d, h) PROVE Stays /\ Ends
    BY <2>7 DEF HandleTrack, Answer
  <2> QED BY <1>3, <2>1, <2>2, <2>3, <2>4, <2>5, <2>6, <2>7 DEF DaemonStep
<1> QED BY <1>1, <1>2, <1>3 DEF Next

-----------------------------------------------------------------------------
\* The strengthened invariant holds in every reachable state.
THEOREM Inductive == Spec => []IInv
<1>1. IInv /\ [Next]_vars => IInv'
  BY TypeStep, NamesStep, LineStep, ReplayStep DEF IInv
<1> QED BY InitIInv, <1>1, PTL DEF Spec

\* The variables keep their types; in particular only rows with the fields of
\* TrackParams reach the table.
THEOREM TypeCorrect == Spec => []TypeOK
<1>1. IInv => TypeOK
  BY DEF IInv
<1> QED BY <1>1, Inductive, PTL

\* drainPendingEvents and AppendPendingEvent implement the contract: a queued
\* line is replayed at most once, and none is replayed that was not queued.
THEOREM QueueIsCorrect == Spec => RefinesQueueContract
<1>1. Init => Contract!Init
  <2> SUFFICES ASSUME Init PROVE Contract!Init
    OBVIOUS
  <2>1. Queued = {}
    BY EventQueueAssumption DEF Init, Queued, ToScan, Inodes
  <2> QED BY <2>1 DEF Init, Contract!Init
<1>2. IInv /\ IInv' /\ [Next]_vars => [Contract!Next]_<<Queued, replays>>
  BY StepRefines
<1> QED BY <1>1, <1>2, Inductive, PTL DEF Spec, RefinesQueueContract, Contract!Spec

\* Between a failed call and its replay no step makes an event disappear but
\* those that LossOnlyInKnownSteps names, for any hooks and daemons.
THEOREM LossesAreKnown == Spec => LossOnlyInKnownSteps
<1>1. IInv /\ IInv' /\ AnswerInv /\ [Next]_vars =>
          [\A h \in Hooks : ~Lost(h) /\ Lost(h)' =>
              \/ \E d \in Daemons : daemonPc[d] = "scanning" /\ (DrainLine(d) \/ Exit(d))
              \/ \E g \in Hooks : RotatePending(g)
              \/ WritePending(h) /\ fd[h] \notin {pending, backup}
              \/ Reply(h) /\ ~tracker[call[h]]]_vars
  <2> SUFFICES ASSUME IInv, IInv', AnswerInv, [Next]_vars, NEW h \in Hooks, ~Lost(h), Lost(h)'
               PROVE  MayLose(h)
    BY DEF MayLose
  <2>1. hookPc'[h] \in {"ensure", "done"} /\ ~Kept(h)'
    BY LostKeptNext DEF IInv
  <2>2. ~(hookPc[h] \in {"ensure", "done"} /\ ~Kept(h))
    BY LostKept DEF IInv
  <2> QED BY <2>1, <2>2, KeepStep
<1>2. IInv /\ AnswerInv /\ [Next]_vars => AnswerInv'
  BY AnswerStep DEF IInv
<1>3. Spec => []AnswerInv
  BY InitAnswer, <1>2, Inductive, PTL DEF Spec
<1> QED BY <1>1, <1>3, Inductive, PTL DEF Spec, LossOnlyInKnownSteps

-----------------------------------------------------------------------------
(* What hooks do besides: the guards on writes, dispatches, pushes and     *)
(* sessions, and the ledger of what has been said in a session.            *)

\* A set of numbers that is not empty has a least one.
LEMMA LeastNumber ==
    ASSUME NEW T \in SUBSET Nat, T # {}
    PROVE  \E x \in T : \A y \in T : x <= y
<1> DEFINE R == {ss \in Nat \X Nat : ss[1] < ss[2]}
<1>1. IsWellFoundedOn(R, Nat)
  BY NatLessThanWellFounded DEF OpToRel
<1>2. \A x, y \in Nat : <<y, x>> \in R <=> y < x
  OBVIOUS
<1> HIDE DEF R
<1>3. PICK x \in T : \A y \in T : <<y, x>> \notin R
  BY <1>1, WFMin
<1>4. \A y \in T : y \in Nat /\ x \in Nat /\ ~(y < x)
  BY <1>2, <1>3
<1>5. \A y \in T : x <= y
  BY <1>4
<1> QED BY <1>5

Environments(names) ==
    [off : BOOLEAN, disabled : SUBSET names, loggedIn : BOOLEAN, projectDirBound : BOOLEAN, cwd : Nat,
     bound : SUBSET Nat, onPath : BOOLEAN, starts : BOOLEAN, agents : SUBSET names, statusAnswers : BOOLEAN]
Envelopes(names) ==
    [parses : BOOLEAN, tool : names, pushes : BOOLEAN, inits : BOOLEAN, indexable : BOOLEAN, file : names,
     frozen : BOOLEAN, agent : names, session : names]

\* A walk up from a directory that meets a bound one has a first that it meets.
LEMMA DeepestRoot ==
    ASSUME NEW names, NEW e \in Environments(names), Guard!RootsAbove(e) # {}
    PROVE  Guard!Max(Guard!RootsAbove(e)) \in Guard!RootsAbove(e)
<1> DEFINE S == Guard!RootsAbove(e)
           heights == {h \in 0 .. e.cwd : e.cwd - h \in S}
<1>1. e.cwd \in Nat /\ S \subseteq 0 .. e.cwd
  BY DEF Environments, Guard!RootsAbove
<1>2. heights \subseteq Nat /\ heights # {} /\ \A d \in S : e.cwd - d \in heights
  <2>1. \A d \in S : e.cwd - d \in 0 .. e.cwd /\ e.cwd - (e.cwd - d) = d
    BY <1>1
  <2> HIDE DEF S
  <2>2. \A d \in S : e.cwd - d \in heights
    BY <2>1
  <2> QED BY <1>1, <2>2 DEF S
<1> HIDE DEF heights
<1>3. PICK h \in heights : \A k \in heights : h <= k
  BY <1>2, LeastNumber
<1>4. h \in Nat /\ \A d \in S : e.cwd - d \in Nat /\ h <= e.cwd - d
  BY <1>2, <1>3
<1>5. e.cwd - h \in S
  BY <1>3 DEF heights
<1> HIDE DEF S
<1>6. \A d \in S : e.cwd - h >= d
  <2>1. \A d \in S : d \in Nat
    BY <1>1
  <2> QED BY <1>1, <1>4, <2>1
<1>7. Guard!Max(S) \in S
  BY <1>5, <1>6 DEF Guard!Max
<1> QED BY <1>7 DEF S

\* The two walks agree: where the guards take the user to be in a workspace,
\* its root is found.
LEMMA RootIsFound ==
    ASSUME NEW names, NEW e \in Environments(names)
    PROVE  Guard!IsInBrowzerWorkspace(e) => e.loggedIn /\ Guard!WorkspaceRootFor(e) # Guard!NoRoot
<1> SUFFICES ASSUME Guard!IsInBrowzerWorkspace(e)
             PROVE  e.loggedIn /\ Guard!WorkspaceRootFor(e) # Guard!NoRoot
  OBVIOUS
<1>1. e.loggedIn
  BY DEF Guard!IsInBrowzerWorkspace
<1>2. CASE e.projectDirBound
  BY <1>1, <1>2 DEF Guard!WorkspaceRootFor, Guard!ProjectDir, Guard!NoRoot
<1>3. CASE ~e.projectDirBound
  <2>1. PICK up \in 0 .. MaxWalkLevels - 1 : e.cwd - up >= 0 /\ e.cwd - up \in e.bound
    BY <1>3 DEF Guard!IsInBrowzerWorkspace
  <2>2. e.cwd - up \in Guard!RootsAbove(e)
    <3>1. e.cwd \in Nat
      BY DEF Environments
    <3>2. e.cwd - up \in 0 .. e.cwd /\ e.cwd - (e.cwd - up) < MaxWalkLevels
      BY <2>1, <3>1, DecisionsAssumption
    <3> QED BY <2>1, <3>2 DEF Guard!RootsAbove
  <2>3. Guard!Max(Guard!RootsAbove(e)) \in Guard!RootsAbove(e)
    BY <2>2, DeepestRoot
  <2>4. \A d \in Guard!RootsAbove(e) : d >= 0
    BY DEF Guard!RootsAbove
  <2>5. Guard!WorkspaceRootFor(e) = Guard!Max(Guard!RootsAbove(e))
    BY <1>3, <2>2 DEF Guard!WorkspaceRootFor
  <2>6. Guard!WorkspaceRootFor(e) >= 0
    BY <2>3, <2>4, <2>5
  <2> QED BY <1>1, <2>6 DEF Guard!NoRoot
<1> QED BY <1>2, <1>3

\* The guards on writes, dispatches, pushes and sessions, for any envelope and
\* any environment, however deep the directory.
THEOREM GuardsStayOut ==
    ASSUME NEW names, NEW e \in Environments(names), NEW c \in Envelopes(names)
    PROVE  Guard!StaysOutOfTheWay(e, c)
<1> DEFINE prd == Guard!prdFrozenDecide(c)
           agent == Guard!validateSubagentTypeDecide(e, c)
           push == Guard!syncOnPushDecide(e, c)
           edit == Guard!incrementalSyncDecide(e, c)
           init == Guard!initGuardDecide(e, c)
           start == Guard!sessionStartDecide(e, c)
           stop == Guard!subagentStopDecide(e, c)
           denials == {a \in {<<"prd", prd>>, <<"agent", agent>>} : a[2].code = "deny"}
           effects == UNION {a.effects : a \in Guard!AllAnswers(e, c)}
           inside == Guard!IsInBrowzerWorkspace(e)
\* Each guard, in turn.
<1>1. /\ prd.effects = {}
      /\ prd.code = "deny" => c.parses /\ c.file = "PRD" /\ c.tool # "Task"
  BY DEF Guard!prdFrozenDecide, Guard!Answer, Guard!Pass
<1>2. /\ agent.effects = {}
      /\ agent.code = "deny" => c.parses /\ c.tool = "Task" /\ c.agent \notin e.agents
  <2>1. c.agent \in e.agents => Guard!buildSubagentAllowlist(e) = e.agents
    BY DEF Guard!buildSubagentAllowlist
  <2> QED BY <2>1 DEF Guard!validateSubagentTypeDecide, Guard!Answer, Guard!Pass
<1>3. /\ push.code # "deny" /\ push.effects \subseteq {"sync"}
      /\ push.effects # {} => inside /\ ~e.off
  BY DEF Guard!syncOnPushDecide, Guard!Answer, Guard!Pass, Guard!Enabled, Guard!GateAllowed
<1>4. /\ edit.code # "deny" /\ edit.effects \subseteq {"blankEvent"}
      /\ edit.effects # {} => inside /\ ~e.off
  BY DEF Guard!incrementalSyncDecide, Guard!Answer, Guard!Pass, Guard!Enabled, Guard!GateAllowed
<1>5. init.code # "deny" /\ init.effects \subseteq {"warning"}
  BY DEF Guard!initGuardDecide, Guard!Answer, Guard!Pass
<1>6. /\ start.code # "deny" /\ start.effects \subseteq {"context", "warmDaemon", "register"}
      /\ start.effects # {} => inside
  BY DEF Guard!sessionStartDecide, Guard!Answer, Guard!Pass
<1>7. /\ stop.code # "deny" /\ stop.effects \subseteq {"record"}
      /\ stop.effects # {} => ~e.off
  BY DEF Guard!subagentStopDecide, Guard!Answer, Guard!GateAllowed
<1>8. Guard!AllAnswers(e, c) = {push, edit, prd, agent, init, start, stop}
  BY DEF Guard!AllAnswers
<1> HIDE DEF prd, agent, push, edit, init, start, stop
\* Together.
<1>9. \A a \in Guard!AllAnswers(e, c) : a.code = "deny" => c.parses
  BY <1>1, <1>2, <1>3, <1>4, <1>5, <1>6, <1>7, <1>8
<1>10. effects = push.effects \cup edit.effects \cup init.effects \cup start.effects \cup stop.effects
  <2>1. effects = push.effects \cup edit.effects \cup prd.effects \cup agent.effects
                  \cup init.effects \cup start.effects \cup stop.effects
    BY <1>8
  <2> QED BY <1>1, <1>2, <2>1
<1>11. denials \in {{}, {<<"prd", prd>>}, {<<"agent", agent>>}}
       /\ (<<"prd", prd>> \in denials <=> prd.code = "deny")
       /\ (<<"agent", agent>> \in denials <=> agent.code = "deny")
  <2>1. ~(prd.code = "deny" /\ agent.code = "deny")
    BY <1>1, <1>2
  <2>2. <<"prd", prd>>[2] = prd /\ <<"agent", agent>>[2] = agent /\ <<"prd", prd>> # <<"agent", agent>>
    OBVIOUS
  <2> QED BY <2>1, <2>2
<1> HIDE DEF denials
<1>12. Guard!Cardinality(denials) <= 1
  <2>1. \A S : Guard!Cardinality(S) = Cardinality(S)
    BY DEF Guard!Cardinality, Cardinality
  <2>2. Cardinality({}) = 0 /\ \A x : Cardinality({x}) = 1
    BY FS_EmptySet, FS_Singleton
  <2>3. Cardinality(denials) = 0 \/ Cardinality(denials) = 1
    BY <1>11, <2>2, Zenon
  <2>4. Guard!Cardinality(denials) = Cardinality(denials)
    BY <2>1
  <2> QED BY <2>3, <2>4
<1>13. denials # {} => prd.code = "deny" \/ agent.code = "deny"
  BY <1>11
<1> HIDE DEF effects
<1>14. effects \cap {"sync", "blankEvent", "context", "warmDaemon", "register"} # {} => inside
  BY <1>3, <1>4, <1>5, <1>6, <1>7, <1>10
<1>15. e.off => effects \cap {"sync", "blankEvent", "record"} = {}
  BY <1>3, <1>4, <1>5, <1>6, <1>7, <1>10
<1>16. inside => e.loggedIn /\ Guard!WorkspaceRootFor(e) # Guard!NoRoot
  BY RootIsFound
<1>17. /\ denials # {} => c.file # "AMENDMENTS" \/ c.tool = "Task"
       /\ c.tool = "Task" /\ c.agent \in e.agents => denials = {}
  BY <1>1, <1>2, <1>13
<1> QED BY <1>9, <1>12, <1>14, <1>15, <1>16, <1>17
        DEF Guard!StaysOutOfTheWay, denials, effects, prd, agent

GuardCalls(sessions) ==
    [guard : {"banner", "reminder", "contract"}, session : sessions, disk : BOOLEAN, killed : BOOLEAN,
     strict : BOOLEAN]

\* The calls that leave a sentinel: those that ask the ledger, with a disk to
\* keep it and a session, or a banner, to name it.
Leaves(c) == /\ ~(c.guard = "contract" /\ c.strict)
             /\ c.disk /\ (c.session # 0 \/ c.guard = "banner")

\* Which sentinels there are, however long the session.
LEMMA SentinelsLeft ==
    ASSUME NEW sessions, NEW calls \in Seq(GuardCalls(sessions)), NEW n \in 0 .. Len(calls)
    PROVE  Ledger!Sentinels(calls)[n] = {Ledger!Key(calls[i]) : i \in {i \in 1 .. n : Leaves(calls[i])}}
<1> DEFINE left(m) == {Ledger!Key(calls[i]) : i \in {i \in 1 .. m : Leaves(calls[i])}}
           after(m, s) == Ledger!Asks(calls[m], s).seen
           Builds(f) == f = [m \in Nat |-> IF m = 0 THEN {} ELSE after(m, f[m - 1])]
           sentinels == Ledger!Sentinels(calls)
\* One call more.
<1>1. ASSUME NEW m \in Nat \ {0}, NEW s
      PROVE  after(m, s) = IF Leaves(calls[m]) THEN s \cup {Ledger!Key(calls[m])} ELSE s
  <2>1. CASE Leaves(calls[m])
    BY <2>1 DEF Leaves, Ledger!Asks, Ledger!Claim
  <2>2. CASE ~Leaves(calls[m])
    BY <2>2 DEF Leaves, Ledger!Asks, Ledger!Claim
  <2> QED BY <2>1, <2>2
<1> HIDE DEF after
<1>2. left(0) = {}
  OBVIOUS
<1>3. ASSUME NEW m \in Nat \ {0}
      PROVE  left(m) = IF Leaves(calls[m]) THEN left(m - 1) \cup {Ledger!Key(calls[m])} ELSE left(m - 1)
  <2>1. 1 .. m = (1 .. m - 1) \cup {m}
    OBVIOUS
  <2> QED BY <2>1
<1> HIDE DEF left
\* The ledger can be kept, so it is kept that way.
<1>4. Builds([m \in Nat |-> left(m)])
  <2> DEFINE g == [m \in Nat |-> left(m)]
  <2>1. \A m \in Nat : g[m] = IF m = 0 THEN {} ELSE after(m, g[m - 1])
    <3> SUFFICES ASSUME NEW m \in Nat
                 PROVE  g[m] = IF m = 0 THEN {} ELSE after(m, g[m - 1])
      OBVIOUS
    <3>1. CASE m = 0
      BY <1>2, <3>1
    <3>2. CASE m # 0
      <4>1. g[m] = left(m) /\ g[m - 1] = left(m - 1) /\ m \in Nat \ {0}
        BY <3>2
      <4> QED BY <1>1, <1>3, <3>2, <4>1
    <3> QED BY <3>1, <3>2
  <2>2. g = [m \in Nat |-> g[m]]
    OBVIOUS
  <2> HIDE DEF g
  <2>3. Builds(g)
    BY <2>1, <2>2
  <2> QED BY <2>3 DEF g
<1>5. sentinels = CHOOSE f : Builds(f)
  BY DEF Ledger!Sentinels, after
<1> HIDE DEF Builds, sentinels
<1>6. Builds(sentinels)
  BY <1>4, <1>5
<1>7. \A m \in Nat : sentinels[m] = IF m = 0 THEN {} ELSE after(m, sentinels[m - 1])
  <2>1. sentinels = [m \in Nat |-> IF m = 0 THEN {} ELSE after(m, sentinels[m - 1])]
    BY <1>6 DEF Builds
  <2> QED BY <2>1
\* No number is the first at which it differs.
<1> DEFINE differs == {m \in Nat : sentinels[m] # left(m)}
<1>8. CASE differs # {}
  <2>1. PICK m \in differs : \A k \in differs : m <= k
    <3>1. differs \in SUBSET Nat
      OBVIOUS
    <3> HIDE DEF differs
    <3> QED BY <1>8, <3>1, LeastNumber
  <2>2. m \in Nat /\ sentinels[m] # left(m)
    BY <2>1
  <2>3. m # 0
    BY <1>2, <1>7, <2>2
  <2>4. m - 1 \in Nat /\ m - 1 \notin differs
    <3> HIDE DEF differs
    <3>1. m - 1 \in Nat /\ ~(m <= m - 1)
      BY <2>2, <2>3
    <3> QED BY <2>1, <3>1
  <2>5. sentinels[m - 1] = left(m - 1)
    BY <2>4
  <2>6. sentinels[m] = after(m, left(m - 1)) /\ m \in Nat \ {0}
    BY <1>7, <2>2, <2>3, <2>5
  <2> QED BY <1>1, <1>3, <2>2, <2>6
<1>9. CASE differs = {}
  BY <1>9 DEF sentinels, left
<1> QED BY <1>8, <1>9

\* Sessions of guard calls of any length.
THEOREM GuardsSpeakOnce ==
    ASSUME NEW sessions, NEW calls \in Seq(GuardCalls(sessions))
    PROVE  Ledger!SaysOnce(calls)
<1> DEFINE said == Ledger!Answered(calls)
           same(i, j) == i < j /\ Ledger!Key(calls[i]) = Ledger!Key(calls[j]) /\ calls[i].disk
                         /\ ~(calls[i].strict /\ calls[i].guard = "contract")
<1> SUFFICES ASSUME NEW j \in DOMAIN calls
             PROVE  /\ said[j] \in {"silent", "allow"} =>
                          \E i \in DOMAIN calls : same(i, j) /\ said[i] \in {"speak", "ask", "none"}
                    /\ said[j] = "allow" => calls[j].session # 0
                    /\ said[j] \in {"speak", "ask"} =>
                          \/ ~calls[j].disk \/ (calls[j].session = 0 /\ calls[j].guard # "banner")
                          \/ \A i \in DOMAIN calls : ~same(i, j)
  BY DEF Ledger!SaysOnce
<1> DEFINE before(k) == {i \in 1 .. k - 1 : Leaves(calls[i]) /\ Ledger!Key(calls[i]) = Ledger!Key(calls[k])}
           again(k) == Ledger!Asks(calls[k], Ledger!Sentinels(calls)[k - 1]).again
<1>1. DOMAIN calls = 1 .. Len(calls) /\ \A k \in DOMAIN calls : calls[k] \in GuardCalls(sessions)
  OBVIOUS
\* What a call finds, and what it says.
<1>2. ASSUME NEW k \in DOMAIN calls
      PROVE  /\ again(k) <=> Leaves(calls[k]) /\ before(k) # {}
             /\ said[k] = Ledger!Decision(calls[k], again(k))
  <2> DEFINE S == Ledger!Sentinels(calls)[k - 1]
  <2>1. S = {Ledger!Key(calls[i]) : i \in {i \in 1 .. k - 1 : Leaves(calls[i])}}
    <3>1. k - 1 \in 0 .. Len(calls)
      BY <1>1
    <3> QED BY <3>1, SentinelsLeft
  <2>2. Ledger!Key(calls[k]) \in S <=> before(k) # {}
    BY <2>1
  <2> HIDE DEF S
  <2>3. again(k) <=> Leaves(calls[k]) /\ Ledger!Key(calls[k]) \in S
    <3>1. CASE Leaves(calls[k])
      BY <3>1 DEF S, Leaves, Ledger!Asks, Ledger!Claim
    <3>2. CASE ~Leaves(calls[k])
      BY <3>2 DEF S, Leaves, Ledger!Asks, Ledger!Claim
    <3> QED BY <3>1, <3>2
  <2> QED BY <2>2, <2>3 DEF Ledger!Answered
<1>3. ASSUME NEW k \in DOMAIN calls, NEW i \in before(k)
      PROVE  i \in DOMAIN calls /\ same(i, k)
  BY <1>1, <1>3 DEF Leaves
<1> HIDE DEF again, said
<1>4. ASSUME said[j] \in {"silent", "allow"}
      PROVE  again(j) /\ (said[j] = "allow" => calls[j].guard = "contract" /\ ~calls[j].strict)
  BY <1>2, <1>4 DEF Ledger!Decision
\* The first call that left the sentinel spoke, or was killed.
<1>5. ASSUME said[j] \in {"silent", "allow"}
      PROVE  \E i \in DOMAIN calls : same(i, j) /\ said[i] \in {"speak", "ask", "none"}
  <2>1. before(j) # {} /\ before(j) \in SUBSET Nat
    BY <1>2, <1>4, <1>5
  <2>2. PICK i \in before(j) : \A h \in before(j) : i <= h
    <3> HIDE DEF before
    <3> QED BY <2>1, LeastNumber
  <2>3. i \in DOMAIN calls /\ same(i, j)
    BY <1>3, <2>2
  <2>4. before(i) = {}
    <3> SUFFICES ASSUME NEW h \in before(i)
                 PROVE  FALSE
      OBVIOUS
    <3>1. h \in before(j) /\ ~(i <= h)
      BY <1>1, <2>2, <2>3
    <3> QED BY <2>2, <3>1
  <2>5. ~again(i) /\ Leaves(calls[i])
    BY <1>2, <2>2, <2>3, <2>4
  <2>6. said[i] \in {"speak", "ask", "none"}
    <3> HIDE DEF before, same
    <3>1. said[i] = Ledger!Decision(calls[i], again(i))
      BY <1>2, <2>3
    <3> QED BY <2>5, <3>1 DEF Ledger!Decision, Leaves
  <2> QED BY <2>3, <2>6
<1>6. said[j] = "allow" => calls[j].session # 0
  <2> SUFFICES ASSUME said[j] = "allow"
               PROVE  calls[j].session # 0
    OBVIOUS
  <2>1. Leaves(calls[j]) /\ calls[j].guard = "contract"
    BY <1>2, <1>4
  <2> QED BY <2>1 DEF Leaves
\* A call that speaks found no sentinel that it could have found.
<1>7. ASSUME said[j] \in {"speak", "ask"}, calls[j].disk, calls[j].session # 0 \/ calls[j].guard = "banner",
             NEW i \in DOMAIN calls, same(i, j)
      PROVE  FALSE
  <2>1. said[j] = Ledger!Decision(calls[j], again(j))
    BY <1>2
  <2>2. ~(calls[j].guard = "contract" /\ calls[j].strict)
    BY <1>7, <2>1 DEF Ledger!Decision
  <2>3. Leaves(calls[j])
    BY <1>7, <2>2 DEF Leaves
  <2>4. ~again(j)
    <3> SUFFICES ASSUME again(j)
                 PROVE  FALSE
      OBVIOUS
    <3>1. again(j) = TRUE
      BY DEF again, Ledger!Asks, Ledger!Claim
    <3>2. said[j] \in {"none", "silent", "allow", "deny"}
      BY <2>1, <2>2, <3>1 DEF Ledger!Decision
    <3> QED BY <1>7, <3>2
  <2>5. calls[i].guard = calls[j].guard /\ calls[i].session = calls[j].session
    BY <1>7 DEF Ledger!Key
  <2>6. Leaves(calls[i])
    BY <1>7, <2>5 DEF Leaves
  <2>7. i \in before(j)
    BY <1>1, <1>7, <2>6
  <2> QED BY <1>2, <2>3, <2>4, <2>7
<1>8. said[j] \in {"speak", "ask"} =>
         \/ ~calls[j].disk \/ (calls[j].session = 0 /\ calls[j].guard # "banner")
         \/ \A i \in DOMAIN calls : ~same(i, j)
  BY <1>7
<1> QED BY <1>5, <1>6, <1>8

-----------------------------------------------------------------------------
(* What Decisions asks of these parts, for every question.                 *)

\* In sessions of any length, and in any directory and environment, the guards
\* speak, block and act as GuardsSpeakInTurn says.
THEOREM GuardsKeepTheirTurn ==
    ASSUME NEW names, NEW sessions,
           case[1] = "session" => case[2] \in Seq(GuardCalls(sessions)),
           case[1] = "guards" => case[2] \in Environments(names) /\ case[3] \in Envelopes(names)
    PROVE  GuardsSpeakInTurn
<1>1. case[1] = "session" => Ledger!SaysOnce(case[2])
  BY GuardsSpeakOnce
<1>2. case[1] = "guards" => Guard!StaysOutOfTheWay(case[2], case[3])
  BY GuardsStayOut
<1> QED BY <1>1, <1>2 DEF GuardsSpeakInTurn
=============================================================================
