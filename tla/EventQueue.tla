----------------------------- MODULE EventQueue -----------------------------
(***************************************************************************)
(* The path of one usage event from a hook process to the SQLite tracker.  *)
(*                                                                         *)
(* A hook calls Track on the daemon (hooks.DaemonCall).  When the call     *)
(* fails for any reason the hook appends the event to                      *)
(* ~/.browzer/pending-events.jsonl (hooks.AppendPendingEvent) and asks for *)
(* a daemon (hooks.EnsureDaemon).  A daemon that boots renames that file,  *)
(* replays its lines into the tracker and unlinks it                       *)
(* (commands.drainPendingEvents).  None of these processes share a lock.   *)
(*                                                                         *)
(* A hook process tracks one event, so a hook stands for its event.  A     *)
(* daemon stands for one process: a restart is another member of Daemons,  *)
(* and two of them may run at once.  Files are inodes, because an appender *)
(* keeps writing to the inode it opened whatever its name has become.      *)
(***************************************************************************)
EXTENDS Naturals, FiniteSets

CONSTANTS Hooks,      \* hook processes, each with one event to track
          Daemons,    \* daemon processes that may ever run
          Oversized,  \* hooks whose line exceeds pendingEventsMaxLineBytes
          RotateAt,   \* lines a file may hold before it is rotated
          MaxInode,   \* bound: files ever created (one per hook is enough)
          NoDaemon    \* no daemon: the call was never sent

ASSUME EventQueueAssumption ==
    /\ IsFiniteSet(Hooks)
    /\ Oversized \subseteq Hooks
    /\ RotateAt \in Nat
    /\ MaxInode \in Nat
    /\ NoDaemon \notin Daemons

VARIABLES
    hookPc,     \* where each hook is in DaemonCall
    call,       \* the daemon that has each hook's request
    response,   \* the daemon's answer on that connection
    fd,         \* the inode each appender has open, 0 when none
    file,       \* inode -> the lines it holds
    nextInode,  \* the next inode the file system hands out
    pending,    \* inode named pending-events.jsonl, 0 when absent
    backup,     \* inode named pending-events.jsonl.1, 0 when absent
    overflow,   \* events in pending-events-overflow-*.jsonl files
    daemonPc,   \* off, booting, scanning, serving or dead
    tracker,    \* did tracker.Open succeed in this daemon?
    drain,      \* inode the daemon renamed to .drain-<nanos>, 0 when none
    scanned,    \* lines of that inode the daemon has consumed
    rows,       \* the tracker's events table
    replays     \* observation: how often each event has been replayed

hookVars == <<hookPc, call, response, fd>>
fileVars == <<file, nextInode, pending, backup, overflow>>
daemonVars == <<daemonPc, tracker, drain, scanned>>
tableVars == <<rows, replays>>
vars == <<hookVars, fileVars, daemonVars, tableVars>>

HookPcs == {"start", "sent", "stat", "rotate", "open", "write", "ensure", "done"}
DaemonPcs == {"off", "booting", "scanning", "serving", "dead"}
Inodes == 0 .. MaxInode

-----------------------------------------------------------------------------
(* Lines, rows and the conversion between them *)

\* The fields of daemon.TrackParams that the properties tell apart.
TrackFields == {"ts", "source"}

\* What the hook wants recorded: a TrackParams with its timestamp.
TrackParams(h) == [ts |-> "now", source |-> h]

\* The line a hook queues: the call's method and parameters, wrapped.
pendingEnvelope(h) == [method |-> "Track", params |-> TrackParams(h), enqueued |-> "now"]

\* Slip: the decoded object is recorded as it is.
RawLine(line) == line

\* json.Unmarshal of an object into TrackParams: fields found by name at the
\* top level, every other field its zero value, unknown keys ignored.
UnmarshalTrackParams(line) ==
    [k \in TrackFields |-> IF k \in DOMAIN line THEN line[k] ELSE ""]

Row == [TrackFields -> Hooks \cup {"now", ""}]

-----------------------------------------------------------------------------
TypeOK ==
    /\ hookPc \in [Hooks -> HookPcs]
    /\ call \in [Hooks -> Daemons \cup {NoDaemon}]
    /\ response \in [Hooks -> {"none", "ok", "refused"}]
    /\ fd \in [Hooks -> Inodes]
    /\ file \in [Inodes -> SUBSET Hooks]
    /\ nextInode \in 1 .. MaxInode + 1
    /\ pending \in Inodes /\ backup \in Inodes
    /\ overflow \subseteq Hooks
    /\ daemonPc \in [Daemons -> DaemonPcs]
    /\ tracker \in [Daemons -> BOOLEAN]
    /\ drain \in [Daemons -> Inodes]
    /\ scanned \in [Daemons -> SUBSET Hooks]
    /\ rows \subseteq Row
    /\ replays \in [Hooks -> Nat]

Init ==
    /\ hookPc = [h \in Hooks |-> "start"]
    /\ call = [h \in Hooks |-> NoDaemon]
    /\ response = [h \in Hooks |-> "none"]
    /\ fd = [h \in Hooks |-> 0]
    /\ file = [i \in Inodes |-> {}]
    /\ nextInode = 1
    /\ pending = 0 /\ backup = 0
    /\ overflow = {}
    /\ daemonPc = [d \in Daemons |-> "off"]
    /\ tracker = [d \in Daemons |-> FALSE]
    /\ drain = [d \in Daemons |-> 0]
    /\ scanned = [d \in Daemons |-> {}]
    /\ rows = {}
    /\ replays = [h \in Hooks |-> 0]

-----------------------------------------------------------------------------
(* The hook: DaemonCall *)

\* Slip: the failed call is forgotten.
ForgetEvent(h) == hookPc' = [hookPc EXCEPT ![h] = "ensure"]

\* After a failed call: an oversized line takes the overflow path, any other
\* line the rotation check.
Fallback(h) == hookPc' = [hookPc EXCEPT ![h] = "stat"]

\* dialOnce and the request write: some serving daemon takes the connection.
Send(h) ==
    /\ hookPc[h] = "start"
    /\ \E d \in Daemons :
         /\ daemonPc[d] = "serving"
         /\ call' = [call EXCEPT ![h] = d]
    /\ hookPc' = [hookPc EXCEPT ![h] = "sent"]
    /\ UNCHANGED <<response, fd, fileVars, daemonVars, tableVars>>

\* dialOnce fails: no socket, a dead one, or 200 ms without an accept.
DialFails(h) ==
    /\ hookPc[h] = "start"
    /\ Fallback(h)
    /\ UNCHANGED <<call, response, fd, fileVars, daemonVars, tableVars>>

\* The answer arrives in time; {"ok": false} counts as a failure.
Reply(h) ==
    /\ hookPc[h] = "sent"
    /\ \/ response[h] = "ok" /\ hookPc' = [hookPc EXCEPT ![h] = "done"]
       \/ response[h] = "refused" /\ Fallback(h)
    /\ call' = [call EXCEPT ![h] = NoDaemon]
    /\ response' = [response EXCEPT ![h] = "none"]
    /\ UNCHANGED <<fd, fileVars, daemonVars, tableVars>>

\* daemonCallTimeout elapses, or the daemon dies and the connection resets.
\* An answer already on its way is discarded; a request the daemon has not
\* handled yet stays with it.
Timeout(h) ==
    /\ hookPc[h] = "sent"
    /\ Fallback(h)
    /\ call' = [call EXCEPT ![h] = IF response[h] = "none" THEN @ ELSE NoDaemon]
    /\ response' = [response EXCEPT ![h] = "none"]
    /\ UNCHANGED <<fd, fileVars, daemonVars, tableVars>>

\* appendPendingEventViaRename: the line gets a file of its own.
AppendOverflow(h) ==
    /\ hookPc[h] = "stat" /\ h \in Oversized
    /\ overflow' = overflow \cup {h}
    /\ hookPc' = [hookPc EXCEPT ![h] = "ensure"]
    /\ UNCHANGED <<call, response, fd, file, nextInode, pending, backup, daemonVars, tableVars>>

\* rotatePendingEventsIfNeeded, the stat: decides on the size seen now.
StatPending(h) ==
    /\ hookPc[h] = "stat" /\ h \notin Oversized
    /\ hookPc' = [hookPc EXCEPT ![h] =
            IF pending # 0 /\ Cardinality(file[pending]) > RotateAt THEN "rotate" ELSE "open"]
    /\ UNCHANGED <<call, response, fd, fileVars, daemonVars, tableVars>>

\* rotatePendingEventsIfNeeded, the rename: whatever the name denotes by now
\* replaces the backup.  When the name is gone rename fails and the append is
\* given up with the error.
RotatePending(h) ==
    /\ hookPc[h] = "rotate"
    /\ \/ /\ pending # 0
          /\ backup' = pending /\ pending' = 0
          /\ hookPc' = [hookPc EXCEPT ![h] = "open"]
       \/ /\ pending = 0
          /\ hookPc' = [hookPc EXCEPT ![h] = "ensure"]
          /\ UNCHANGED <<pending, backup>>
    /\ UNCHANGED <<call, response, fd, file, nextInode, overflow, daemonVars, tableVars>>

\* OpenFile(O_APPEND|O_CREATE) of pending-events.jsonl.
OpenPending(h) ==
    /\ hookPc[h] = "open"
    /\ hookPc' = [hookPc EXCEPT ![h] = "write"]
    /\ \/ /\ pending # 0
          /\ fd' = [fd EXCEPT ![h] = pending]
          /\ UNCHANGED <<nextInode, pending>>
       \/ /\ pending = 0 /\ nextInode <= MaxInode
          /\ fd' = [fd EXCEPT ![h] = nextInode]
          /\ pending' = nextInode
          /\ nextInode' = nextInode + 1
    /\ UNCHANGED <<call, response, file, backup, overflow, daemonVars, tableVars>>

\* The write: atomic, at the end of the inode that was opened.
WritePending(h) ==
    /\ hookPc[h] = "write"
    /\ file' = [file EXCEPT ![fd[h]] = @ \cup {h}]
    /\ fd' = [fd EXCEPT ![h] = 0]
    /\ hookPc' = [hookPc EXCEPT ![h] = "ensure"]
    /\ UNCHANGED <<call, response, nextInode, pending, backup, overflow, daemonVars, tableVars>>

\* EnsureDaemon: may start a daemon process; the hook does not wait for it.
EnsureDaemon(h) ==
    /\ hookPc[h] = "ensure"
    /\ hookPc' = [hookPc EXCEPT ![h] = "done"]
    /\ \/ UNCHANGED <<daemonPc, tracker>>
       \/ \E d \in Daemons, open \in BOOLEAN :
            /\ daemonPc[d] = "off"
            /\ daemonPc' = [daemonPc EXCEPT ![d] = "booting"]
            /\ tracker' = [tracker EXCEPT ![d] = open]
    /\ UNCHANGED <<call, response, fd, fileVars, drain, scanned, tableVars>>

-----------------------------------------------------------------------------
(* The daemon: boot, drain, serve, stop *)

\* `browzer daemon start` by hand or by the session pre-warm.
Boot(d) ==
    /\ daemonPc[d] = "off"
    /\ daemonPc' = [daemonPc EXCEPT ![d] = "booting"]
    /\ \E open \in BOOLEAN : tracker' = [tracker EXCEPT ![d] = open]
    /\ UNCHANGED <<hookVars, fileVars, drain, scanned, tableVars>>

\* Slip: the file is drained under its own name.
ReadInPlace(d) == drain' = [drain EXCEPT ![d] = pending] /\ UNCHANGED pending

Claim(d) == drain' = [drain EXCEPT ![d] = pending] /\ pending' = 0

\* drainPendingEvents up to the rename; without a tracker or a file the
\* daemon goes straight on to Serve.
DrainRename(d) ==
    /\ daemonPc[d] = "booting"
    /\ \/ /\ tracker[d] /\ pending # 0
          /\ Claim(d)
          /\ daemonPc' = [daemonPc EXCEPT ![d] = "scanning"]
       \/ /\ ~tracker[d] \/ pending = 0
          /\ daemonPc' = [daemonPc EXCEPT ![d] = "serving"]
          /\ UNCHANGED <<drain, pending>>
    /\ UNCHANGED <<hookVars, file, nextInode, backup, overflow, tracker, scanned, tableVars>>

\* One line: decoded and recorded, or skipped because Record failed.
DrainLine(d) ==
    /\ daemonPc[d] = "scanning"
    /\ \E h \in file[drain[d]] \ scanned[d] :
         /\ scanned' = [scanned EXCEPT ![d] = @ \cup {h}]
         /\ \/ /\ rows' = rows \cup {UnmarshalTrackParams(pendingEnvelope(h))}
               /\ replays' = [replays EXCEPT ![h] = @ + 1]
            \/ UNCHANGED tableVars
    /\ UNCHANGED <<hookVars, fileVars, daemonPc, tracker, drain>>

\* End of file: the deferred unlink, then Serve.
DrainDone(d) ==
    /\ daemonPc[d] = "scanning"
    /\ file[drain[d]] \subseteq scanned[d]
    /\ drain' = [drain EXCEPT ![d] = 0]
    /\ scanned' = [scanned EXCEPT ![d] = {}]
    /\ daemonPc' = [daemonPc EXCEPT ![d] = "serving"]
    /\ UNCHANGED <<hookVars, fileVars, tracker, tableVars>>

\* writeOK to the hook, or to nobody when it has closed the connection.
Answer(h, r) ==
    IF hookPc[h] = "sent"
    THEN response' = [response EXCEPT ![h] = r] /\ UNCHANGED call
    ELSE call' = [call EXCEPT ![h] = NoDaemon] /\ UNCHANGED response

\* The Track handler, possibly after the hook gave up on it.  Without a
\* tracker the daemon acknowledges and drops the event.
HandleTrack(d, h) ==
    /\ daemonPc[d] = "serving"
    /\ call[h] = d /\ response[h] = "none"
    /\ \/ tracker[d] /\ rows' = rows \cup {TrackParams(h)} /\ Answer(h, "ok")
       \/ tracker[d] /\ Answer(h, "refused") /\ UNCHANGED rows
       \/ ~tracker[d] /\ Answer(h, "ok") /\ UNCHANGED rows
    /\ UNCHANGED <<hookPc, fd, fileVars, daemonVars, replays>>

\* tracker.Cleanup, run at startup and hourly: rows whose ts sorts before the
\* cut-off, which an empty ts does.
Cleanup(d) ==
    /\ daemonPc[d] = "serving" /\ tracker[d]
    /\ rows' = {r \in rows : r.ts # ""}
    /\ UNCHANGED <<hookVars, fileVars, daemonVars, replays>>

\* Idle exit, shutdown, signal or crash: connections reset, unhandled
\* requests are gone, and the drain file's name is abandoned.
Exit(d) ==
    /\ daemonPc[d] \in {"booting", "scanning", "serving"}
    /\ daemonPc' = [daemonPc EXCEPT ![d] = "dead"]
    /\ drain' = [drain EXCEPT ![d] = 0]
    /\ scanned' = [scanned EXCEPT ![d] = {}]
    /\ call' = [h \in Hooks |-> IF call[h] = d /\ response[h] = "none" THEN NoDaemon ELSE call[h]]
    /\ UNCHANGED <<hookPc, response, fd, fileVars, tracker, tableVars>>

-----------------------------------------------------------------------------
\* Slip: no deadline on the connection.
StepWithoutTimeout(h) ==
    \/ Send(h) \/ DialFails(h) \/ Reply(h)
    \/ AppendOverflow(h) \/ StatPending(h) \/ RotatePending(h)
    \/ OpenPending(h) \/ WritePending(h) \/ EnsureDaemon(h)

HookStep(h) ==
    \/ Send(h) \/ DialFails(h) \/ Reply(h) \/ Timeout(h)
    \/ AppendOverflow(h) \/ StatPending(h) \/ RotatePending(h)
    \/ OpenPending(h) \/ WritePending(h) \/ EnsureDaemon(h)

DaemonStep(d) ==
    \/ DrainRename(d) \/ DrainLine(d) \/ DrainDone(d)
    \/ \E h \in Hooks : HandleTrack(d, h)

Next ==
    \/ \E h \in Hooks : HookStep(h)
    \/ \E d \in Daemons : DaemonStep(d) \/ Boot(d) \/ Cleanup(d) \/ Exit(d)

Spec == Init /\ [][Next]_vars

\* A hook is a running process, so each of its steps is eventually taken: the
\* 1.5 s deadline fires, system calls return.  Nothing is assumed of daemons.
FairSpec == Spec /\ \A h \in Hooks : WF_vars(HookStep(h))

-----------------------------------------------------------------------------
(* Properties *)

\* Lines of d's drain file that d will still replay.
ToScan(d) == IF daemonPc[d] = "scanning" THEN file[drain[d]] \ scanned[d] ELSE {}

\* The events some file of the queue still holds for a later boot.
Queued ==
    file[pending] \cup file[backup] \cup overflow \cup UNION {ToScan(d) : d \in Daemons}

\* A hook has finished with its event, yet the event is nowhere.
Lost(h) ==
    /\ hookPc[h] \in {"ensure", "done"}
    /\ h \notin Queued
    /\ TrackParams(h) \notin rows
    /\ replays[h] = 0

\* The queue as QueueContract describes it.
Contract == INSTANCE QueueContract WITH Events <- Hooks, queued <- Queued

\* The rename-then-drain hand-over (daemon_cmd.go, drainPendingEvents) gives
\* every queued line to at most one replay, whatever daemons boot, overlap or
\* die, and no event is replayed that was not queued.
RefinesQueueContract == Contract!Spec

\* Where the code can lose an event: the boot that skips a line it cannot
\* record or dies while scanning, a rotation that overwrites the backup or
\* finds the file gone, a write into a file that was drained after it was
\* opened, and a daemon that acknowledges without a tracker.  No other step
\* of any process makes an event disappear.
LossOnlyInKnownSteps ==
    [][\A h \in Hooks : ~Lost(h) /\ Lost(h)' =>
          \/ \E d \in Daemons : daemonPc[d] = "scanning" /\ (DrainLine(d) \/ Exit(d))
          \/ \E g \in Hooks : RotatePending(g)
          \/ WritePending(h) /\ fd[h] \notin {pending, backup}
          \/ Reply(h) /\ ~tracker[call[h]]]_vars

\* A hook never hangs on the daemon: DaemonCall returns (track_event.go,
\* "must NEVER fail a tool call") even when the daemon dies or is wedged
\* between the request and the answer.
HookReturns == \A h \in Hooks : (hookPc[h] = "sent") ~> (hookPc[h] = "done")
=============================================================================
