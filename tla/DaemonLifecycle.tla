-------------------------- MODULE DaemonLifecycle ---------------------------
(***************************************************************************)
(* Start-up, service and shutdown of `browzer daemon start` processes that *)
(* meet on two names in the file system: ~/.browzer/daemon.pid and the     *)
(* Unix socket.  A process runs checkStaleDaemon, writePID and             *)
(* Server.Serve; Server.Stop runs in a goroutine of its own (idle watcher, *)
(* Shutdown handler), so it races with the main goroutine that returns     *)
(* from Serve and removes the PID file.  Every step below is one system    *)
(* call; no lock covers two of them, and a process may die between any two.*)
(***************************************************************************)
EXTENDS Naturals, FiniteSets

CONSTANTS Daemons,   \* processes of `browzer daemon start`
          Clients,   \* processes with one JSON-RPC request each
          NoDaemon   \* nobody: the socket path is absent

ASSUME LifecycleAssumption ==
    /\ NoDaemon \notin Daemons
    /\ {"absent", "empty"} \cap Daemons = {}
    /\ IsFiniteSet(Clients)

VARIABLES
    pc,         \* main goroutine of each daemon
    stop,       \* progress of its Server.Stop
    watch,      \* idleWatcher: asleep, or between its two reads
    listening,  \* is the daemon's listener open?
    recent,     \* is lastReqAt within IdleTimeout?
    queueLen,   \* Server.queueLen
    pidFile,    \* content of daemon.pid
    sock,       \* the daemon whose socket inode the path names
    request,    \* state of each client's request
    peer,       \* the daemon it was sent to
    overlap     \* observation: two processes were in start-up at once

serverVars == <<stop, watch, listening, recent, queueLen>>
requestVars == <<request, peer>>
vars == <<pc, serverVars, pidFile, sock, requestVars, overlap>>

Starting == {"check", "cleanPid", "cleanSock", "truncate", "writePid", "unbind", "bind", "chmod"}
Aborting == {"abortUnlink", "abortClose"}
Alive(d) == pc[d] \notin {"off", "dead"}
Reachable(d) == sock = d /\ listening[d]

TypeOK ==
    /\ pc \in [Daemons -> Starting \cup {"off", "serving", "exiting", "leaving", "dead"} \cup Aborting]
    /\ stop \in [Daemons -> {"no", "unlink", "close", "remove", "stopped"}]
    /\ watch \in [Daemons -> {"asleep", "idle"}]
    /\ listening \in [Daemons -> BOOLEAN]
    /\ recent \in [Daemons -> BOOLEAN]
    /\ queueLen \in [Daemons -> 0 .. Cardinality(Clients)]
    /\ pidFile \in Daemons \cup {"absent", "empty"}
    /\ sock \in Daemons \cup {NoDaemon}
    /\ request \in [Clients -> {"new", "queued", "handling", "done", "failed"}]
    /\ peer \in [Clients -> Daemons \cup {NoDaemon}]
    /\ overlap \in BOOLEAN

Init ==
    /\ pc = [d \in Daemons |-> "off"]
    /\ stop = [d \in Daemons |-> "no"]
    /\ watch = [d \in Daemons |-> "asleep"]
    /\ listening = [d \in Daemons |-> FALSE]
    /\ recent = [d \in Daemons |-> TRUE]
    /\ queueLen = [d \in Daemons |-> 0]
    /\ pidFile = "absent"
    /\ sock = NoDaemon
    /\ request = [c \in Clients |-> "new"]
    /\ peer = [c \in Clients |-> NoDaemon]
    /\ overlap = FALSE

Goto(d, label) == pc' = [pc EXCEPT ![d] = label]

-----------------------------------------------------------------------------
(* Start-up: daemonStartCmd *)

Start(d) ==
    /\ pc[d] = "off"
    /\ Goto(d, "check")
    /\ overlap' = (overlap \/ \E o \in Daemons : pc[o] \in Starting)
    /\ UNCHANGED <<serverVars, pidFile, sock, requestVars>>

\* Slip: the probe never finds anybody.
SeenDead(p) == FALSE

processAlive(p) == Alive(p)

\* checkStaleDaemon, the read and the `kill -0`: no file goes on, garbage or
\* a dead process goes on to clean up, a live one refuses the start.
ReadPid(d) ==
    /\ pc[d] = "check"
    /\ \/ pidFile = "absent" /\ Goto(d, "truncate")
       \/ pidFile = "empty" /\ Goto(d, "cleanPid")
       \/ /\ pidFile \in Daemons
          /\ Goto(d, IF processAlive(pidFile) THEN "dead" ELSE "cleanPid")
    /\ UNCHANGED <<serverVars, pidFile, sock, requestVars, overlap>>

\* checkStaleDaemon, the two removals: of whatever the names denote by now.
RemoveStalePid(d) ==
    /\ pc[d] = "cleanPid"
    /\ pidFile' = "absent"
    /\ Goto(d, "cleanSock")
    /\ UNCHANGED <<serverVars, sock, requestVars, overlap>>

RemoveStaleSocket(d) ==
    /\ pc[d] = "cleanSock"
    /\ sock' = NoDaemon
    /\ Goto(d, "truncate")
    /\ UNCHANGED <<serverVars, pidFile, requestVars, overlap>>

\* writePID is os.WriteFile: create or truncate, then write.
TruncatePid(d) ==
    /\ pc[d] = "truncate"
    /\ pidFile' = "empty"
    /\ Goto(d, "writePid")
    /\ UNCHANGED <<serverVars, sock, requestVars, overlap>>

WritePid(d) ==
    /\ pc[d] = "writePid"
    /\ pidFile' = d
    /\ Goto(d, "unbind")
    /\ UNCHANGED <<serverVars, sock, requestVars, overlap>>

\* Server.Serve: remove a stale socket, then bind.
Unbind(d) ==
    /\ pc[d] = "unbind"
    /\ sock' = NoDaemon
    /\ Goto(d, "bind")
    /\ UNCHANGED <<serverVars, pidFile, requestVars, overlap>>

\* net.Listen; EADDRINUSE makes Serve return and the deferred removal run.
Bind(d) ==
    /\ pc[d] = "bind"
    /\ \/ /\ sock = NoDaemon
          /\ sock' = d
          /\ listening' = [listening EXCEPT ![d] = TRUE]
          /\ Goto(d, "chmod")
       \/ /\ sock # NoDaemon
          /\ Goto(d, "exiting")
          /\ UNCHANGED <<sock, listening>>
    /\ UNCHANGED <<stop, watch, recent, queueLen, pidFile, requestVars, overlap>>

\* os.Chmod of the path, whatever it names; it fails when it names nothing.
Chmod(d) ==
    /\ pc[d] = "chmod"
    /\ Goto(d, IF sock = NoDaemon THEN "abortUnlink" ELSE "serving")
    /\ UNCHANGED <<serverVars, pidFile, sock, requestVars, overlap>>

\* Serve gives up: closing the listener unlinks the path, which somebody may
\* have bound by now, and then the socket.
AbortServe(d) ==
    /\ \/ /\ pc[d] = "abortUnlink"
          /\ sock' = NoDaemon
          /\ Goto(d, "abortClose")
          /\ UNCHANGED listening
       \/ /\ pc[d] = "abortClose"
          /\ listening' = [listening EXCEPT ![d] = FALSE]
          /\ Goto(d, "exiting")
          /\ UNCHANGED sock
    /\ UNCHANGED <<stop, watch, recent, queueLen, pidFile, requestVars, overlap>>

-----------------------------------------------------------------------------
(* Service: handleConn *)

\* A client dials the path and writes its request.
Dial(c) ==
    /\ request[c] = "new"
    /\ \/ \E d \in Daemons :
            /\ Reachable(d)
            /\ request' = [request EXCEPT ![c] = "queued"]
            /\ peer' = [peer EXCEPT ![c] = d]
       \/ /\ \A d \in Daemons : ~Reachable(d)
          /\ request' = [request EXCEPT ![c] = "failed"]
          /\ UNCHANGED peer
    /\ UNCHANGED <<pc, serverVars, pidFile, sock, overlap>>

\* Slip: the request is not counted.
BeginUncounted(d, c) ==
    /\ Alive(d) /\ request[c] = "queued" /\ peer[c] = d
    /\ request' = [request EXCEPT ![c] = "handling"]
    /\ recent' = [recent EXCEPT ![d] = TRUE]
    /\ UNCHANGED <<pc, stop, watch, listening, queueLen, pidFile, sock, peer, overlap>>

\* handleConn has read a line: lastReqAt and queueLen are updated.
BeginRequest(d, c) ==
    /\ Alive(d) /\ pc[d] \notin Aborting \cup {"chmod"}
    /\ request[c] = "queued" /\ peer[c] = d
    /\ request' = [request EXCEPT ![c] = "handling"]
    /\ recent' = [recent EXCEPT ![d] = TRUE]
    /\ queueLen' = [queueLen EXCEPT ![d] = @ + 1]
    /\ UNCHANGED <<pc, stop, watch, listening, pidFile, sock, peer, overlap>>

\* Slip: an early return that does not give queueLen back.
FinishUncounted(d, c) ==
    /\ Alive(d) /\ request[c] = "handling" /\ peer[c] = d
    /\ request' = [request EXCEPT ![c] = "done"]
    /\ peer' = [peer EXCEPT ![c] = NoDaemon]
    /\ UNCHANGED <<pc, serverVars, pidFile, sock, overlap>>

\* The answer: parse error, unknown method, handler error or result.
FinishRequest(d, c) ==
    /\ Alive(d) /\ request[c] = "handling" /\ peer[c] = d
    /\ request' = [request EXCEPT ![c] = "done"]
    /\ peer' = [peer EXCEPT ![c] = NoDaemon]
    /\ queueLen' = [queueLen EXCEPT ![d] = @ - 1]
    /\ UNCHANGED <<pc, stop, watch, listening, recent, pidFile, sock, overlap>>

\* handleShutdown starts a goroutine that sleeps 50 ms and calls Stop; that
\* the answer is out by then is not assumed.
Shutdown(d, c) ==
    /\ Alive(d) /\ request[c] = "handling" /\ peer[c] = d
    /\ stop[d] = "no"
    /\ stop' = [stop EXCEPT ![d] = "unlink"]
    /\ UNCHANGED <<pc, watch, listening, recent, queueLen, pidFile, sock, requestVars, overlap>>

\* The connection breaks: the process is gone, or the listener was closed
\* with the connection still in its backlog.
LoseRequest(d, c) ==
    /\ peer[c] = d
    /\ \/ request[c] \in {"queued", "handling"} /\ ~Alive(d)
       \/ request[c] = "queued" /\ ~listening[d]
    /\ request' = [request EXCEPT ![c] = "failed"]
    /\ peer' = [peer EXCEPT ![c] = NoDaemon]
    /\ UNCHANGED <<pc, serverVars, pidFile, sock, overlap>>

-----------------------------------------------------------------------------
(* Idle exit and Stop *)

\* IdleTimeout elapses since the last request.
GoIdle(d) ==
    /\ pc[d] = "serving" /\ recent[d]
    /\ recent' = [recent EXCEPT ![d] = FALSE]
    /\ UNCHANGED <<pc, stop, watch, listening, queueLen, pidFile, sock, requestVars, overlap>>

\* idleWatcher's tick finds lastReqAt too old.
WatchTick(d) ==
    /\ pc[d] = "serving" /\ watch[d] = "asleep" /\ stop[d] = "no"
    /\ ~recent[d]
    /\ watch' = [watch EXCEPT ![d] = "idle"]
    /\ UNCHANGED <<pc, stop, listening, recent, queueLen, pidFile, sock, requestVars, overlap>>

\* ... and then reads queueLen: wait for a request in flight, or Stop.
WatchQueue(d) ==
    /\ Alive(d) /\ watch[d] = "idle"
    /\ watch' = [watch EXCEPT ![d] = "asleep"]
    /\ stop' = [stop EXCEPT ![d] = IF queueLen[d] = 0 /\ @ = "no" THEN "unlink" ELSE @]
    /\ UNCHANGED <<pc, listening, recent, queueLen, pidFile, sock, requestVars, overlap>>

\* Server.Stop.  UnixListener.Close unlinks the path, then closes the
\* listener; os.Remove unlinks the path once more.
StopStep(d) ==
    /\ Alive(d)
    /\ \/ /\ stop[d] = "unlink"
          /\ stop' = [stop EXCEPT ![d] = "close"]
          /\ sock' = NoDaemon
          /\ UNCHANGED listening
       \/ /\ stop[d] = "close"
          /\ stop' = [stop EXCEPT ![d] = "remove"]
          /\ listening' = [listening EXCEPT ![d] = FALSE]
          /\ UNCHANGED sock
       \/ /\ stop[d] = "remove"
          /\ stop' = [stop EXCEPT ![d] = "stopped"]
          /\ sock' = NoDaemon
          /\ UNCHANGED listening
    /\ UNCHANGED <<pc, watch, recent, queueLen, pidFile, requestVars, overlap>>

\* Accept fails with ErrClosed: Serve returns to daemonStartCmd.
ServeReturns(d) ==
    /\ pc[d] = "serving" /\ ~listening[d]
    /\ Goto(d, "exiting")
    /\ UNCHANGED <<serverVars, pidFile, sock, requestVars, overlap>>

\* Any other error of Accept: Serve returns with its listener open.
AcceptFails(d) ==
    /\ pc[d] = "serving" /\ listening[d]
    /\ Goto(d, "exiting")
    /\ UNCHANGED <<serverVars, pidFile, sock, requestVars, overlap>>

\* The deferred os.Remove(config.PIDPath()).
RemovePid(d) ==
    /\ pc[d] = "exiting"
    /\ pidFile' = "absent"
    /\ Goto(d, "leaving")
    /\ UNCHANGED <<serverVars, sock, requestVars, overlap>>

\* The deferred cancel() wakes the goroutine of Serve that calls Stop, which
\* the end of the process may overtake.
CancelContext(d) ==
    /\ pc[d] = "leaving" /\ listening[d] /\ stop[d] = "no"
    /\ stop' = [stop EXCEPT ![d] = "unlink"]
    /\ UNCHANGED <<pc, watch, listening, recent, queueLen, pidFile, sock, requestVars, overlap>>

\* The process ends: by returning from main, or by a signal or a crash at any
\* point, which leaves both names behind.
Die(d) ==
    /\ Goto(d, "dead")
    /\ stop' = [stop EXCEPT ![d] = "no"]
    /\ watch' = [watch EXCEPT ![d] = "asleep"]
    /\ listening' = [listening EXCEPT ![d] = FALSE]
    /\ recent' = [recent EXCEPT ![d] = TRUE]
    /\ queueLen' = [queueLen EXCEPT ![d] = 0]
    /\ UNCHANGED <<pidFile, sock, requestVars, overlap>>

Leave(d) == pc[d] = "leaving" /\ Die(d)

Crash(d) == Alive(d) /\ Die(d)

-----------------------------------------------------------------------------
StartStep(d) ==
    \/ ReadPid(d) \/ RemoveStalePid(d) \/ RemoveStaleSocket(d)
    \/ TruncatePid(d) \/ WritePid(d) \/ Unbind(d) \/ Bind(d) \/ Chmod(d)
    \/ AbortServe(d)

StopSteps(d) ==
    \/ WatchTick(d) \/ WatchQueue(d) \/ StopStep(d)
    \/ ServeReturns(d) \/ AcceptFails(d) \/ RemovePid(d) \/ CancelContext(d) \/ Leave(d)

RequestStep(d) ==
    \E c \in Clients : BeginRequest(d, c) \/ FinishRequest(d, c) \/ Shutdown(d, c) \/ LoseRequest(d, c)

Next ==
    \/ \E d \in Daemons :
         \/ Start(d) \/ StartStep(d) \/ RequestStep(d)
         \/ GoIdle(d) \/ StopSteps(d) \/ Crash(d)
    \/ \E c \in Clients : Dial(c)

Spec == Init /\ [][Next]_vars

\* A live process runs: its goroutines are scheduled, handlers return, and
\* time passes.  Nobody is obliged to start a daemon or to call one.
FairSpec ==
    /\ Spec
    /\ \A d \in Daemons :
         /\ WF_vars(StartStep(d)) /\ WF_vars(RequestStep(d)) /\ WF_vars(GoIdle(d))
         /\ WF_vars(WatchTick(d) \/ WatchQueue(d)) /\ WF_vars(StopStep(d))
         /\ WF_vars(ServeReturns(d) \/ RemovePid(d) \/ Leave(d))

-----------------------------------------------------------------------------
(* Properties *)

\* checkStaleDaemon "returns a friendly error when a daemon under the current
\* uid is actually running": as long as start-ups do not overlap, at most one
\* daemon serves, across crashes, idle exits and shutdowns, and the PID file
\* names it, also while it stops.
OneDaemonUnlessOverlap ==
    ~overlap =>
        \A d \in Daemons : pc[d] = "serving" =>
            /\ \A o \in Daemons : pc[o] = "serving" => o = d
            /\ pidFile = d

\* The requests daemon d has begun and not answered.
Handled(d) == {c \in Clients : request[c] = "handling" /\ peer[c] = d}

\* queueLen is the number of requests between BeginRequest and their answer
\* (server.go, handleConn): a path that forgot to give one back would keep
\* the idle watcher from ever stopping the daemon.
QueueLenCountsRequests ==
    \A d \in Daemons : Alive(d) =>
        queueLen[d] = Cardinality(Handled(d))

\* A daemon that has lost the socket path, because another start-up or
\* another daemon's Stop removed it, does not stay for ever: nobody can reach
\* it, so it goes idle and exits (server.go, idleWatcher).
OrphanRetires ==
    \A d \in Daemons : (pc[d] = "serving" /\ sock # d) ~> (pc[d] = "dead")
=============================================================================
