----------------------- MODULE DaemonLifecycleProofs ------------------------
(***************************************************************************)
(* For any number of daemon processes and clients: the types, one daemon   *)
(* behind the PID file as long as start-ups do not overlap, and an exact   *)
(* count of the requests in flight.                                        *)
(*                                                                         *)
(* The argument for the PID file: from its write to its removal a process  *)
(* is Settled and the file names it; a process that is on its way to write *)
(* saw no live owner, and only a second process in start-up could become   *)
(* one behind its back.                                                    *)
(***************************************************************************)
EXTENDS DaemonLifecycle, FiniteSetTheorems, TLAPS

\* Passed checkStaleDaemon, PID not written yet.
Claiming == {"cleanPid", "cleanSock", "truncate", "writePid"}

\* Between writePID and the deferred removal.
Settled == {"unbind", "bind", "chmod", "abortUnlink", "abortClose", "serving", "exiting"}

PidInv ==
    ~overlap =>
        /\ \A d, o \in Daemons : pc[d] \in Starting /\ pc[o] \in Starting => d = o
        /\ \A d \in Daemons : pc[d] \in Settled => pidFile = d
        /\ \A d, o \in Daemons : pc[d] \in Claiming => pc[o] \notin Settled

CountInv ==
    \A d \in Daemons :
        /\ pc[d] # "dead" => queueLen[d] = Cardinality(Handled(d))
        /\ pc[d] = "off" => ~listening[d] /\ \A c \in Clients : peer[c] # d

IInv == TypeOK /\ PidInv /\ CountInv

-----------------------------------------------------------------------------
\* A daemon handles between none and all of the clients' requests.
LEMMA HandledFinite ==
    ASSUME NEW d
    PROVE  /\ IsFiniteSet(Handled(d))
           /\ Cardinality(Handled(d)) \in 0 .. Cardinality(Clients)
<1>1. Handled(d) \in SUBSET Clients
  BY DEF Handled
<1>2. Cardinality(Handled(d)) \in Nat /\ Cardinality(Clients) \in Nat
  BY <1>1, LifecycleAssumption, FS_Subset, FS_CardinalityType
<1> QED BY <1>1, <1>2, LifecycleAssumption, FS_Subset

\* Initially nobody is in start-up and no request is in a handler.
LEMMA InitIInv == Init => IInv
<1> SUFFICES ASSUME Init PROVE IInv
  OBVIOUS
<1>1. \A d \in Daemons : Handled(d) = {}
  BY DEF Init, Handled
<1>2. CountInv
  BY <1>1, FS_EmptySet, LifecycleAssumption DEF Init, CountInv
<1>3. Cardinality(Clients) \in Nat
  BY LifecycleAssumption, FS_CardinalityType
<1>4. TypeOK
  <2>1. queueLen \in [Daemons -> 0 .. Cardinality(Clients)]
    BY <1>3 DEF Init
  <2>2. /\ pc \in [Daemons -> Starting \cup {"off", "serving", "exiting", "leaving", "dead"} \cup Aborting]
        /\ stop \in [Daemons -> {"no", "unlink", "close", "remove", "stopped"}]
        /\ watch \in [Daemons -> {"asleep", "idle"}]
    BY DEF Init
  <2>3. listening \in [Daemons -> BOOLEAN] /\ recent \in [Daemons -> BOOLEAN] /\ overlap \in BOOLEAN
    BY DEF Init
  <2>4. /\ pidFile \in Daemons \cup {"absent", "empty"} /\ sock \in Daemons \cup {NoDaemon}
        /\ request \in [Clients -> {"new", "queued", "handling", "done", "failed"}]
        /\ peer \in [Clients -> Daemons \cup {NoDaemon}]
    BY DEF Init
  <2> QED BY <2>1, <2>2, <2>3, <2>4 DEF TypeOK
<1>5. PidInv
  BY DEF Init, PidInv, Starting, Settled, Claiming
<1> QED BY <1>2, <1>4, <1>5 DEF IInv

\* Every step keeps the PID file's owner unique.
LEMMA PidStep == TypeOK /\ PidInv /\ [Next]_vars => PidInv'
<1> SUFFICES ASSUME TypeOK, PidInv, [Next]_vars PROVE PidInv'
  OBVIOUS
<1> USE LifecycleAssumption
    DEF TypeOK, PidInv, Starting, Claiming, Settled, Goto, serverVars, requestVars
<1>1. CASE UNCHANGED vars
  BY <1>1 DEF vars
<1>2. ASSUME NEW d \in Daemons,
             Start(d) \/ StartStep(d) \/ GoIdle(d) \/ StopSteps(d) \/ Crash(d)
      PROVE  PidInv'
  <2>1. CASE Start(d)
    <3>1. ~overlap' => ~overlap /\ \A o \in Daemons : ~(pc[o] \in Starting)
      <4> HIDE DEF Starting, TypeOK, PidInv
      <4> QED BY <2>1, Zenon DEF Start
    <3> QED BY <2>1, <3>1 DEF Start
  <2>2. CASE ReadPid(d)
    BY <2>2 DEF ReadPid, processAlive, Alive
  <2>3. CASE RemoveStalePid(d)
    BY <2>3 DEF RemoveStalePid
  <2>4. CASE RemoveStaleSocket(d)
    BY <2>4 DEF RemoveStaleSocket
  <2>5. CASE TruncatePid(d)
    BY <2>5 DEF TruncatePid
  <2>6. CASE WritePid(d)
    BY <2>6 DEF WritePid
  <2>7. CASE Unbind(d)
    BY <2>7 DEF Unbind
  <2>8. CASE Bind(d)
    BY <2>8 DEF Bind
  <2>9. CASE Chmod(d)
    BY <2>9 DEF Chmod
  <2>10. CASE GoIdle(d)
    BY <2>10 DEF GoIdle
  <2>11. CASE WatchTick(d)
    BY <2>11 DEF WatchTick
  <2>12. CASE WatchQueue(d)
    BY <2>12 DEF WatchQueue
  <2>13. CASE StopStep(d)
    BY <2>13 DEF StopStep
  <2>14. CASE ServeReturns(d)
    BY <2>14 DEF ServeReturns
  <2>15. CASE RemovePid(d)
    BY <2>15 DEF RemovePid
  <2>16. CASE Leave(d)
    BY <2>16 DEF Leave, Die
  <2>17. CASE Crash(d)
    BY <2>17 DEF Crash, Die, Alive
  <2>18. CASE AbortServe(d)
    BY <2>18 DEF AbortServe
  <2>19. CASE AcceptFails(d)
    BY <2>19 DEF AcceptFails
  <2>20. CASE CancelContext(d)
    BY <2>20 DEF CancelContext
  <2> QED BY <1>2, <2>1, <2>2, <2>3, <2>4, <2>5, <2>6, <2>7, <2>8, <2>9, <2>10, <2>11, <2>12, <2>13, <2>14, <2>15, <2>16, <2>17,
             <2>18, <2>19, <2>20 DEF StartStep, StopSteps
<1>3. ASSUME NEW d \in Daemons, NEW c \in Clients,
             \/ BeginRequest(d, c) \/ FinishRequest(d, c)
             \/ Shutdown(d, c) \/ LoseRequest(d, c)
      PROVE  PidInv'
  <2>1. CASE BeginRequest(d, c)
    BY <2>1 DEF BeginRequest
  <2>2. CASE FinishRequest(d, c)
    BY <2>2 DEF FinishRequest
  <2>3. CASE Shutdown(d, c)
    BY <2>3 DEF Shutdown
  <2>4. CASE LoseRequest(d, c)
    BY <2>4 DEF LoseRequest
  <2> QED BY <1>3, <2>1, <2>2, <2>3, <2>4
<1>4. ASSUME NEW c \in Clients, Dial(c) PROVE PidInv'
  BY <1>4 DEF Dial
<1> QED BY <1>1, <1>2, <1>3, <1>4 DEF Next, RequestStep

\* The set of requests in handlers changes where queueLen does.
LEMMA BeginHandled ==
    ASSUME TypeOK, NEW d \in Daemons, NEW c \in Clients, BeginRequest(d, c)
    PROVE  /\ Handled(d)' = Handled(d) \cup {c} /\ c \notin Handled(d)
           /\ \A o \in Daemons \ {d} : Handled(o)' = Handled(o)
  BY DEF TypeOK, BeginRequest, Handled

LEMMA FinishHandled ==
    ASSUME TypeOK, NEW d \in Daemons, NEW c \in Clients, FinishRequest(d, c)
    PROVE  /\ Handled(d)' = Handled(d) \ {c} /\ c \in Handled(d)
           /\ \A o \in Daemons \ {d} : Handled(o)' = Handled(o)
  BY LifecycleAssumption DEF TypeOK, FinishRequest, Handled

LEMMA LoseHandled ==
    ASSUME TypeOK, NEW d \in Daemons, NEW c \in Clients, LoseRequest(d, c)
    PROVE  \A o \in Daemons : Handled(o)' = Handled(o) \/ (o = d /\ ~Alive(d))
  BY LifecycleAssumption DEF TypeOK, LoseRequest, Handled

LEMMA DialHandled ==
    ASSUME TypeOK, NEW c \in Clients, Dial(c)
    PROVE  \A o \in Daemons : Handled(o)' = Handled(o)
  BY DEF TypeOK, Dial, Handled

LEMMA SameHandled ==
    ASSUME UNCHANGED requestVars, NEW o
    PROVE  Handled(o)' = Handled(o)
  BY DEF requestVars, Handled

\* Every step keeps queueLen exact.
LEMMA CountStep == TypeOK /\ CountInv /\ [Next]_vars => CountInv'
<1> SUFFICES ASSUME TypeOK, CountInv, [Next]_vars PROVE CountInv'
  OBVIOUS
<1> USE LifecycleAssumption, SameHandled DEF TypeOK, CountInv, Goto, serverVars, requestVars
<1>1. CASE UNCHANGED vars
  BY <1>1 DEF vars
<1>2. ASSUME NEW d \in Daemons,
             Start(d) \/ StartStep(d) \/ GoIdle(d) \/ StopSteps(d) \/ Crash(d)
      PROVE  CountInv'
  <2>1. CASE Start(d)
    BY <2>1 DEF Start
  <2>2. CASE ReadPid(d)
    BY <2>2 DEF ReadPid, processAlive, Alive
  <2>3. CASE RemoveStalePid(d)
    BY <2>3 DEF RemoveStalePid
  <2>4. CASE RemoveStaleSocket(d)
    BY <2>4 DEF RemoveStaleSocket
  <2>5. CASE TruncatePid(d)
    BY <2>5 DEF TruncatePid
  <2>6. CASE WritePid(d)
    BY <2>6 DEF WritePid
  <2>7. CASE Unbind(d)
    BY <2>7 DEF Unbind
  <2>8. CASE Bind(d)
    BY <2>8 DEF Bind
  <2>9. CASE Chmod(d)
    BY <2>9 DEF Chmod
  <2>10. CASE GoIdle(d)
    BY <2>10 DEF GoIdle
  <2>11. CASE WatchTick(d)
    BY <2>11 DEF WatchTick
  <2>12. CASE WatchQueue(d)
    BY <2>12 DEF WatchQueue
  <2>13. CASE StopStep(d)
    BY <2>13 DEF StopStep
  <2>14. CASE ServeReturns(d)
    BY <2>14 DEF ServeReturns
  <2>15. CASE RemovePid(d)
    BY <2>15 DEF RemovePid
  <2>16. CASE Leave(d)
    BY <2>16 DEF Leave, Die
  <2>17. CASE Crash(d)
    BY <2>17 DEF Crash, Die, Alive
  <2>18. CASE AbortServe(d)
    BY <2>18 DEF AbortServe
  <2>19. CASE AcceptFails(d)
    BY <2>19 DEF AcceptFails
  <2>20. CASE CancelContext(d)
    BY <2>20 DEF CancelContext
  <2> QED BY <1>2, <2>1, <2>2, <2>3, <2>4, <2>5, <2>6, <2>7, <2>8, <2>9, <2>10, <2>11, <2>12, <2>13, <2>14, <2>15, <2>16, <2>17,
             <2>18, <2>19, <2>20 DEF StartStep, StopSteps
<1>3. ASSUME NEW d \in Daemons, NEW c \in Clients,
             \/ BeginRequest(d, c) \/ FinishRequest(d, c)
             \/ Shutdown(d, c) \/ LoseRequest(d, c)
      PROVE  CountInv'
  <2>1. CASE BeginRequest(d, c)
    <3> SUFFICES ASSUME NEW o \in Daemons
                 PROVE  /\ pc[o] # "dead" => queueLen'[o] = Cardinality(Handled(o)')
                        /\ pc[o] = "off" => ~listening[o] /\ \A k \in Clients : peer[k] # o
      BY <2>1 DEF BeginRequest
    <3>1. CASE o = d
      <4>1. Handled(o)' = Handled(o) \cup {c} /\ c \notin Handled(o)
        BY <2>1, <3>1, BeginHandled
      <4>2. Cardinality(Handled(o) \cup {c}) = Cardinality(Handled(o)) + 1
        BY <4>1, HandledFinite, FS_AddElement
      <4>3. queueLen'[o] = queueLen[o] + 1 /\ queueLen[o] = Cardinality(Handled(o))
        BY <2>1, <3>1 DEF BeginRequest, Alive
      <4> QED BY <4>1, <4>2, <4>3
    <3>2. CASE o # d
      BY <2>1, <3>2, BeginHandled DEF BeginRequest
    <3> QED BY <3>1, <3>2
  <2>2. CASE FinishRequest(d, c)
    <3> SUFFICES ASSUME NEW o \in Daemons
                 PROVE  /\ pc[o] # "dead" => queueLen'[o] = Cardinality(Handled(o)')
                        /\ pc[o] = "off" => ~listening[o] /\ \A k \in Clients : peer'[k] # o
      BY <2>2 DEF FinishRequest
    <3>1. CASE o = d
      <4>1. Handled(o)' = Handled(o) \ {c} /\ c \in Handled(o)
        BY <2>2, <3>1, FinishHandled
      <4>2. Cardinality(Handled(o) \ {c}) = Cardinality(Handled(o)) - 1
        BY <4>1, HandledFinite, FS_RemoveElement
      <4>3. queueLen'[o] = queueLen[o] - 1 /\ queueLen[o] = Cardinality(Handled(o))
        BY <2>2, <3>1 DEF FinishRequest, Alive
      <4>4. pc[o] # "off"
        BY <2>2, <3>1 DEF FinishRequest, Alive
      <4> QED BY <4>1, <4>2, <4>3, <4>4
    <3>2. CASE o # d
      <4>1. Handled(o)' = Handled(o) /\ queueLen'[o] = queueLen[o]
        BY <2>2, <3>2, FinishHandled DEF FinishRequest
      <4>2. pc[o] = "off" => ~listening[o] /\ \A k \in Clients : peer'[k] # o
        BY <2>2 DEF FinishRequest
      <4> QED BY <4>1, <4>2
    <3> QED BY <3>1, <3>2
  <2>3. CASE Shutdown(d, c)
    BY <2>3 DEF Shutdown
  <2>4. CASE LoseRequest(d, c)
    <3> SUFFICES ASSUME NEW o \in Daemons
                 PROVE  /\ pc[o] # "dead" => queueLen[o] = Cardinality(Handled(o)')
                        /\ pc[o] = "off" => ~listening[o] /\ \A k \in Clients : peer'[k] # o
      BY <2>4 DEF LoseRequest
    <3>1. Handled(o)' = Handled(o) \/ pc[o] = "dead"
      <4>1. Handled(o)' = Handled(o) \/ (o = d /\ ~Alive(d))
        BY <2>4, LoseHandled
      <4>2. pc[d] # "off"
        BY <2>4 DEF LoseRequest
      <4> QED BY <4>1, <4>2 DEF Alive
    <3>2. pc[o] = "off" => ~listening[o] /\ \A k \in Clients : peer'[k] # o
      BY <2>4 DEF LoseRequest
    <3> QED BY <3>1, <3>2
  <2> QED BY <1>3, <2>1, <2>2, <2>3, <2>4
<1>4. ASSUME NEW c \in Clients, Dial(c) PROVE CountInv'
  BY <1>4, DialHandled DEF Dial, Reachable
<1> QED BY <1>1, <1>2, <1>3, <1>4 DEF Next, RequestStep

\* Every step preserves the types; queueLen's range comes from its meaning.
LEMMA TypeStep == TypeOK /\ CountInv /\ CountInv' /\ [Next]_vars => TypeOK'
<1> SUFFICES ASSUME TypeOK, CountInv, CountInv', [Next]_vars PROVE TypeOK'
  OBVIOUS
<1>0. Cardinality(Clients) \in Nat
  BY LifecycleAssumption, FS_CardinalityType
<1> USE LifecycleAssumption, <1>0 DEF TypeOK, Starting, Aborting, Goto, serverVars, requestVars
<1>1. CASE UNCHANGED vars
  BY <1>1 DEF vars
<1>2. ASSUME NEW d \in Daemons,
             Start(d) \/ StartStep(d) \/ GoIdle(d) \/ StopSteps(d) \/ Crash(d)
      PROVE  TypeOK'
  <2>1. CASE Start(d)
    BY <2>1 DEF Start
  <2>2. CASE ReadPid(d)
    BY <2>2 DEF ReadPid, processAlive, Alive
  <2>3. CASE RemoveStalePid(d)
    BY <2>3 DEF RemoveStalePid
  <2>4. CASE RemoveStaleSocket(d)
    BY <2>4 DEF RemoveStaleSocket
  <2>5. CASE TruncatePid(d)
    BY <2>5 DEF TruncatePid
  <2>6. CASE WritePid(d)
    BY <2>6 DEF WritePid
  <2>7. CASE Unbind(d)
    BY <2>7 DEF Unbind
  <2>8. CASE Bind(d)
    BY <2>8 DEF Bind
  <2>9. CASE Chmod(d)
    BY <2>9 DEF Chmod
  <2>10. CASE GoIdle(d)
    BY <2>10 DEF GoIdle
  <2>11. CASE WatchTick(d)
    BY <2>11 DEF WatchTick
  <2>12. CASE WatchQueue(d)
    BY <2>12 DEF WatchQueue
  <2>13. CASE StopStep(d)
    BY <2>13 DEF StopStep
  <2>14. CASE ServeReturns(d)
    BY <2>14 DEF ServeReturns
  <2>15. CASE RemovePid(d)
    BY <2>15 DEF RemovePid
  <2>16. CASE Leave(d)
    BY <2>16 DEF Leave, Die
  <2>17. CASE Crash(d)
    BY <2>17 DEF Crash, Die, Alive
  <2>18. CASE AbortServe(d)
    BY <2>18 DEF AbortServe
  <2>19. CASE AcceptFails(d)
    BY <2>19 DEF AcceptFails
  <2>20. CASE CancelContext(d)
    BY <2>20 DEF CancelContext
  <2> QED BY <1>2, <2>1, <2>2, <2>3, <2>4, <2>5, <2>6, <2>7, <2>8, <2>9, <2>10, <2>11, <2>12, <2>13, <2>14, <2>15, <2>16, <2>17,
             <2>18, <2>19, <2>20 DEF StartStep, StopSteps
<1>3. ASSUME NEW d \in Daemons, NEW c \in Clients,
             \/ BeginRequest(d, c) \/ FinishRequest(d, c)
             \/ Shutdown(d, c) \/ LoseRequest(d, c)
      PROVE  TypeOK'
  <2>1. CASE BeginRequest(d, c)
    <3>1. queueLen'[d] \in 0 .. Cardinality(Clients)
      <4>1. pc'[d] # "dead" /\ queueLen'[d] = Cardinality(Handled(d)')
        BY <2>1 DEF BeginRequest, Alive, CountInv
      <4>2. Handled(d)' \in SUBSET Clients
        BY DEF Handled
      <4> QED BY <4>1, <4>2, FS_Subset, FS_CardinalityType
    <3> QED BY <2>1, <3>1 DEF BeginRequest
  <2>2. CASE FinishRequest(d, c)
    <3>1. queueLen'[d] \in 0 .. Cardinality(Clients)
      <4>1. pc'[d] # "dead" /\ queueLen'[d] = Cardinality(Handled(d)')
        BY <2>2 DEF FinishRequest, Alive, CountInv
      <4>2. Handled(d)' \in SUBSET Clients
        BY DEF Handled
      <4> QED BY <4>1, <4>2, FS_Subset, FS_CardinalityType
    <3> QED BY <2>2, <3>1 DEF FinishRequest
  <2>3. CASE Shutdown(d, c)
    BY <2>3 DEF Shutdown
  <2>4. CASE LoseRequest(d, c)
    BY <2>4 DEF LoseRequest
  <2> QED BY <1>3, <2>1, <2>2, <2>3, <2>4
<1>4. ASSUME NEW c \in Clients, Dial(c) PROVE TypeOK'
  BY <1>4 DEF Dial
<1> QED BY <1>1, <1>2, <1>3, <1>4 DEF Next, RequestStep

\* The invariant holds of every reachable state.
THEOREM Inductive == Spec => []IInv
<1>1. IInv /\ [Next]_vars => IInv'
  BY PidStep, CountStep, TypeStep DEF IInv
<1> QED BY InitIInv, <1>1, PTL DEF Spec

\* Names, program counters and counters of every process stay in their types;
\* in particular queueLen never goes below zero.
THEOREM TypeCorrect == Spec => []TypeOK
<1>1. IInv => TypeOK
  BY DEF IInv
<1> QED BY <1>1, Inductive, PTL

\* Any number of start-ups that do not overlap leave one daemon serving, and
\* the PID file names it.
THEOREM OneDaemon == Spec => []OneDaemonUnlessOverlap
<1>1. IInv => OneDaemonUnlessOverlap
  BY DEF IInv, PidInv, Settled, OneDaemonUnlessOverlap
<1> QED BY <1>1, Inductive, PTL

\* queueLen is exact, so the idle watcher waits for every request in flight
\* that it can see.
THEOREM QueueLenExact == Spec => []QueueLenCountsRequests
<1>1. IInv => QueueLenCountsRequests
  BY DEF IInv, CountInv, QueueLenCountsRequests, Alive
<1> QED BY <1>1, Inductive, PTL
=============================================================================
