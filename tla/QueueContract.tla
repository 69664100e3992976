--------------------------- MODULE QueueContract ----------------------------
(***************************************************************************)
(* What the pending-events queue promises: an event enters it once, leaves *)
(* it by being replayed into the tracker or by being lost, and is never    *)
(* replayed twice.  EventQueue implements this with files that are renamed *)
(* and unlinked under concurrent appenders.                                *)
(***************************************************************************)
EXTENDS Naturals

CONSTANT Events
VARIABLES queued,   \* events held for a later replay
          replays   \* how often each event was replayed

Init == queued = {} /\ replays = [e \in Events |-> 0]

Enqueue(e) ==
    /\ e \notin queued /\ replays[e] = 0
    /\ queued' = queued \cup {e}
    /\ UNCHANGED replays

Replay(e) ==
    /\ e \in queued /\ replays[e] = 0
    /\ queued' = queued \ {e}
    /\ replays' = [replays EXCEPT ![e] = 1]

\* Nothing promises that a queued event survives, only that it stays lost.
Lose(S) ==
    /\ queued' = queued \ S
    /\ UNCHANGED replays

Next ==
    \/ \E e \in Events : Enqueue(e) \/ Replay(e)
    \/ \E S \in SUBSET queued : Lose(S)

Spec == Init /\ [][Next]_<<queued, replays>>
=============================================================================
