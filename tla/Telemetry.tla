----------------------------- MODULE Telemetry ------------------------------
(***************************************************************************)
(* From the tracker's events table to the server: telemetry.Batcher in     *)
(* every running daemon reads the unflushed rows (Tracker.UnsentBuckets),  *)
(* posts them behind the consent gate (consentGatedSend, Sender.Send) and  *)
(* marks them flushed in chunks (Tracker.MarkFlushed), while events are    *)
(* recorded, old rows are deleted, consent is given and withdrawn in       *)
(* another process, replies get lost and daemons die, one of them of a row *)
(* it cannot read.  The daemons share the SQLite file; the tracker's mutex *)
(* orders one daemon's own steps.                                          *)
(***************************************************************************)
EXTENDS Naturals, FiniteSets

CONSTANTS Events,      \* rows that may be recorded
          Blank,       \* those whose ts the hook left empty
          Daemons,     \* daemon processes with a batcher
          ChunkSize,   \* markFlushedChunk
          MaxFaults,   \* bound: failed posts, lost replies, crashes, SQL errors
          MaxToggles   \* bound: changes of consent

ASSUME TelemetryAssumption ==
    /\ IsFiniteSet(Events) /\ IsFiniteSet(Daemons) /\ Blank \subseteq Events
    /\ ChunkSize \in Nat \ {0}
    /\ MaxFaults \in Nat /\ MaxToggles \in Nat

VARIABLES
    row,       \* each event's row: absent, unsent, flushed or deleted
    old,       \* events before the 90 days of retention, as "" always is
    pc,        \* each batcher: idle, gate, post, mark; its daemon down
    ids,       \* the row ids UnsentBuckets returned, those still to mark
    consent,   \* TelemetryConsentAt in the credentials file
    received,  \* observation: deliveries of each event the server accepted
    skipped,   \* observation: events in a batch the consent gate dropped
    faults,    \* faults so far
    toggles,   \* consent changes so far
    late       \* observation: batches accepted since consent was withdrawn

vars == <<row, old, pc, ids, consent, received, skipped, faults, toggles, late>>

TypeOK ==
    /\ row \in [Events -> {"absent", "unsent", "flushed", "deleted"}]
    /\ old \subseteq Events
    /\ pc \in [Daemons -> {"idle", "gate", "post", "mark", "down"}]
    /\ ids \in [Daemons -> SUBSET Events]
    /\ \A d \in Daemons : pc[d] \in {"idle", "down"} => ids[d] = {}
    /\ consent \in BOOLEAN
    /\ received \in [Events -> Nat]
    /\ skipped \subseteq Events
    /\ faults \in 0 .. MaxFaults
    /\ toggles \in 0 .. MaxToggles
    /\ late \in Nat

Init ==
    /\ row = [e \in Events |-> "absent"]
    /\ old = {}
    /\ pc = [d \in Daemons |-> "idle"]
    /\ ids = [d \in Daemons |-> {}]
    /\ consent \in BOOLEAN
    /\ received = [e \in Events |-> 0]
    /\ skipped = {}
    /\ faults = 0 /\ toggles = 0 /\ late = 0

Unsent == {e \in Events : row[e] = "unsent"}
Goto(d, label) == pc' = [pc EXCEPT ![d] = label]

\* Slip: an error path that keeps the ids.
KeepIds(d) == UNCHANGED ids

Forget(d) == ids' = [ids EXCEPT ![d] = {}]
Fault == faults < MaxFaults /\ faults' = faults + 1

-----------------------------------------------------------------------------
(* The tracker's other callers; each holds the mutex of its daemon, which   *)
(* MarkFlushed keeps over all its chunks.                                   *)

Answering(d) == pc[d] \notin {"mark", "down"}

Record(d, e) ==
    /\ Answering(d) /\ row[e] = "absent"
    /\ row' = [row EXCEPT ![e] = "unsent"]
    /\ old' = IF e \in Blank THEN old \cup {e} ELSE old
    /\ UNCHANGED <<pc, ids, consent, received, skipped, faults, toggles, late>>

\* Ninety days pass for a row.
Age(e) ==
    /\ row[e] \in {"unsent", "flushed"} /\ e \notin old
    /\ old' = old \cup {e}
    /\ UNCHANGED <<row, pc, ids, consent, received, skipped, faults, toggles, late>>

\* Tracker.Cleanup: by age alone, sent or not.
DeleteOld == row' = [e \in Events |-> IF e \in old THEN "deleted" ELSE row[e]]

\* The hourly Cleanup.
Cleanup(d) ==
    /\ Answering(d)
    /\ DeleteOld
    /\ UNCHANGED <<old, pc, ids, consent, received, skipped, faults, toggles, late>>

\* The user gives or withdraws consent: another process writes credentials.
SetConsent ==
    /\ toggles < MaxToggles
    /\ toggles' = toggles + 1
    /\ consent' = ~consent
    /\ late' = 0
    /\ UNCHANGED <<row, old, pc, ids, received, skipped, faults>>

-----------------------------------------------------------------------------
(* Batcher.tryFlush *)

\* A tick: UnsentBuckets; nothing to do without buckets.
Snapshot(d) ==
    /\ pc[d] = "idle" /\ Unsent # {} /\ Unsent \cap Blank = {}
    /\ ids' = [ids EXCEPT ![d] = Unsent]
    /\ Goto(d, "gate")
    /\ UNCHANGED <<row, old, consent, received, skipped, faults, toggles, late>>

\* ts[:10] of an empty ts panics in the batcher's goroutine, which ends the
\* daemon.
Panic(d) ==
    /\ pc[d] = "idle" /\ Unsent \cap Blank # {}
    /\ Goto(d, "down")
    /\ UNCHANGED <<row, old, ids, consent, received, skipped, faults, toggles, late>>

\* Slip: the first Cleanup comes after an hour, not at the start.
RestartUncleaned(d) ==
    /\ pc[d] = "down"
    /\ Goto(d, "idle")
    /\ UNCHANGED <<row, old, ids, consent, received, skipped, faults, toggles, late>>

\* The next daemon, which deletes old rows before its batcher's first tick.
Restart(d) ==
    /\ pc[d] = "down"
    /\ DeleteOld
    /\ Goto(d, "idle")
    /\ UNCHANGED <<old, ids, consent, received, skipped, faults, toggles, late>>

\* Slip: consent read once, when the batcher starts.
ConsentAtStart == TRUE

HasConsent == consent

\* consentGatedSend reads the credentials.  Without consent it returns nil,
\* which tryFlush takes for a delivery.
Gate(d) ==
    /\ pc[d] = "gate"
    /\ \/ HasConsent /\ Goto(d, "post") /\ UNCHANGED skipped
       \/ ~HasConsent /\ Goto(d, "mark") /\ skipped' = skipped \cup ids[d]
    /\ UNCHANGED <<row, old, ids, consent, received, faults, toggles, late>>

\* The server takes the batch, every event of it.
Accept(d) ==
    /\ received' = [e \in Events |-> IF e \in ids[d] THEN received[e] + 1 ELSE received[e]]
    /\ late' = IF consent THEN late ELSE late + 1

\* Sender.Send: accepted and acknowledged.
Delivered(d) ==
    /\ pc[d] = "post"
    /\ Accept(d)
    /\ Goto(d, "mark")
    /\ UNCHANGED <<row, old, ids, consent, skipped, faults, toggles>>

\* Slip: the error of send is not looked at.
MarkAnyway(d) == Goto(d, "mark") /\ UNCHANGED ids

\* An error to tryFlush: the events stay for the next attempt.
KeepForNextAttempt(d) == Goto(d, "idle") /\ Forget(d)

\* Accepted, but the 5 s client timeout or the connection ate the reply: an
\* error to tryFlush, which keeps the events.
ReplyLost(d) ==
    /\ pc[d] = "post"
    /\ Accept(d)
    /\ KeepForNextAttempt(d)
    /\ Fault
    /\ UNCHANGED <<row, old, consent, skipped, toggles>>

\* Never reached the server, or answered with a status of 400 or more.
PostFails(d) ==
    /\ pc[d] = "post"
    /\ KeepForNextAttempt(d)
    /\ Fault
    /\ UNCHANGED <<row, old, consent, received, skipped, toggles, late>>

\* Slip: the UPDATE matches no row.
UpdateNothing(S) == UNCHANGED row

Update(S) == row' = [e \in Events |-> IF e \in S /\ row[e] = "unsent" THEN "flushed" ELSE row[e]]

\* MarkFlushed: one UPDATE per chunk, no transaction around them.  Rows that
\* were deleted meanwhile do not match.
MarkChunk(d) ==
    /\ pc[d] = "mark" /\ ids[d] # {}
    /\ \E S \in SUBSET ids[d] :
         /\ S # {} /\ Cardinality(S) <= ChunkSize
         /\ Update(S)
         /\ ids' = [ids EXCEPT ![d] = @ \ S]
    /\ UNCHANGED <<old, pc, consent, received, skipped, faults, toggles, late>>

MarkDone(d) ==
    /\ pc[d] = "mark" /\ ids[d] = {}
    /\ Goto(d, "idle")
    /\ UNCHANGED <<row, old, ids, consent, received, skipped, faults, toggles, late>>

\* An UPDATE fails and MarkFlushed returns (tryFlush ignores the error), or
\* the daemon dies and another takes its place.
Interrupt(d) ==
    /\ pc[d] \notin {"idle", "down"}
    /\ Goto(d, "idle") /\ Forget(d)
    /\ Fault
    /\ UNCHANGED <<row, old, consent, received, skipped, toggles, late>>

-----------------------------------------------------------------------------
BatcherStep(d) ==
    \/ Snapshot(d) \/ Panic(d) \/ Restart(d) \/ Gate(d)
    \/ Delivered(d) \/ ReplyLost(d) \/ PostFails(d)
    \/ MarkChunk(d) \/ MarkDone(d)

Next ==
    \/ \E d \in Daemons :
         \/ BatcherStep(d) \/ Interrupt(d) \/ Cleanup(d)
         \/ \E e \in Events : Record(d, e)
    \/ \E e \in Events : Age(e)
    \/ SetConsent

Spec == Init /\ [][Next]_vars

\* Some daemon's ticker keeps firing, its requests time out and its SQL
\* returns, and hooks start another daemon when there is none; users, clocks
\* and the server owe nothing.
FairSpec == Spec /\ \A d \in Daemons : WF_vars(BatcherStep(d))

-----------------------------------------------------------------------------
(* Properties *)

\* A row is marked only on behalf of a batch it was in (batcher.go, tryFlush):
\* the server has it, or the gate dropped that batch.  Events recorded while
\* a batch is on its way, failed posts and interrupted marks never set it.
MarkedWasInBatch ==
    \A e \in Events : row[e] = "flushed" => received[e] > 0 \/ e \in skipped

\* The server counts an event twice only for a reason: each daemon delivers
\* it at most once without a fault between its acceptance and its mark.
DuplicatesNeedFaults ==
    \A e \in Events : received[e] <= Cardinality(Daemons) + faults

\* daemonStartCmd: a user who withdraws consent "stops flushing within the
\* next tick": only a batch that had already passed the gate is delivered
\* after the withdrawal, one per daemon.
RevocationStopsDelivery == late <= Cardinality(Daemons)

\* No row stays unsent for ever: whatever posts fail, the next ticks try it
\* again (sender errors "keep events for next attempt"), and rows that end the
\* daemon are gone when the next one ticks.
NothingStaysUnsent ==
    \A e \in Events : (row[e] = "unsent") ~> (row[e] # "unsent")
=============================================================================
