-------------------------- MODULE TelemetryProofs ---------------------------
(***************************************************************************)
(* For any finite set of daemons, any events, chunks of any size and any   *)
(* number of faults: rows are marked only on behalf of their batch, an     *)
(* event is delivered at most once per daemon and fault, and a withdrawal  *)
(* of consent lets at most one batch per daemon through.                   *)
(*                                                                         *)
(* Each delivery of an unsent event is accounted for by a daemon that will *)
(* mark it or by a fault; once it is marked, only the daemons that still   *)
(* hold it can deliver it again.  At the end, what the events claim and    *)
(* how the reports add it up.                                              *)
(***************************************************************************)
EXTENDS Telemetry, Decisions, FiniteSetTheorems, WellFoundedInduction, NaturalsInduction, TLAPS

\* Daemons with the event in a batch that is not posted yet ...
Holding(e) == {d \in Daemons : pc[d] \in {"gate", "post"} /\ e \in ids[d]}

\* ... and with the event still to mark.
Marking(e) == {d \in Daemons : pc[d] = "mark" /\ e \in ids[d]}

Posting == {d \in Daemons : pc[d] = "post"}

\* A batch consists of recorded rows, and is marked when it was received or
\* skipped.
BatchInv ==
    \A d \in Daemons : \A e \in ids[d] :
        /\ row[e] # "absent"
        /\ pc[d] = "mark" => received[e] > 0 \/ e \in skipped

Waiting(e) == row[e] \in {"absent", "unsent"}

DeliveryInv ==
    \A e \in Events :
        /\ Waiting(e) => received[e] <= Cardinality(Marking(e)) + faults
        /\ ~Waiting(e) => received[e] + Cardinality(Holding(e)) <= Cardinality(Daemons) + faults

ConsentInv ==
    /\ consent => late = 0
    /\ ~consent => late + Cardinality(Posting) <= Cardinality(Daemons)

IInv == TypeOK /\ BatchInv /\ MarkedWasInBatch /\ DeliveryInv /\ ConsentInv

-----------------------------------------------------------------------------
\* Sets of daemons are finite and their cardinalities natural numbers.
LEMMA DaemonSets ==
    ASSUME NEW S \in SUBSET Daemons
    PROVE  /\ IsFiniteSet(S) /\ Cardinality(S) \in Nat /\ Cardinality(Daemons) \in Nat
           /\ Cardinality(S) <= Cardinality(Daemons)
  BY TelemetryAssumption, FS_Subset, FS_CardinalityType

\* More daemons, no smaller cardinality.
LEMMA Monotone ==
    ASSUME NEW S \in SUBSET Daemons, NEW T \in SUBSET S
    PROVE  Cardinality(T) <= Cardinality(S)
  BY DaemonSets, FS_Subset

LEMMA AddOne ==
    ASSUME NEW S \in SUBSET Daemons, NEW d \in Daemons, d \notin S
    PROVE  Cardinality(S \cup {d}) = Cardinality(S) + 1
  BY DaemonSets, FS_AddElement

LEMMA RemoveOne ==
    ASSUME NEW S \in SUBSET Daemons, NEW d \in S
    PROVE  Cardinality(S \ {d}) = Cardinality(S) - 1
  BY DaemonSets, FS_RemoveElement

\* Nobody holds and marks an event at once.
LEMMA HoldingOrMarking ==
    ASSUME NEW e
    PROVE  Cardinality(Holding(e)) + Cardinality(Marking(e)) <= Cardinality(Daemons)
<1>1. Holding(e) \in SUBSET Daemons /\ Marking(e) \in SUBSET Daemons
  BY DEF Holding, Marking
<1>2. Holding(e) \cap Marking(e) = {}
  BY DEF Holding, Marking
<1>3. /\ IsFiniteSet(Holding(e)) /\ IsFiniteSet(Marking(e))
      /\ Cardinality(Holding(e)) \in Nat /\ Cardinality(Marking(e)) \in Nat
  BY <1>1, DaemonSets
<1>4. Cardinality(Holding(e) \cup Marking(e)) =
          Cardinality(Holding(e)) + Cardinality(Marking(e)) - Cardinality({})
  BY <1>2, <1>3, FS_Union
<1>5. Cardinality(Holding(e) \cup Marking(e)) <= Cardinality(Daemons)
  BY <1>1, DaemonSets
<1> QED BY <1>3, <1>4, <1>5, FS_EmptySet

-----------------------------------------------------------------------------
\* Initially there are no rows, no batches and no deliveries.
LEMMA InitIInv == Init => IInv
<1> SUFFICES ASSUME Init PROVE IInv
  OBVIOUS
<1> USE TelemetryAssumption
<1>1. TypeOK
  BY DEF Init, TypeOK
<1>2. BatchInv /\ MarkedWasInBatch
  BY DEF Init, BatchInv, MarkedWasInBatch
<1>3. DeliveryInv
  <2> SUFFICES ASSUME NEW e \in Events PROVE received[e] <= Cardinality(Marking(e)) + faults
    BY DEF Init, DeliveryInv, Waiting
  <2>1. Marking(e) = {}
    BY DEF Init, Marking
  <2> QED BY <2>1, FS_EmptySet DEF Init
<1>4. ConsentInv
  <2>1. Posting = {}
    BY DEF Init, Posting
  <2>2. Cardinality(Posting) = 0 /\ Cardinality(Daemons) \in Nat
    BY <2>1, FS_EmptySet, FS_CardinalityType
  <2> QED BY <2>2 DEF Init, ConsentInv
<1> QED BY <1>1, <1>2, <1>3, <1>4 DEF IInv

\* Every step preserves the types.
LEMMA TypeStep == TypeOK /\ [Next]_vars => TypeOK'
<1> SUFFICES ASSUME TypeOK, [Next]_vars PROVE TypeOK'
  OBVIOUS
<1> USE TelemetryAssumption DEF TypeOK, Goto, Forget, Fault
<1>1. CASE UNCHANGED vars
  BY <1>1 DEF vars
<1>2. ASSUME NEW d \in Daemons, BatcherStep(d) \/ Interrupt(d) \/ Cleanup(d) PROVE TypeOK'
  <2>1. CASE Snapshot(d) \/ Panic(d) \/ Restart(d)
    BY <2>1 DEF Snapshot, Panic, Restart, DeleteOld, Unsent
  <2>2. CASE Gate(d)
    BY <2>2 DEF Gate
  <2>3. CASE Delivered(d)
    BY <2>3 DEF Delivered, Accept
  <2>4. CASE ReplyLost(d)
    BY <2>4 DEF ReplyLost, Accept, KeepForNextAttempt
  <2>5. CASE PostFails(d)
    BY <2>5 DEF PostFails, KeepForNextAttempt
  <2>6. CASE MarkChunk(d)
    BY <2>6 DEF MarkChunk, Update
  <2>7. CASE MarkDone(d)
    BY <2>7 DEF MarkDone
  <2>8. CASE Interrupt(d)
    BY <2>8 DEF Interrupt
  <2>9. CASE Cleanup(d)
    BY <2>9 DEF Cleanup, DeleteOld
  <2> QED BY <1>2, <2>1, <2>2, <2>3, <2>4, <2>5, <2>6, <2>7, <2>8, <2>9 DEF BatcherStep
<1>3. ASSUME NEW d \in Daemons, NEW e \in Events, Record(d, e) PROVE TypeOK'
  BY <1>3 DEF Record
<1>4. ASSUME NEW e \in Events, Age(e) PROVE TypeOK'
  BY <1>4 DEF Age
<1>5. CASE SetConsent
  BY <1>5 DEF SetConsent
<1> QED BY <1>1, <1>2, <1>3, <1>4, <1>5 DEF Next

\* Every step keeps batches to recorded rows, and marks to received or
\* skipped ones.
LEMMA BatchStep ==
    TypeOK /\ BatchInv /\ MarkedWasInBatch /\ [Next]_vars => BatchInv' /\ MarkedWasInBatch'
<1> SUFFICES ASSUME TypeOK, BatchInv, MarkedWasInBatch, [Next]_vars
             PROVE  BatchInv' /\ MarkedWasInBatch'
  OBVIOUS
<1> USE DEF TypeOK, BatchInv, MarkedWasInBatch, Goto, Forget, Fault
<1>1. CASE UNCHANGED vars
  BY <1>1 DEF vars
<1>2. ASSUME NEW d \in Daemons, BatcherStep(d) \/ Interrupt(d) \/ Cleanup(d)
      PROVE  BatchInv' /\ MarkedWasInBatch'
  <2>1. CASE Snapshot(d) \/ Panic(d) \/ Restart(d)
    BY <2>1 DEF Snapshot, Panic, Restart, DeleteOld, Unsent
  <2>2. CASE Gate(d)
    BY <2>2 DEF Gate
  <2>3. CASE Delivered(d)
    BY <2>3 DEF Delivered, Accept
  <2>4. CASE ReplyLost(d)
    BY <2>4 DEF ReplyLost, Accept, KeepForNextAttempt
  <2>5. CASE PostFails(d)
    BY <2>5 DEF PostFails, KeepForNextAttempt
  <2>6. CASE MarkChunk(d)
    BY <2>6 DEF MarkChunk, Update
  <2>7. CASE MarkDone(d)
    BY <2>7 DEF MarkDone
  <2>8. CASE Interrupt(d)
    BY <2>8 DEF Interrupt
  <2>9. CASE Cleanup(d)
    BY <2>9 DEF Cleanup, DeleteOld
  <2> QED BY <1>2, <2>1, <2>2, <2>3, <2>4, <2>5, <2>6, <2>7, <2>8, <2>9 DEF BatcherStep
<1>3. ASSUME NEW d \in Daemons, NEW e \in Events, Record(d, e) PROVE BatchInv' /\ MarkedWasInBatch'
  BY <1>3 DEF Record
<1>4. ASSUME NEW e \in Events, Age(e) PROVE BatchInv' /\ MarkedWasInBatch'
  BY <1>4 DEF Age
<1>5. CASE SetConsent
  BY <1>5 DEF SetConsent
<1> QED BY <1>1, <1>2, <1>3, <1>4, <1>5 DEF Next

\* The daemons that hold or mark an event, before and after a step.
LEMMA EventSets ==
    ASSUME NEW e
    PROVE  /\ Holding(e) \in SUBSET Daemons /\ Marking(e) \in SUBSET Daemons
           /\ Holding(e)' \in SUBSET Daemons /\ Marking(e)' \in SUBSET Daemons
           /\ Cardinality(Holding(e)) \in Nat /\ Cardinality(Marking(e)) \in Nat
           /\ Cardinality(Holding(e)') \in Nat /\ Cardinality(Marking(e)') \in Nat
           /\ Cardinality(Daemons) \in Nat
<1>1. /\ Holding(e) \in SUBSET Daemons /\ Marking(e) \in SUBSET Daemons
      /\ Holding(e)' \in SUBSET Daemons /\ Marking(e)' \in SUBSET Daemons
  BY DEF Holding, Marking
<1> QED BY <1>1, DaemonSets

\* A step that takes nobody off the markers of an event, gives it no new
\* holders and delivers nothing keeps the account of its deliveries.
LEMMA QuietStep ==
    ASSUME TypeOK, TypeOK', DeliveryInv, NEW e \in Events,
           Marking(e) \subseteq Marking(e)', ~Waiting(e) => Holding(e)' \subseteq Holding(e),
           Waiting(e)' = Waiting(e), received'[e] = received[e], faults' >= faults
    PROVE  /\ Waiting(e)' => received'[e] <= Cardinality(Marking(e)') + faults'
           /\ ~Waiting(e)' => received'[e] + Cardinality(Holding(e)') <= Cardinality(Daemons) + faults'
<1>1. Cardinality(Marking(e)) <= Cardinality(Marking(e)')
  BY EventSets, Monotone
<1>2. ~Waiting(e) => Cardinality(Holding(e)') <= Cardinality(Holding(e))
  BY EventSets, Monotone
<1>3. received[e] \in Nat /\ faults \in Nat /\ faults' \in Nat
  BY TelemetryAssumption DEF TypeOK
<1> QED BY <1>1, <1>2, <1>3, EventSets DEF DeliveryInv

\* Every step keeps the account of deliveries.
LEMMA DeliveryStep ==
    TypeOK /\ TypeOK' /\ BatchInv /\ DeliveryInv /\ [Next]_vars => DeliveryInv'
<1> SUFFICES ASSUME TypeOK, TypeOK', BatchInv, DeliveryInv, [Next]_vars, NEW e \in Events
             PROVE  /\ Waiting(e)' => received'[e] <= Cardinality(Marking(e)') + faults'
                    /\ ~Waiting(e)' => received'[e] + Cardinality(Holding(e)') <= Cardinality(Daemons) + faults'
  BY DEF DeliveryInv
<1> DEFINE Account ==
             /\ Waiting(e)' => received'[e] <= Cardinality(Marking(e)') + faults'
             /\ ~Waiting(e)' => received'[e] + Cardinality(Holding(e)') <= Cardinality(Daemons) + faults'
           Quiet ==
             /\ Marking(e) \subseteq Marking(e)'
             /\ ~Waiting(e) => Holding(e)' \subseteq Holding(e)
             /\ Waiting(e)' = Waiting(e)
             /\ received'[e] = received[e] /\ faults' >= faults
<1>numbers. received[e] \in Nat /\ faults \in Nat
  BY TelemetryAssumption DEF TypeOK
<1>quiet. Quiet => Account
  BY QuietStep
<1>account. /\ Waiting(e) => received[e] <= Cardinality(Marking(e)) + faults
            /\ ~Waiting(e) => received[e] + Cardinality(Holding(e)) <= Cardinality(Daemons) + faults
  BY DEF DeliveryInv
<1>1. CASE UNCHANGED vars
  <2>1. Quiet
    BY <1>1, <1>numbers DEF vars, Marking, Holding, Waiting
  <2> QED BY <2>1, <1>quiet
<1>2. ASSUME NEW d \in Daemons, BatcherStep(d) \/ Interrupt(d) \/ Cleanup(d) PROVE Account
  <2>1. CASE Snapshot(d) \/ Panic(d)
    <3>1. Quiet
      BY <2>1, <1>numbers DEF Snapshot, Panic, Unsent, Goto, Marking, Holding, Waiting, TypeOK
    <3> QED BY <3>1, <1>quiet
  <2>2. CASE Gate(d)
    <3>1. Quiet
      BY <2>2, <1>numbers DEF Gate, Goto, Marking, Holding, Waiting, TypeOK
    <3> QED BY <3>1, <1>quiet
  <2>3. CASE Delivered(d)
    <3>1. CASE e \in ids[d]
      <4>1. /\ Marking(e)' = Marking(e) \cup {d} /\ d \notin Marking(e)
            /\ Holding(e)' = Holding(e) \ {d} /\ d \in Holding(e)
        BY <2>3, <3>1 DEF Delivered, Goto, Marking, Holding, TypeOK
      <4>2. received'[e] = received[e] + 1 /\ faults' = faults /\ Waiting(e)' = Waiting(e)
        BY <2>3, <3>1 DEF Delivered, Accept, Waiting
      <4>3. /\ Cardinality(Marking(e)') = Cardinality(Marking(e)) + 1
            /\ Cardinality(Holding(e)') = Cardinality(Holding(e)) - 1
        BY <4>1, EventSets, AddOne, RemoveOne
      <4> QED BY <4>2, <4>3, <1>account, <1>numbers, EventSets
    <3>2. CASE e \notin ids[d]
      <4>1. Quiet
        BY <2>3, <3>2, <1>numbers DEF Delivered, Accept, Goto, Marking, Holding, Waiting, TypeOK
      <4> QED BY <4>1, <1>quiet
    <3> QED BY <3>1, <3>2
  <2>4. CASE ReplyLost(d)
    <3>1. CASE e \in ids[d]
      <4>1. /\ Marking(e)' = Marking(e)
            /\ Holding(e)' = Holding(e) \ {d} /\ d \in Holding(e)
        BY <2>4, <3>1 DEF ReplyLost, KeepForNextAttempt, Forget, Goto, Marking, Holding, TypeOK
      <4>2. received'[e] = received[e] + 1 /\ faults' = faults + 1 /\ Waiting(e)' = Waiting(e)
        BY <2>4, <3>1 DEF ReplyLost, Accept, Fault, Waiting
      <4>3. Cardinality(Holding(e)') = Cardinality(Holding(e)) - 1
        BY <4>1, EventSets, RemoveOne
      <4> QED BY <4>1, <4>2, <4>3, <1>account, <1>numbers, EventSets
    <3>2. CASE e \notin ids[d]
      <4>1. Quiet
        BY <2>4, <3>2, <1>numbers
           DEF ReplyLost, Accept, KeepForNextAttempt, Forget, Fault, Goto, Marking, Holding, Waiting, TypeOK
      <4> QED BY <4>1, <1>quiet
    <3> QED BY <3>1, <3>2
  <2>5. CASE PostFails(d)
    <3>1. Quiet
      BY <2>5, <1>numbers
         DEF PostFails, KeepForNextAttempt, Forget, Fault, Goto, Marking, Holding, Waiting, TypeOK
    <3> QED BY <3>1, <1>quiet
  <2>6. CASE MarkChunk(d)
    <3>1. PICK S \in SUBSET ids[d] : Update(S) /\ ids' = [ids EXCEPT ![d] = @ \ S]
      BY <2>6 DEF MarkChunk
    <3>2. Holding(e)' = Holding(e) /\ received' = received /\ faults' = faults
      BY <2>6, <3>1 DEF MarkChunk, Holding, TypeOK
    <3>3. CASE e \in S
      <4>1. ~Waiting(e)'
        BY <2>6, <3>1, <3>3 DEF Update, Waiting, BatchInv, TypeOK
      <4>2. CASE Waiting(e)
        BY <4>1, <4>2, <3>2, <1>account, <1>numbers, EventSets, HoldingOrMarking
      <4>3. CASE ~Waiting(e)
        BY <4>1, <4>3, <3>2, <1>account
      <4> QED BY <4>2, <4>3
    <3>4. CASE e \notin S
      <4>1. Quiet
        BY <2>6, <3>1, <3>2, <3>4, <1>numbers DEF MarkChunk, Update, Marking, Waiting, TypeOK
      <4> QED BY <4>1, <1>quiet
    <3> QED BY <3>3, <3>4
  <2>7. CASE MarkDone(d)
    <3>1. Quiet
      BY <2>7, <1>numbers DEF MarkDone, Goto, Marking, Holding, Waiting, TypeOK
    <3> QED BY <3>1, <1>quiet
  <2>8. CASE Interrupt(d)
    <3>1. /\ Marking(e)' = Marking(e) \ {d} /\ Holding(e)' \subseteq Holding(e)
          /\ received' = received /\ faults' = faults + 1 /\ Waiting(e)' = Waiting(e)
      BY <2>8 DEF Interrupt, Forget, Fault, Goto, Marking, Holding, Waiting, TypeOK
    <3>2. Cardinality(Marking(e)) <= Cardinality(Marking(e)') + 1
      <4>1. CASE d \in Marking(e)
        BY <4>1, <3>1, EventSets, RemoveOne
      <4>2. CASE d \notin Marking(e)
        <5>1. Marking(e)' = Marking(e)
          BY <4>2, <3>1
        <5> QED BY <5>1, EventSets
      <4> QED BY <4>1, <4>2
    <3>3. Cardinality(Holding(e)') <= Cardinality(Holding(e))
      BY <3>1, EventSets, Monotone
    <3> QED BY <3>1, <3>2, <3>3, <1>account, <1>numbers, EventSets
  <2>9. CASE Cleanup(d) \/ Restart(d)
    <3>1. /\ Marking(e)' = Marking(e) /\ Holding(e)' = Holding(e)
          /\ received' = received /\ faults' = faults
      BY <2>9 DEF Cleanup, Restart, Goto, Marking, Holding, TypeOK
    <3>2. Waiting(e)' => Waiting(e)
      BY <2>9 DEF Cleanup, Restart, DeleteOld, Waiting
    <3>3. CASE Waiting(e)
      BY <3>1, <3>3, <1>account, <1>numbers, EventSets, HoldingOrMarking
    <3>4. CASE ~Waiting(e)
      BY <3>1, <3>2, <3>4, <1>account
    <3> QED BY <3>3, <3>4
  <2> QED BY <1>2, <2>1, <2>2, <2>3, <2>4, <2>5, <2>6, <2>7, <2>8, <2>9 DEF BatcherStep
<1>3. ASSUME NEW d \in Daemons, NEW x \in Events, Record(d, x) PROVE Account
  <2>1. Quiet
    BY <1>3, <1>numbers DEF Record, Marking, Holding, Waiting, TypeOK
  <2> QED BY <2>1, <1>quiet
<1>4. ASSUME NEW x \in Events, Age(x) PROVE Account
  <2>1. Quiet
    BY <1>4, <1>numbers DEF Age, Marking, Holding, Waiting
  <2> QED BY <2>1, <1>quiet
<1>5. CASE SetConsent
  <2>1. Quiet
    BY <1>5, <1>numbers DEF SetConsent, Marking, Holding, Waiting
  <2> QED BY <2>1, <1>quiet
<1> QED BY <1>1, <1>2, <1>3, <1>4, <1>5 DEF Next

\* Every step keeps the account of late batches: a post begins with consent
\* only.
LEMMA ConsentStep == TypeOK /\ TypeOK' /\ ConsentInv /\ [Next]_vars => ConsentInv'
<1> SUFFICES ASSUME TypeOK, TypeOK', ConsentInv, [Next]_vars PROVE ConsentInv'
  OBVIOUS
<1>1. /\ Posting \in SUBSET Daemons /\ Posting' \in SUBSET Daemons
  BY DEF Posting
<1>2. /\ Cardinality(Posting) \in Nat /\ Cardinality(Posting') \in Nat
      /\ Cardinality(Daemons) \in Nat /\ Cardinality(Posting') <= Cardinality(Daemons)
      /\ late \in Nat /\ consent \in BOOLEAN
  BY <1>1, DaemonSets DEF TypeOK
<1>3. ASSUME consent' = consent, late' = late, ~consent => Posting' \subseteq Posting
      PROVE  ConsentInv'
  <2>1. ~consent => Cardinality(Posting') <= Cardinality(Posting)
    BY <1>1, <1>3, Monotone
  <2> QED BY <1>2, <1>3, <2>1 DEF ConsentInv
<1>4. CASE UNCHANGED vars
  <2>1. consent' = consent /\ late' = late /\ Posting' = Posting
    BY <1>4 DEF vars, Posting
  <2> QED BY <1>3, <2>1
<1>5. ASSUME NEW d \in Daemons, BatcherStep(d) \/ Interrupt(d) \/ Cleanup(d) PROVE ConsentInv'
  <2>1. ASSUME Delivered(d) \/ ReplyLost(d) PROVE ConsentInv'
    <3>1. Posting' = Posting \ {d} /\ d \in Posting
      BY <2>1 DEF Delivered, ReplyLost, KeepForNextAttempt, Goto, Posting, TypeOK
    <3>2. Cardinality(Posting') = Cardinality(Posting) - 1
      BY <1>1, <3>1, RemoveOne
    <3>3. consent' = consent /\ late' = IF consent THEN late ELSE late + 1
      BY <2>1 DEF Delivered, ReplyLost, Accept
    <3> QED BY <1>2, <3>2, <3>3 DEF ConsentInv
  <2>2. ASSUME \/ Snapshot(d) \/ Panic(d) \/ Restart(d) \/ Gate(d) \/ PostFails(d) \/ MarkChunk(d) \/ MarkDone(d)
               \/ Interrupt(d) \/ Cleanup(d)
        PROVE  ConsentInv'
    <3>1. consent' = consent /\ late' = late
      BY <2>2 DEF Snapshot, Panic, Restart, Gate, PostFails, MarkChunk, MarkDone, Interrupt, Cleanup
    <3>2. ~consent => Posting' \subseteq Posting
      BY <2>2 DEF Snapshot, Panic, Restart, Gate, HasConsent, PostFails, KeepForNextAttempt, MarkChunk, MarkDone,
                  Interrupt, Cleanup, Goto, Posting, TypeOK
    <3> QED BY <1>3, <3>1, <3>2
  <2> QED BY <1>5, <2>1, <2>2 DEF BatcherStep
<1>6. ASSUME NEW d \in Daemons, NEW e \in Events, Record(d, e) PROVE ConsentInv'
  <2>1. consent' = consent /\ late' = late /\ Posting' = Posting
    BY <1>6 DEF Record, Posting
  <2> QED BY <1>3, <2>1
<1>7. ASSUME NEW e \in Events, Age(e) PROVE ConsentInv'
  <2>1. consent' = consent /\ late' = late /\ Posting' = Posting
    BY <1>7 DEF Age, Posting
  <2> QED BY <1>3, <2>1
<1>8. CASE SetConsent
  BY <1>2, <1>8 DEF SetConsent, ConsentInv
<1> QED BY <1>4, <1>5, <1>6, <1>7, <1>8 DEF Next

-----------------------------------------------------------------------------
\* The strengthened invariant holds in every reachable state.
THEOREM Inductive == Spec => []IInv
<1>1. IInv /\ [Next]_vars => IInv'
  BY TypeStep, BatchStep, DeliveryStep, ConsentStep DEF IInv
<1> QED BY InitIInv, <1>1, PTL DEF Spec

\* The variables keep their types; in particular an idle batcher has
\* forgotten its batch, whatever way it came there.
THEOREM TypeCorrect == Spec => []TypeOK
<1>1. IInv => TypeOK
  BY DEF IInv
<1> QED BY <1>1, Inductive, PTL

\* tryFlush and MarkFlushed: a flushed row was in a batch the server received
\* or the consent gate dropped.
THEOREM MarksBelongToBatches == Spec => []MarkedWasInBatch
<1>1. IInv => MarkedWasInBatch
  BY DEF IInv
<1> QED BY <1>1, Inductive, PTL

\* Without faults each daemon delivers an event at most once, and each lost
\* reply, failed mark or crash adds at most one delivery.
THEOREM DuplicatesAreBounded == Spec => []DuplicatesNeedFaults
<1>1. ASSUME IInv PROVE DuplicatesNeedFaults
  <2> SUFFICES ASSUME NEW e \in Events PROVE received[e] <= Cardinality(Daemons) + faults
    BY DEF DuplicatesNeedFaults
  <2>1. received[e] \in Nat /\ faults \in Nat
    BY <1>1, TelemetryAssumption DEF IInv, TypeOK
  <2>2. CASE Waiting(e)
    BY <1>1, <2>1, <2>2, EventSets, HoldingOrMarking DEF IInv, DeliveryInv
  <2>3. CASE ~Waiting(e)
    BY <1>1, <2>1, <2>3, EventSets DEF IInv, DeliveryInv
  <2> QED BY <2>2, <2>3
<1> QED BY <1>1, Inductive, PTL

\* consentGatedSend: after a withdrawal of consent each daemon delivers at
\* most the batch it was posting.
THEOREM RevocationIsPrompt == Spec => []RevocationStopsDelivery
<1>1. ASSUME IInv PROVE RevocationStopsDelivery
  <2>1. Posting \in SUBSET Daemons
    BY DEF Posting
  <2>2. Cardinality(Posting) \in Nat /\ Cardinality(Daemons) \in Nat /\ late \in Nat
    BY <1>1, <2>1, DaemonSets DEF IInv, TypeOK
  <2> QED BY <1>1, <2>2 DEF IInv, ConsentInv, TypeOK, RevocationStopsDelivery
<1> QED BY <1>1, Inductive, PTL

-----------------------------------------------------------------------------
(* What the rows say that are batched and sent: the tokens the hooks and   *)
(* the run proxy claim.                                                    *)

ReadCalls == [allowed : BOOLEAN, workspace : BOOLEAN, exists : BOOLEAN, path : {"code", "doc", "config", "never"},
              size : Nat, binary : BOOLEAN, ranged : BOOLEAN]
SearchCalls == [allowed : BOOLEAN, workspace : BOOLEAN, target : {"code", "config"}, first : BOOLEAN,
                mode : {"block", "soft"}, output : Nat, matched : Nat]

\* rewrite-read and postuse-read.
LEMMA ReadSavingsBounded ==
    ASSUME {LargeFile, HeadBytes, PathBytes} \subseteq Nat, NEW c \in ReadCalls
    PROVE  ReadSavings(c)
<1> SUFFICES ASSUME NEW e \in rewriteReadDecide(c).events \cup postuseReadDecide(c)
             PROVE  e.saved \in 0 .. Tokens(c.size)
  BY DEF ReadSavings
<1>1. c.size \in Nat
  BY DEF ReadCalls
<1>2. CASE e \in rewriteReadDecide(c).events
  <2> DEFINE head == IF HeadShown(c) THEN HeadBytes ELSE 0
             saved == Tokens(c.size - PathBytes - head)
  <2>1. e = Event("estimated", IF saved > 0 THEN saved ELSE 0)
    BY <1>2 DEF rewriteReadDecide
  <2>2. head \in Nat
    OBVIOUS
  <2> HIDE DEF head
  <2>3. saved \in Int /\ saved <= Tokens(c.size) /\ 0 <= Tokens(c.size)
        /\ Tokens(c.size) \in Int
    BY <1>1, <2>2 DEF Tokens
  <2> HIDE DEF saved
  <2> QED BY <2>1, <2>3 DEF Event
<1>3. CASE e \in postuseReadDecide(c)
  <2>1. e = Event("estimated", (Tokens(c.size) * 2) \div 5)
    BY <1>3 DEF postuseReadDecide
  <2>2. Tokens(c.size) \in Nat
    BY <1>1 DEF Tokens
  <2>3. \A t \in Nat : (t * 2) \div 5 \in 0 .. t
    OBVIOUS
  <2> QED BY <2>1, <2>2, <2>3 DEF Event
<1> QED BY <1>2, <1>3

\* block-glob, postuse-grep and postuse-glob.
LEMMA SearchSavingsBounded ==
    ASSUME BlockedBytes \in Nat, NEW c \in SearchCalls
    PROVE  SearchSavings(c)
<1>1. c.output \in Nat /\ c.matched \in Nat
  BY DEF SearchCalls
<1>2. Tokens(c.output) \in Nat /\ Tokens(BlockedBytes) \in Nat
  BY <1>1 DEF Tokens
\* No counterfactual is ever counted.
<1>3. ~(postuseGlobCounterfactual(c) >= 0)
  <2>1. \A n \in Nat : n # 0 => -(n * 80) \div 4 < 0 /\ -(n * 80) \div 4 \in Int
    OBVIOUS
  <2> QED BY <1>1, <2>1 DEF postuseGlobCounterfactual
<1>4. \A e \in postuseGrepDecide(c) : e = Event("measured", Tokens(c.output))
  BY DEF postuseGrepDecide
<1>5. \A e \in postuseGlobDecide(c) :
         IF c.mode # "block" THEN e = Event("measured", Tokens(c.output))
         ELSE e = Event("estimated", Tokens(BlockedBytes))
  BY <1>3 DEF postuseGlobDecide
<1>6. blockGlobDecide(c) = "deny" => c.mode = "block"
  BY DEF blockGlobDecide
<1>7. /\ \A e \in postuseGrepDecide(c) \cup postuseGlobDecide(c) :
            e.saved >= 0 /\ (e.method = "measured" => e.saved <= Tokens(c.output))
      /\ blockGlobDecide(c) = "deny" =>
            \A e \in postuseGlobDecide(c) : e.saved = Tokens(BlockedBytes)
  BY <1>2, <1>4, <1>5, <1>6 DEF Event
<1> QED BY <1>7 DEF SearchSavings

\* The run proxy.
LEMMA RunSavingsBounded ==
    ASSUME NEW raw \in Nat, NEW shown \in Nat
    PROVE  RunSavings(raw, shown)
<1>1. /\ Rounded(raw) \in Nat /\ Rounded(raw - shown) \in Int
      /\ Rounded(raw - shown) <= Rounded(raw)
  BY DEF Rounded
<1> QED BY <1>1 DEF RunSavings, TrackRunSaved

\* Whatever the sizes: no claim is negative, and none but the flat one for a
\* blocked Glob is more than the whole of what was read, found or printed.
THEOREM SavingsAreBounded ==
    ASSUME {LargeFile, HeadBytes, PathBytes, BlockedBytes} \subseteq Nat
    PROVE  /\ \A c \in ReadCalls : ReadSavings(c)
           /\ \A c \in SearchCalls : SearchSavings(c)
           /\ \A raw, shown \in Nat : RunSavings(raw, shown)
<1>1. {LargeFile, HeadBytes, PathBytes} \subseteq Nat /\ BlockedBytes \in Nat
  OBVIOUS
<1>2. \A c \in ReadCalls : ReadSavings(c)
  BY <1>1, ReadSavingsBounded
<1>3. \A c \in SearchCalls : SearchSavings(c)
  BY <1>1, SearchSavingsBounded
<1>4. \A raw, shown \in Nat : RunSavings(raw, shown)
  BY RunSavingsBounded
<1> QED BY <1>2, <1>3, <1>4

-----------------------------------------------------------------------------
(* What is told of the rows.  Sums over finite sets first: SumOver takes   *)
(* the elements in an order that CHOOSE fixes, and the reports are right   *)
(* because any other order gives the same.                                 *)

\* A set of numbers that is not empty has a least one.
LEMMA LeastNumber ==
    ASSUME NEW T \in SUBSET Nat, T # {}
    PROVE  \E x \in T : \A y \in T : x <= y
<1> DEFINE R == {ss \in Nat \X Nat : ss[1] < ss[2]}
<1>1. IsWellFoundedOn(R, Nat)
  BY NatLessThanWellFounded DEF OpToRel
<1>2. \A x, y \in Nat : <<y, x>> \in R <=> y < x
  OBVIOUS
<1> HIDE DEF R
<1>3. PICK x \in T : \A y \in T : <<y, x>> \notin R
  BY <1>1, WFMin
<1>4. \A y \in T : y \in Nat /\ x \in Nat /\ ~(y < x)
  BY <1>2, <1>3
<1>5. \A y \in T : x <= y
  BY <1>4
<1> QED BY <1>5

\* Induction over the subsets of a finite set, for a set Good of them.
LEMMA SetInduction ==
    ASSUME NEW S, IsFiniteSet(S), NEW Good, {} \in Good,
           \A T \in SUBSET S : T # {} /\ (\A x \in T : T \ {x} \in Good) => T \in Good
    PROVE  SUBSET S \subseteq Good
<1> DEFINE Bad == (SUBSET S) \ Good
           R == StrictSubsetOrdering(S)
<1> SUFFICES ASSUME Bad # {} PROVE FALSE
  OBVIOUS
<1>1. IsWellFoundedOn(R, SUBSET S)
  BY FS_StrictSubsetOrderingWellFounded, FS_FiniteSubsetsOfFinite
<1>2. Bad \subseteq SUBSET S
  OBVIOUS
<1>3. \A T \in SUBSET S : \A x \in T : <<T \ {x}, T>> \in R
  <2> SUFFICES ASSUME NEW T \in SUBSET S, NEW x \in T PROVE <<T \ {x}, T>> \in R
    OBVIOUS
  <2> DEFINE U == T \ {x}
  <2>1. U \in SUBSET S /\ U \subseteq T /\ U # T
    OBVIOUS
  <2> HIDE DEF U
  <2>2. <<U, T>> \in StrictSubsetOrdering(S)
    BY <2>1 DEF StrictSubsetOrdering
  <2> QED BY <2>2 DEF U
<1> HIDE DEF R, Bad
<1>4. PICK T \in Bad : \A U \in Bad : <<U, T>> \notin R
  BY <1>1, <1>2, WFMin
<1>5. T \in SUBSET S /\ T \notin Good
  BY DEF Bad
<1>6. T # {}
  BY <1>5
<1>7. \A x \in T : T \ {x} \in Good
  <2> SUFFICES ASSUME NEW x \in T PROVE T \ {x} \in Good
    OBVIOUS
  <2>1. T \ {x} \notin Bad
    BY <1>3, <1>4, <1>5
  <2> QED BY <1>5, <2>1 DEF Bad
<1> QED BY <1>5, <1>6, <1>7

First(T) == CHOOSE x \in T : TRUE

\* g is the recursion of MapThenSumSet over the subsets of S.
Sums(g, f, S) ==
    g = [T \in SUBSET S |-> IF T = {} THEN 0 ELSE f[First(T)] + g[T \ {First(T)}]]

\* There is such a function, built up by the size of the subsets.
LEMMA SumsExist ==
    ASSUME NEW S, IsFiniteSet(S), NEW f
    PROVE  \E g : Sums(g, f, S)
<1> DEFINE UpTo(n) == {T \in SUBSET S : Cardinality(T) <= n}
           Partial(g, n) ==
               g = [T \in UpTo(n) |-> IF T = {} THEN 0 ELSE f[First(T)] + g[T \ {First(T)}]]
           Bad == {n \in Nat : ~\E g : Partial(g, n)}
<1>1. \A T \in SUBSET S : IsFiniteSet(T) /\ Cardinality(T) \in Nat /\ Cardinality(T) <= Cardinality(S)
  BY FS_Subset, FS_CardinalityType
<1>2. \A T \in SUBSET S : Cardinality(T) = 0 <=> T = {}
  BY <1>1, FS_EmptySet
<1>3. \A T \in SUBSET S : T # {} =>
          T \ {First(T)} \in SUBSET S /\ Cardinality(T \ {First(T)}) = Cardinality(T) - 1
  <2> SUFFICES ASSUME NEW T \in SUBSET S, T # {}
               PROVE  Cardinality(T \ {First(T)}) = Cardinality(T) - 1
    OBVIOUS
  <2>1. First(T) \in T
    BY DEF First
  <2> QED BY <1>1, <2>1, FS_RemoveElement
<1>4. 0 \notin Bad
  <2> DEFINE g == [T \in UpTo(0) |-> 0]
  <2>1. \A T \in UpTo(0) : T = {}
    BY <1>1, <1>2
  <2>2. g = [T \in UpTo(0) |-> IF T = {} THEN 0 ELSE f[First(T)] + g[T \ {First(T)}]]
    BY <2>1
  <2> QED BY <2>2
<1>5. ASSUME NEW n \in Nat, NEW g, Partial(g, n)
      PROVE  \E h : Partial(h, n + 1)
  <2> DEFINE Next1(e) == [T \in UpTo(n + 1) |-> IF T = {} THEN 0 ELSE f[First(T)] + e[T \ {First(T)}]]
             h == Next1(g)
  <2>1. \A T \in UpTo(n + 1) : T # {} => T \ {First(T)} \in UpTo(n)
    BY <1>1, <1>3
  <2>2. \A T \in UpTo(n) : T \in UpTo(n + 1)
    BY <1>1
  <2>3. \A T \in UpTo(n) : h[T] = g[T]
    <3> SUFFICES ASSUME NEW T \in UpTo(n) PROVE h[T] = g[T]
      OBVIOUS
    <3>1. g[T] = IF T = {} THEN 0 ELSE f[First(T)] + g[T \ {First(T)}]
      BY <1>5
    <3> HIDE DEF UpTo
    <3>2. h[T] = IF T = {} THEN 0 ELSE f[First(T)] + g[T \ {First(T)}]
      BY <2>2
    <3> QED BY <3>1, <3>2
  <2> HIDE DEF UpTo
  <2>4. \A T \in UpTo(n + 1) : h[T] = IF T = {} THEN 0 ELSE f[First(T)] + h[T \ {First(T)}]
    <3> SUFFICES ASSUME NEW T \in UpTo(n + 1), T # {}
                 PROVE  h[T] = f[First(T)] + h[T \ {First(T)}]
      OBVIOUS
    <3>1. h[T] = f[First(T)] + g[T \ {First(T)}]
      OBVIOUS
    <3> QED BY <2>1, <2>3, <3>1
  <2>5. h = [T \in UpTo(n + 1) |-> h[T]]
    OBVIOUS
  <2> HIDE DEF h
  <2>6. h = [T \in UpTo(n + 1) |-> IF T = {} THEN 0 ELSE f[First(T)] + h[T \ {First(T)}]]
    BY <2>4, <2>5
  <2> QED BY <2>6
<1>6. Cardinality(S) \notin Bad
  <2> HIDE DEF Partial
  <2> SUFFICES ASSUME Bad # {} PROVE FALSE
    OBVIOUS
  <2>1. PICK n \in Bad : \A k \in Bad : n <= k
    BY LeastNumber
  <2>2. n \in Nat /\ n # 0
    BY <1>4, <2>1
  <2>3. n - 1 \in Nat /\ ~(n <= n - 1)
    BY <2>2
  <2>4. n - 1 \notin Bad
    BY <2>1, <2>3
  <2>5. PICK g : Partial(g, n - 1)
    BY <2>3, <2>4
  <2>6. \E h : Partial(h, (n - 1) + 1)
    BY <1>5, <2>3, <2>5
  <2>7. (n - 1) + 1 = n
    BY <2>2
  <2> QED BY <2>6, <2>7
<1>7. UpTo(Cardinality(S)) = SUBSET S
  BY <1>1
<1>8. Cardinality(S) \in Nat
  BY <1>1
<1>9. PICK g : Partial(g, Cardinality(S))
  BY <1>6, <1>8
<1> QED BY <1>7, <1>9 DEF Sums

\* Two of them agree where both are defined.
LEMMA SumsAgree ==
    ASSUME NEW S, NEW R, NEW f, NEW g, NEW h, Sums(g, f, S), Sums(h, f, R),
           NEW T, IsFiniteSet(T), T \subseteq S, T \subseteq R
    PROVE  g[T] = h[T]
<1> DEFINE Good == {U \in SUBSET T : g[U] = h[U]}
<1>1. \A U \in SUBSET T : /\ g[U] = IF U = {} THEN 0 ELSE f[First(U)] + g[U \ {First(U)}]
                          /\ h[U] = IF U = {} THEN 0 ELSE f[First(U)] + h[U \ {First(U)}]
  BY DEF Sums
<1>2. {} \in Good
  BY <1>1
<1>3. ASSUME NEW U \in SUBSET T, U # {}, \A x \in U : U \ {x} \in Good
      PROVE  U \in Good
  <2>1. First(U) \in U
    BY <1>3 DEF First
  <2>2. g[U \ {First(U)}] = h[U \ {First(U)}]
    BY <1>3, <2>1
  <2> QED BY <1>1, <1>3, <2>2
<1> HIDE DEF Good
<1>4. SUBSET T \subseteq Good
  BY <1>2, <1>3, SetInduction
<1>5. T \in Good
  BY <1>4
<1> QED BY <1>5 DEF Good

\* SumOver is that recursion.
LEMMA SumOverSums ==
    ASSUME NEW S, IsFiniteSet(S), NEW f
    PROVE  \E g : Sums(g, f, S) /\ SumOver(f, S) = g[S]
<1> DEFINE Rec(h) == h = [T \in SUBSET S |-> IF T = {} THEN 0 ELSE f[First(T)] + h[T \ {First(T)}]]
<1>1. SumOver(f, S) = (CHOOSE h : Rec(h))[S]
  BY DEF SumOver, MapThenSumSet, MapThenFoldSet, First
<1>2. PICK g : Sums(g, f, S)
  BY SumsExist
<1>3. Rec(g)
  BY <1>2 DEF Sums
<1> HIDE DEF Rec
<1>4. Rec(CHOOSE h : Rec(h))
  BY <1>3
<1>5. Sums(CHOOSE h : Rec(h), f, S)
  BY <1>4 DEF Rec, Sums
<1> QED BY <1>1, <1>5

LEMMA SumOverStep ==
    ASSUME NEW S, IsFiniteSet(S), NEW f
    PROVE  /\ S = {} => SumOver(f, S) = 0
           /\ S # {} => SumOver(f, S) = f[First(S)] + SumOver(f, S \ {First(S)})
<1> DEFINE R == S \ {First(S)}
<1>1. IsFiniteSet(R) /\ R \subseteq S
  BY FS_RemoveElement
<1> HIDE DEF R
<1>2. PICK g : Sums(g, f, S) /\ SumOver(f, S) = g[S]
  BY SumOverSums
<1>3. PICK h : Sums(h, f, R) /\ SumOver(f, R) = h[R]
  BY <1>1, SumOverSums
<1>4. g[R] = h[R]
  BY <1>1, <1>2, <1>3, SumsAgree
<1>5. g[S] = IF S = {} THEN 0 ELSE f[First(S)] + g[R]
  BY <1>2 DEF Sums, R
<1> QED BY <1>2, <1>3, <1>4, <1>5 DEF R

LEMMA SumOverType ==
    ASSUME NEW S, IsFiniteSet(S), NEW f, \A x \in S : f[x] \in Int
    PROVE  \A T \in SUBSET S : SumOver(f, T) \in Int
<1> DEFINE Good == {T \in SUBSET S : SumOver(f, T) \in Int}
<1>1. {} \in Good
  <2>1. SumOver(f, {}) = 0
    BY SumOverStep, FS_EmptySet
  <2> QED BY <2>1
<1>2. ASSUME NEW T \in SUBSET S, T # {}, \A x \in T : T \ {x} \in Good
      PROVE  T \in Good
  <2>1. First(T) \in T /\ IsFiniteSet(T)
    BY <1>2, FS_Subset DEF First
  <2>2. SumOver(f, T) = f[First(T)] + SumOver(f, T \ {First(T)})
    BY <1>2, <2>1, SumOverStep
  <2>3. f[First(T)] \in Int /\ SumOver(f, T \ {First(T)}) \in Int
    BY <1>2, <2>1
  <2> QED BY <2>2, <2>3
<1> HIDE DEF Good
<1>3. SUBSET S \subseteq Good
  BY <1>1, <1>2, SetInduction
<1> QED BY <1>3 DEF Good

\* Any element may be taken last.
LEMMA SumOverElement ==
    ASSUME NEW S, IsFiniteSet(S), NEW f, \A x \in S : f[x] \in Int
    PROVE  \A T \in SUBSET S : \A x \in T : SumOver(f, T) = f[x] + SumOver(f, T \ {x})
<1> DEFINE Whichever(T) == \A x \in T : SumOver(f, T) = f[x] + SumOver(f, T \ {x})
           Good == {T \in SUBSET S : Whichever(T)}
<1>1. {} \in Good
  OBVIOUS
<1>2. ASSUME NEW T \in SUBSET S, T # {}, \A x \in T : T \ {x} \in Good
      PROVE  T \in Good
  <2> DEFINE c == First(T)
             C == T \ {c}
  <2>1. c \in T /\ f[c] \in Int /\ IsFiniteSet(T)
    BY <1>2, FS_Subset DEF First
  <2>2. SumOver(f, T) = f[c] + SumOver(f, C)
    BY <1>2, <2>1, SumOverStep
  <2>3. Whichever(C)
    BY <1>2, <2>1
  <2> HIDE DEF c
  <2>4. ASSUME NEW x \in T, x # c
        PROVE  SumOver(f, T) = f[x] + SumOver(f, T \ {x})
    <3> DEFINE X == T \ {x}
               r == SumOver(f, T \ {c, x})
    <3>1. x \in C /\ c \in X /\ C \ {x} = T \ {c, x} /\ X \ {c} = T \ {c, x}
      BY <2>1, <2>4
    <3>2. SumOver(f, C) = f[x] + r
      BY <2>3, <3>1
    <3>3. Whichever(X)
      BY <1>2
    <3>4. SumOver(f, X) = f[c] + r
      BY <3>1, <3>3
    <3>5. r \in Int
      BY SumOverType
    <3>6. f[x] \in Int
      OBVIOUS
    <3> HIDE DEF X, r
    <3>7. SumOver(f, T) = f[x] + SumOver(f, X)
      BY <2>1, <2>2, <3>2, <3>4, <3>5, <3>6
    <3> QED BY <3>7 DEF X
  <2> QED BY <2>2, <2>4
<1> HIDE DEF Good
<1>3. SUBSET S \subseteq Good
  BY <1>1, <1>2, SetInduction
<1> QED BY <1>3 DEF Good

\* Sums of parts that have nothing in common.
LEMMA SumOverUnion ==
    ASSUME NEW S, IsFiniteSet(S), NEW f, \A x \in S : f[x] \in Int,
           NEW A \in SUBSET S, NEW B \in SUBSET S, A \cap B = {}
    PROVE  SumOver(f, A \cup B) = SumOver(f, A) + SumOver(f, B)
<1> DEFINE Splits(C) == SumOver(f, A \cup C) = SumOver(f, A) + SumOver(f, C)
           Good == {C \in SUBSET B : Splits(C)}
<1>1. \A T \in SUBSET S : SumOver(f, T) \in Int
  BY SumOverType
<1>2. IsFiniteSet(B)
  BY FS_Subset
<1>3. {} \in Good
  <2>1. SumOver(f, {}) = 0 /\ A \cup {} = A /\ SumOver(f, A) \in Int
    BY <1>1, SumOverStep, FS_EmptySet
  <2> QED BY <2>1
<1>4. ASSUME NEW C \in SUBSET B, C # {}, \A x \in C : C \ {x} \in Good
      PROVE  C \in Good
  <2>1. PICK x \in C : TRUE
    BY <1>4
  <2> DEFINE D == C \ {x}
             U == A \cup C
  <2>2. Splits(D)
    BY <1>4
  <2>3. C \in SUBSET S /\ U \in SUBSET S /\ x \in U /\ U \ {x} = A \cup D
    BY <2>1
  <2>4. SumOver(f, C) = f[x] + SumOver(f, D)
    BY <2>3, SumOverElement
  <2>5. SumOver(f, U) = f[x] + SumOver(f, U \ {x})
    BY <2>3, SumOverElement
  <2>6. SumOver(f, A) \in Int /\ SumOver(f, D) \in Int /\ f[x] \in Int
    BY <1>1, <2>3
  <2>7. SumOver(f, U \ {x}) = SumOver(f, A) + SumOver(f, D)
    BY <2>2, <2>3
  <2> HIDE DEF U, D
  <2>8. SumOver(f, U) = SumOver(f, A) + SumOver(f, C)
    BY <2>4, <2>5, <2>6, <2>7
  <2> QED BY <2>8 DEF U
<1> HIDE DEF Good
<1>5. SUBSET B \subseteq Good
  BY <1>2, <1>3, <1>4, SetInduction
<1>6. B \in Good
  BY <1>5
<1> QED BY <1>6 DEF Good

\* The sums of the groups add up to the sum.
LEMMA SumOfGroups ==
    ASSUME NEW S, IsFiniteSet(S), NEW f, \A x \in S : f[x] \in Int, NEW key,
           NEW h, h = [k \in {key[i] : i \in S} |-> SumOver(f, {i \in S : key[i] = k})]
    PROVE  /\ SumOver(h, DOMAIN h) = SumOver(f, S)
           /\ IsFiniteSet(DOMAIN h) /\ \A k \in DOMAIN h : h[k] \in Int
<1> DEFINE K == {key[i] : i \in S}
           Of(T) == {i \in S : key[i] \in T}
           Adds(T) == SumOver(h, T) = SumOver(f, Of(T))
           Good == {T \in SUBSET K : Adds(T)}
<1>1. IsFiniteSet(K)
  <2> DEFINE m == [i \in S |-> key[i]]
  <2>1. m \in Surjection(S, K)
    BY DEF Surjection
  <2> QED BY <2>1, FS_Surjection
<1>2. \A T \in SUBSET S : SumOver(f, T) \in Int
  BY SumOverType
<1>3. \A k \in K : h[k] = SumOver(f, Of({k})) /\ h[k] \in Int
  <2> SUFFICES ASSUME NEW k \in K PROVE h[k] = SumOver(f, Of({k})) /\ h[k] \in Int
    OBVIOUS
  <2>1. Of({k}) = {i \in S : key[i] = k} /\ Of({k}) \in SUBSET S
    OBVIOUS
  <2>2. h[k] = SumOver(f, {i \in S : key[i] = k})
    OBVIOUS
  <2> QED BY <1>2, <2>1, <2>2
<1>4. {} \in Good
  <2>1. SumOver(f, {}) = 0 /\ SumOver(h, {}) = 0 /\ Of({}) = {}
    BY SumOverStep, FS_EmptySet
  <2> QED BY <2>1
<1>5. DOMAIN h = K /\ Of(K) = S
  OBVIOUS
<1>6. \A A, B \in SUBSET S : A \cap B = {} => SumOver(f, A \cup B) = SumOver(f, A) + SumOver(f, B)
  BY SumOverUnion
<1>7. \A T \in SUBSET K : \A k \in T :
          /\ Of(T) = Of(T \ {k}) \cup Of({k}) /\ Of(T \ {k}) \cap Of({k}) = {}
          /\ Of(T \ {k}) \in SUBSET S /\ Of({k}) \in SUBSET S
  OBVIOUS
<1> HIDE DEF K, Of
<1>8. \A T \in SUBSET K : \A k \in T : SumOver(h, T) = h[k] + SumOver(h, T \ {k})
  <2>1. \A k \in K : h[k] \in Int
    BY <1>3
  <2> SUFFICES ASSUME NEW T \in SUBSET K, NEW k \in T
               PROVE  SumOver(h, T) = h[k] + SumOver(h, T \ {k})
    OBVIOUS
  <2>2. T \in SUBSET K /\ k \in T
    OBVIOUS
  <2> QED BY ONLY <1>1, <2>1, <2>2, SumOverElement
<1>9. ASSUME NEW T \in SUBSET K, T # {}, \A k \in T : T \ {k} \in Good
      PROVE  T \in Good
  <2>1. PICK k \in T : TRUE
    BY <1>9
  <2> DEFINE R == T \ {k}
  <2>2. Adds(R)
    BY <1>9
  <2>3. SumOver(h, T) = h[k] + SumOver(h, R)
    BY <1>8
  <2>4. SumOver(f, Of(T)) = SumOver(f, Of(R)) + SumOver(f, Of({k}))
    BY <1>6, <1>7
  <2>5. SumOver(f, Of(R)) \in Int /\ SumOver(f, Of({k})) \in Int
    BY <1>2, <1>7
  <2>6. h[k] = SumOver(f, Of({k}))
    BY <1>3
  <2> HIDE DEF R
  <2>7. SumOver(h, T) = SumOver(f, Of(T))
    BY <2>2, <2>3, <2>4, <2>5, <2>6
  <2> QED BY <2>7
<1> HIDE DEF Good
<1>10. SUBSET K \subseteq Good
  BY <1>1, <1>4, <1>9, SetInduction
<1>11. K \in Good
  BY <1>10
<1>12. Adds(K)
  BY <1>11 DEF Good
<1> QED BY <1>1, <1>3, <1>5, <1>12

\* A cardinality is a sum of ones.
LEMMA CountIsSum ==
    ASSUME NEW S, IsFiniteSet(S), NEW f, \A x \in S : f[x] = 1
    PROVE  \A T \in SUBSET S : Cardinality(T) = SumOver(f, T)
<1> DEFINE Good == {T \in SUBSET S : Cardinality(T) = SumOver(f, T)}
<1>1. {} \in Good
  BY SumOverStep, FS_EmptySet
<1>2. ASSUME NEW T \in SUBSET S, T # {}, \A x \in T : T \ {x} \in Good
      PROVE  T \in Good
  <2>1. PICK x \in T : TRUE
    BY <1>2
  <2>2. SumOver(f, T) = f[x] + SumOver(f, T \ {x})
    BY SumOverElement
  <2>3. IsFiniteSet(T) /\ Cardinality(T) \in Nat /\ Cardinality(T \ {x}) = Cardinality(T) - 1
    BY FS_Subset, FS_RemoveElement, FS_CardinalityType
  <2>4. Cardinality(T \ {x}) = SumOver(f, T \ {x}) /\ f[x] = 1
    BY <1>2
  <2>5. Cardinality(T) = SumOver(f, T)
    BY <2>2, <2>3, <2>4
  <2> QED BY <2>5
<1> HIDE DEF Good
<1>3. SUBSET S \subseteq Good
  BY <1>1, <1>2, SetInduction
<1> QED BY <1>3 DEF Good

\* Without a gain there is no gain in sum, and the magnitudes of what is lost
\* are what the sum has lost.
LEMMA SumOfLosses ==
    ASSUME NEW S, IsFiniteSet(S), NEW f, \A x \in S : f[x] \in Int /\ f[x] <= 0,
           NEW g, \A x \in S : g[x] = Magnitude(f[x])
    PROVE  SumOver(f, S) <= 0 /\ SumOver(g, S) = -SumOver(f, S)
<1> DEFINE Lost(T) == /\ SumOver(f, T) \in Int
                      /\ SumOver(f, T) <= 0
                      /\ SumOver(g, T) = -SumOver(f, T)
           Good == {T \in SUBSET S : Lost(T)}
<1>1. \A x \in S : g[x] = -f[x] /\ g[x] \in Int
  BY DEF Magnitude
<1>2. {} \in Good
  <2>1. SumOver(f, {}) = 0 /\ SumOver(g, {}) = 0
    BY SumOverStep, FS_EmptySet
  <2> QED BY <2>1
<1>3. ASSUME NEW T \in SUBSET S, T # {}, \A x \in T : T \ {x} \in Good
      PROVE  T \in Good
  <2>1. PICK x \in T : TRUE
    BY <1>3
  <2>2. SumOver(f, T) = f[x] + SumOver(f, T \ {x})
    BY SumOverElement
  <2>3. SumOver(g, T) = g[x] + SumOver(g, T \ {x})
    BY <1>1, SumOverElement
  <2>4. Lost(T \ {x}) /\ f[x] \in Int /\ f[x] <= 0 /\ g[x] = -f[x]
    BY <1>1, <1>3
  <2>5. Lost(T)
    BY <2>2, <2>3, <2>4
  <2> QED BY <2>5
<1> HIDE DEF Good
<1>4. SUBSET S \subseteq Good
  BY <1>2, <1>3, SetInduction
<1>5. S \in Good
  BY <1>4
<1> QED BY <1>5 DEF Good

-----------------------------------------------------------------------------
(* The reports, for any table.  A row of a wasted-* source has a saving that *)
(* is not positive: track-wasted is the only one to write such rows.         *)
Tables ==
    UNION {{rows \in [1 .. n -> [day : Nat, source : STRING, filter : STRING, model : STRING, method : STRING,
                                 saved : Int, flushed : BOOLEAN]] :
               \A i \in 1 .. n : rows[i].source \in Wasted => rows[i].saved <= 0} : n \in Nat}

\* However rows are grouped, the groups add up to them.
LEMMA GroupsAddUp ==
    ASSUME NEW rows \in Tables, NEW S \in SUBSET DOMAIN rows, NEW key,
           DOMAIN key = DOMAIN rows
    PROVE  AddsUp(rows, S, Grouped(rows, S, key))
<1> DEFINE f == [i \in DOMAIN rows |-> rows[i].saved]
           one == [i \in DOMAIN rows |-> 1]
           q == Grouped(rows, S, key)
           Of(k) == {i \in S : key[i] = k}
           K == {key[i] : i \in S}
<1>1. IsFiniteSet(S) /\ \A i \in S : f[i] \in Int
  <2>1. PICK n \in Nat : /\ DOMAIN rows = 1 .. n
                         /\ \A i \in 1 .. n : rows[i].saved \in Int
    BY DEF Tables
  <2>2. IsFiniteSet(1 .. n)
    BY FS_Interval
  <2>3. IsFiniteSet(S)
    BY <2>1, <2>2, FS_Subset
  <2> QED BY <2>1, <2>3
<1>2. q = [k \in K |-> [n |-> Cardinality(Of(k)), saved |-> SumOver(f, Of(k))]]
  BY DEF Grouped, SavedBy
<1>3. SavedBy(rows, S) = SumOver(f, S)
  BY DEF SavedBy
<1>4. \A i \in S : one[i] = 1 /\ one[i] \in Int
  OBVIOUS
<1>5. \A T \in SUBSET S : Cardinality(T) = SumOver(one, T)
  <2> HIDE DEF one
  <2> QED BY <1>1, <1>4, CountIsSum
<1>6. Savings(q) = [k \in K |-> SumOver(f, Of(k))] /\ DOMAIN q = K
  BY <1>2 DEF Savings
<1>7. Counts(q) = [k \in K |-> SumOver(one, Of(k))]
  <2>1. Counts(q) = [k \in K |-> Cardinality(Of(k))]
    BY <1>2 DEF Counts
  <2>2. \A k \in K : Cardinality(Of(k)) = SumOver(one, Of(k))
    BY <1>5
  <2> HIDE DEF Of, K, one
  <2> QED BY <2>1, <2>2
<1> HIDE DEF f, one, q
<1>8. SumOver(Savings(q), DOMAIN q) = SumOver(f, S)
  BY <1>1, <1>6, SumOfGroups
<1>9. SumOver(Counts(q), DOMAIN q) = SumOver(one, S)
  BY <1>1, <1>4, <1>6, <1>7, SumOfGroups
<1> QED BY <1>3, <1>5, <1>8, <1>9 DEF AddsUp, q

\* What the savings by source are, and their sum.
LEMMA SavingsBySource ==
    ASSUME NEW rows \in Tables, NEW since, NEW saved,
           saved = Savings(QueryAggregated(rows, since, "source", FALSE))
    PROVE  /\ IsFiniteSet(DOMAIN saved)
           /\ \A s \in DOMAIN saved : saved[s] \in Int
           /\ SumOver(saved, DOMAIN saved) = SavedBy(rows, InWindow(rows, since, FALSE))
           /\ \A s \in Wasted :
                 LET of == {i \in InWindow(rows, since, FALSE) : rows[i].source = s} IN
                 IF s \in DOMAIN saved
                 THEN saved[s] = SavedBy(rows, of) /\ saved[s] <= 0
                 ELSE SavedBy(rows, of) = 0
<1> DEFINE f == [i \in DOMAIN rows |-> rows[i].saved]
           in == InWindow(rows, since, FALSE)
           key == [i \in DOMAIN rows |-> Coalesced(rows[i].source)]
           K == {key[i] : i \in in}
           Of(k) == {i \in in : key[i] = k}
<1>1. saved = [k \in K |-> SumOver(f, Of(k))]
  BY DEF Savings, QueryAggregated, Grouped, SavedBy, groupColumn
<1>2. PICK n \in Nat : /\ DOMAIN rows = 1 .. n
                       /\ \A i \in 1 .. n : rows[i].saved \in Int
                       /\ \A i \in 1 .. n : rows[i].source \in Wasted => rows[i].saved <= 0
  BY DEF Tables
<1>3. in \in SUBSET DOMAIN rows
  BY DEF InWindow
<1>4. IsFiniteSet(in)
  <2>1. IsFiniteSet(1 .. n)
    BY FS_Interval
  <2> QED BY <1>2, <1>3, <2>1, FS_Subset
<1>5. \A i \in in : f[i] \in Int
  BY <1>2, <1>3
<1>6. ASSUME NEW s \in Wasted
      PROVE  {i \in in : rows[i].source = s} = Of(s)
  <2>1. s # "NULL" /\ s # "<unknown>"
    BY GainReportAssumption
  <2>2. \A i \in in : key[i] = s <=> rows[i].source = s
    BY <1>3, <2>1 DEF Coalesced
  <2> QED BY <2>2
<1>7. ASSUME NEW s \in Wasted
      PROVE  SumOver(f, Of(s)) <= 0
  <2>1. \A i \in Of(s) : f[i] \in Int /\ f[i] <= 0
    BY <1>2, <1>3, <1>6
  <2>2. IsFiniteSet(Of(s))
    BY <1>4, FS_Subset
  <2> DEFINE g == [i \in Of(s) |-> Magnitude(f[i])]
  <2>3. \A i \in Of(s) : g[i] = Magnitude(f[i])
    OBVIOUS
  <2> HIDE DEF g, f, Of
  <2> QED BY <2>1, <2>2, <2>3, SumOfLosses
<1>8. \A s : s \notin K => Of(s) = {}
  OBVIOUS
<1>9. SumOver(f, {}) = 0
  BY SumOverStep, FS_EmptySet
<1>10. SavedBy(rows, in) = SumOver(f, in) /\ \A s : SavedBy(rows, Of(s)) = SumOver(f, Of(s))
  BY DEF SavedBy
<1>11. /\ SumOver(saved, DOMAIN saved) = SumOver(f, in)
       /\ IsFiniteSet(DOMAIN saved)
  <2>1. saved = [k \in {key[i] : i \in in} |-> SumOver(f, {i \in in : key[i] = k})]
    BY <1>1
  <2> HIDE DEF f, in, key
  <2>2. SumOver(saved, DOMAIN saved) = SumOver(f, in)
    BY ONLY <1>4, <1>5, <2>1, SumOfGroups
  <2>3. IsFiniteSet(DOMAIN saved)
    BY ONLY <1>4, <1>5, <2>1, SumOfGroups
  <2> QED BY <2>2, <2>3
<1>12. DOMAIN saved = K /\ \A s \in K : saved[s] = SumOver(f, Of(s))
  BY <1>1
<1>13. ASSUME NEW s \in Wasted
       PROVE  LET of == {i \in in : rows[i].source = s} IN
              IF s \in DOMAIN saved
              THEN saved[s] = SavedBy(rows, of) /\ saved[s] <= 0
              ELSE SavedBy(rows, of) = 0
  <2>1. {i \in in : rows[i].source = s} = Of(s)
    BY <1>6
  <2>2. SumOver(f, Of(s)) <= 0
    BY <1>7
  <2> HIDE DEF Of, K, f, key
  <2> QED BY <1>8, <1>9, <1>10, <1>12, <2>1, <2>2
<1>14. \A s \in DOMAIN saved : saved[s] \in Int
  <2>1. \A s : Of(s) \in SUBSET in
    OBVIOUS
  <2>2. \A T \in SUBSET in : SumOver(f, T) \in Int
    BY <1>4, <1>5, SumOverType
  <2> HIDE DEF Of, K, f, in
  <2> QED BY <1>12, <2>1, <2>2
<1> QED BY <1>10, <1>11, <1>13, <1>14

\* The parts of the adoption report.
LEMMA AdoptionAddsUp ==
    ASSUME NEW saved, IsFiniteSet(DOMAIN saved), \A s \in DOMAIN saved : saved[s] \in Int,
           \A s \in DOMAIN saved \cap Wasted : saved[s] <= 0,
           NEW gained, gained = {s \in DOMAIN saved \ Wasted : saved[s] > 0}
    PROVE  /\ SumOver(saved, {s \in DOMAIN saved : classifyAdoptionSource(s) = "savedFromCli"})
              + SumOver(saved, {s \in DOMAIN saved : classifyAdoptionSource(s) = "savedFromHooks"})
              + SumOver(saved, {s \in DOMAIN saved : classifyAdoptionSource(s) = "other"})
              - WastedTotal(saved) = SumOver(saved, DOMAIN saved)
           /\ SumOver(saved, gained) - WastedTotal(saved) >= SumOver(saved, DOMAIN saved)
<1> DEFINE D == DOMAIN saved
           Of(c) == {s \in D : classifyAdoptionSource(s) = c}
           C == Of("savedFromCli")
           H == Of("savedFromHooks")
           O == Of("other")
           W == D \cap Wasted
           N == {s \in D \ Wasted : ~(saved[s] > 0)}
           g == [s \in D |-> Magnitude(saved[s])]
<1>1. /\ D = ((C \cup H) \cup O) \cup W
      /\ C \cap H = {} /\ (C \cup H) \cap O = {} /\ ((C \cup H) \cup O) \cap W = {}
  BY GainReportAssumption DEF classifyAdoptionSource
<1>2. D = (gained \cup N) \cup W /\ gained \cap N = {} /\ (gained \cup N) \cap W = {}
  OBVIOUS
<1>3. \A T \in SUBSET D : SumOver(saved, T) \in Int
  BY SumOverType
<1>4. \A A, B \in SUBSET D : A \cap B = {} =>
          SumOver(saved, A \cup B) = SumOver(saved, A) + SumOver(saved, B)
  BY SumOverUnion
<1>5. \A T \in SUBSET D : IsFiniteSet(T)
  BY FS_Subset
<1>6. WastedTotal(saved) = -SumOver(saved, W)
  <2>1. WastedTotal(saved) = SumOver(g, W)
    BY DEF WastedTotal
  <2>2. \A s \in W : saved[s] \in Int /\ saved[s] <= 0 /\ g[s] = Magnitude(saved[s])
    OBVIOUS
  <2>3. IsFiniteSet(W)
    BY <1>5
  <2> HIDE DEF g, W
  <2> QED BY <2>1, <2>2, <2>3, SumOfLosses
<1>7. SumOver(saved, N) <= 0
  <2> DEFINE m == [s \in N |-> Magnitude(saved[s])]
  <2>1. \A s \in N : saved[s] \in Int /\ saved[s] <= 0 /\ m[s] = Magnitude(saved[s])
    OBVIOUS
  <2>2. IsFiniteSet(N)
    BY <1>5
  <2> HIDE DEF m, N
  <2> QED BY <2>1, <2>2, SumOfLosses
<1>8. C \in SUBSET D /\ H \in SUBSET D /\ O \in SUBSET D /\ W \in SUBSET D /\ N \in SUBSET D
      /\ gained \in SUBSET D /\ C \cup H \in SUBSET D /\ (C \cup H) \cup O \in SUBSET D
      /\ gained \cup N \in SUBSET D
  OBVIOUS
<1> HIDE DEF D, Of, C, H, O, W, N, g
<1>9. /\ SumOver(saved, D) = SumOver(saved, (C \cup H) \cup O) + SumOver(saved, W)
      /\ SumOver(saved, (C \cup H) \cup O) = SumOver(saved, C \cup H) + SumOver(saved, O)
      /\ SumOver(saved, C \cup H) = SumOver(saved, C) + SumOver(saved, H)
  BY <1>1, <1>4, <1>8
<1>10. /\ SumOver(saved, D) = SumOver(saved, gained \cup N) + SumOver(saved, W)
       /\ SumOver(saved, gained \cup N) = SumOver(saved, gained) + SumOver(saved, N)
  BY <1>2, <1>4, <1>8
<1>11. /\ SumOver(saved, C) \in Int /\ SumOver(saved, H) \in Int /\ SumOver(saved, O) \in Int
       /\ SumOver(saved, W) \in Int /\ SumOver(saved, N) \in Int /\ SumOver(saved, gained) \in Int
  BY <1>3, <1>8
<1>12. SumOver(saved, C) + SumOver(saved, H) + SumOver(saved, O) - WastedTotal(saved) = SumOver(saved, D)
  BY <1>6, <1>9, <1>11
<1>13. SumOver(saved, gained) - WastedTotal(saved) >= SumOver(saved, D)
  BY <1>6, <1>7, <1>10, <1>11
<1> QED BY <1>12, <1>13 DEF C, H, O, Of, D

\* Within half a thousand tokens, rounding loses nothing.
LEMMA RoundingIsClose ==
    ASSUME NEW a \in Nat, NEW b \in Nat, b <= a
    PROVE  b < 1000 * RoundedToK(a) + 501
  BY DEF RoundedToK

\* The report, the session's line and the daemon's buckets, for any table.
LEMMA EveryReportTells ==
    ASSUME NEW rows \in Tables, NEW since
    PROVE  TellsWhatHappened(rows, since)
<1> DEFINE in == InWindow(rows, since, FALSE)
           saved == Savings(QueryAggregated(rows, since, "source", FALSE))
           report == AdoptionReport(rows, since, FALSE)
           gained == {s \in DOMAIN saved \ Wasted : saved[s] > 0}
           Lost(s) == SavedBy(rows, {i \in in : rows[i].source = s})
           WastedIn == {s \in DOMAIN saved : classifyAdoptionSource(s) = "wasted"}
<1>1. /\ IsFiniteSet(DOMAIN saved)
      /\ \A s \in DOMAIN saved : saved[s] \in Int
      /\ SumOver(saved, DOMAIN saved) = SavedBy(rows, in)
      /\ \A s \in Wasted : IF s \in DOMAIN saved THEN saved[s] = Lost(s) /\ saved[s] <= 0
                           ELSE Lost(s) = 0
  <2> HIDE DEF saved
  <2>1. saved = Savings(QueryAggregated(rows, since, "source", FALSE))
    BY DEF saved
  <2> QED BY <2>1, SavingsBySource
<1>2. ASSUME NEW by \in {"source", "filter", "model", "method"}
      PROVE  AddsUp(rows, in, QueryAggregated(rows, since, by, FALSE))
  <2> DEFINE key == [i \in DOMAIN rows |-> Coalesced(groupColumn(rows[i], by))]
  <2>1. in \in SUBSET DOMAIN rows /\ DOMAIN key = DOMAIN rows
    BY DEF InWindow
  <2>2. QueryAggregated(rows, since, by, FALSE) = Grouped(rows, in, key)
    BY DEF QueryAggregated
  <2> HIDE DEF key, in
  <2> QED BY <2>1, <2>2, GroupsAddUp
<1>3. AddsUp(rows, UnsentRows(rows), UnsentBuckets(rows).buckets)
  <2> DEFINE key == [i \in DOMAIN rows |-> Key(rows[i])]
  <2>1. UnsentRows(rows) \in SUBSET DOMAIN rows /\ DOMAIN key = DOMAIN rows
    BY DEF UnsentRows
  <2>2. UnsentBuckets(rows).buckets = Grouped(rows, UnsentRows(rows), key)
    BY DEF UnsentBuckets
  <2> HIDE DEF key
  <2> QED BY <2>1, <2>2, GroupsAddUp
<1>4. \A s : classifyAdoptionSource(s) = "wasted" <=> s \in Wasted
  BY GainReportAssumption DEF classifyAdoptionSource
<1>5. /\ report.savedTotal = SumOver(saved, gained)
      /\ report.wastedTotal = WastedTotal(saved)
      /\ report.byPattern["wasted"] = WastedTotal(saved)
      /\ \A c \in {"savedFromCli", "savedFromHooks", "other"} :
            report.byPattern[c] = SumOver(saved, {s \in DOMAIN saved : classifyAdoptionSource(s) = c})
      /\ report.topWasted = {s \in WastedIn : \A t \in WastedIn : Magnitude(saved[s]) >= Magnitude(saved[t])}
  BY DEF AdoptionReport, Classes
<1>6. /\ report.byPattern["savedFromCli"] + report.byPattern["savedFromHooks"]
            + report.byPattern["other"] - report.byPattern["wasted"] = SavedBy(rows, in)
      /\ report.savedTotal - report.wastedTotal >= SavedBy(rows, in)
  <2>1. \A s \in DOMAIN saved \cap Wasted : saved[s] <= 0
    BY <1>1
  <2>2. gained = {s \in DOMAIN saved \ Wasted : saved[s] > 0}
    OBVIOUS
  <2> HIDE DEF saved, in, report, gained
  <2> QED BY <1>1, <1>5, <2>1, <2>2, AdoptionAddsUp
<1>7. ASSUME NEW line \in sessionSummaryDecide(rows, since, TRUE, FALSE), line.top # "",
             NEW s \in Wasted
      PROVE  Magnitude(Lost(s)) < 1000 * line.topK + 501
  <2> DEFINE a == Magnitude(saved[line.top])
             b == Magnitude(Lost(s))
  <2>1. line.top \in report.topWasted /\ line.topK = RoundedToK(a)
    <3>1. \A k \in DOMAIN saved : QueryAggregated(rows, since, "source", FALSE)[k].saved = saved[k]
      BY DEF Savings
    <3>2. report.topWasted \subseteq DOMAIN saved
      BY <1>5
    <3> DEFINE lost(k) == QueryAggregated(rows, since, "source", FALSE)[k].saved
               Line(k, n) == [saved |-> RoundedToK(report.savedTotal), adoption |-> report.ratio,
                              top |-> k, topK |-> n]
    <3>3. sessionSummaryDecide(rows, since, TRUE, FALSE)
          = IF report.topWasted = {} THEN {Line("", 0)}
            ELSE {Line(k, RoundedToK(Magnitude(lost(k)))) : k \in report.topWasted}
      BY DEF sessionSummaryDecide
    <3> HIDE DEF saved, report, lost
    <3>4. \A k, n : Line(k, n).top = k /\ Line(k, n).topK = n
      OBVIOUS
    <3> HIDE DEF Line
    <3>5. report.topWasted # {}
      <4> SUFFICES ASSUME report.topWasted = {} PROVE FALSE
        OBVIOUS
      <4>1. line \in {Line("", 0)}
        BY <1>7, <3>3
      <4>2. line = Line("", 0)
        BY <4>1
      <4>3. Line("", 0).top = ""
        BY <3>4
      <4> QED BY <1>7, <4>2, <4>3
    <3>6. line \in {Line(k, RoundedToK(Magnitude(lost(k)))) : k \in report.topWasted}
      BY <1>7, <3>3, <3>5
    <3>7. PICK k \in report.topWasted : line = Line(k, RoundedToK(Magnitude(lost(k))))
      BY <3>6
    <3>8. line.top = k /\ line.topK = RoundedToK(Magnitude(lost(k)))
      BY <3>4, <3>7
    <3>9. lost(k) = saved[k]
      BY <3>1, <3>2 DEF lost
    <3> QED BY <3>8, <3>9
  <2>2. \A n \in Int : Magnitude(n) \in Nat
    BY DEF Magnitude
  <2>3. line.top \in DOMAIN saved /\ a \in Nat
    BY <1>1, <1>5, <2>1, <2>2
  <2>4. b \in Nat /\ b <= a
    <3>1. CASE s \in DOMAIN saved
      <4>1. s \in WastedIn /\ Lost(s) = saved[s] /\ saved[s] \in Int
        BY <1>1, <1>4, <3>1
      <4>2. a >= Magnitude(saved[s])
        BY <1>5, <2>1, <4>1
      <4> HIDE DEF saved, Lost, WastedIn, a
      <4> QED BY <2>2, <2>3, <4>1, <4>2
    <3>2. CASE s \notin DOMAIN saved
      <4>1. Lost(s) = 0
        BY <1>1, <3>2
      <4>2. b = 0
        BY <4>1 DEF Magnitude
      <4> HIDE DEF a, b
      <4> QED BY <2>3, <4>2
    <3> QED BY <3>1, <3>2
  <2> HIDE DEF a, b
  <2>5. b < 1000 * RoundedToK(a) + 501
    BY <2>3, <2>4, RoundingIsClose
  <2> QED BY <2>1, <2>5 DEF b
<1> QED BY <1>2, <1>3, <1>6, <1>7 DEF TellsWhatHappened

-----------------------------------------------------------------------------
(* Summarised searches.                                                    *)

\* Whatever the scores and whatever the order of equal ones.
LEMMA EverySummaryNamesTheBest ==
    ASSUME NEW entries \in Seq(Int)
    PROVE  NamesTheBest(entries)
<1> SUFFICES ASSUME NEW named \in postuseRunDecide(entries)
             PROVE  /\ \A i \in DOMAIN entries \ ToSet(named), j \in ToSet(named) : entries[i] <= entries[j]
                    /\ Cardinality(ToSet(named)) = Len(named)
  BY DEF NamesTheBest
<1>1. CASE named = <<>>
  <2>1. ToSet(named) = {} /\ Len(named) = 0
    BY <1>1 DEF ToSet
  <2> QED BY <2>1, FS_EmptySet
<1>2. CASE named # <<>>
  <2> DEFINE D == DOMAIN entries
  <2>1. PICK order \in ByScore(entries) : named = SubSeq(order, 1, TopEntries)
    BY <1>2 DEF postuseRunDecide
  <2>2. ~(Len(entries) <= ManyEntries)
    BY <1>2 DEF postuseRunDecide
  <2>3. D = 1 .. Len(entries) /\ Len(entries) \in Nat
    OBVIOUS
  <2>4. TopEntries \in 1 .. Len(entries)
    BY <2>2, <2>3, HookSavingsAssumption
  <2>5. /\ order \in [D -> D]
        /\ \A w \in D : \E v \in D : order[v] = w
        /\ \A i, j \in D : i < j => entries[order[i]] >= entries[order[j]]
    BY <2>1 DEF ByScore, Bijection, Injection, Surjection
  <2>6. \A i, j \in D : order[i] = order[j] => i = j
    BY <2>1 DEF ByScore, Bijection, Injection, IsInjective
  <2>7. /\ DOMAIN named = 1 .. TopEntries /\ Len(named) = TopEntries
        /\ \A i \in 1 .. TopEntries : named[i] = order[i]
    BY <2>1, <2>3, <2>4, <2>5
  <2>8. ToSet(named) = {order[i] : i \in 1 .. TopEntries}
    BY <2>7 DEF ToSet
  <2>9. ASSUME NEW i \in D \ ToSet(named), NEW j \in ToSet(named)
        PROVE  entries[i] <= entries[j]
    <3>1. PICK v \in D : order[v] = i
      BY <2>5
    <3>2. PICK u \in 1 .. TopEntries : order[u] = j
      BY <2>8
    <3>3. u \in D /\ u < v
      BY <2>3, <2>4, <2>8, <2>9, <3>1, <3>2
    <3>4. entries[j] >= entries[i]
      BY <2>5, <3>1, <3>2, <3>3
    <3>5. i \in D /\ j \in D
      BY <2>5, <3>2, <3>3
    <3>6. entries[i] \in Int /\ entries[j] \in Int
      BY <3>5
    <3> QED BY <3>4, <3>6
  <2>10. Cardinality(ToSet(named)) = Len(named)
    <3> DEFINE f == [i \in 1 .. TopEntries |-> order[i]]
    <3>1. f \in Bijection(1 .. TopEntries, ToSet(named))
      BY <2>3, <2>4, <2>6, <2>8 DEF Bijection, Injection, IsInjective, Surjection
    <3>2. IsFiniteSet(1 .. TopEntries) /\ Cardinality(1 .. TopEntries) = TopEntries
      BY <2>4, FS_Interval
    <3>3. Cardinality(ToSet(named)) = Cardinality(1 .. TopEntries)
      BY <3>1, <3>2, FS_Bijection DEF ExistsBijection
    <3> QED BY <2>7, <3>2, <3>3
  <2> QED BY <2>9, <2>10
<1> QED BY <1>1, <1>2

-----------------------------------------------------------------------------
(* What Decisions asks of these parts, for every question.                 *)

\* Any read, search or output of any size, any list of results, and any table
\* of events are accounted for as SavingsHonest says.
THEOREM EverySavingIsHonest ==
    ASSUME case[1] = "large read" => case[2] \in ReadCalls,
           case[1] = "search" => case[2] \in SearchCalls,
           case[1] = "run" => case[2] \in Nat /\ case[3] \in Nat,
           case[1] = "results" => case[2] \in Seq(Int),
           case[1] = "gain" => case[2] \in Tables
    PROVE  SavingsHonest
<1>1. case[1] = "results" => NamesTheBest(case[2])
  BY EverySummaryNamesTheBest
<1>2. case[1] = "gain" => TellsWhatHappened(case[2], case[3])
  BY EveryReportTells
<1>3. /\ \A c \in ReadCalls : ReadSavings(c)
      /\ \A c \in SearchCalls : SearchSavings(c)
      /\ \A raw, shown \in Nat : RunSavings(raw, shown)
  BY SavingsAreBounded, HookSavingsAssumption
<1> QED BY <1>1, <1>2, <1>3 DEF SavingsHonest
=============================================================================
