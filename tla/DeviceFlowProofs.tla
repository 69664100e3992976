-------------------------- MODULE DeviceFlowProofs --------------------------
(***************************************************************************)
(* For every choice of the clamps, the timeouts and the server's offers:   *)
(* the client never polls early, does not miss an approval by more than a  *)
(* round, returns in time, and never reaches its attempt cap.              *)
(*                                                                         *)
(* The argument is one invariant that bounds the clock in each phase, from *)
(* below by the polls made (PaceInv) and by the previous poll (GapInv), and*)
(* from above by the window (TimeInv) and by the approval (ApprovalInv).   *)
(***************************************************************************)
EXTENDS DeviceFlow, TLAPS

\* The shortest time n rounds take, in seconds.
Rounds(n) == n * minInterval

HonestOffer == offer.honest /\ offer.interval <= maxInterval

\* What holds until PollForToken returns.
RunInv ==
    pc # "done" =>
        /\ attempt <= maxPollCount /\ slowDownCount <= maxSlowDownBumps
        /\ outcome = "none"
        /\ pc # "check" => attempt > 0

\* The polls made take their time, and the last began within the window.
PaceInv ==
    /\ pc = "check" => Rounds(attempt) * Second <= now
    /\ pc = "wait" => Rounds(attempt) * Second <= due - MaxLate
    /\ pc \in {"sent", "answered"} => Rounds(attempt - 1) * Second <= now
    /\ pc # "done" /\ attempt > 0 => Rounds(attempt - 1) <= maxExpires

\* The clock against the phase's end and the end of the window.
TimeInv ==
    /\ pc # "check" /\ pc # "done" => now <= due
    /\ pc \in {"sent", "answered"} =>
           due <= now + authHTTPTimeout /\ due <= (maxExpires + 1) * Second + authHTTPTimeout
    /\ pc = "wait" =>
           /\ due <= now + interval * Second + MaxLate
           /\ due <= (maxExpires + 1 + maxInterval) * Second + authHTTPTimeout + MaxLate

\* An honest endpoint sees no poll earlier than it asked for.
GapInv ==
    /\ HonestOffer =>
           /\ offer.interval <= interval /\ slowDownCount = 0
           /\ pc = "answered" => reply # "slow_down"
           /\ lastArrival # NotYet =>
                  /\ pc \in {"check", "sent"} => now - lastArrival >= offer.interval * Second
                  /\ pc = "wait" => due - MaxLate - lastArrival >= offer.interval * Second
    /\ lastArrival <= now

\* An approval is at most one round old when the endpoint looks for it.
ApprovalInv ==
    /\ approvedAt <= now
    /\ pc = "answered" /\ offer.honest /\ reply = "expired_token" =>
           now + HeadStart >= offer.lifetime * Second
    /\ HonestOffer /\ approvedAt # NotYet =>
           LET Round == interval * Second + MaxLate + authHTTPTimeout
           IN  /\ pc \in {"check", "wait"} => now <= approvedAt + Round
               /\ pc = "wait" => due <= approvedAt + Round
               /\ pc = "sent" => due <= approvedAt + Round + authHTTPTimeout
               /\ pc = "answered" /\ reply = "authorization_pending" =>
                      due <= approvedAt + authHTTPTimeout
               /\ pc = "answered" /\ reply = "expired_token" =>
                      approvedAt + Round + authHTTPTimeout + HeadStart >= offer.lifetime * Second

IInv ==
    /\ TypeOK /\ RunInv /\ PaceInv /\ TimeInv /\ GapInv /\ ApprovalInv
    /\ ApprovalIsSeen /\ ReturnsInTime /\ WindowClosesBeforeCap

-----------------------------------------------------------------------------
\* The offer's numbers are integers, the client's are within their clamps.
LEMMA Numbers ==
    ASSUME TypeOK
    PROVE  /\ offer.interval \in Int /\ offer.lifetime \in Int /\ offer.honest \in BOOLEAN
           /\ interval \in Nat /\ expiresIn \in Nat /\ attempt \in Nat
           /\ interval >= minInterval /\ interval <= maxInterval
           /\ expiresIn >= minExpires /\ expiresIn <= maxExpires
           /\ now \in Int /\ due \in Int /\ lastArrival \in Int /\ approvedAt \in Int
<1> USE DeviceFlowAssumption
<1>1. offer.interval \in Intervals /\ offer.lifetime \in Lifetimes /\ offer.honest \in BOOLEAN
  BY DEF TypeOK
<1>2. offer.interval \in Int /\ offer.lifetime \in Int
  BY <1>1
<1>3. lastArrival \in Int /\ approvedAt \in Int
  BY DEF TypeOK, NotYet
<1>4. /\ interval \in Nat /\ interval >= minInterval /\ interval <= maxInterval
      /\ expiresIn \in Nat /\ expiresIn >= minExpires /\ expiresIn <= maxExpires
  BY DEF TypeOK
<1>5. attempt \in Nat /\ now \in Int /\ due \in Int
  BY DEF TypeOK
<1> QED BY <1>1, <1>2, <1>3, <1>4, <1>5

\* clamp returns a number between its bounds, and the number itself between.
LEMMA ClampBounds ==
    ASSUME NEW n \in Int, NEW min \in Int, NEW max \in Int, min <= max
    PROVE  /\ clamp(n, min, max) \in min .. max
           /\ n <= max => n <= clamp(n, min, max)
  BY DEF clamp

\* One more round takes at least one more interval.
LEMMA RoundsStep ==
    ASSUME NEW n \in Nat
    PROVE  /\ Rounds(n) \in Nat
           /\ Rounds(n + 1) = Rounds(n) + minInterval
           /\ Rounds(0) = 0
  BY DeviceFlowAssumption DEF Rounds

\* The initial states satisfy the invariant.
LEMMA InitIInv == Init => IInv
<1> SUFFICES ASSUME Init PROVE IInv
  OBVIOUS
<1> USE DeviceFlowAssumption
<1>1. /\ offer.interval \in Int /\ offer.lifetime \in Int /\ offer.honest \in BOOLEAN
      /\ offer \in [interval : Intervals, lifetime : Lifetimes, honest : BOOLEAN]
  BY DEF Init
<1>2. /\ interval \in minInterval .. maxInterval
      /\ offer.interval <= maxInterval => offer.interval <= interval
      /\ expiresIn \in minExpires .. maxExpires
  <2>1. interval = clamp(offer.interval, minInterval, maxInterval)
        /\ expiresIn = clamp(offer.lifetime, minExpires, maxExpires)
    BY DEF Init
  <2>2. /\ minInterval \in Int /\ maxInterval \in Int /\ minInterval <= maxInterval
        /\ minExpires \in Int /\ maxExpires \in Int /\ minExpires <= maxExpires
    OBVIOUS
  <2> QED BY <1>1, <2>1, <2>2, ClampBounds
<1>3. TypeOK
  BY <1>1, <1>2 DEF Init, TypeOK, Outcomes, NotYet
<1>4. RunInv /\ TimeInv /\ GapInv /\ ApprovalInv
  BY <1>1, <1>2 DEF Init, RunInv, TimeInv, GapInv, ApprovalInv, HonestOffer, NotYet, Second
<1>5. PaceInv
  BY RoundsStep DEF Init, PaceInv, Second
<1>6. ApprovalIsSeen /\ ReturnsInTime /\ WindowClosesBeforeCap
  BY DEF Init, ApprovalIsSeen, ReturnsInTime, WindowClosesBeforeCap, Second
<1> QED BY <1>3, <1>4, <1>5, <1>6 DEF IInv

-----------------------------------------------------------------------------
\* The time bounds and the return of each action.  The head of the loop:
LEMMA PollStep == IInv /\ Poll => IInv'
<1> SUFFICES ASSUME IInv, Poll PROVE IInv'
  OBVIOUS
<1> USE DeviceFlowAssumption, Numbers DEF IInv, Poll, Return, worldVars, Second
<1>0. attempt' = attempt + 1 /\ attempt \in Nat /\ attempt <= maxPollCount
  BY DEF RunInv
<1>1. TypeOK'
  <2>1. attempt' \in 0 .. maxPollCount + 1
    BY <1>0
  <2>2. due' \in Nat
    BY DEF TypeOK
  <2> QED BY <2>1, <2>2 DEF TypeOK, Outcomes
<1>2. RunInv'
  BY DEF RunInv, TypeOK
<1>3. attempt' \in Nat /\ Rounds(attempt') = Rounds(attempt) + minInterval /\ attempt' - 1 = attempt
  BY <1>0, RoundsStep
<1>4. ~WindowOver => now < (maxExpires + 1) * 2
  BY DEF WindowOver
<1>5. PaceInv'
  <2>1. CASE pc' = "done"
    BY <2>1 DEF PaceInv
  <2>2. CASE pc' = "sent"
    <3>1. Rounds(attempt) \in Nat /\ Rounds(attempt) * 2 <= now /\ now < (maxExpires + 1) * 2
      BY <1>0, <1>4, <2>2, RoundsStep DEF PaceInv
    <3>2. Rounds(attempt) <= maxExpires
      BY <3>1
    <3>3. Rounds(attempt' - 1) = Rounds(attempt)
      BY <1>3
    <3> QED BY <2>2, <3>1, <3>2, <3>3 DEF PaceInv
  <2> QED BY <2>1, <2>2
<1>6. TimeInv' /\ ReturnsInTime'
  BY <1>4 DEF TimeInv, ReturnsInTime, TypeOK
<1>7. GapInv'
  BY DEF GapInv, HonestOffer, NotYet
<1>8. ApprovalInv'
  BY DEF ApprovalInv, HonestOffer, NotYet
<1>9. WindowClosesBeforeCap'
  <2>1. attempt' <= maxPollCount
    <3>1. attempt <= maxPollCount /\ attempt \in Nat
      BY <1>0
    <3>2. attempt = maxPollCount => attempt = 0
      <4>1. SUFFICES ASSUME attempt = maxPollCount, attempt > 0 PROVE FALSE
        BY <3>1
      <4>2. Rounds(maxPollCount - 1) <= maxExpires
        BY <4>1 DEF PaceInv
      <4> QED BY <4>1, <4>2, SafetyCapAssumption DEF Rounds
    <3>3. maxPollCount > 0
      BY SafetyCapAssumption
    <3> QED BY <3>1, <3>2, <3>3
  <2> QED BY <2>1 DEF WindowClosesBeforeCap, RunInv
<1>10. ApprovalIsSeen'
  BY DEF ApprovalIsSeen, ApprovalInv, HonestOffer, RunInv, WindowOver, NotYet
<1> QED BY <1>1, <1>2, <1>5, <1>6, <1>7, <1>8, <1>9, <1>10

\* A reply that says to keep polling starts a wait.
LEMMA PendingStep == IInv /\ Pending => IInv'
<1> SUFFICES ASSUME IInv, Pending PROVE IInv'
  OBVIOUS
<1> USE DeviceFlowAssumption, Numbers DEF IInv, Pending, StartWait, clientVars, worldVars, Second
<1>1. TypeOK' /\ RunInv'
  BY DEF TypeOK, RunInv, Outcomes, Errors
<1>2. PaceInv'
  BY RoundsStep DEF PaceInv, RunInv
<1>3. TimeInv' /\ ReturnsInTime'
  BY DEF TimeInv, ReturnsInTime
<1>4. GapInv'
  BY DEF GapInv, HonestOffer, NotYet
<1>5. ApprovalInv'
  BY DEF ApprovalInv, GapInv, HonestOffer, TimeInv, NotYet
<1>6. ApprovalIsSeen' /\ WindowClosesBeforeCap'
  BY DEF ApprovalIsSeen, ApprovalInv, HonestOffer, RunInv, NotYet, WindowClosesBeforeCap
<1> QED BY <1>1, <1>2, <1>3, <1>4, <1>5, <1>6

\* A slow_down raises the interval or ends the call; an honest server sends none.
LEMMA SlowDownStep == IInv /\ SlowDown => IInv'
<1> SUFFICES ASSUME IInv, SlowDown PROVE IInv'
  OBVIOUS
<1> USE DeviceFlowAssumption, Numbers DEF IInv, SlowDown, StartWait, Return, clamp, clientVars, worldVars, Second
<1>1. TypeOK' /\ RunInv'
  BY DEF TypeOK, RunInv, Outcomes, Errors
<1>2. PaceInv'
  BY RoundsStep DEF PaceInv, RunInv
<1>3. TimeInv' /\ ReturnsInTime'
  BY DEF TimeInv, ReturnsInTime
<1>4. GapInv'
  BY DEF GapInv, HonestOffer, NotYet
<1>5. ApprovalInv'
  BY DEF ApprovalInv, GapInv, HonestOffer, TimeInv, NotYet
<1>6. ApprovalIsSeen' /\ WindowClosesBeforeCap'
  BY DEF ApprovalIsSeen, ApprovalInv, HonestOffer, RunInv, NotYet, WindowClosesBeforeCap
<1> QED BY <1>1, <1>2, <1>3, <1>4, <1>5, <1>6

\* A final reply ends the call.
LEMMA FinishStep == IInv /\ Finish => IInv'
<1> SUFFICES ASSUME IInv, Finish PROVE IInv'
  OBVIOUS
<1> USE DeviceFlowAssumption, Numbers DEF IInv, Finish, Return, clientVars, worldVars, Second
<1>1. TypeOK' /\ RunInv'
  BY DEF TypeOK, RunInv, Outcomes, Errors
<1>2. PaceInv'
  BY RoundsStep DEF PaceInv, RunInv
<1>3. TimeInv' /\ ReturnsInTime'
  BY DEF TimeInv, ReturnsInTime
<1>4. GapInv'
  BY DEF GapInv, HonestOffer, NotYet
<1>5. ApprovalInv'
  BY DEF ApprovalInv, GapInv, HonestOffer, TimeInv, NotYet
<1>6. ApprovalIsSeen' /\ WindowClosesBeforeCap'
  BY DEF ApprovalIsSeen, ApprovalInv, HonestOffer, RunInv, NotYet, WindowClosesBeforeCap
<1> QED BY <1>1, <1>2, <1>3, <1>4, <1>5, <1>6

\* The timer ends a wait, not before its time.
LEMMA WakeStep == IInv /\ Wake => IInv'
<1> SUFFICES ASSUME IInv, Wake PROVE IInv'
  OBVIOUS
<1> USE DeviceFlowAssumption, Numbers DEF IInv, Wake, clientVars, worldVars, Second
<1>1. TypeOK' /\ RunInv'
  BY DEF TypeOK, RunInv, Outcomes, Errors
<1>2. PaceInv'
  BY RoundsStep DEF PaceInv, RunInv
<1>3. TimeInv' /\ ReturnsInTime'
  BY DEF TimeInv, ReturnsInTime
<1>4. GapInv'
  BY DEF GapInv, HonestOffer, NotYet
<1>5. ApprovalInv'
  BY DEF ApprovalInv, GapInv, HonestOffer, TimeInv, NotYet
<1>6. ApprovalIsSeen' /\ WindowClosesBeforeCap'
  BY DEF ApprovalIsSeen, ApprovalInv, HonestOffer, RunInv, NotYet, WindowClosesBeforeCap
<1> QED BY <1>1, <1>2, <1>3, <1>4, <1>5, <1>6

\* A failed request ends the call.
LEMMA TransportFailsStep == IInv /\ TransportFails => IInv'
<1> SUFFICES ASSUME IInv, TransportFails PROVE IInv'
  OBVIOUS
<1> USE DeviceFlowAssumption, Numbers DEF IInv, TransportFails, Return, clientVars, worldVars, Second
<1>1. TypeOK' /\ RunInv'
  BY DEF TypeOK, RunInv, Outcomes, Errors
<1>2. PaceInv'
  BY RoundsStep DEF PaceInv, RunInv
<1>3. TimeInv' /\ ReturnsInTime'
  BY DEF TimeInv, ReturnsInTime
<1>4. GapInv'
  BY DEF GapInv, HonestOffer, NotYet
<1>5. ApprovalInv'
  BY DEF ApprovalInv, GapInv, HonestOffer, TimeInv, NotYet
<1>6. ApprovalIsSeen' /\ WindowClosesBeforeCap'
  BY DEF ApprovalIsSeen, ApprovalInv, HonestOffer, RunInv, NotYet, WindowClosesBeforeCap
<1> QED BY <1>1, <1>2, <1>3, <1>4, <1>5, <1>6

\* So does a cancelled context.
LEMMA CancelStep == IInv /\ Cancel => IInv'
<1> SUFFICES ASSUME IInv, Cancel PROVE IInv'
  OBVIOUS
<1> USE DeviceFlowAssumption, Numbers DEF IInv, Cancel, Return, clientVars, worldVars, Second
<1>1. TypeOK' /\ RunInv'
  BY DEF TypeOK, RunInv, Outcomes, Errors
<1>2. PaceInv'
  BY RoundsStep DEF PaceInv, RunInv
<1>3. TimeInv' /\ ReturnsInTime'
  BY DEF TimeInv, ReturnsInTime
<1>4. GapInv'
  BY DEF GapInv, HonestOffer, NotYet
<1>5. ApprovalInv'
  BY DEF ApprovalInv, GapInv, HonestOffer, TimeInv, NotYet
<1>6. ApprovalIsSeen' /\ WindowClosesBeforeCap'
  BY DEF ApprovalIsSeen, ApprovalInv, HonestOffer, RunInv, NotYet, WindowClosesBeforeCap
<1> QED BY <1>1, <1>2, <1>3, <1>4, <1>5, <1>6

\* The endpoint answers by its rules, which look at the previous poll.
LEMMA ArriveStep == IInv /\ Arrive => IInv'
<1> SUFFICES ASSUME IInv, Arrive PROVE IInv'
  OBVIOUS
<1> USE DeviceFlowAssumption, Numbers DEF IInv, Arrive, TooEarly, CodeExpired, Errors, clientVars, worldVars, Second
<1>1. TypeOK' /\ RunInv'
  BY DEF TypeOK, RunInv, Outcomes, Errors
<1>2. PaceInv'
  BY RoundsStep DEF PaceInv, RunInv
<1>3. TimeInv' /\ ReturnsInTime'
  BY DEF TimeInv, ReturnsInTime
<1>4. GapInv'
  BY DEF GapInv, HonestOffer, NotYet
<1>5. ApprovalInv'
  BY DEF ApprovalInv, GapInv, HonestOffer, TimeInv, NotYet
<1>6. ApprovalIsSeen' /\ WindowClosesBeforeCap'
  BY DEF ApprovalIsSeen, ApprovalInv, HonestOffer, RunInv, NotYet, WindowClosesBeforeCap
<1> QED BY <1>1, <1>2, <1>3, <1>4, <1>5, <1>6

\* The user approves now, so the approval is as fresh as can be.
LEMMA ApproveStep == IInv /\ Approve => IInv'
<1> SUFFICES ASSUME IInv, Approve PROVE IInv'
  OBVIOUS
<1> USE DeviceFlowAssumption, Numbers DEF IInv, Approve, clientVars, worldVars, Second
<1>1. TypeOK' /\ RunInv'
  BY DEF TypeOK, RunInv, Outcomes, Errors
<1>2. PaceInv'
  BY RoundsStep DEF PaceInv, RunInv
<1>3. TimeInv' /\ ReturnsInTime'
  BY DEF TimeInv, ReturnsInTime
<1>4. GapInv'
  BY DEF GapInv, HonestOffer, NotYet
<1>5. ApprovalInv'
  BY DEF ApprovalInv, GapInv, HonestOffer, TimeInv, NotYet
<1>6. ApprovalIsSeen' /\ WindowClosesBeforeCap'
  BY DEF ApprovalIsSeen, ApprovalInv, HonestOffer, RunInv, NotYet, WindowClosesBeforeCap
<1> QED BY <1>1, <1>2, <1>3, <1>4, <1>5, <1>6

\* Time passes up to the end of the phase.
LEMMA TickStep == IInv /\ Tick => IInv'
<1> SUFFICES ASSUME IInv, Tick PROVE IInv'
  OBVIOUS
<1> USE DeviceFlowAssumption, Numbers DEF IInv, Tick, clientVars, worldVars, Second
<1>1. TypeOK' /\ RunInv'
  BY DEF TypeOK, RunInv, Outcomes, Errors
<1>2. PaceInv'
  <2>1. attempt \in Nat /\ attempt - 1 \in Nat
    BY DEF RunInv
  <2>2. Rounds(attempt) \in Nat /\ Rounds(attempt - 1) \in Nat
    BY <2>1, RoundsStep
  <2> QED BY <2>2 DEF PaceInv
<1>3. TimeInv' /\ ReturnsInTime'
  BY DEF TimeInv, ReturnsInTime
<1>4. GapInv'
  BY DEF GapInv, HonestOffer, NotYet
<1>5. ApprovalInv'
  BY DEF ApprovalInv, GapInv, HonestOffer, TimeInv, NotYet
<1>6. ApprovalIsSeen' /\ WindowClosesBeforeCap'
  BY DEF ApprovalIsSeen, ApprovalInv, HonestOffer, RunInv, NotYet, WindowClosesBeforeCap
<1> QED BY <1>1, <1>2, <1>3, <1>4, <1>5, <1>6

-----------------------------------------------------------------------------
\* A step that changes nothing.
LEMMA StutterStep == IInv /\ UNCHANGED vars => IInv'
  BY DEF IInv, vars, clientVars, worldVars, TypeOK, RunInv, PaceInv, TimeInv, GapInv,
         ApprovalInv, HonestOffer, ApprovalIsSeen, ReturnsInTime, WindowClosesBeforeCap

\* The invariant holds of every reachable state.
THEOREM Inductive == Spec => []IInv
<1>1. IInv /\ [Next]_vars => IInv'
  BY PollStep, PendingStep, SlowDownStep, FinishStep, WakeStep, TransportFailsStep,
     CancelStep, ArriveStep, ApproveStep, TickStep, StutterStep DEF Next
<1> QED BY InitIInv, <1>1, PTL DEF Spec

\* The interval and the window stay within their clamps, the counters below
\* their caps, whatever the server offered.
THEOREM TypeCorrect == Spec => []TypeOK
<1>1. IInv => TypeOK
  BY DEF IInv
<1> QED BY <1>1, Inductive, PTL

\* An endpoint that slows down only early polls never slows this client down.
THEOREM PollsKeepTheirDistance == Spec => []NeverPollsEarly
<1>1. IInv => NeverPollsEarly
  BY DEF IInv, GapInv, HonestOffer, NeverPollsEarly
<1> QED BY <1>1, Inductive, PTL

\* No approval older than a round is missed.
THEOREM ApprovalsAreSeen == Spec => []ApprovalIsSeen
<1>1. IInv => ApprovalIsSeen
  BY DEF IInv
<1> QED BY <1>1, Inductive, PTL

\* PollForToken is over one round after the longest window.
THEOREM PollingIsBounded == Spec => []ReturnsInTime
<1>1. IInv => ReturnsInTime
  BY DEF IInv
<1> QED BY <1>1, Inductive, PTL

\* The attempt cap is dead code for every clamp that meets
\* SafetyCapAssumption, the code's among them (719 * 5 > 1800).
THEOREM CapIsNeverReached == Spec => []WindowClosesBeforeCap
<1>1. IInv => WindowClosesBeforeCap
  BY DEF IInv
<1> QED BY <1>1, Inductive, PTL
=============================================================================
