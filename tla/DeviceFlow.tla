----------------------------- MODULE DeviceFlow ------------------------------
(***************************************************************************)
(* auth.PollForToken: the client's half of the OAuth device flow, against  *)
(* a token endpoint and a user.  Time is counted in half seconds from the  *)
(* client's startedAt, so that the truncation of the elapsed time to whole *)
(* seconds shows; it passes while the client waits or has a request out,   *)
(* up to the latest end of that phase.  An honest endpoint follows RFC     *)
(* 8628; any other may answer what it likes.                               *)
(***************************************************************************)
EXTENDS Integers

CONSTANTS
    minInterval, maxInterval,  \* seconds: bounds on the polling interval
    minExpires, maxExpires,    \* seconds: bounds on the code's lifetime
    maxPollCount,
    slowDownBump,              \* seconds added by a slow_down
    maxSlowDownBumps,
    authHTTPTimeout,           \* half seconds a request may take
    MaxLate,                   \* half seconds a timer may fire late
    HeadStart,                 \* half seconds from the code's issue to startedAt
    Intervals, Lifetimes       \* what the server may have offered, in seconds

ASSUME DeviceFlowAssumption ==
    /\ minInterval \in Nat \ {0} /\ maxInterval \in Nat /\ minInterval <= maxInterval
    /\ minExpires \in Nat \ {0} /\ maxExpires \in Nat /\ minExpires <= maxExpires
    /\ maxPollCount \in Nat /\ slowDownBump \in Nat /\ maxSlowDownBumps \in Nat
    /\ authHTTPTimeout \in Nat /\ MaxLate \in Nat /\ HeadStart \in Nat
    /\ Intervals \subseteq Int /\ Lifetimes \subseteq Int

\* 720 polls at the shortest interval outlast the longest window.
ASSUME SafetyCapAssumption == (maxPollCount - 1) * minInterval > maxExpires

Second == 2
NotYet == -1

VARIABLES
    pc,           \* check, sent, answered, wait or done
    now,          \* half seconds since startedAt
    due,          \* the latest end of the current phase
    attempt,
    interval,
    slowDownCount,
    expiresIn,
    reply,        \* the endpoint's answer on its way
    outcome,      \* what PollForToken returned
    offer,        \* the server's interval and lifetime, and its honesty
    lastArrival,  \* when the endpoint saw the previous poll
    approvedAt    \* when the user approved

clientVars == <<attempt, interval, slowDownCount, expiresIn>>
worldVars == <<offer, lastArrival, approvedAt>>
vars == <<pc, now, due, clientVars, reply, outcome, worldVars>>

Errors == {"authorization_pending", "slow_down", "expired_token", "other"}
Outcomes == {"none", "token", "expired", "timeout", "cap", "slow", "other", "transport", "cancelled"}

TypeOK ==
    /\ pc \in {"check", "sent", "answered", "wait", "done"}
    /\ now \in Nat /\ due \in Nat
    /\ attempt \in 0 .. maxPollCount + 1
    /\ interval \in minInterval .. maxInterval
    /\ slowDownCount \in 0 .. maxSlowDownBumps + 1
    /\ expiresIn \in minExpires .. maxExpires
    /\ reply \in Errors \cup {"none", "token"}
    /\ outcome \in Outcomes
    /\ offer \in [interval : Intervals, lifetime : Lifetimes, honest : BOOLEAN]
    /\ lastArrival \in Nat \cup {NotYet}
    /\ approvedAt \in Nat \cup {NotYet}

\* Slip: the ceiling is forgotten.
ClampBelowOnly(n, min, max) == IF n < min THEN min ELSE n

clamp(n, min, max) == IF n < min THEN min ELSE IF n > max THEN max ELSE n

Init ==
    /\ offer \in [interval : Intervals, lifetime : Lifetimes, honest : BOOLEAN]
    /\ interval = clamp(offer.interval, minInterval, maxInterval)
    /\ expiresIn = clamp(offer.lifetime, minExpires, maxExpires)
    /\ pc = "check" /\ now = 0 /\ due = 0
    /\ attempt = 0 /\ slowDownCount = 0
    /\ reply = "none" /\ outcome = "none"
    /\ lastArrival = NotYet /\ approvedAt = NotYet

Return(result) == pc' = "done" /\ outcome' = result

-----------------------------------------------------------------------------
(* The client *)

\* Slips: elapsed ticks compared with seconds; no check of the window.
WindowOverInTicks == now > expiresIn
WindowNeverOver == FALSE

\* The head of the loop: the attempt cap, the window, and the request.
WindowOver == now \div Second > expiresIn

Poll ==
    /\ pc = "check"
    /\ attempt' = attempt + 1
    /\ \/ attempt' > maxPollCount /\ Return("cap") /\ UNCHANGED due
       \/ attempt' <= maxPollCount /\ WindowOver /\ Return("timeout") /\ UNCHANGED due
       \/ /\ attempt' <= maxPollCount /\ ~WindowOver
          /\ pc' = "sent" /\ due' = now + authHTTPTimeout
          /\ UNCHANGED outcome
    /\ UNCHANGED <<now, interval, slowDownCount, expiresIn, reply, worldVars>>

\* Slip: a ticker, which counts from the sending of the poll.
StartWaitFromSend(seconds) ==
    pc' = "wait" /\ due' = due - authHTTPTimeout + seconds * Second + MaxLate

\* The reply is read: wait for another round, or return.
StartWait(seconds) == pc' = "wait" /\ due' = now + seconds * Second + MaxLate

Pending ==
    /\ pc = "answered" /\ reply = "authorization_pending"
    /\ StartWait(interval)
    /\ UNCHANGED <<now, clientVars, reply, outcome, worldVars>>

SlowDown ==
    /\ pc = "answered" /\ reply = "slow_down"
    /\ slowDownCount' = slowDownCount + 1
    /\ \/ /\ slowDownCount' > maxSlowDownBumps
          /\ Return("slow") /\ UNCHANGED <<due, interval>>
       \/ /\ slowDownCount' <= maxSlowDownBumps
          /\ interval' = clamp(interval + slowDownBump, interval, maxInterval)
          /\ StartWait(interval')
          /\ UNCHANGED outcome
    /\ UNCHANGED <<now, attempt, expiresIn, reply, worldVars>>

Finish ==
    /\ pc = "answered" /\ reply \in {"token", "expired_token", "other"}
    /\ Return(IF reply = "expired_token" THEN "expired" ELSE reply)
    /\ UNCHANGED <<now, due, clientVars, reply, worldVars>>

\* The timer fires, no earlier than asked for.
Wake ==
    /\ pc = "wait" /\ now >= due - MaxLate
    /\ pc' = "check"
    /\ UNCHANGED <<now, due, clientVars, reply, outcome, worldVars>>

\* The request or its body fails or times out: no retry.
TransportFails ==
    /\ pc \in {"sent", "answered"}
    /\ Return("transport")
    /\ UNCHANGED <<now, due, clientVars, reply, worldVars>>

\* ctx is cancelled.
Cancel ==
    /\ pc \in {"wait", "sent", "answered"}
    /\ Return("cancelled")
    /\ UNCHANGED <<now, due, clientVars, reply, worldVars>>

-----------------------------------------------------------------------------
(* The endpoint, the user and time *)

TooEarly == lastArrival # NotYet /\ now - lastArrival < offer.interval * Second
CodeExpired == now + HeadStart >= offer.lifetime * Second

\* The poll reaches the endpoint.
Arrive ==
    /\ pc = "sent"
    /\ pc' = "answered"
    /\ lastArrival' = now
    /\ \/ offer.honest /\ TooEarly /\ reply' = "slow_down"
       \/ offer.honest /\ ~TooEarly /\ CodeExpired /\ reply' = "expired_token"
       \/ offer.honest /\ ~TooEarly /\ ~CodeExpired
          /\ reply' = IF approvedAt = NotYet THEN "authorization_pending" ELSE "token"
       \/ ~offer.honest /\ reply' \in Errors \cup {"token"}
    /\ UNCHANGED <<now, due, clientVars, outcome, offer, approvedAt>>

Approve ==
    /\ pc # "done" /\ approvedAt = NotYet
    /\ approvedAt' = now
    /\ UNCHANGED <<pc, now, due, clientVars, reply, outcome, offer, lastArrival>>

Tick ==
    /\ pc \in {"sent", "answered", "wait"} /\ now < due
    /\ now' = now + 1
    /\ UNCHANGED <<pc, due, clientVars, reply, outcome, worldVars>>

-----------------------------------------------------------------------------
Next ==
    \/ Poll \/ Pending \/ SlowDown \/ Finish \/ Wake \/ TransportFails \/ Cancel
    \/ Arrive \/ Approve \/ Tick

Spec == Init /\ [][Next]_vars

-----------------------------------------------------------------------------
(* Properties *)

\* The client waits the interval from the reply, so the endpoint sees polls at
\* least that far apart whatever the network does (RFC 8628, 3.5): one that
\* slows down only clients that poll early never has to, unless it asked for
\* more than the client's ceiling.
NeverPollsEarly ==
    offer.honest /\ offer.interval <= maxInterval => slowDownCount = 0

\* The approval is not missed: when the client gives up on its window, or is
\* told that the code expired, the user had not approved, or approved within
\* one last round of that end (PollForToken, the elapsed check).
ApprovalIsSeen ==
    offer.honest /\ offer.interval <= maxInterval /\ approvedAt # NotYet =>
        LET LastRound == interval * Second + MaxLate + 2 * authHTTPTimeout
        IN  /\ outcome = "timeout" => approvedAt + LastRound > expiresIn * Second
            /\ outcome = "expired" =>
                   approvedAt + LastRound + HeadStart >= offer.lifetime * Second

\* However long the server makes the code live and however it stalls, the
\* call is over one round after the clamped window (device_flow.go: "a
\* hostile server cannot pin the CLI to a year-long poll").
ReturnsInTime ==
    now <= (maxExpires + 1 + maxInterval) * Second + authHTTPTimeout + MaxLate

\* The window always closes before the "belt-and-braces ceiling on poll
\* attempts": nobody reads the safety-cap message.
WindowClosesBeforeCap == outcome # "cap"
=============================================================================
