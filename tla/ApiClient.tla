------------------------------ MODULE ApiClient ------------------------------
(***************************************************************************)
(* api.Client: one request with its retries, the exit code its answer      *)
(* becomes, and the polling of an ingestion batch.  What the network and   *)
(* the server do is a sequence of outcomes, one per attempt: an HTTP       *)
(* status, "lost" (the request never arrived) or "replyLost" (it did).     *)
(***************************************************************************)
EXTENDS Naturals, Sequences, SequencesExt

Methods == {"GET", "PUT", "DELETE", "POST", "PATCH"}
NetworkErrors == {"lost", "replyLost"}
maxAttempts == 4

isRetryableStatus(s) == s \in {"408", "429", "500", "502", "503", "504"}

\* Slip: PATCH is sent again as well.
RetriesPatch(m) == m \in Methods \ {"POST"}

isRetryableMethod(m) == m \in {"GET", "HEAD", "PUT", "DELETE"}

TryAgain(m, outcome) ==
    isRetryableMethod(m) /\ (outcome \in NetworkErrors \/ isRetryableStatus(outcome))

\* doWithHeaders: how many of the outcomes are used.  The context may end
\* while the client backs off after attempt number `cancelled`.
Attempts(m, outcomes, cancelled) ==
    LET ends == {k \in 1 .. maxAttempts :
                    k = maxAttempts \/ k = cancelled \/ ~TryAgain(m, outcomes[k])}
    IN  CHOOSE k \in ends : \A j \in ends : k <= j

\* What the caller gets: a transport error, or a response with a body unless
\* the retries were used up on it.
Do(m, outcomes, cancelled) ==
    LET k == Attempts(m, outcomes, cancelled)
        last == outcomes[k]
    IN  CASE k = cancelled /\ TryAgain(m, last) -> [error |-> "context", status |-> "none", body |-> FALSE]
          [] k # cancelled /\ last \in NetworkErrors -> [error |-> last, status |-> "none", body |-> FALSE]
          [] OTHER -> [error |-> "none", status |-> last, body |-> ~TryAgain(m, last)]

Success(status) == status \in {"200", "204"}

\* httpStatusError and CliError; a closed body has no envelope to read.
ExitCode(status) ==
    CASE Success(status) -> 0
      [] status \in {"401", "423"} -> 2
      [] status = "404" -> 4
      [] status \in {"402", "413"} -> 5
      [] status = "429" -> 6
      [] OTHER -> 1

\* getJSON, postJSON, deleteCall.
CallExit(m, outcomes, cancelled) ==
    LET got == Do(m, outcomes, cancelled)
    IN  IF got.error # "none" THEN 1 ELSE ExitCode(got.status)

\* NewAuthenticatedClient: no session is exit code 2, an expiring one 1.
AuthExit(session) ==
    CASE session = "none" -> 2
      [] session = "expiring" -> 1
      [] OTHER -> 0

-----------------------------------------------------------------------------
(* PollBatchStatus.  An answer is an error, "404", "304" or the status of   *)
(* the batch; answer k comes after the sum of the first k - 1 delays.       *)

backoffSchedule == <<1, 2, 3, 5, 5>>
Delay(k) == backoffSchedule[IF k <= 5 THEN k ELSE 5]
PolledAt[k \in Nat] == IF k <= 1 THEN 0 ELSE PolledAt[k - 1] + Delay(k - 1)

KeepPolling == {"304", "queued", "running"}

\* The polls that are sent and what PollBatchStatus returns.
PollBatchStatus(answers, timeout) ==
    LET ends == {k \in 1 .. Len(answers) : answers[k] \notin KeepPolling}
                \cup {k \in 1 .. Len(answers) : PolledAt[k + 1] >= timeout}
        k == CHOOSE e \in ends : \A f \in ends : e <= f
    IN  [polls |-> k,
         result |-> IF answers[k] \in KeepPolling THEN "timeout" ELSE answers[k]]

-----------------------------------------------------------------------------

\* A request that is not idempotent reaches the server at most once, and any
\* other at most four times (client.go, "POST is intentionally non-retryable");
\* nothing is sent after a definite answer, and the command's exit code tells a
\* success from a failure.
RequestsBounded(m, outcomes, cancelled) ==
    LET k == Attempts(m, outcomes, cancelled)
        arrived == {j \in 1 .. k : outcomes[j] # "lost"}
        definite == {j \in 1 .. k : outcomes[j] \notin NetworkErrors /\ ~isRetryableStatus(outcomes[j])}
    IN  /\ m \in {"POST", "PATCH"} => k = 1
        /\ k <= maxAttempts
        /\ \A j \in definite : j = k
        /\ CallExit(m, outcomes, cancelled) = 0 => k \in arrived /\ Success(outcomes[k])
        /\ k \in arrived /\ Success(outcomes[k]) => CallExit(m, outcomes, cancelled) = 0

\* Polling ends with the first answer that is not a wait, or with the timeout,
\* and no poll starts after the deadline.
PollsEnd(answers, timeout) ==
    LET got == PollBatchStatus(answers, timeout)
    IN  /\ PolledAt[got.polls] < timeout
        /\ \A k \in 1 .. got.polls - 1 : answers[k] \in KeepPolling
        /\ got.result \notin KeepPolling
=============================================================================
