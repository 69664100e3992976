----------------------------- MODULE GainReport ------------------------------
(***************************************************************************)
(* What is told of the events in history.db: `browzer gain` by source,     *)
(* model or method, its adoption report and the summary at the end of a    *)
(* session that repeats it, and the buckets the daemon sends.  The table   *)
(* is a sequence of rows [day, source, filter, model, method, saved,       *)
(* flushed]; day 0 is a blank timestamp and "NULL" an absent value.        *)
(***************************************************************************)
EXTENDS Integers, FiniteSets, Sequences, FiniteSetsExt

CONSTANTS FromCli, FromHooks, Wasted,   \* sources classifyAdoptionSource knows
          Audit                         \* sources called workflow-audit:*

ASSUME GainReportAssumption ==
    /\ FromCli \cap FromHooks = {} /\ (FromCli \cup FromHooks) \cap Wasted = {}
    /\ {"NULL", "<unknown>"} \cap Wasted = {}

SumOver(f, S) == MapThenSumSet(LAMBDA x : f[x], S)
SavedBy(rows, S) == SumOver([i \in DOMAIN rows |-> rows[i].saved], S)
Magnitude(n) == IF n < 0 THEN -n ELSE n

\* The WHERE clause: since the cutoff, without the audit unless asked for.
InWindow(rows, since, internal) ==
    {i \in DOMAIN rows : rows[i].day >= since /\ (internal \/ rows[i].source \notin Audit)}

groupColumn(row, by) == IF by = "source" THEN row.source
                        ELSE IF by = "filter" THEN row.filter
                        ELSE IF by = "model" THEN row.model ELSE row.method

\* COALESCE: an absent value is shown under a name.
Coalesced(v) == IF v = "NULL" THEN "<unknown>" ELSE v

\* GROUP BY: what the rows of S come to, by key.
Grouped(rows, S, key) ==
    [k \in {key[i] : i \in S} |->
        LET of == {i \in S : key[i] = k} IN [n |-> Cardinality(of), saved |-> SavedBy(rows, of)]]
Counts(groups) == [k \in DOMAIN groups |-> groups[k].n]
Savings(groups) == [k \in DOMAIN groups |-> groups[k].saved]

QueryAggregated(rows, since, by, internal) ==
    Grouped(rows, InWindow(rows, since, internal),
            [i \in DOMAIN rows |-> Coalesced(groupColumn(rows[i], by))])

Classes == {"savedFromCli", "savedFromHooks", "wasted", "other"}
classifyAdoptionSource(s) ==
    CASE s \in FromCli   -> "savedFromCli"
      [] s \in FromHooks -> "savedFromHooks"
      [] s \in Wasted    -> "wasted"
      [] OTHER           -> "other"

\* Slip: what was wasted is added up as it stands in the table.
SignedWaste(saved) == SumOver(saved, DOMAIN saved \cap Wasted)

WastedTotal(saved) == SumOver([s \in DOMAIN saved |-> Magnitude(saved[s])], DOMAIN saved \cap Wasted)

\* runAdoptionReport; several sources may be the one wasted most.
AdoptionReport(rows, since, internal) ==
    LET saved == Savings(QueryAggregated(rows, since, "source", internal))
        Of(c) == {s \in DOMAIN saved : classifyAdoptionSource(s) = c}
        savedTotal == SumOver(saved, {s \in DOMAIN saved \ Wasted : saved[s] > 0})
        wastedTotal == WastedTotal(saved)
    IN  [savedTotal |-> savedTotal,
         wastedTotal |-> wastedTotal,
         byPattern |-> [c \in Classes |-> IF c = "wasted" THEN wastedTotal ELSE SumOver(saved, Of(c))],
         topWasted |-> {s \in Of("wasted") : \A t \in Of("wasted") : Magnitude(saved[s]) >= Magnitude(saved[t])},
         ratio |-> IF wastedTotal = 0 THEN "none"
                   ELSE IF savedTotal >= wastedTotal THEN "ahead" ELSE "behind"]

\* session-summary: the report of the last hour in one line, thousands rounded.
RoundedToK(n) == (n + 500) \div 1000
sessionSummaryDecide(rows, hourAgo, inWorkspace, stopHookActive) ==
    IF ~inWorkspace \/ stopHookActive THEN {}
    ELSE LET report == AdoptionReport(rows, hourAgo, FALSE)
             top == report.topWasted
             Line(s, k) == [saved |-> RoundedToK(report.savedTotal), adoption |-> report.ratio,
                            top |-> s, topK |-> k]
             lost(s) == QueryAggregated(rows, hourAgo, "source", FALSE)[s].saved
         IN  IF top = {} THEN {Line("", 0)}
             ELSE {Line(s, RoundedToK(Magnitude(lost(s)))) : s \in top}

-----------------------------------------------------------------------------
(* UnsentBuckets; a blank timestamp ends the daemon (Telemetry).             *)

UnsentRows(rows) == {i \in DOMAIN rows : ~rows[i].flushed}
Key(row) == <<row.day, row.source, row.filter, row.model, row.method>>

UnsentBuckets(rows) ==
    [buckets |-> Grouped(rows, UnsentRows(rows), [i \in DOMAIN rows |-> Key(rows[i])]),
     ids |-> UnsentRows(rows)]

-----------------------------------------------------------------------------

\* Every event is told once and with its sign: the groups add up to the rows.
AddsUp(rows, S, groups) ==
    /\ SumOver(Counts(groups), DOMAIN groups) = Cardinality(S)
    /\ SumOver(Savings(groups), DOMAIN groups) = SavedBy(rows, S)

\* The groups of any report add up to the same events and tokens, the parts of
\* the adoption report to what the rows say, the session's line names a source
\* no other wasted more than, and the daemon sends what the table holds.
TellsWhatHappened(rows, since) ==
    LET in == InWindow(rows, since, FALSE)
        report == AdoptionReport(rows, since, FALSE)
    IN  /\ \A by \in {"source", "filter", "model", "method"} :
              AddsUp(rows, in, QueryAggregated(rows, since, by, FALSE))
        /\ report.byPattern["savedFromCli"] + report.byPattern["savedFromHooks"]
              + report.byPattern["other"] - report.byPattern["wasted"] = SavedBy(rows, in)
        /\ report.savedTotal - report.wastedTotal >= SavedBy(rows, in)
        /\ \A line \in sessionSummaryDecide(rows, since, TRUE, FALSE) :
              line.top # "" => \A s \in Wasted :
                  Magnitude(SavedBy(rows, {i \in in : rows[i].source = s})) < 1000 * line.topK + 501
        /\ AddsUp(rows, UnsentRows(rows), UnsentBuckets(rows).buckets)
=============================================================================
