----------------------------- MODULE Decisions ------------------------------
(***************************************************************************)
(* What the parts of the program promise that decide and keep no state.  A *)
(* state is one question, <<kind, ...>>; it is answered and nothing comes  *)
(* of it.  MCDecisions asks the questions of a small instance and of the   *)
(* parts besides; the theorems about these are in the proof modules.       *)
(***************************************************************************)
EXTENDS Integers, FiniteSets, Sequences, HookSavings, GainReport, ReadFilter, CodeReview, OutputFilters

CONSTANTS MaxWalkLevels, FallbackAgents, LargeDelete

ASSUME DecisionsAssumption ==
    MaxWalkLevels \in Nat \ {0} /\ LargeDelete \in Nat

VARIABLE case

Ledger == INSTANCE HookLedger
Guard == INSTANCE HookGuards
Api == INSTANCE ApiClient
Docs == INSTANCE DocSpec
Workspaces == INSTANCE ManifestReconcile

-----------------------------------------------------------------------------

\* The guards speak when they should: each session once, and a call is blocked
\* or answered with work only for what it is and where it is made.
GuardsSpeakInTurn ==
    /\ case[1] = "session" => Ledger!SaysOnce(case[2])
    /\ case[1] = "guards" => Guard!StaysOutOfTheWay(case[2], case[3])

\* api.Client: no request that is not idempotent reaches the server twice, and
\* polling ends by its deadline, whatever the network does.
RequestsBounded ==
    /\ case[1] = "request" => Api!RequestsBounded(case[2], case[3], case[4])
    /\ case[1] = "poll" => Api!PollsEnd(case[2], case[3])

\* What is shown in place of something longer leaves out no more than is named:
\* of a command that succeeds `browzer run` loses the reports of LostReports and
\* no other, and of one that fails none; a failed test's output is whole; a hunk
\* that hides changes has its notice, whose number is CountedFor ("--" and "++"
\* lines have none); and the line of a status counts each file of its three
\* sections.  `browzer read` shows what its level promises, and codereview
\* aggregate drops no member's finding and counts none twice.
NothingHidden ==
    /\ case[1] = "output" => KeepsFailures(case[2], case[3], case[4], case[5])
    /\ case[1] = "tests" => ShowsFailedTests(case[2])
    /\ case[1] = "diff" => DiffAccounts(case[2])
    /\ case[1] = "status" => StatusCounts(case[2])
    /\ case[1] = "read" => ReadsFaithfully(case[2])
    /\ case[1] = "review" => PreservesAll(case[2], case[3])

\* What is counted as saved, wasted and reported adds up, with its sign and
\* within its size, and a summarised search names the best of its results.
SavingsHonest ==
    /\ case[1] = "large read" => ReadSavings(case[2])
    /\ case[1] = "search" => SearchSavings(case[2])
    /\ case[1] = "run" => RunSavings(case[2], case[3])
    /\ case[1] = "results" => NamesTheBest(case[2])
    /\ case[1] = "gain" => TellsWhatHappened(case[2], case[3])

\* workspace docs and the workspace manifest: what is uploaded, renamed and
\* deleted is what was asked for, and two reconciliations bring both sides
\* together without losing a change.
ChangesAsAsked ==
    /\ case[1] = "docs" => Docs!SelectsAsAsked(case[2], case[3])
    /\ case[1] = "manifest" => Workspaces!Converges(case[2], case[3])
=============================================================================
