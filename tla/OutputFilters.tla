---------------------------- MODULE OutputFilters ----------------------------
(***************************************************************************)
(* browzer run: the output of a command that succeeded is replaced by what *)
(* its filter keeps.  A line is the class its filter puts it in; classes   *)
(* no filter of a tool tells apart are one.                                *)
(***************************************************************************)
EXTENDS Naturals, Sequences, FiniteSets, SequencesExt, Functions

CONSTANTS Verbatim,  \* diffs of at most so many lines are shown as they are (30)
          MaxMods,   \* changed lines shown of a hunk (20)
          MaxLines   \* lines shown of other git output (100)

ASSUME OutputFiltersAssumption == Verbatim \in Nat /\ MaxMods \in Nat /\ MaxLines \in Nat

\* The place of the first k, 0 when there is none.
At(lines, k) ==
    LET places == {i \in DOMAIN lines : lines[i] = k}
    IN  IF places = {} THEN 0 ELSE CHOOSE i \in places : \A j \in places : i <= j

\* The lines at the given places.
LinesAt(lines, places) ==
    LET kept[i \in Nat] == IF i = 0 THEN <<>>
                           ELSE IF i \in places THEN Append(kept[i - 1], lines[i])
                           ELSE kept[i - 1]
    IN  kept[Len(lines)]
Only(lines, ks) == LinesAt(lines, {i \in DOMAIN lines : lines[i] \in ks})
Without(lines, ks) == LinesAt(lines, {i \in DOMAIN lines : lines[i] \notin ks})

-----------------------------------------------------------------------------
(* Test runners, compilers and tables.                                      *)

filterVitest(lines) == Without(lines, {"blank", "pass", "skipped"})
filterTurbo(lines) == Without(lines, {"blank", "pass", "scope", "bullet"})
filterBiome(lines) == Only(lines, {"summary", "location", "fail"})
filterTsc(lines) ==
    Only(lines, {"summary", IF Contains(lines, "underline") THEN "prettyError" ELSE "error"})

filterGoTest(lines) ==
    LET out == Without(lines, {"blank", "pass", "okPackage", "noTestFiles"})
    IN  IF out = <<>> THEN <<"ok">> ELSE out

\* go test -json.  A line is <<action, test, text>>, the action "notJson"
\* when it does not parse; the output of a test is shown if it has failed.
OutputOf(lines, test) == LinesAt(lines, {i \in DOMAIN lines : lines[i][1] = "output" /\ lines[i][2] = test})

Fails(lines, i, test) == lines[i][1] = "fail" /\ lines[i][2] = test

filterGoTestNDJSON(lines) ==
    LET failed == LinesAt(lines, {i \in DOMAIN lines : /\ Fails(lines, i, lines[i][2])
                                                      /\ ~\E j \in 1 .. i - 1 : Fails(lines, j, lines[i][2])})
        shown[k \in Nat] ==
            IF k = 0 THEN LinesAt(lines, {i \in DOMAIN lines : lines[i][1] = "notJson"})
            ELSE Append(shown[k - 1], <<"FAIL", failed[k][2], 0>>) \o OutputOf(lines, failed[k][2])
    IN  IF failed = <<>> THEN <<<<"ok", "", 0>>>> ELSE shown[Len(failed)]

\* cargo test: the failures section as a whole, up to the result line.
InFailures(lines, i) ==
    \E j \in 1 .. i - 1 : lines[j] = "failures" /\ \A k \in j + 1 .. i - 1 : lines[k] # "result"
filterCargoTest(lines) ==
    LinesAt(lines, {i \in DOMAIN lines : InFailures(lines, i) \/ lines[i] \in {"failures", "fail", "result"}})

\* kubectl get: rows whose status is Running or Completed are only counted,
\* also that of a pod that runs and is "notReady".
filterKubectl(lines) ==
    LET head == At(lines, "header")
        bad == {i \in DOMAIN lines : i > head /\ lines[i] \notin {"blank", "running", "notReady"}}
    IN  IF head = 0 THEN lines
        ELSE <<"header">> \o LinesAt(lines, bad) \o <<"summary">>

\* pnpm install and terraform plan: a summary, or everything when there is none.
filterPnpmInstall(lines) ==
    LET counted == Only(lines, {"added", "removed", "changed"})
    IN  IF counted = <<>> THEN lines ELSE <<"summary">>
filterTerraform(lines) ==
    LET found == Only(lines, {"resource"})
    IN  IF ~Contains(lines, "plan") THEN lines
        ELSE <<"plan">> \o SubSeq(found, 1, IF Len(found) < 5 THEN Len(found) ELSE 5)

-----------------------------------------------------------------------------
(* git.  What the subcommand was is guessed from what it printed.           *)

Sections == {"staged", "modified", "untracked"}
Indented == {"entry", "hint"}

\* Slip: a blank line ends the section.
CountToBlank(lines, header) ==
    LET h == At(lines, header)
        listed == {i \in h + 1 .. Len(lines) : /\ lines[i] = "entry"
                                              /\ \A j \in h + 1 .. i : lines[j] \in Indented}
    IN  IF h = 0 THEN 0 ELSE Cardinality(listed)

countStatusSection(lines, header) ==
    LET h == At(lines, header)
        listed == {i \in h + 1 .. Len(lines) : /\ lines[i] = "entry"
                                              /\ \A j \in h + 1 .. i : lines[j] \in Indented \cup {"blank"}}
    IN  IF h = 0 THEN 0 ELSE Cardinality(listed)

compressGitStatus(lines) ==
    LET count == [s \in Sections |-> countStatusSection(lines, s)]
    IN  [count |-> count,
         ok |-> Contains(lines, "clean") /\ \A s \in Sections : count[s] = 0]

truncateLines(lines) ==
    IF Len(lines) <= MaxLines THEN lines
    ELSE Append(SubSeq(lines, 1, MaxLines), "truncated")

(* A line of a diff is <<class, text>>: "noEol" is the remark that a file has *)
(* no newline at its end, "other" any line no rule knows, "--" and "++" a     *)
(* change of a line that itself begins with these: it prints like a header.   *)
Out(st, l) == [st EXCEPT !.out = Append(@, l)]

flushHunk(st) ==
    LET shown == CASE st.kind = "new" /\ st.dels = 0 /\ st.adds > 0 -> <<<<"collapsed", st.adds>>>>
                   [] st.kind = "deleted" /\ st.adds = 0 /\ st.dels > 0 -> <<<<"collapsed", st.dels>>>>
                   [] OTHER -> st.held
    IN  IF ~st.pending THEN st
        ELSE [st EXCEPT !.out = @ \o shown, !.held = <<>>, !.adds = 0, !.dels = 0,
                        !.context = 0, !.inHunk = FALSE, !.pending = FALSE]

emitMod(st, l) ==
    CASE st.pending -> [st EXCEPT !.held = Append(@, l)]
      [] ~st.pending /\ st.mods < MaxMods -> Out([st EXCEPT !.mods = @ + 1], l)
      [] ~st.pending /\ st.mods >= MaxMods /\ ~st.told -> Out([st EXCEPT !.told = TRUE], <<"further", 0>>)
      [] OTHER -> st

\* Slip: that the hunk was cut short is said of the first hunk only.
HunkToldOnce(st, l) ==
    LET on == [flushHunk(st) EXCEPT !.inHunk = TRUE, !.context = 0, !.mods = 0,
                                    !.pending = st.kind \in {"new", "deleted"}]
    IN  IF on.pending THEN [on EXCEPT !.held = Append(@, l)] ELSE Out(on, l)

HunkHeader(st, l) ==
    LET on == [flushHunk(st) EXCEPT !.inHunk = TRUE, !.context = 0, !.mods = 0, !.told = FALSE,
                                    !.pending = st.kind \in {"new", "deleted"}]
    IN  IF on.pending THEN [on EXCEPT !.held = Append(@, l)] ELSE Out(on, l)

DiffLine(st, l) ==
    CASE l[1] = "binary" -> Out(flushHunk(st), l)
      [] l[1] = "file" -> Out([flushHunk(st) EXCEPT !.kind = "changed", !.inHunk = FALSE], l)
      [] l[1] \in {"new", "deleted"} -> [st EXCEPT !.kind = l[1]]
      [] l[1] \in {"meta", "--", "++"} -> st
      [] l[1] = "@@" -> HunkHeader(st, l)
      [] l[1] \in {"+", "-", "same", "noEol", "other"} /\ ~st.inHunk -> Out(st, l)
      [] l[1] \in {"noEol", "other"} /\ st.inHunk ->
             IF st.pending THEN [st EXCEPT !.held = Append(@, l)] ELSE Out(st, l)
      [] l[1] = "+" /\ st.inHunk -> emitMod([st EXCEPT !.adds = @ + 1], l)
      [] l[1] = "-" /\ st.inHunk -> emitMod([st EXCEPT !.dels = @ + 1], l)
      [] l[1] = "same" /\ st.inHunk ->
             CASE st.pending -> [st EXCEPT !.held = Append(@, l)]
               [] ~st.pending /\ st.context < 3 -> Out([st EXCEPT !.context = @ + 1], l)
               [] OTHER -> st

compressGitDiff(lines) ==
    LET start == [out |-> <<>>, held |-> <<>>, kind |-> "changed", pending |-> FALSE, inHunk |-> FALSE,
                  adds |-> 0, dels |-> 0, context |-> 0, mods |-> 0, told |-> FALSE]
        after[i \in Nat] == IF i \in DOMAIN lines THEN DiffLine(after[i - 1], lines[i]) ELSE start
    IN  IF Len(lines) <= Verbatim THEN lines ELSE flushHunk(after[Len(lines)]).out

\* Everything but a diff; "commitSha" is a line with [branch sha].
filterGit(lines) ==
    CASE Contains(lines, "remote") -> <<"ok">>
      [] ~Contains(lines, "remote") /\ Contains(lines, "updating") -> <<"ok">>
      [] ~Contains(lines, "remote") /\ ~Contains(lines, "updating") /\ Contains(lines, "commitSha") -> <<"ok">>
      [] OTHER ->
            CASE Without(lines, {"blank"}) = <<>> -> <<"ok">>
              [] Contains(lines, "branch") -> <<"statusLine">>
              [] lines # <<>> /\ lines[1] = "commit" /\ Len(lines) > 10 -> <<"commits">>
              [] OTHER -> truncateLines(lines)

-----------------------------------------------------------------------------

Filter(tool, lines) ==
    CASE tool = "vitest" -> filterVitest(lines)
      [] tool = "turbo" -> filterTurbo(lines)
      [] tool = "biome" -> filterBiome(lines)
      [] tool = "tsc" -> filterTsc(lines)
      [] tool = "go test" -> filterGoTest(lines)
      [] tool = "cargo test" -> filterCargoTest(lines)
      [] tool = "kubectl" -> filterKubectl(lines)
      [] tool = "pnpm install" -> filterPnpmInstall(lines)
      [] tool = "terraform" -> filterTerraform(lines)
      [] tool = "git" -> filterGit(lines)

\* runCmd: what reaches the terminal.
Shown(tool, filtering, exitCode, lines) ==
    IF exitCode # 0 \/ ~filtering THEN lines ELSE Filter(tool, lines)

\* The lines that report something wrong, whatever the filter makes of them:
\* failures, compiler errors and what explains them, warnings, pods in trouble,
\* what the server of a push says.
ReportsOf(tool) ==
    CASE tool \in {"vitest", "go test"} -> {"fail", "message"}
      [] tool = "turbo" -> {"fail", "message", "bullet"}
      [] tool = "biome" -> {"location", "fail", "warning", "wholeFile"}
      [] tool = "tsc" -> {"error", "prettyError", "explanation"}
      [] tool = "cargo test" -> {"fail", "compileError"}
      [] tool = "kubectl" -> {"crashing", "notReady"}
      [] tool = "git" -> {"remote", "warning"}
      [] OTHER -> {"warning"}

\* The filters that answer with a summary of their own words.
Summarised(tool, lines) ==
    LET mentions(ks) == \E k \in ks : Contains(lines, k)
    IN  CASE tool = "pnpm install" -> mentions({"added", "removed", "changed"})
          [] tool = "terraform" -> mentions({"plan"})
          [] tool = "git" -> \/ mentions({"remote", "updating", "commitSha", "branch"})
                             \/ lines # <<>> /\ lines[1] = "commit" /\ Len(lines) > 10
          [] OTHER -> FALSE

\* The places of the reports a command that succeeds loses: what a test says
\* behind a bullet; biome's warnings and its findings about a file as a whole;
\* what explains an error of tsc, and every pretty error when no underline is
\* as long as ~~~ (tsc.go takes the output for plain then); cargo's compile
\* errors; a pod that runs and is not ready, and whatever stands before the
\* table; all that is summarised, and git output beyond MaxLines.
LostReports(tool, lines) ==
    LET at(ks) == {i \in DOMAIN lines : lines[i] \in ks}
        head == At(lines, "header")
    IN  CASE tool = "turbo" -> at({"bullet"})
          [] tool = "biome" -> at({"warning", "wholeFile"})
          [] tool = "tsc" ->
                at({"explanation", IF Contains(lines, "underline") THEN "error" ELSE "prettyError"})
          [] tool = "cargo test" -> {i \in at({"compileError"}) : ~InFailures(lines, i)}
          [] tool = "kubectl" -> IF head = 0 THEN {} ELSE 1 .. head \cup at({"notReady"})
          [] tool \in {"pnpm install", "terraform"} ->
                IF Summarised(tool, lines) THEN DOMAIN lines ELSE {}
          [] tool = "git" ->
                IF Summarised(tool, lines) THEN DOMAIN lines ELSE {i \in DOMAIN lines : i > MaxLines}
          [] OTHER -> {}

\* A command that fails is shown whole (run.go, "the raw output is always
\* returned"; captured is what its stdout holds up to 64 MiB).  Of one that
\* succeeds the reports at the named places are lost and no other: the rest is
\* shown as often and in the order it was printed.  A cargo test that fails and
\* exits 0 keeps its explanation, up to the result.
KeepsFailures(tool, filtering, exitCode, lines) ==
    LET shown == Shown(tool, filtering, exitCode, lines)
        reports == {i \in DOMAIN lines : lines[i] \in ReportsOf(tool)}
    IN  /\ exitCode # 0 \/ ~filtering => shown = lines
        /\ exitCode = 0 /\ filtering =>
              Only(shown, ReportsOf(tool)) = LinesAt(lines, reports \ LostReports(tool, lines))
        /\ tool = "cargo test" => \A i \in DOMAIN lines :
              InFailures(lines, i) => Contains(shown, lines[i])

\* go test -json: whatever a failed test printed is shown, in its order and
\* wherever its verdict stood among the other tests' lines, and nothing of a
\* test that passed (gotest.go, "retroactively emits them only for tests").
ShowsFailedTests(lines) ==
    LET shown == filterGoTestNDJSON(lines)
        Failed(test) == \E i \in DOMAIN lines : Fails(lines, i, test)
    IN  (\E test \in {lines[i][2] : i \in DOMAIN lines} : Failed(test)) =>
            \A test \in {lines[i][2] : i \in DOMAIN lines} :
                OutputOf(shown, test) = IF Failed(test) THEN OutputOf(lines, test) ELSE <<>>

(* A hunk is named by the place of its header, 0 stands for the lines before  *)
(* the first.                                                                *)
Hunks(lines) == {0} \cup {h \in DOMAIN lines : lines[h][1] = "@@"}
InHunk(lines, h, i) == h <= i /\ \A j \in h + 1 .. i : lines[j][1] # "@@"
IsChange(lines, i) == lines[i][1] \in {"+", "-"}

\* What git prints in a hunk.
HunkLines == {"+", "-", "--", "++", "same", "noEol"}

\* A hunk of a file that is new or deleted, as far as the filter can tell.
Collapsible(lines, h) ==
    /\ lines[h][1] = "@@"
    /\ \E k \in 1 .. h - 1 : /\ lines[k][1] \in {"new", "deleted"}
                             /\ \A j \in k + 1 .. h - 1 : lines[j][1] # "file"

\* The changes that "(N lines)" counts for a hunk that is collapsed: its own,
\* and those of the ordinary hunks since the last collapsible one, of whatever
\* file, because only a collapsible hunk resets the counters.
CountedFor(lines, h) ==
    {i \in DOMAIN lines : /\ IsChange(lines, i)
                          /\ \E g \in Hunks(lines) : /\ g <= h /\ InHunk(lines, g, i)
                                                     /\ \A k \in g .. h - 1 : k # 0 => ~Collapsible(lines, k)}

\* The changes of a hunk that are not shown.
HiddenChanges(lines, shown, h) ==
    {i \in DOMAIN lines : InHunk(lines, h, i) /\ IsChange(lines, i) /\ ~Contains(shown, lines[i])}

\* Neither a hunk's header nor one of its changes is shown.
Vanished(lines, shown, h) == \A i \in DOMAIN lines :
    InHunk(lines, h, i) /\ (i = h \/ IsChange(lines, i)) => ~Contains(shown, lines[i])

Notices(shown) == {k \in DOMAIN shown : shown[k][1] \in {"further", "collapsed"}}

\* Lines are told apart, every hunk has a change that is not taken for a header,
\* and the lines of a hunk follow its header.
AsDiffed(lines) ==
    /\ \A i, j \in DOMAIN lines : lines[i] = lines[j] => i = j
    /\ \A h \in Hunks(lines) \ {0} : \E i \in DOMAIN lines :
          h < i /\ IsChange(lines, i) /\ \A j \in h + 1 .. i - 1 : lines[j][1] \in HunkLines
    /\ \A i \in DOMAIN lines : lines[i][1] \in HunkLines =>
          \E g \in 1 .. i - 1 : lines[g][1] = "@@" /\ \A j \in g + 1 .. i : lines[j][1] \in HunkLines

\* Nothing of a diff disappears without a word (git.go, "plus a truncation
\* summary"): each hunk that hides changes has its own notice, there is no
\* notice besides, and that of a hunk of which nothing is shown gives a number,
\* which counts its own changes and may count others with them (CountedFor; the
\* doc of compressGitDiff promises the N lines of the file).  A change that
\* prints like a header, "--" or "++", is dropped without notice or number.
DiffAccounts(lines) ==
    LET shown == compressGitDiff(lines)
        hiding == {h \in Hunks(lines) : HiddenChanges(lines, shown, h) # {}}
    IN  AsDiffed(lines) =>
            \E notice \in Bijection(hiding, Notices(shown)) : \A h \in hiding :
                Vanished(lines, shown, h) => shown[notice[h]][2] = Cardinality(CountedFor(lines, h))

\* The one line a git status becomes counts each file of the three sections
\* once, under the header it was listed under, and says clean only of a tree
\* with none.  Files under another header, such as the unmerged paths of a
\* conflict, are counted nowhere.
StatusCounts(lines) ==
    LET Header(i) == LET hs == {j \in 1 .. i : lines[j] \notin Indented \cup {"blank"}}
                     IN  IF hs = {} THEN "none" ELSE lines[CHOOSE j \in hs : \A k \in hs : k <= j]
        files == [s \in Sections |-> Cardinality({i \in DOMAIN lines : lines[i] = "entry" /\ Header(i) = s})]
        got == compressGitStatus(lines)
    IN  (\A i, j \in DOMAIN lines : lines[i] = lines[j] /\ lines[i] \in Sections => i = j) =>
            /\ got.count = files
            /\ got.ok => \A s \in Sections : files[s] = 0
=============================================================================
