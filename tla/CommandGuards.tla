--------------------------- MODULE CommandGuards ----------------------------
(***************************************************************************)
(* The guards on Bash calls: rewrite-bash, which prefixes browzer commands *)
(* with BROWZER_LLM=1, wraps noisy tools in `browzer run` and turns cat    *)
(* into `browzer read`; the argument handling of `browzer run`; and what   *)
(* the contract, track-cli and track-wasted guards make of a command.      *)
(* A command is a sequence of words, some of them in quotes.               *)
(***************************************************************************)
EXTENDS Integers, Sequences, SequencesExt

CONSTANTS ProxiedTools,   \* word sequences of RUN_REWRITE_PATTERNS
          SourceFiles,    \* existing code files of 40 KB and more
          EditCritical,   \* files NeverRewriteRE matches
          QuotedWords     \* words that stand in quotes

\* StripQuoted, word by word.
Skeleton(cmd) == SelectSeq(cmd, LAMBDA w : w \notin QuotedWords)

Words(cmd) == ToSet(cmd)
StartsWith(cmd, prefix) == IsPrefix(prefix, cmd)

\* The words with a `;` or an `&` in them: `||` has neither, and an `&` is
\* also in the redirection 2>&1.
ChainOps == {"&&", ";", "2>&1"}
chainOpRE(skeleton) == Words(skeleton) \cap ChainOps # {}
compoundShellRE(skeleton) == Words(skeleton) \cap (ChainOps \cup {"||", "|", ">", "<"}) # {}

-----------------------------------------------------------------------------
(* rewrite-bash.  Its answer: the exit code, the command the agent runs     *)
(* next, and whether a note for the agent comes with it.                    *)

Rewritten(cmd) == [code |-> "allow", command |-> cmd, note |-> TRUE]
Allowed(cmd) == [code |-> "allow", command |-> cmd, note |-> FALSE]
PassedOver(cmd) == [code |-> "passthrough", command |-> cmd, note |-> FALSE]

InjectEnv(cmd) ==
    IF Words(cmd) \cap {"BROWZER_LLM=1", "--llm"} # {}
    THEN Allowed(cmd)
    ELSE Rewritten(<<"BROWZER_LLM=1">> \o cmd)

\* Slip: what is already wrapped is wrapped again.
ProxiesAgain(cmd) ==
    \E t \in ProxiedTools \cup {<<"BROWZER_LLM=1">>} : StartsWith(Skeleton(cmd), t)

Proxied(cmd) == \E t \in ProxiedTools : StartsWith(Skeleton(cmd), t)

\* decideRunProxy, for a command that is proxied: with a pipe or redirection
\* there is only a hint, with a chain nothing.
RunProxy(cmd) ==
    CASE chainOpRE(Skeleton(cmd)) -> PassedOver(cmd)
      [] ~chainOpRE(Skeleton(cmd)) /\ compoundShellRE(Skeleton(cmd)) ->
            [Allowed(cmd) EXCEPT !.note = TRUE]
      [] ~compoundShellRE(Skeleton(cmd)) /\ Words(cmd) \cap EditCritical # {} -> PassedOver(cmd)
      [] OTHER -> Rewritten(<<"browzer", "run">> \o cmd)

ShowVerbs == {"cat", "head", "tail", "less", "more"}

\* Slip: a flag or a second file does not matter.
ShowsOneFileLoosely(cmd) == Len(cmd) >= 2 /\ cmd[1] \in ShowVerbs

ShowsOneFile(cmd) == Len(cmd) = 2 /\ cmd[1] \in ShowVerbs

\* decideNeverRewrite: only a large code file is worth the detour.
ReadInstead(cmd) ==
    IF Last(cmd) \in SourceFiles \ EditCritical
    THEN Rewritten(<<"browzer", "read", Last(cmd), "--filter=auto">>)
    ELSE PassedOver(cmd)

rewriteBash(cmd) ==
    CASE StartsWith(cmd, <<"browzer">>) -> InjectEnv(cmd)
      [] ~StartsWith(cmd, <<"browzer">>) /\ Proxied(cmd) -> RunProxy(cmd)
      [] ~StartsWith(cmd, <<"browzer">>) /\ ~Proxied(cmd) /\ ShowsOneFile(cmd) -> ReadInstead(cmd)
      [] OTHER -> PassedOver(cmd)

-----------------------------------------------------------------------------
(* `browzer run` *)

\* Before the first "--" the run proxy takes --no-filter for itself.
OwnArgs(args) == LET sep == SelectInSeq(args, LAMBDA w : w = "--")
                 IN  IF sep = 0 THEN <<args, <<>>>>
                     ELSE <<SubSeq(args, 1, sep - 1), SubSeq(args, sep + 1, Len(args))>>

\* The argv of the child; --help anywhere shows the proxy's help instead.
childArgs(args) ==
    IF Words(args) \cap {"--help", "-h"} # {} THEN <<"help">>
    ELSE SelectSeq(OwnArgs(args)[1], LAMBDA w : w # "--no-filter") \o OwnArgs(args)[2]

\* What of a file a command shows; `browzer read --filter=auto` shows a digest.
PartShown(verb) == CASE verb = "head" -> "start"
                     [] verb = "tail" -> "end"
                     [] OTHER -> "all"

\* What the shell ends up executing, and what of which file it shows.
RECURSIVE Executes(_)
Executes(cmd) ==
    IF StartsWith(cmd, <<"BROWZER_LLM=1">>) THEN Executes(Tail(cmd))
    ELSE IF StartsWith(cmd, <<"browzer", "run">>) /\ ~compoundShellRE(Skeleton(cmd))
         THEN childArgs(SubSeq(cmd, 3, Len(cmd)))
    ELSE IF StartsWith(cmd, <<"browzer", "read">>) THEN <<"show", "digest", cmd[3]>>
    ELSE IF Len(cmd) = 2 /\ cmd[1] \in ShowVerbs THEN <<"show", PartShown(cmd[1]), cmd[2]>>
    ELSE cmd

\* Words `browzer run` takes for itself although the child was meant.
ProxyWords == {"--help", "-h", "--no-filter", "--"}

-----------------------------------------------------------------------------
(* contract, track-cli, track-wasted *)

\* splitCompound.
Separators == {"&&", "||", ";", "|"}
RECURSIVE Segments(_)
Segments(skeleton) ==
    LET cut == SelectInSeq(skeleton, LAMBDA w : w \in Separators)
    IN  IF cut = 0 THEN {skeleton}
        ELSE {SubSeq(skeleton, 1, cut - 1)} \cup Segments(SubSeq(skeleton, cut + 1, Len(skeleton)))

Queries(verbs) == {<<"browzer", v>> : v \in verbs}
OneOf(segment, prefixes) == \E p \in prefixes : StartsWith(segment, p)

\* Slip: the segments of the raw command.
RawSegments(cmd) == Segments(cmd)

SkeletonSegments(cmd) == Segments(Skeleton(cmd))

\* Does the command read an answer made for people?
BreaksContract(cmd) ==
    /\ ~(StartsWith(cmd, <<"git">>) /\ Words(cmd) \cap Separators = {})
    /\ \E s \in SkeletonSegments(cmd) : OneOf(s, Queries({"explore", "search", "deps"}))
    /\ Words(Skeleton(cmd)) \cap {"--save", "--json", "--schema"} = {}

\* contractDecide; "ask" becomes "allow" for the repeat (HookSession).
contractDecide(cmd, strict) ==
    CASE ~BreaksContract(cmd) -> "passthrough"
      [] BreaksContract(cmd) /\ strict -> "deny"
      [] OTHER -> "ask"

\* trackCLIDecide counts a query anywhere in a segment, by the size of the
\* saved answer or of stdout; 0 is no event.
TrackedAsSaved(cmd, saved, stdout) ==
    LET query == \E s \in SkeletonSegments(cmd) : \E i \in 1 .. Len(s) :
                     OneOf(SubSeq(s, i, Len(s)), Queries({"explore", "search", "deps", "ask"}))
    IN  IF query THEN (IF saved # 0 THEN saved ELSE stdout) \div 4 ELSE 0

\* trackWastedDecide counts a search that starts the command, never as nothing.
TrackedAsWasted(cmd, stdout) ==
    IF ~StartsWith(Skeleton(cmd), <<"browzer">>) /\ OneOf(Skeleton(cmd), {<<"grep", "-r">>, <<"rg">>})
    THEN IF stdout \div 4 = 0 THEN -1 ELSE -(stdout \div 4)
    ELSE 0

-----------------------------------------------------------------------------
(* Properties of every command *)

\* Rewriting does not change what is executed (run.go: "passes all argv after
\* browzer run verbatim to the child"), with two exceptions.  Arguments that
\* the run proxy takes for its own are lost to the child; and of a large code
\* file the agent is shown the digest of `browzer read`, also where head or
\* tail asked for one end of it.
KeepsCommand(cmd) ==
    LET before == Executes(cmd)
        after == Executes(rewriteBash(cmd).command)
        Digests(f) == /\ before \in {<<"show", part, f>> : part \in {"all", "start", "end"}}
                      /\ after = <<"show", "digest", f>>
    IN  Words(cmd) \cap ProxyWords = {} =>
            after = before \/ \E f \in SourceFiles \ EditCritical : Digests(f)

\* The hint that a command might be prefixed by hand is for pipes and
\* redirections and never for a chain, where the prefix would cover one link
\* only (decideRunProxy, "to avoid suggesting a misleading `browzer run`
\* wrapper").  The comment there counts || among the chains; the code takes it
\* for a pipe and hints at it too.
HintsOfPipesOnly(cmd) ==
    LET answer == rewriteBash(cmd)
        Joins(ops) == Words(Skeleton(cmd)) \cap ops # {}
    IN  answer.note /\ answer.command = cmd => Joins({"|", ">", "<", "||"}) /\ ~Joins({"&&", ";"})

\* A rewritten command is rewritten at most once more, and never wrapped
\* twice: the guard sees its own output when the agent repeats a command.
Settles(cmd) ==
    LET once == rewriteBash(cmd).command
        twice == rewriteBash(once).command
    IN  /\ rewriteBash(twice).command = twice
        /\ Len(SelectSeq(twice, LAMBDA w : w = "run")) <= Len(SelectSeq(cmd, LAMBDA w : w = "run")) + 1

\* Text in quotes is never taken for a command: a query somebody only writes
\* about is neither stopped nor counted.
QuotesAreText(cmd) ==
    /\ BreaksContract(cmd) \/ TrackedAsSaved(cmd, 4, 4) # 0 => "browzer" \in Words(Skeleton(cmd))
    /\ TrackedAsWasted(cmd, 4) # 0 => Words(Skeleton(cmd)) \cap {"grep", "rg"} # {}
=============================================================================
