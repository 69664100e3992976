----------------------------- MODULE HookSavings -----------------------------
(***************************************************************************)
(* The guards around Read, Grep and Glob and around browzer's own searches:*)
(* what they decide before the tool runs, and the tokens they and the run  *)
(* proxy claim to have saved or wasted after it.  Sizes are bytes; a token *)
(* is 4 of them.                                                           *)
(***************************************************************************)
EXTENDS Integers, FiniteSets, Sequences, SequencesExt

CONSTANTS LargeFile,    \* the size from which a read is worth an event
          HeadBytes,    \* the most of its start that is shown
          PathBytes,    \* the rest of the summary that is shown
          BlockedBytes, \* the flat estimate for a blocked Glob
          ManyEntries,  \* results up to which a search is left alone
          TopEntries    \* results that are named when there are more

ASSUME HookSavingsAssumption ==
    /\ {LargeFile, HeadBytes, PathBytes, BlockedBytes, ManyEntries} \subseteq Nat
    /\ HeadBytes + PathBytes <= LargeFile /\ TopEntries \in 1 .. ManyEntries

Tokens(bytes) == bytes \div 4
Rounded(bytes) == IF bytes >= 0 THEN (bytes + 2) \div 4 ELSE -((2 - bytes) \div 4)
Event(method, saved) == [method |-> method, saved |-> saved]

\* Paths by class: "code", "doc", "config", "never" (edit-critical).
ClassifyPath(path) == IF path \in {"code", "doc", "config"} THEN path ELSE "never"
OfInterest(c) == c.allowed /\ c.workspace /\ c.exists /\ ClassifyPath(c.path) = "code"

-----------------------------------------------------------------------------
(* Reads.  c: the gate, the workspace, the file, its size, whether it is     *)
(* binary, and whether the read has an offset or a limit.                    *)
HeadShown(c) == c.size > 4 * LargeFile /\ ~c.binary

rewriteReadDecide(c) ==
    IF OfInterest(c) /\ ~c.ranged /\ c.size > LargeFile
    THEN LET head == IF HeadShown(c) THEN HeadBytes ELSE 0
             saved == Tokens(c.size - PathBytes - head)
         IN [code |-> "allow", head |-> head,
             events |-> {Event("estimated", IF saved > 0 THEN saved ELSE 0)}]
    ELSE [code |-> "passthrough", head |-> 0, events |-> {}]

\* The read is over; a range counts as the whole file.
postuseReadDecide(c) ==
    IF OfInterest(c) /\ c.size >= LargeFile
    THEN {Event("estimated", (Tokens(c.size) * 2) \div 5)} ELSE {}

-----------------------------------------------------------------------------
(* Searches: Grep and Glob.  c.target is what path and pattern point at, and *)
(* c.first whether the session has not seen the advice.                      *)
Searched(c) == c.allowed /\ c.workspace /\ c.target # "config"

suggestGrepDecide(c) == IF Searched(c) /\ c.first THEN "advise" ELSE "passthrough"
blockGlobDecide(c) ==
    CASE ~Searched(c) -> "passthrough"
      [] c.mode = "block" -> "deny"
      [] OTHER -> IF c.first THEN "advise" ELSE "passthrough"

postuseGrepDecide(c) == IF Searched(c) THEN {Event("measured", Tokens(c.output))} ELSE {}

\* The manifest's lines are taken away from zero: no match or a negative
\* number, and never a counterfactual.
postuseGlobCounterfactual(c) == IF c.matched = 0 THEN -1 ELSE -(c.matched * 80) \div 4

postuseGlobDecide(c) ==
    LET cf == postuseGlobCounterfactual(c) IN
    IF ~Searched(c) THEN {}
    ELSE IF c.mode # "block" THEN {Event("measured", Tokens(c.output))}
    ELSE IF cf >= 0 THEN {Event("counterfactual", cf)}
    ELSE {Event("estimated", Tokens(BlockedBytes))}

-----------------------------------------------------------------------------
(* The run proxy, and the guards that hand in a number themselves.           *)

\* Slip: output that grew counts as it is.
GrownToo(raw, shown) == Rounded(raw - shown)
TrackRunSaved(raw, shown) == IF Rounded(raw - shown) < 0 THEN 0 ELSE Rounded(raw - shown)

EmitHookDelta(hook, saved) == IF hook = "" \/ saved = 0 THEN {} ELSE {Event("estimated", saved)}

\* The best of many results; entries is a sequence of scores.  sort.Slice is
\* not stable: results of one score come in any order.
ByScore(entries) ==
    {order \in Bijection(DOMAIN entries, DOMAIN entries) :
        \A i, j \in DOMAIN entries : i < j => entries[order[i]] >= entries[order[j]]}
postuseRunDecide(entries) ==
    IF Len(entries) <= ManyEntries THEN {<<>>}
    ELSE {SubSeq(order, 1, TopEntries) : order \in ByScore(entries)}

-----------------------------------------------------------------------------
(* No saving is negative, and none but the flat guess for a blocked Glob is  *)
(* more than the whole of what was read, found or printed.                   *)
ReadSavings(c) ==
    \A e \in rewriteReadDecide(c).events \cup postuseReadDecide(c) :
        e.saved \in 0 .. Tokens(c.size)
SearchSavings(c) ==
    /\ \A e \in postuseGrepDecide(c) \cup postuseGlobDecide(c) :
          e.saved >= 0 /\ (e.method = "measured" => e.saved <= Tokens(c.output))
    /\ blockGlobDecide(c) = "deny" => \A e \in postuseGlobDecide(c) : e.saved = Tokens(BlockedBytes)
RunSavings(raw, shown) == TrackRunSaved(raw, shown) \in 0 .. Rounded(raw)

(* However a search is summarised, nothing left out scores more than what   *)
(* is named, and nothing is named twice.                                     *)
NamesTheBest(entries) ==
    \A named \in postuseRunDecide(entries) :
        /\ \A i \in DOMAIN entries \ ToSet(named), j \in ToSet(named) : entries[i] <= entries[j]
        /\ Cardinality(ToSet(named)) = Len(named)
=============================================================================
