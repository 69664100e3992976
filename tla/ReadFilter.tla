----------------------------- MODULE ReadFilter -----------------------------
(***************************************************************************)
(* `browzer read` and the daemon's Read method: which filter a file gets,  *)
(* what the filter leaves of it, and how much it is said to have saved.    *)
(* A line is its kind: "code", "tail" (code with a line comment after it), *)
(* "text" (code with the sign of a line comment inside a string), "note"   *)
(* (a line comment), "blank", "open" (code and then the start of a block   *)
(* comment, or what looks like one), "close" (its end and then code).      *)
(* What is shown is a sequence of lines of the file, beginnings of lines,  *)
(* blank lines and parts of symbols.                                       *)
(***************************************************************************)
EXTENDS Integers, FiniteSets, Sequences, SequencesExt, Functions

CONSTANTS Supported,   \* the languages with signatures in the manifest
          LongFile     \* the line count up to which "auto" is minimal

ASSUME ReadFilterAssumption == LongFile \in Nat

LineAt(i) == [part |-> "line", at |-> i]
CutLine(i) == [part |-> "beginning", at |-> i]
BlankLine == [part |-> "blank", at |-> 0]

\* The entry of a file the manifest does not have.
NoEntry == [lang |-> "", lineCount |-> 0, symbols |-> <<>>]

ResolveAuto(prose, entry) ==
    IF prose THEN "none"
    ELSE IF entry.lang \notin Supported \/ entry.lineCount <= LongFile THEN "minimal"
    ELSE "aggressive"

-----------------------------------------------------------------------------
(* stripComments: block comments, then line comments with the white space    *)
(* (newlines too) before them, then runs of blank lines.  It does not know    *)
(* strings: a sign in one takes the rest of its line away.                   *)
Closes(lines, i) == \E j \in i + 1 .. Len(lines) : lines[j] = "close"

\* Slip: a block comment ends at the last end there is.
GreedyBlocks(lines) ==
    LET opens == {i \in DOMAIN lines : lines[i] = "open" /\ Closes(lines, i)}
        closes == {j \in DOMAIN lines : lines[j] = "close" /\ \E i \in opens : i < j}
    IN {k \in DOMAIN lines : /\ \E i \in opens : i < k
                             /\ \E j \in closes : k < j}

\* The lines inside a block comment: from an opening outside one to the
\* nearest end.
StateAfter(before, lines, i) ==
    IF before = "comment"
    THEN IF lines[i] = "close" THEN "code" ELSE "comment"
    ELSE IF lines[i] = "open" /\ Closes(lines, i) THEN "comment" ELSE "code"

InBlocks(lines) ==
    LET after[i \in Nat] == IF i = 0 THEN "code" ELSE StateAfter(after[i - 1], lines, i)
    IN {i \in DOMAIN lines : after[i - 1] = "comment" /\ lines[i] # "close"}

WithoutTrailingBlanks(out) ==
    LET kept == {i \in DOMAIN out : out[i].part # "blank"}
    IN SubSeq(out, 1, IF kept = {} THEN 0 ELSE CHOOSE i \in kept : \A j \in kept : j <= i)

StripLine(out, lines, i, hidden) ==
    CASE i \in hidden -> out
      [] i \notin hidden /\ lines[i] = "note" -> WithoutTrailingBlanks(out)
      [] i \notin hidden /\ lines[i] = "blank" ->
            IF out # <<>> /\ Last(out).part = "blank" THEN out ELSE Append(out, BlankLine)
      [] i \notin hidden /\ lines[i] = "text" -> Append(out, CutLine(i))
      [] OTHER -> Append(out, LineAt(i))

stripComments(lines, lang) ==
    LET hidden == IF lang = "python" THEN {} ELSE InBlocks(lines)
        out[i \in Nat] == IF i = 0 THEN <<>> ELSE StripLine(out[i - 1], lines, i, hidden)
    IN out[Len(lines)]

-----------------------------------------------------------------------------
(* keepSignatures: the lines before the first symbol, then of each symbol    *)
(* its documentation and its signature, or else its first line.  sort.Slice  *)
(* is not stable: symbols that start on one line come in any order.          *)
ByStart(symbols) ==
    {syms \in {[k \in DOMAIN symbols |-> symbols[order[k]]] :
                  order \in Bijection(DOMAIN symbols, DOMAIN symbols)} :
        \A i, j \in DOMAIN symbols : i < j => syms[i].start <= syms[j].start}

Imports(lines, first) ==
    [i \in 1 .. (IF first - 1 < Len(lines) THEN first - 1 ELSE Len(lines)) |-> LineAt(i)]

Signature(lines, s) ==
    (IF s.doc THEN <<[part |-> "doc", at |-> s.start]>> ELSE <<>>) \o
    (IF s.signature THEN <<[part |-> "signature", at |-> s.start]>>
     ELSE IF s.start <= Len(lines) THEN <<LineAt(s.start)>> ELSE <<>>) \o
    <<[part |-> "body stripped", at |-> s.start]>>

keepSignatures(lines, syms) ==
    LET out[k \in 0 .. Len(syms)] ==
            IF k = 0 THEN Imports(lines, syms[1].start)
            ELSE out[k - 1] \o Signature(lines, syms[k])
    IN out[Len(syms)]

\* What the filter may answer.
ApplyFilter(lines, level, prose, entry) ==
    LET wanted == IF level \in {"", "auto"} THEN ResolveAuto(prose, entry) ELSE level
    IN CASE wanted = "minimal" \/ (wanted = "aggressive" /\ entry.symbols = <<>>) ->
              {[level |-> "minimal", out |-> stripComments(lines, entry.lang)]}
         [] wanted = "aggressive" /\ entry.symbols # <<>> ->
              {[level |-> "aggressive", out |-> keepSignatures(lines, syms)] : syms \in ByStart(entry.symbols)}
         [] OTHER -> {[level |-> "none", out |-> [i \in DOMAIN lines |-> LineAt(i)]]}

-----------------------------------------------------------------------------
(* doRead.  r: where the path leads, the level, the workspace asked for and  *)
(* those bound along the parents of the file, the manifest's entry for it.   *)
InWorkspace(r) == r.workspace # 0 /\ \E k \in DOMAIN r.parents : r.parents[k] = r.workspace

\* Slip: a filter that makes a file longer saves less than nothing.
SavedOrLost(lines, out) == Len(lines) - Len(out)

Saved(lines, out) == IF Len(lines) > Len(out) THEN Len(lines) - Len(out) ELSE 0

doRead(r) ==
    IF r.place # "workspace" THEN {[failed |-> TRUE, level |-> "", out |-> <<>>, saved |-> 0]}
    ELSE {[failed |-> FALSE, level |-> f.level, out |-> f.out, saved |-> Saved(r.lines, f.out)] :
             f \in ApplyFilter(r.lines, r.level, r.prose, IF InWorkspace(r) THEN r.entry ELSE NoEntry)}

readRange(lines, offset, limit) ==
    LET last == IF limit > 0 /\ offset + limit < Len(lines) THEN offset + limit ELSE Len(lines)
    IN [i \in 1 .. (IF offset > last THEN 0 ELSE last - offset) |-> LineAt(offset + i)]

\* The command: a range is never filtered, and a daemon that fails or is not
\* there leaves the file as it is.
browzerRead(r) ==
    LET level == IF r.raw THEN "none"
                 ELSE IF r.ultra /\ r.level = "auto" THEN "aggressive" ELSE r.level
    IN IF r.offset > 0 \/ r.limit > 0
       THEN {[level |-> "none", out |-> readRange(r.lines, r.offset, r.limit), saved |-> 0]}
       ELSE {IF r.daemon /\ ~a.failed
             THEN [level |-> a.level, out |-> a.out, saved |-> a.saved]
             ELSE [level |-> "none", out |-> [i \in DOMAIN r.lines |-> LineAt(i)], saved |-> 0] :
                a \in doRead([r EXCEPT !.level = level])}

-----------------------------------------------------------------------------
(* Whatever the filter, the daemon and the manifest (older than the file, or *)
(* of another workspace): a file is shown from top to bottom; the minimal    *)
(* level hides no line of code that is not between a comment's ends, and     *)
(* leaves each whole unless a string of it holds the sign of a comment; the  *)
(* aggressive one shows every symbol; any other shows the file; and no read  *)
(* claims a negative saving.                                                 *)
ReadsFaithfully(r) == \A a \in browzerRead(r) :
    LET shown == {a.out[i].at : i \in {k \in DOMAIN a.out : a.out[k].part # "blank"}}
        whole == {a.out[i].at : i \in {k \in DOMAIN a.out : a.out[k].part = "line"}}
        Inside(i) == \E o \in 1 .. i - 1, c \in i + 1 .. Len(r.lines) :
            r.lines[o] = "open" /\ r.lines[c] = "close" /\ \A k \in o + 1 .. i : r.lines[k] # "close"
    IN /\ \A i, j \in DOMAIN a.out :
              i < j /\ a.out[i].part # "blank" /\ a.out[j].part # "blank" => a.out[i].at <= a.out[j].at
       /\ a.saved >= 0
       /\ a.level = "minimal" =>
              \A i \in DOMAIN r.lines :
                  \/ r.lines[i] \in {"blank", "note"} \/ Inside(i) \/ i \in whole
                  \/ r.lines[i] = "text" /\ i \in shown
       /\ a.level = "aggressive" =>
              {r.entry.symbols[k].start : k \in DOMAIN r.entry.symbols} \subseteq shown
       /\ a.level = "none" /\ r.offset = 0 /\ r.limit = 0 =>
              a.out = [i \in DOMAIN r.lines |-> LineAt(i)]
=============================================================================
