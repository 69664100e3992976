--------------------------- MODULE ShellSkeleton ----------------------------
(***************************************************************************)
(* hooks.StripQuoted: what remains of a shell command when quoted strings, *)
(* command substitutions and here-documents are taken out.  The hook       *)
(* guards look for commands in the skeleton only.  A character stands for  *)
(* its class: "H" is a here-document header <<DELIM and "E" the line that  *)
(* ends it, "L" is << with no delimiter behind it (a shift), and "x" any   *)
(* other character.                                                        *)
(***************************************************************************)
EXTENDS Naturals, Sequences, SequencesExt

At(in, i) == IF i <= Len(in) THEN in[i] ELSE "end"

\* The next position of c after i, or one past the end.
After(in, i, c) ==
    LET at == {k \in i + 1 .. Len(in) : in[k] = c}
    IN  IF at = {} THEN Len(in) + 1 ELSE CHOOSE k \in at : \A l \in at : k <= l

\* Behind the body; an unterminated body swallows the rest.  Only at "H" does
\* the code find a header; what it does at "L" is up to the callers.
skipHeredoc(in, start) == After(in, start, "E") + 1

Opens(in, i) == At(in, i) = "$" /\ At(in, i + 1) = "("

\* Parentheses are counted, in quotes or not; "L" ends the scan and swallows
\* the rest.
RECURSIVE CloseParen(_, _, _)
CloseParen(in, j, depth) ==
    IF j > Len(in) \/ depth = 0 THEN j
    ELSE IF in[j] = "L" THEN Len(in) + 1
    ELSE IF in[j] = "H" THEN CloseParen(in, skipHeredoc(in, j), depth)
    ELSE IF Opens(in, j) THEN CloseParen(in, CloseParen(in, j + 2, 1), depth)
    ELSE CloseParen(in, j + 1, CASE in[j] = "(" -> depth + 1
                                 [] in[j] = ")" -> depth - 1
                                 [] OTHER       -> depth)

\* Behind the parenthesis that closes the substitution opened at start.
skipDollarParen(in, start) == CloseParen(in, start + 2, 1)

\* Slip: a quote inside a nested substitution closes the string.
RECURSIVE ClosingQuoteFlat(_, _)
ClosingQuoteFlat(in, j) ==
    IF j > Len(in) \/ in[j] = "\"" THEN j
    ELSE ClosingQuoteFlat(in, IF in[j] = "\\" /\ j < Len(in) THEN j + 2 ELSE j + 1)

\* The double quote that ends the string whose body starts at j.  The code
\* looks for nested here-documents as well and then ignores what it found.
RECURSIVE ClosingQuoteFrom(_, _)
ClosingQuoteFrom(in, j) ==
    IF j > Len(in) \/ in[j] = "\"" THEN j
    ELSE ClosingQuoteFrom(in, IF in[j] = "\\" /\ j < Len(in) THEN j + 2
                              ELSE IF Opens(in, j) THEN skipDollarParen(in, j)
                              ELSE j + 1)

ClosingQuote(in, j) == ClosingQuoteFrom(in, j)

RECURSIVE StripFrom(_, _)
StripFrom(in, i) ==
    IF i > Len(in) THEN <<>>
    ELSE CASE in[i] = "'" -> StripFrom(in, After(in, i, "'") + 1)
           [] in[i] = "$" /\ At(in, i + 1) = "'" -> StripFrom(in, After(in, i + 1, "'") + 1)
           [] in[i] = "\"" -> StripFrom(in, ClosingQuote(in, i + 1) + 1)
           [] Opens(in, i) -> StripFrom(in, skipDollarParen(in, i))
           [] in[i] = "H" -> StripFrom(in, skipHeredoc(in, i))
           [] OTHER -> <<in[i]>> \o StripFrom(in, i + 1)

StripQuoted(in) == StripFrom(in, 1)

-----------------------------------------------------------------------------
(* The grammar of a command: a sequence of pieces, of which only the bare    *)
(* ones are shell tokens.                                                   *)

Bare == {<<"x">>, <<"x", ")">>, <<"(">>, <<"L">>}
SingleQuoted == {<<"'">> \o s \o <<"'">> : s \in {<<>>, <<"x">>, <<"\"", "$", "(">>, <<"\\">>}}
                \cup {<<"$", "'", "x", "(", "'">>}
Here == {<<"H">> \o s \o <<"E">> : s \in {<<>>, <<"x", "'">>, <<")", "\"">>}}
Sub(s) == <<"$", "(">> \o s \o <<")">>
FlatSub == {Sub(s) : s \in {<<"x">>, <<"(", "x", ")">>, <<"\"", "x", "\"">>} \cup Here}
Substitution == FlatSub \cup {Sub(<<"x">> \o s) : s \in FlatSub}
Quote(s) == <<"\"">> \o s \o <<"\"">>
DoubleQuoted == {Quote(s) : s \in {<<>>, <<"'">>, <<"x", "\\", "\"">>, <<"L">>} \cup Substitution}

\* Pieces skipDollarParen misreads: it counts a parenthesis in quotes as one
\* of the shell's, and gives up at a << that opens no here-document.
MisreadSub == {Sub(s) : s \in {<<"\"", ")", "\"">>, <<"'", ")", "'">>, <<"\"", "(", "\"">>,
                               <<"(", "L", "x", ")">>}}
Misread == MisreadSub \cup {Quote(s) : s \in MisreadSub}

\* Pieces that open something nobody closes; they end the command.
Dangling == {<<"'">>, <<"\"">>, <<"$", "(">>, <<"H", "x">>}

Pieces == Bare \cup SingleQuoted \cup Here \cup Substitution \cup DoubleQuoted \cup Misread \cup Dangling

RECURSIVE Flatten(_)
Flatten(ps) == IF ps = <<>> THEN <<>> ELSE Head(ps) \o Flatten(Tail(ps))

\* What stands outside quotes, substitutions and here-documents.
SkeletonOf(ps) == Flatten(SelectSeq(ps, LAMBDA p : p \in Bare))

\* Stripping a command leaves its bare pieces, in order, and nothing that
\* was inside quotes, a substitution or a here-document, however these are
\* nested (strip_quoted.go, "leaving only the shell skeleton"), and what
\* nobody closes swallows the rest ("return the skeleton accumulated so far").
\* The exceptions are the misread pieces: from the first of them on anything
\* may leak or be swallowed, and what stands before it is stripped rightly.
StripsToSkeleton(ps) ==
    LET Astray(k) == ps[k] \in Misread \/ (ps[k] \in Dangling /\ k < Len(ps))
        fine == {k \in 0 .. Len(ps) : \A j \in 1 .. k : ~Astray(j)}
        stripped == StripQuoted(Flatten(ps))
    IN  \A k \in fine : IF k = Len(ps) THEN stripped = SkeletonOf(ps)
                        ELSE IsPrefix(SkeletonOf(SubSeq(ps, 1, k)), stripped)
=============================================================================
