----------------------------- MODULE PromptGuard -----------------------------
(***************************************************************************)
(* hooks prompt-guard: which prompts earn the reminder to search first.    *)
(* A prompt is a sequence of atoms: words, spaces, and the marks @ / . - ' *)
(* A term of the vocabulary is a sequence of atoms too.                    *)
(***************************************************************************)
EXTENDS Naturals, Sequences, SequencesExt

CONSTANTS StaticVocab,  \* defaultVocab and the co-occurrence terms, in order
          Extra,        \* terms of .browzer/search-triggers.json
          Cues,         \* Cues[t]: the atoms one of which must accompany t
          ActionVerbs, PlanWords, ExcludedWords

Positions(p) == 1 .. Len(p)
OccursAt(p, i, t) == i + Len(t) - 1 <= Len(p) /\ SubSeq(p, i, i + Len(t) - 1) = t
Occurs(p, t) == \E i \in Positions(p) : OccursAt(p, i, t)
Has(p, atoms) == ToSet(p) \cap atoms # {}

MultiToken(t) == Has(t, {" ", "/", "."})
StaticSingles == SelectSeq(StaticVocab, LAMBDA t : ~MultiToken(t))

\* unifiedSingleTokenRE, FindAll: from left to right, of the alternatives that
\* match at a position the one listed first, which is then consumed.
RECURSIVE Sweep(_, _)
Sweep(p, i) ==
    IF i > Len(p) THEN {}
    ELSE LET k == SelectInSeq(StaticSingles, LAMBDA t : OccursAt(p, i, t))
         IN  IF k = 0 THEN Sweep(p, i + 1)
             ELSE {StaticSingles[k]} \cup Sweep(p, i + Len(StaticSingles[k]))

\* The per-term path: terms of several words, and the project's own.
TermHits(p) ==
    {t \in ToSet(StaticVocab) \cup Extra :
        Occurs(p, t) /\ (MultiToken(t) \/ t \notin ToSet(StaticSingles))}

\* An ambiguous term counts only in the company of a cue.
Uncued(p, hits) == {t \in hits \cap DOMAIN Cues : ~Has(p, Cues[t])}

Marks == {" ", "'"}
RECURSIVE Run(_, _)
Run(p, i) == IF i > Len(p) \/ p[i] \in Marks THEN <<>> ELSE <<p[i]>> \o Run(p, i + 1)

ScopedPackages(p) ==
    {SubSeq(p, i, i + 3) : i \in {j \in 1 .. Len(p) - 3 : p[j] = "@" /\ p[j + 2] = "/"}}
Installs(p) ==
    {Run(p, i + 2) : i \in {j \in 1 .. Len(p) - 2 : p[j] = "install" /\ p[j + 1] = " "}}
ImportSources(p) ==
    {s \in {Run(p, i + 3) : i \in {j \in 1 .. Len(p) - 3 : OccursAt(p, j, <<"from", " ", "'">>)}} :
        s # <<>> /\ s[1] \notin {".", "/"}}
NamedPackages(p) == ScopedPackages(p) \cup Installs(p) \cup ImportSources(p)

\* Slip: the cues are asked for last, of what was installed or imported too.
HitsCuedLast(p) ==
    LET hits == TermHits(p) \cup Sweep(p, 1) \cup NamedPackages(p)
    IN  hits \ Uncued(p, hits)

collectHits(p) ==
    LET hits == TermHits(p) \cup Sweep(p, 1)
    IN  (hits \ Uncued(p, hits)) \cup NamedPackages(p)

allScoped(hits) == \A h \in hits : h[1] = "@"

\* promptGuardDecide before the once-per-session ledger.
promptGuardDecide(p, assistantTurn, short) ==
    CASE assistantTurn \/ short \/ p[1] = "/" -> "passthrough"
      [] ~(assistantTurn \/ short \/ p[1] = "/") /\ Has(p, PlanWords) -> "plan"
      [] OTHER -> IF /\ ~Has(p, ExcludedWords)
                     /\ Has(p, ActionVerbs)
                     /\ ~allScoped(collectHits(p))
                  THEN "remind" ELSE "passthrough"

\* buildAdvisoryText: the hits the suggested search is seeded with.
Seeds(hits) ==
    LET plain == {h \in hits : h[1] # "@"}
    IN  IF plain # {} THEN plain ELSE {SubSeq(h, 4, Len(h)) : h \in hits}

-----------------------------------------------------------------------------

\* What the prompt is about, read without regard to the order of the sweep.
Topics(p) ==
    {t \in ToSet(StaticVocab) \cup Extra :
        Occurs(p, t) /\ (t \in DOMAIN Cues => Has(p, Cues[t]))}
    \cup Installs(p) \cup ImportSources(p)

\* A user's working prompt gets the reminder exactly when it is about some
\* topic that is not a scoped package, in whatever order the one-pass sweep
\* meets overlapping terms, and the search is then seeded with nothing scoped
\* (prompt_guard.go, "scoped-only hits perform poorly, so we skip").
RemindsOfTopics(p) ==
    LET working == p[1] # "/" /\ ~Has(p, PlanWords) /\ ~Has(p, ExcludedWords) /\ Has(p, ActionVerbs)
        reminds == promptGuardDecide(p, FALSE, FALSE) = "remind"
    IN  /\ reminds <=> working /\ \E t \in Topics(p) : t[1] # "@"
        /\ reminds => \A s \in Seeds(collectHits(p)) : s[1] # "@" /\ s \in Topics(p)
=============================================================================
