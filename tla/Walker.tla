------------------------------- MODULE Walker --------------------------------
(***************************************************************************)
(* The repository walks: WalkRepo lists the code files that are uploaded   *)
(* with their content, WalkDocs the documents.  A path is a sequence of    *)
(* names, <<>> the root.  A walk is over a tree t: t.ignore[d] holds the   *)
(* patterns of the .gitignore of directory d, t.browzer those of           *)
(* .browzerignore.  A pattern is [names, negated].                         *)
(***************************************************************************)
EXTENDS Naturals, FiniteSets, Sequences, SequencesExt

CONSTANTS Entries,        \* Entries[p]: "dir", "file" or "symlink", for each path
          Listing,        \* Listing[d]: the paths os.ReadDir returns for d
          Hidden,         \* names with a leading dot
          SensitiveNames, \* basenames IsSensitive matches
          DocNames,       \* basenames with a document extension
          Content,        \* Content[n]: size, bytes not printable, a null byte
          DefaultIgnoreDirs,         \* names
          DefaultIgnorePathSuffixes, \* sequences of names
          MaxDepth

Name(p) == Last(p)
Under(p, d) == IsStrictPrefix(d, p)

IsSensitive(p) == Name(p) \in SensitiveNames
IsDefaultIgnoredPath(p) == \E s \in DefaultIgnorePathSuffixes : IsSuffix(s, p)
IsDoc(p) == Name(p) \in DocNames

\* A null byte, or too many bytes not printable for a file of some size.
IsBinaryFile(c) == c.null \/ (c.size >= 32 /\ 10 * c.nonPrint > 3 * c.size)

\* The ignore library: a pattern hits a path when its names occur in it one
\* after the other, wherever that is.
Hits(pattern, p) ==
    \E i \in 0 .. Len(p) - Len(pattern.names) :
        SubSeq(p, i + 1, i + Len(pattern.names)) = pattern.names

\* The last pattern that hits decides.
matches(lines, p) ==
    LET k == SelectLastInSeq(lines, LAMBDA l : Hits(l, p))
    IN  k # 0 /\ ~lines[k].negated

\* Slip: patterns are taken as they stand.
TakenAsTheyStand(lines, d) == lines

RerootGitignore(lines, d) ==
    [k \in DOMAIN lines |-> [lines[k] EXCEPT !.names = d \o @]]

IsIgnored(t, p) == matches(t.browzer, p)
ExplicitlyIncludes(t, p) == \E k \in DOMAIN t.browzer : t.browzer[k].negated /\ Hits(t.browzer[k], p)

EntersDir(t, lines, p, docs) ==
    /\ Name(p) \notin DefaultIgnoreDirs
    /\ ~IsDefaultIgnoredPath(p) \/ (docs /\ ExplicitlyIncludes(t, p))
    /\ ~matches(lines, p)
    /\ ~IsIgnored(t, p)

\* processRegularFile.
ListsCode(t, lines, p) ==
    /\ ~IsSensitive(p)
    /\ ~matches(lines, p)
    /\ ~IsIgnored(t, p)
    /\ ~IsDoc(p)
    /\ ~IsBinaryFile(Content[Name(p)])

ListsDoc(t, lines, p) ==
    /\ ~IsSensitive(p)
    /\ ~IsDefaultIgnoredPath(p) \/ ExplicitlyIncludes(t, p)
    /\ IsDoc(p)
    /\ ~matches(lines, p)
    /\ ~IsIgnored(t, p)
    /\ ~IsBinaryFile(Content[Name(p)])

\* walk and walkDocsRec: what is listed below d.  The patterns collected on
\* the way stay in the matcher when the walk leaves a directory.
Visible(d) == SelectSeq(Listing[d], LAMBDA p : Name(p) \notin Hidden /\ Entries[p] # "symlink")

RECURSIVE walk(_, _, _, _, _)
walk(t, d, lines, docs, depth) ==
    IF depth > MaxDepth THEN [files |-> {}, lines |-> lines]
    ELSE FoldLeft(
        LAMBDA acc, p :
            IF Entries[p] = "dir"
            THEN IF EntersDir(t, acc.lines, p, docs)
                 THEN LET below == walk(t, p, acc.lines, docs, depth + 1)
                      IN  [files |-> acc.files \cup below.files, lines |-> below.lines]
                 ELSE acc
            ELSE IF (docs /\ ListsDoc(t, acc.lines, p)) \/ (~docs /\ ListsCode(t, acc.lines, p))
                 THEN [acc EXCEPT !.files = @ \cup {p}]
                 ELSE acc,
        [files |-> {}, lines |-> lines \o RerootGitignore(t.ignore[d], d)],
        Visible(d))

WalkDocs(t) == walk(t, <<>>, <<>>, TRUE, 0).files

\* WalkRepo: every top-level directory with a matcher of its own.
WalkRepo(t) ==
    LET root == t.ignore[<<>>]
        top == ToSet(Visible(<<>>))
        dirs == {p \in top : Entries[p] = "dir" /\ EntersDir(t, root, p, FALSE)}
    IN  {p \in top : Entries[p] = "file" /\ ListsCode(t, root, p)}
        \cup UNION {walk(t, p, root, FALSE, 1).files : p \in dirs}

-----------------------------------------------------------------------------

\* Nothing hidden, sensitive or reached through a link is listed, whatever the
\* ignore files re-include; what is ignored by default comes in only as a
\* document and only where .browzerignore takes it in; and no file is listed
\* both as code and as document (classify.go: "a duplicate-ingestion bug").
NothingPrivate(t) ==
    LET code == WalkRepo(t)
        docs == WalkDocs(t)
    IN  /\ \A p \in code \cup docs :
              /\ ToSet(p) \cap (Hidden \cup DefaultIgnoreDirs) = {}
              /\ ~IsSensitive(p)
              /\ \A i \in 1 .. Len(p) :
                    LET above == SubSeq(p, 1, i)
                    IN  /\ Entries[above] # "symlink"
                        /\ IsDefaultIgnoredPath(above) => p \in docs /\ ExplicitlyIncludes(t, above)
        /\ code \cap docs = {}

\* The names of d, one after the other, lead to p: beneath d, and beneath
\* every directory of the same name further down.
Repeats(d, p) == \E i \in 0 .. Len(p) - 1 - Len(d) : SubSeq(p, i + 1, i + Len(d)) = d

\* The patterns of a nested .gitignore apply only beneath their directory
\* (walker.go, "so patterns apply only beneath their containing directory"),
\* however the matcher travels through the tree, with one exception the comment
\* does not know: a re-rooted pattern is not anchored, so that the .gitignore of
\* a is also that of every directory a the same matcher comes to later, all of
\* them for the documents and those of one top-level directory for the code.
\* Beneath its directory a bare name hides the entry of that name there and
\* all in it; an entry of a deeper directory is not hidden.
StaysBeneath(t) ==
    \A d \in DOMAIN t.ignore \ {<<>>} :
        LET without == [t EXCEPT !.ignore[d] = <<>>]
            Apart(files) == {p \in files : ~Repeats(d, p)}
            Elsewhere(files) == {p \in files : p[1] # d[1]}
        IN  /\ Apart(WalkDocs(t)) = Apart(WalkDocs(without))
            /\ Apart(WalkRepo(t)) = Apart(WalkRepo(without))
            /\ Elsewhere(WalkRepo(t)) = Elsewhere(WalkRepo(without))
            /\ \A p \in WalkRepo(t) \cup WalkDocs(t) :
                  Under(p, d) => ~matches(t.ignore[d], <<p[Len(d) + 1]>>)
=============================================================================
