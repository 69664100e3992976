----------------------------- MODULE CodeReview ------------------------------
(***************************************************************************)
(* `browzer codereview aggregate`: the members' review files of a feature  *)
(* become one.  A directory is its review files in the order of the        *)
(* members' names: whether one can be read as a review (ok), and its       *)
(* findings.  A member is the place of its file.                           *)
(***************************************************************************)
EXTENDS Naturals, FiniteSets, Sequences, Functions

CONSTANT Prefix   \* memberPrefix: the first letters of a member's name

ExitWith(code) == [code |-> code, review |-> <<>>]

\* LoadMemberFiles: the members with a readable findings array.  Without
\* --strict a corrupt file is skipped.
LoadMemberFiles(dir) == {m \in DOMAIN dir : dir[m].ok}

\* fillFindingDefaults: what a member leaves blank is filled in, the domain
\* with the member's own, the description with the suggested fix.
fillFindingDefaults(f, member) ==
    [f EXCEPT !.status = IF @ = "" THEN "open" ELSE @,
              !.domain = IF @ = "" THEN member ELSE @,
              !.description = IF @ # "" THEN @
                              ELSE IF f.fix # "" THEN f.fix ELSE "(no description provided)"]

\* A member's findings, each with the id its member gave it.
MemberFindings(dir, m) ==
    [i \in DOMAIN dir[m].findings |->
        [member |-> m, id |-> <<Prefix[m], i>>, f |-> fillFindingDefaults(dir[m].findings[i], m)]]

\* Those of all members, one member after the other.
Tagged(dir, members) ==
    LET upTo[m \in 0 .. Len(dir)] ==
            IF m = 0 THEN <<>>
            ELSE upTo[m - 1] \o (IF m \in members THEN MemberFindings(dir, m) ELSE <<>>)
    IN  upTo[Len(dir)]

\* Slip: findings of different severity are different concerns.
SameConcern(a, b) == a.file = b.file /\ a.line = b.line /\ a.severity = b.severity

SamePlace(a, b) == a.file = b.file /\ a.line = b.line

Group(tagged, i) == {j \in DOMAIN tagged : SamePlace(tagged[i].f, tagged[j].f)}

\* Two members at least.
CrossLane(tagged, i) == \E j, k \in Group(tagged, i) : tagged[j].member # tagged[k].member

Aggregate(dir, members) ==
    LET tagged == Tagged(dir, members)
    IN  [i \in DOMAIN tagged |->
            [id |-> i,
             f |-> tagged[i].f,
             crossLaneOverlap |-> CrossLane(tagged, i),
             mergedFrom |-> IF CrossLane(tagged, i)
                            THEN {tagged[j].id : j \in Group(tagged, i)} \ {tagged[i].id}
                            ELSE {}]]

SeverityCount(review, s) == Cardinality({i \in DOMAIN review : review[i].f.severity = s})

runCodeReviewAggregate(dir, strict, writable) ==
    LET members == LoadMemberFiles(dir)
    IN  IF strict /\ members # DOMAIN dir THEN ExitWith(3)
        ELSE IF members = {} THEN ExitWith(2)
        ELSE IF ~writable THEN ExitWith(4)
        ELSE [code |-> 0, review |-> Aggregate(dir, members)]

-----------------------------------------------------------------------------

FindingsOf(dir) == UNION {{<<m, i>> : i \in DOMAIN dir[m].findings} : m \in {k \in DOMAIN dir : dir[k].ok}}

Text(dir, p) == dir[p[1]].findings[p[2]]

Together(dir, p, q) == Text(dir, p).file = Text(dir, q).file /\ Text(dir, p).line = Text(dir, q).line

\* The finding p of a member is in the review at the place i, and names there
\* the findings about its place, when those are of several members.
IsKept(dir, review, p, i) ==
    /\ review[i].f = fillFindingDefaults(Text(dir, p), p[1])
    /\ \A q \in FindingsOf(dir) : <<Prefix[q[1]], q[2]>> \in review[i].mergedFrom
          <=> /\ p # q /\ Together(dir, p, q)
              /\ \E o \in FindingsOf(dir) : Together(dir, p, o) /\ o[1] # p[1]

\* "No finding is dropped" (aggregate.go): every finding of every readable file
\* is in the review once and counted, and two findings of different members
\* name each other exactly when they are about the same place, whatever their
\* severity.  Members whose names begin alike share a prefix and are left out:
\* there the ids clash and a finding loses its partner.
PreservesAll(dir, strict) ==
    LET out == runCodeReviewAggregate(dir, strict, TRUE)
    IN  out.code = 0 =>
        /\ \E at \in Bijection(FindingsOf(dir), DOMAIN out.review) :
              \A p \in FindingsOf(dir) : IsKept(dir, out.review, p, at[p])
        /\ \A s \in {"high", "medium", "low"} :
              SeverityCount(out.review, s) = Cardinality({p \in FindingsOf(dir) : Text(dir, p).severity = s})
=============================================================================
