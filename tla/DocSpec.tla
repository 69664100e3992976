------------------------------- MODULE DocSpec -------------------------------
(***************************************************************************)
(* `browzer workspace docs` with --add, --remove or --replace: from the    *)
(* specs on the command line to the documents that are uploaded and        *)
(* deleted.  An item is a path with what the walk and the server know of   *)
(* it: local, indexed, changed (the hash is not the cache's).  A spec is   *)
(* [form, paths]: the paths a list names or a glob matches.                *)
(***************************************************************************)
EXTENDS Naturals, FiniteSets

CONSTANT LargeDelete   \* deletions from which --i-know-what-im-doing is asked (5)

Absent == [form |-> "absent", paths |-> {}]
Given(spec) == spec # Absent

Allowed == [add |-> {"new"}, remove |-> {}, replace |-> {"all", "none"}]

\* parseSpec: "malformed" stands for an empty spec, an unreadable or empty
\* file, a "**" and a bad pattern.
Parses(flag, spec) ==
    spec.form \in {"absent", "list", "glob"} \cup Allowed[flag]

Locals(items) == {p \in DOMAIN items : items[p].local}
Indexed(items) == {p \in DOMAIN items : items[p].indexed}

\* SpecResolver.Resolve
Matched(items, spec) ==
    CASE spec.form = "new" -> Locals(items) \ Indexed(items)
      [] spec.form = "all" -> Locals(items)
      [] spec.form \in {"list", "glob"} -> spec.paths \cap DOMAIN items
      [] OTHER -> {}
Unresolved(items, spec) == IF spec.form = "list" THEN spec.paths \ DOMAIN items ELSE {}

\* Slip: what is not added is not selected.
OnlyWhatIsNamed(items, f) ==
    IF Given(f.replace) THEN Matched(items, f.replace)
    ELSE Matched(items, f.add) \ Matched(items, f.remove)

\* A removal passes over what the server does not have, though it was added.
applySpecsToItems(items, f) ==
    IF Given(f.replace) THEN Matched(items, f.replace)
    ELSE (Indexed(items) \cup Matched(items, f.add))
         \ (Matched(items, f.remove) \cap Indexed(items))

computeDocDelta(items, selected) ==
    [insert |-> (selected \cap Locals(items)) \ Indexed(items),
     reUpload |-> {p \in selected \cap Locals(items) \cap Indexed(items) : items[p].changed},
     delete |-> Indexed(items) \ selected]

Mutates(delta) == delta.insert \cup delta.reUpload \cup delta.delete # {}

\* The RunE of `workspace docs` up to the first upload: what is refused, what
\* is only shown, and what is carried out.
NoDelta == [insert |-> {}, reUpload |-> {}, delete |-> {}]
Refused == [verdict |-> "refused", delta |-> NoDelta]

workspaceDocs(items, f) ==
    LET flags == {"add", "remove", "replace"}
        delta == computeDocDelta(items, applySpecsToItems(items, f))
        clash == Given(f.replace) /\ (Given(f.add) \/ Given(f.remove))
        unreadable == \E g \in flags : ~Parses(g, f[g])
        unknown == Unresolved(items, f.add) \cup Unresolved(items, f.replace) # {}
        unconfirmed == ~f.yes /\ ~f.dryRun /\ Mutates(delta)
        tooMuch == Cardinality(delta.delete) >= LargeDelete /\ ~f.iKnow
    IN  CASE clash \/ unreadable -> Refused
          [] ~(clash \/ unreadable) /\ DOMAIN items = {} -> [verdict |-> "nothing", delta |-> NoDelta]
          [] ~(clash \/ unreadable) /\ DOMAIN items # {} /\ (unknown \/ tooMuch \/ unconfirmed) -> Refused
          [] OTHER -> [verdict |-> IF f.dryRun THEN "shown" ELSE "done", delta |-> delta]

\* applySyncSelection: `sync` takes what is there and drops what is gone.
applySyncSelection(items) == {p \in DOMAIN items : items[p].local}

-----------------------------------------------------------------------------

\* Whatever flags are combined: a document is deleted only if --remove names it
\* or --replace leaves it out, never so many without the extra flag and never
\* the one whose path is misspelt; --add and --remove leave the others alone
\* ("base = current indexed state", applySpecsToItems); and nothing without
\* local bytes is uploaded.  `sync` and `--replace all` mean the same.
SelectsAsAsked(items, f) ==
    LET got == workspaceDocs(items, f)
        d == got.delta
        sent == d.insert \cup d.reUpload
        sync == computeDocDelta(items, applySyncSelection(items))
    IN  got.verdict = "done" =>
        /\ d.delete = IF Given(f.replace) THEN Indexed(items) \ Matched(items, f.replace)
                      ELSE f.remove.paths \cap Indexed(items)
        /\ Cardinality(d.delete) >= LargeDelete => f.iKnow
        /\ d.insert \subseteq Matched(items, f.add) \cup Matched(items, f.replace)
        /\ sent \subseteq Locals(items) /\ sent \cap d.delete = {}
        /\ Mutates(d) => f.yes
        /\ f.replace.form = "all" => d = sync
        /\ (f.add.form = "list" /\ ~Given(f.remove)) => f.add.paths \subseteq DOMAIN items
=============================================================================
