-------------------------- MODULE ManifestReconcile --------------------------
(***************************************************************************)
(* The per-organisation list of workspaces kept in the cache directory, and*)
(* its reconciliation with the server: local renames and deletions are     *)
(* pushed, then the server's list, fetched before the push, is pulled.     *)
(* A workspace is its id; what may differ of it is its name.               *)
(***************************************************************************)
EXTENDS Naturals, FiniteSets, Functions

\* Local entries by id; "modified" is LocallyModified, "deleted" PendingDelete.
Entry(name) == [name |-> name, modified |-> FALSE, deleted |-> FALSE]
Missing == [state |-> "missing"]
Corrupt == [state |-> "corrupt"]
Stored(local) == [state |-> "stored", entries |-> local]

LoadWorkspaceManifest(file) == IF file.state = "stored" THEN file.entries ELSE <<>>

Modified(local) == {w \in DOMAIN local : local[w].modified}
Deletions(local) == {w \in Modified(local) : local[w].deleted}

\* The local changes in ws are sent.
Pushed(s, ws) ==
    LET deleted == ws \cap Deletions(s.local)
        renamed == ws \ deleted
    IN [local |-> [w \in DOMAIN s.local \ deleted |->
                      IF w \in renamed THEN Entry(s.local[w].name) ELSE s.local[w]],
        server |-> [w \in DOMAIN s.server \ deleted |->
                      IF w \in renamed THEN s.local[w].name ELSE s.server[w]]]

\* The server's list wins: entries it lacks go, names it has replace others,
\* and entries it has that are not known locally come.
Pulled(s, list) ==
    [s EXCEPT !.local =
        [w \in DOMAIN list |->
            IF w \in DOMAIN s.local /\ s.local[w].name = list[w] THEN s.local[w] ELSE Entry(list[w])]]

\* A call for a workspace that is gone is a 404.
Refused(s) == Modified(s.local) \ DOMAIN s.server

\* Slip: the list is pulled first.
PullFirst(s, list) == LET t == Pulled(s, list) IN Pushed(t, Modified(t.local))
Reconciled(s, list) == Pulled(Pushed(s, Modified(s.local)), list)

\* What may come of it.  The first call that fails ends it, after any of the
\* others: the order is a map's.
ReconcileWorkspaceManifest(s, list) ==
    IF Refused(s) = {} THEN {[ok |-> TRUE, state |-> Reconciled(s, list)]}
    ELSE {[ok |-> FALSE, state |-> Pushed(s, ws)] : ws \in SUBSET (Modified(s.local) \ Refused(s))}

-----------------------------------------------------------------------------
(* Although the first pull undoes locally what was just pushed, the server   *)
(* has every local rename and deletion, and the next reconciliation, with a  *)
(* list that shows them, leaves the two sides the same and nothing to push.  *)
(* One that is stopped by a workspace gone from the server loses no change:  *)
(* each is on the server or still marked to be sent.                         *)
Converges(file, server) ==
    LET start == [local |-> LoadWorkspaceManifest(file), server |-> server]
        has(s, w) == IF start.local[w].deleted THEN w \notin DOMAIN s.server
                     ELSE w \in DOMAIN s.server /\ s.server[w] = start.local[w].name
    IN \A once \in ReconcileWorkspaceManifest(start, server) :
        /\ \A w \in Modified(start.local) :
              has(once.state, w) \/ (~once.ok /\ w \in Modified(once.state.local))
        /\ once.ok => \A twice \in ReconcileWorkspaceManifest(once.state, once.state.server) :
            /\ twice.ok /\ twice.state.server = once.state.server
            /\ twice.state.local = [v \in DOMAIN twice.state.server |-> Entry(twice.state.server[v])]
=============================================================================
