----------------------------- MODULE HookGuards ------------------------------
(***************************************************************************)
(* The guards that act on the agent's writes, dispatches, pushes and       *)
(* sessions, and the two questions nearly all of them ask first: is the    *)
(* guard switched on (GateAllowed), and is this a workspace of somebody    *)
(* who is logged in (IsInBrowzerWorkspace).  A directory is its depth; an  *)
(* environment e and an envelope c are records.                            *)
(***************************************************************************)
EXTENDS Integers, FiniteSets, FiniteSetsExt

CONSTANTS MaxWalkLevels,     \* directories looked at on the way up (20)
          FallbackAgents     \* subagentFallbackAllowlist

NoRoot == -1
ProjectDir == -2    \* the directory $CLAUDE_PROJECT_DIR names

GateAllowed(e, hook) == ~e.off /\ hook \notin e.disabled

\* Slip: the root is looked for one level less far up.
WalkedOneLess(e) == {d \in 0 .. e.cwd : e.cwd - d < MaxWalkLevels - 1 /\ d \in e.bound}
RootsAbove(e) == {d \in 0 .. e.cwd : e.cwd - d < MaxWalkLevels /\ d \in e.bound}

\* workspaceRootForSlow and isInBrowzerWorkspaceSlow, which walk each for itself.
WorkspaceRootFor(e) ==
    IF e.projectDirBound THEN ProjectDir
    ELSE IF RootsAbove(e) = {} THEN NoRoot ELSE Max(RootsAbove(e))
IsInBrowzerWorkspace(e) ==
    /\ e.loggedIn
    /\ e.projectDirBound
       \/ \E up \in 0 .. MaxWalkLevels - 1 : e.cwd - up >= 0 /\ e.cwd - up \in e.bound

Enabled(e, hook) == GateAllowed(e, hook) /\ IsInBrowzerWorkspace(e)

Answer(code, effects) == [code |-> code, effects |-> effects]
Pass == Answer("passthrough", {})

-----------------------------------------------------------------------------

\* A push is looked for in the whole command; the child is let go whether or
\* not it could be started.
syncOnPushDecide(e, c) ==
    IF ~(Enabled(e, "sync-on-push") /\ c.parses /\ c.pushes /\ e.onPath) THEN Pass
    ELSE Answer("allow", IF e.starts THEN {"sync"} ELSE {})

\* The child is given --paths, which `sync` does not take, and ends at once; the
\* event has a blank timestamp.
incrementalSyncDecide(e, c) ==
    IF Enabled(e, "incremental-sync") /\ c.parses /\ c.tool \in {"Edit", "Write"} /\ c.indexable
       /\ e.onPath /\ e.starts
    THEN Answer("passthrough", {"blankEvent"}) ELSE Pass

\* Asked neither of the gate nor of the workspace.
prdFrozenDecide(c) ==
    IF c.parses /\ c.tool \in {"Edit", "Write", "MultiEdit", "NotebookEdit"} /\ c.file = "PRD" /\ c.frozen
    THEN Answer("deny", {}) ELSE Pass

\* The agents of the plugin, or the fixed list when it has none.
buildSubagentAllowlist(e) == IF e.agents = {} THEN FallbackAgents ELSE e.agents
validateSubagentTypeDecide(e, c) ==
    IF c.parses /\ c.tool = "Task" /\ c.agent \notin buildSubagentAllowlist(e)
    THEN Answer("deny", {}) ELSE Pass

\* Warns, and lets the command rebind the directory or refuse to.
initGuardDecide(e, c) ==
    IF c.parses /\ c.inits /\ e.cwd \in e.bound THEN Answer("passthrough", {"warning"}) ELSE Pass

\* No gate, and an envelope that does not parse only lacks its session.
sessionStartDecide(e, c) ==
    IF ~IsInBrowzerWorkspace(e) \/ ~e.statusAnswers THEN Pass
    ELSE Answer("allow", {"context", "warmDaemon"}
                         \cup IF c.parses /\ c.session # 0 THEN {"register"} ELSE {})

\* Writes outside workspaces too; its exit code is always 0.
subagentStopDecide(e, c) ==
    Answer("allow", IF GateAllowed(e, "subagent-stop-telemetry") /\ c.parses THEN {"record"} ELSE {})

AllAnswers(e, c) ==
    {syncOnPushDecide(e, c), incrementalSyncDecide(e, c), prdFrozenDecide(c),
     validateSubagentTypeDecide(e, c), initGuardDecide(e, c), sessionStartDecide(e, c),
     subagentStopDecide(e, c)}

-----------------------------------------------------------------------------

\* An envelope that does not parse blocks nothing (prd_frozen.go, "Malformed
\* payloads must never block a tool call"); at most one guard blocks a call, and
\* never one that writes the amendments or dispatches an agent the plugin has;
\* nothing is synchronised or injected unless the user is logged in and the
\* workspace's root can be found, by the walk the other guards use; and with
\* BROWZER_HOOK=off none of those that ask the gate does anything.
StaysOutOfTheWay(e, c) ==
    LET effects == UNION {a.effects : a \in AllAnswers(e, c)}
        denials == {a \in {<<"prd", prdFrozenDecide(c)>>, <<"agent", validateSubagentTypeDecide(e, c)>>} :
                       a[2].code = "deny"}
    IN  /\ \A a \in AllAnswers(e, c) : a.code = "deny" => c.parses
        /\ Cardinality(denials) <= 1
        /\ denials # {} => c.file # "AMENDMENTS" \/ c.tool = "Task"
        /\ c.tool = "Task" /\ c.agent \in e.agents => denials = {}
        /\ effects \cap {"sync", "blankEvent", "context", "warmDaemon", "register"} # {} =>
              e.loggedIn /\ WorkspaceRootFor(e) # NoRoot
        /\ e.off => effects \cap {"sync", "blankEvent", "record"} = {}
=============================================================================
