---------------------------- MODULE UserCommands ----------------------------
(***************************************************************************)
(* Commands one user runs at the same time on one checkout: login, logout, *)
(* init, workspace relink, unlink, delete and sync, and any other command  *)
(* that needs a session ("list": also status and the daemon's refetch).    *)
(* They share ~/.browzer/credentials, .browzer/config.json and the         *)
(* caller's workspaces on the server.                                      *)
(***************************************************************************)
EXTENDS Naturals, FiniteSets, SharedTmp

CONSTANTS Procs,      \* the processes, each of which runs one command
          Commands,   \* Commands[p]: what it may be
          MaxIds,     \* workspaces the server ever numbers
          MaxKills

ASSUME UserCommandsAssumption ==
    /\ Procs \subseteq Nat \ {0} /\ IsFiniteSet(Procs)
    /\ MaxIds \in Nat \ {0} /\ MaxKills \in Nat

VARIABLES creds,      \* ~/.browzer/credentials and its .tmp
          project,    \* .browzer/config.json and its .tmp
          server,     \* the caller's workspaces, as the API lists them
          lastId, revoked, proc, kills,
          overlapped, \* the files of which two saves were under way at once
          raced       \* an init created a workspace unable to see another's

vars == <<creds, project, server, lastId, revoked, proc, kills, overlapped, raced>>
files == <<creds, project, overlapped>>
remote == <<server, lastId, revoked, raced>>

Session(p) == <<"session", p>>
Bound(w) == <<"workspace", w>>
NoSession == <<"none">>
Inodes == 1 .. Cardinality(Procs) + 2
Ids == 1 .. MaxIds
Names == {"remote", "package", "other"}  \* owner/repo of origin, package.json#name

Shared == {"credentials", "project"}
IsWhole(c) == c \notin {Empty, Torn}
Held == {proc[p].inode : p \in Procs}

Ended == {"done", "failed", "killed"}
Pcs == Ended \cup {"start", "load", "cleaned", "loaded", "authed",
                   "save", "opened", "written", "renamed", "unnamed",
                   "clear", "create", "confirmed", "unlink",
                   "bind", "bindOpened", "bindWritten", "bindUnnamed"}
Opening == {"opened", "bindOpened"}   \* .tmp is open

Files(bodies) == [tmp : Inodes \cup {None}, final : Inodes \cup {None},
                  data : [Inodes -> bodies \cup {Empty, Torn}]]
Sessions == {Session(p) : p \in Procs \cup {0}}
Bindings == {Bound(w) : w \in Ids}
Workspaces == [id : Ids, here : BOOLEAN, name : Names]
Processes == [cmd : UNION {Commands[p] : p \in Procs}, pc : Pcs, cred : Sessions \cup {NoSession},
              ws : Ids \cup {0}, inode : Inodes \cup {None}, blind : BOOLEAN]

TypeOK ==
    /\ creds \in Files(Sessions) /\ project \in Files(Bindings)
    /\ server \subseteq Workspaces /\ \A w \in server : w.id <= lastId
    /\ lastId \in 0 .. MaxIds
    /\ revoked \subseteq Procs \cup {0}
    /\ proc \in [Procs -> Processes]
    /\ \A p \in Procs : proc[p].cmd \in Commands[p] /\ (proc[p].pc \in Opening <=> proc[p].inode # None)
    /\ kills \in 0 .. MaxKills /\ overlapped \subseteq Shared /\ raced \in BOOLEAN

\* Each process is to run the command it was given.
Started(cmd) ==
    [p \in Procs |-> [cmd |-> cmd[p], pc |-> "start", cred |-> NoSession, ws |-> 0,
                      inode |-> None, blind |-> FALSE]]

Init ==
    /\ creds \in {Directory(Inodes, c) : c \in {Empty, Session(0)}}
    /\ server \in {{}} \cup {{[id |-> 1, here |-> h, name |-> n]} : h \in BOOLEAN, n \in Names}
    /\ lastId = Cardinality(server)
    /\ project \in {Directory(Inodes, c) : c \in {Empty} \cup {Bound(w.id) : w \in server}}
    /\ revoked = {} /\ kills = 0 /\ overlapped = {} /\ raced = FALSE
    /\ \E cmd \in [Procs -> UNION {Commands[p] : p \in Procs}] :
          /\ \A p \in Procs : cmd[p] \in Commands[p]
          /\ proc = Started(cmd)

-----------------------------------------------------------------------------
Runs(p, cmds, pc) == proc[p].cmd \in cmds /\ proc[p].pc = pc
Saving(pcs) == \E q \in Procs : proc[q].pc \in pcs
Goto(p, pc) == proc' = [proc EXCEPT ![p].pc = pc]
GotoWith(p, pc, w) == proc' = [proc EXCEPT ![p].pc = pc, ![p].ws = w]

Valid(p) == proc[p].cred # NoSession /\ proc[p].cred[2] \notin revoked
OnServer(i) == \E w \in server : w.id = i

(* LoadCredentials: cleanupOrphanTmp, then the file.                         *)
LoadsFirst == {"logout", "list", "relink", "delete"}

\* Slip: an orphaned .tmp is taken for a save that only lacks its rename.
RecoverTmp(p) ==
    /\ Runs(p, LoadsFirst, "start") \/ proc[p].pc = "load"
    /\ creds' = IF creds.tmp = None THEN creds ELSE Rename(creds)
    /\ Goto(p, "cleaned")
    /\ UNCHANGED <<project, kills, overlapped, remote>>

Clean(p) ==
    /\ Runs(p, LoadsFirst, "start") \/ proc[p].pc = "load"
    /\ creds' = RemoveTmp(creds)
    /\ Goto(p, "cleaned")
    /\ UNCHANGED <<project, kills, overlapped, remote>>

\* Slip: a file that does not parse is not told from one that does.
ReadUnchecked(p) ==
    /\ proc[p].pc = "cleaned"
    /\ proc' = [proc EXCEPT ![p].pc = "loaded", ![p].cred = Content(creds)]
    /\ UNCHANGED <<files, kills, remote>>

ReadCredentials(p) ==
    /\ proc[p].pc = "cleaned"
    /\ proc' = [proc EXCEPT ![p].pc = "loaded",
                            ![p].cred = IF IsWhole(Content(creds)) THEN Content(creds) ELSE NoSession]
    /\ UNCHANGED <<files, kills, remote>>

requireAuth(p) ==
    /\ proc[p].pc = "loaded" /\ proc[p].cmd # "logout"
    /\ Goto(p, IF proc[p].cred = NoSession THEN "failed" ELSE "authed")
    /\ UNCHANGED <<files, kills, remote>>

-----------------------------------------------------------------------------
(* login and logout.                                                         *)

\* The device flow or the API key, then GetMe.
Verify(p) ==
    /\ Runs(p, {"login"}, "start")
    /\ \E pc \in {"save", "failed"} : Goto(p, pc)
    /\ UNCHANGED <<files, kills, remote>>

\* Slip: the file itself is opened, and no .tmp.
OpenInPlace(p) ==
    /\ proc[p].pc = "save"
    /\ LET ino == IF creds.final = None THEN Opened(creds, Held) ELSE creds.final IN
        /\ creds' = [creds EXCEPT !.final = ino, !.data[ino] = Empty]
        /\ proc' = [proc EXCEPT ![p].pc = "opened", ![p].inode = ino]
    /\ UNCHANGED <<project, overlapped, kills, remote>>

OpenCredentials(p) ==
    /\ proc[p].pc = "save"
    /\ LET ino == Opened(creds, Held) IN
        /\ creds' = Open(creds, ino)
        /\ proc' = [proc EXCEPT ![p].pc = "opened", ![p].inode = ino]
    /\ overlapped' = IF Saving({"opened", "written"}) THEN overlapped \cup {"credentials"} ELSE overlapped
    /\ UNCHANGED <<project, kills, remote>>

WriteCredentials(p) ==
    /\ proc[p].pc = "opened"
    /\ creds' \in Written(creds, proc[p].inode, Session(p))
    /\ proc' = [proc EXCEPT ![p].pc = "written", ![p].inode = None]
    /\ UNCHANGED <<project, overlapped, kills, remote>>

\* Slip: an error of the rename goes unnoticed.
RenameUnchecked(p) ==
    /\ proc[p].pc = "written"
    /\ creds' = IF creds.tmp = None THEN creds ELSE Rename(creds)
    /\ Goto(p, "renamed")
    /\ UNCHANGED <<project, overlapped, kills, remote>>

RenameCredentials(p) ==
    /\ proc[p].pc = "written"
    /\ creds' = IF creds.tmp = None THEN creds ELSE Rename(creds)
    /\ Goto(p, IF creds.tmp = None THEN "unnamed" ELSE "renamed")
    /\ UNCHANGED <<project, overlapped, kills, remote>>

\* A failed save removes .tmp, whoever's it is by now.
GiveUpCredentials(p) ==
    /\ proc[p].pc = "unnamed"
    /\ creds' = RemoveTmp(creds)
    /\ Goto(p, "failed")
    /\ UNCHANGED <<project, overlapped, kills, remote>>

ChmodCredentials(p) ==
    /\ proc[p].pc = "renamed"
    /\ Goto(p, IF creds.final = None THEN "failed" ELSE "done")
    /\ UNCHANGED <<files, kills, remote>>

RevokeBestEffort(p) ==
    /\ Runs(p, {"logout"}, "loaded")
    /\ \/ revoked' = revoked
       \/ proc[p].cred # NoSession /\ revoked' = revoked \cup {proc[p].cred[2]}
    /\ Goto(p, "clear")
    /\ UNCHANGED <<files, server, lastId, raced, kills>>

ClearCredentials(p) ==
    /\ proc[p].pc = "clear"
    /\ creds' = [creds EXCEPT !.final = None]
    /\ Goto(p, "done")
    /\ UNCHANGED <<project, overlapped, kills, remote>>

-----------------------------------------------------------------------------
(* The workspaces.                                                           *)

\* init refuses a bound directory; sync and unlink want one.
LoadProjectConfig(p) ==
    /\ Runs(p, {"init", "sync", "unlink"}, "start")
    /\ LET c == Content(project)
           next == [init |-> "load", sync |-> "load", unlink |-> "unlink"][proc[p].cmd]
           fits == IF proc[p].cmd = "init" THEN project.final = None
                   ELSE project.final # None /\ IsWhole(c)
       IN GotoWith(p, IF fits THEN next ELSE "failed",
                   IF fits /\ proc[p].cmd = "sync" THEN c[2] ELSE 0)
    /\ UNCHANGED <<files, kills, remote>>

ListOnly(p) ==
    /\ Runs(p, {"list"}, "authed")
    /\ Goto(p, IF Valid(p) THEN "done" ELSE "failed")
    /\ UNCHANGED <<files, kills, remote>>

Named(name) == {w \in server : w.name = name}

\* Slip: the root path is not compared, only the names.
ReusableByName == Named("remote")

\* The workspaces that match best: the root path, then the names.  The first
\* of them that the API lists is taken; the order is the API's.
Reusable ==
    LET atRoot == {w \in server : w.here}
    IN CASE atRoot # {} -> atRoot
         [] atRoot = {} /\ Named("remote") # {} -> Named("remote")
         [] OTHER -> Named("package")

\* A list that fails is a warning: init goes on to create.
reuseExistingWorkspace(p) ==
    /\ Runs(p, {"init"}, "authed")
    /\ \/ /\ Valid(p) /\ Reusable = {}
          /\ Goto(p, "create")
       \/ Valid(p) /\ \E w \in Reusable : GotoWith(p, "bind", w.id)
       \/ proc' = [proc EXCEPT ![p].pc = "create", ![p].blind = TRUE]
    /\ UNCHANGED <<files, kills, remote>>

\* A POST is never sent twice: a lost answer is a failed init.
CreateWorkspace(p) ==
    /\ Runs(p, {"init"}, "create") /\ Valid(p) /\ lastId < MaxIds
    /\ server' = server \cup {[id |-> lastId + 1, here |-> TRUE, name |-> "other"]}
    /\ lastId' = lastId + 1
    /\ raced' = (raced \/ proc[p].blind)
    /\ \E pc \in {"bind", "failed"} :
        proc' = [q \in Procs |->
                   IF q = p THEN [proc[p] EXCEPT !.pc = pc, !.ws = lastId + 1]
                   ELSE [proc[q] EXCEPT !.blind = proc[q].blind \/ proc[q].pc = "create"]]
    /\ UNCHANGED <<files, revoked, kills>>

\* 401, 409 (the plan's limit) or no answer, and no workspace.
CreateRefused(p) ==
    /\ Runs(p, {"init"}, "create")
    /\ Goto(p, "failed")
    /\ UNCHANGED <<files, kills, remote>>

GetWorkspace(p) ==
    /\ Runs(p, {"relink", "delete"}, "authed")
    /\ \E w \in Ids :
        GotoWith(p, IF ~Valid(p) \/ ~OnServer(w) THEN "failed"
                    ELSE IF proc[p].cmd = "relink" THEN "bind" ELSE "confirmed", w)
    /\ UNCHANGED <<files, kills, remote>>

\* DELETE is retried: an answer lost the first time is a 404 the second.
DeleteWorkspace(p) ==
    /\ proc[p].pc = "confirmed"
    /\ IF Valid(p) /\ OnServer(proc[p].ws)
       THEN /\ server' = {w \in server : w.id # proc[p].ws}
            /\ \E pc \in {"done", "failed"} : Goto(p, pc)
       ELSE server' = server /\ Goto(p, "failed")
    /\ UNCHANGED <<files, lastId, revoked, raced, kills>>

\* The preflight and the parse; then the configuration is stamped and saved.
ParseWorkspace(p) ==
    /\ Runs(p, {"sync"}, "authed")
    /\ \E pc \in {"bind", "failed"} :
        /\ pc = "bind" => Valid(p) /\ OnServer(proc[p].ws)
        /\ Goto(p, pc)
    /\ UNCHANGED <<files, kills, remote>>

OpenProject(p) ==
    /\ proc[p].pc = "bind"
    /\ LET ino == Opened(project, Held) IN
        /\ project' = Open(project, ino)
        /\ proc' = [proc EXCEPT ![p].pc = "bindOpened", ![p].inode = ino]
    /\ overlapped' = IF Saving({"bindOpened", "bindWritten"}) THEN overlapped \cup {"project"} ELSE overlapped
    /\ UNCHANGED <<creds, kills, remote>>

WriteProject(p) ==
    /\ proc[p].pc = "bindOpened"
    /\ project' \in Written(project, proc[p].inode, Bound(proc[p].ws))
    /\ proc' = [proc EXCEPT ![p].pc = "bindWritten", ![p].inode = None]
    /\ UNCHANGED <<creds, overlapped, kills, remote>>

RenameProject(p) ==
    /\ proc[p].pc = "bindWritten"
    /\ project' = IF project.tmp = None THEN project ELSE Rename(project)
    /\ Goto(p, IF project.tmp = None THEN "bindUnnamed" ELSE "done")
    /\ UNCHANGED <<creds, overlapped, kills, remote>>

\* To sync a configuration it could not save is a warning.
GiveUpProject(p) ==
    /\ proc[p].pc = "bindUnnamed"
    /\ project' = RemoveTmp(project)
    /\ Goto(p, IF proc[p].cmd = "sync" THEN "done" ELSE "failed")
    /\ UNCHANGED <<creds, overlapped, kills, remote>>

Unlink(p) ==
    /\ proc[p].pc = "unlink"
    /\ project' = [project EXCEPT !.final = None]
    /\ Goto(p, "done")
    /\ UNCHANGED <<creds, overlapped, kills, remote>>

Kill(p) ==
    /\ proc[p].pc \notin Ended /\ kills < MaxKills
    /\ kills' = kills + 1
    /\ proc' = [proc EXCEPT ![p].pc = "killed", ![p].inode = None]
    /\ UNCHANGED <<files, remote>>

Next == \E p \in Procs :
    \/ Clean(p) \/ ReadCredentials(p) \/ requireAuth(p)
    \/ Verify(p) \/ OpenCredentials(p) \/ WriteCredentials(p) \/ RenameCredentials(p)
    \/ GiveUpCredentials(p) \/ ChmodCredentials(p)
    \/ RevokeBestEffort(p) \/ ClearCredentials(p)
    \/ LoadProjectConfig(p) \/ ListOnly(p) \/ reuseExistingWorkspace(p)
    \/ CreateWorkspace(p) \/ CreateRefused(p) \/ GetWorkspace(p) \/ DeleteWorkspace(p)
    \/ ParseWorkspace(p) \/ OpenProject(p) \/ WriteProject(p) \/ RenameProject(p)
    \/ GiveUpProject(p) \/ Unlink(p) \/ Kill(p)

Spec == Init /\ [][Next]_vars

-----------------------------------------------------------------------------
(* Each of the two files is what AtomicFile says: a command that saves it or *)
(* removes it has asked to until it is done, fails or is killed.             *)
Absent == <<"absent">>
Idle == <<"idle">>
FileOf(dir) == IF dir.final = None THEN Absent ELSE dir.data[dir.final]
AskedOfCredentials ==
    [p \in Procs |-> CASE proc[p].pc \in {"save", "opened", "written"} -> Session(p)
                      [] proc[p].pc = "clear" -> Absent
                      [] OTHER -> Idle]
AskedOfProject ==
    [p \in Procs |-> CASE proc[p].pc \in {"bind", "bindOpened", "bindWritten"} -> Bound(proc[p].ws)
                      [] proc[p].pc = "unlink" -> Absent
                      [] OTHER -> Idle]

Credentials == INSTANCE AtomicFile WITH
    Clients <- Procs, Bodies <- Sessions, file <- FileOf(creds), asked <- AskedOfCredentials,
    contended <- "credentials" \in overlapped
Project == INSTANCE AtomicFile WITH
    Clients <- Procs, Bodies <- Bindings, file <- FileOf(project), asked <- AskedOfProject,
    contended <- "project" \in overlapped

\* SaveCredentials and SaveProjectConfig, .tmp and rename and all, do what an
\* atomic save would: the file goes from one whole body to the next that a
\* running command asked for, whatever is killed or cleaned up in between, as
\* long as no two saves of it overlap.
RefinesAtomicFile == Credentials!Spec /\ Project!Spec

(* A file that is there is a whole file, even after a kill between any two   *)
(* steps of a save, unless two saves of the same file overlapped.            *)
NoDamage ==
    /\ "credentials" \notin overlapped /\ creds.final # None => IsWhole(Content(creds))
    /\ "project" \notin overlapped /\ project.final # None => IsWhole(Content(project))

(* However often init is run, killed or loses an answer, this directory gets *)
(* one workspace on the server: a second only when the list could not be     *)
(* fetched or another init created one between the list and the request.     *)
NoDuplicates ==
    raced \/ Cardinality({w \in server : w.here}) <= 1

(* A command that reports success left on disk what it says, whatever other  *)
(* commands clean up meanwhile: unless one that writes the same file ran too.*)
ReportsHonest ==
    LET alone(p, cmds) == \A q \in Procs \ {p} : proc[q].cmd \notin cmds
        session == {"login", "logout"}
        binding == {"init", "relink", "unlink", "sync"}
    IN \A p \in Procs : proc[p].pc = "done" =>
        /\ proc[p].cmd = "login" /\ alone(p, session) => Content(creds) = Session(p)
        /\ proc[p].cmd = "logout" /\ alone(p, session) => creds.final = None
        /\ proc[p].cmd \in {"init", "relink"} /\ alone(p, binding) =>
              Content(project) = Bound(proc[p].ws)
        /\ proc[p].cmd = "unlink" /\ alone(p, binding) => project.final = None
=============================================================================
