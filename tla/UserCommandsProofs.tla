------------------------- MODULE UserCommandsProofs -------------------------
(***************************************************************************)
(* For any number of commands, kills and workspaces: saves that do not     *)
(* overlap leave no damaged file, a command that ran alone on a file has   *)
(* left there what it reports, and a directory gets one workspace but for  *)
(* an init that could not see another's.                                   *)
(*                                                                         *)
(* The argument: .tmp and the file never have the same inode (NamesInv),   *)
(* so that a rename brings what was written to .tmp.  While one command    *)
(* alone saves a file, .tmp is the file it has open, or is gone (SavesInv, *)
(* SessionInv, BindingInv), whatever other commands clean up.  At the end, *)
(* from the same invariant: both files implement AtomicFile.               *)
(***************************************************************************)
EXTENDS UserCommands, FiniteSetTheorems, FunctionTheorems, TLAPS

LoginPcs == {"save", "opened", "written", "renamed", "unnamed"}
BindPcs == {"bind", "bindOpened", "bindWritten", "bindUnnamed"}
SessionCmds == {"login", "logout"}
BindingCmds == {"init", "relink", "unlink", "sync"}
Alone(p, cmds) == \A q \in Procs \ {p} : proc[q].cmd \notin cmds

\* No rename of .tmp can lose the file.
Distinct(dir) == dir.tmp = None \/ dir.tmp # dir.final
NamesInv == Distinct(creds) /\ Distinct(project)

\* Which command is at which step, and that it has the workspace it binds.
CommandInv ==
    \A p \in Procs :
        /\ proc[p].pc \in LoginPcs => proc[p].cmd = "login"
        /\ proc[p].pc = "clear" => proc[p].cmd = "logout"
        /\ proc[p].pc = "unlink" => proc[p].cmd = "unlink"
        /\ proc[p].pc = "confirmed" => proc[p].cmd = "delete"
        /\ proc[p].pc \in BindPcs => proc[p].cmd \in {"init", "relink", "sync"} /\ proc[p].ws \in Ids
        /\ proc[p].cmd = "sync" /\ proc[p].pc \notin {"start", "failed", "killed"} => proc[p].ws \in Ids

\* A file that has been opened and not written, by the one command that saves.
Opener(dir, i) == dir.data[i] = Empty /\ i # dir.final /\ dir.tmp \in {None, i}

\* One save at a time: .tmp is being written, or holds the body of the command
\* that has written it, or is gone.
SavesInv(dir, ps, opened, written, body) ==
    /\ \A p, q \in Procs : ps[p].pc \in {opened, written} /\ ps[q].pc \in {opened, written} => p = q
    /\ \A p \in Procs :
         /\ ps[p].pc = opened => Opener(dir, ps[p].inode)
         /\ ps[p].pc = written => dir.tmp = None \/ dir.data[dir.tmp] = body[p]
    /\ dir.final # None => IsWhole(Content(dir))

SessionOf == [p \in Procs |-> Session(p)]
BindingOf == [p \in Procs |-> Bound(proc[p].ws)]

DamageInv ==
    /\ "credentials" \notin overlapped => SavesInv(creds, proc, "opened", "written", SessionOf)
    /\ "project" \notin overlapped => SavesInv(project, proc, "bindOpened", "bindWritten", BindingOf)

\* The session of a login, from the write on.
SessionInv ==
    \A p \in Procs : Alone(p, SessionCmds) =>
        /\ proc[p].pc = "opened" => Opener(creds, proc[p].inode)
        /\ proc[p].pc = "written" => creds.tmp = None \/ creds.data[creds.tmp] = Session(p)
        /\ proc[p].cmd = "login" /\ proc[p].pc \in {"renamed", "done"} => Content(creds) = Session(p)
        /\ proc[p].cmd = "logout" /\ proc[p].pc = "done" => creds.final = None

\* The binding of an init or a relink, from the write on.
BindingInv ==
    \A p \in Procs : Alone(p, BindingCmds) =>
        /\ proc[p].pc = "bindOpened" => Opener(project, proc[p].inode)
        /\ proc[p].pc = "bindWritten" =>
              project.tmp = None \/ project.data[project.tmp] = Bound(proc[p].ws)
        /\ proc[p].cmd \in {"init", "relink"} /\ proc[p].pc = "done" =>
              Content(project) = Bound(proc[p].ws)
        /\ proc[p].cmd = "unlink" /\ proc[p].pc = "done" => project.final = None

\* An init that saw the list creates a workspace only where there is none.
WorkspaceInv ==
    ~raced =>
        /\ \A v, w \in server : v.here /\ w.here => v = w
        /\ \A p \in Procs : proc[p].pc = "create" /\ ~proc[p].blind => \A w \in server : ~w.here

IInv ==
    /\ TypeOK /\ NamesInv /\ CommandInv /\ DamageInv
    /\ SessionInv /\ BindingInv /\ WorkspaceInv

-----------------------------------------------------------------------------
(* Files *)

LEMMA InodeIsAName == \A i \in Inodes : i # None
<1>1. Cardinality(Procs) + 2 \in Nat
  BY UserCommandsAssumption, FS_CardinalityType
<1> QED BY <1>1 DEF Inodes, None

\* Among two files more than there are processes, one is neither held nor the
\* one the name refers to.
LEMMA FreshInode ==
    ASSUME NEW f, f \in [Procs -> Inodes \cup {None}], NEW x
    PROVE  \E i \in Inodes : i # x /\ \A p \in Procs : i # f[p]
<1> DEFINE T == {f[p] : p \in Procs}
           U == T \cup {x}
           n == Cardinality(Procs)
<1>0. IsFiniteSet(Procs)
  BY UserCommandsAssumption
<1>1. n \in Nat
  BY <1>0, FS_CardinalityType
<1>2. IsFiniteSet(T) /\ Cardinality(T) <= n
  <2>0. f = [p \in Procs |-> f[p]]
    OBVIOUS
  <2>1. f \in [Procs -> T] /\ \A t \in T : \E p \in Procs : f[p] = t
    BY <2>0
  <2> HIDE DEF T
  <2>2. f \in Surjection(Procs, T)
    BY <2>1 DEF Surjection
  <2> QED BY <1>0, <2>2, FS_Surjection
<1>3. Cardinality(T) \in Nat
  BY <1>2, FS_CardinalityType
<1> HIDE DEF T, n
<1>4. IsFiniteSet(U) /\ Cardinality(U) \in Nat /\ Cardinality(U) <= n + 1
  BY <1>1, <1>2, <1>3, FS_AddElement
<1> HIDE DEF U
<1>5. IsFiniteSet(Inodes) /\ Cardinality(Inodes) = n + 2
  <2>1. 1 \in Int /\ n + 2 \in Int /\ n + 2 >= 1 /\ Inodes = 1 .. n + 2
    BY <1>1 DEF Inodes, n
  <2> QED BY <1>1, <2>1, FS_Interval
<1>6. ~(Inodes \subseteq U)
  <2> SUFFICES ASSUME Inodes \subseteq U PROVE FALSE
    OBVIOUS
  <2>1. Cardinality(Inodes) <= Cardinality(U)
    BY <1>4, FS_Subset
  <2> QED BY <1>1, <1>4, <1>5, <2>1
<1> QED BY <1>6 DEF T, U

\* Opening .tmp finds a file, and never the one of the final name.
LEMMA OpenedIsInode ==
    ASSUME TypeOK, NEW bodies, NEW dir \in Files(bodies)
    PROVE  /\ Opened(dir, Held) \in Inodes
           /\ Distinct(dir) => Opened(dir, Held) # dir.final
<1>1. DOMAIN dir.data = Inodes
  BY DEF Files
<1>2. CASE dir.tmp # None
  BY <1>1, <1>2 DEF Opened, Files, Distinct
<1>3. CASE dir.tmp = None
  <2> DEFINE f == [p \in Procs |-> proc[p].inode]
             fresh == CHOOSE i \in DOMAIN dir.data : i \notin Held \cup {dir.final}
  <2>1. f \in [Procs -> Inodes \cup {None}]
    BY DEF TypeOK, Processes
  <2> HIDE DEF f
  <2>2. \E i \in Inodes : i # dir.final /\ \A p \in Procs : i # f[p]
    BY <2>1, FreshInode
  <2>3. \E i \in DOMAIN dir.data : i \notin Held \cup {dir.final}
    BY <1>1, <2>2 DEF Held, f
  <2>4. fresh \in DOMAIN dir.data /\ fresh \notin Held \cup {dir.final}
    BY <2>3
  <2>5. Opened(dir, Held) = fresh
    BY <1>3 DEF Opened
  <2> HIDE DEF fresh
  <2> QED BY <1>1, <2>4, <2>5
<1> QED BY <1>2, <1>3

\* The operations on a directory, by what they do to the names and the files.
LEMMA OpenEffect ==
    ASSUME NEW bodies, NEW dir \in Files(bodies), NEW i \in Inodes
    PROVE  /\ Open(dir, i) \in Files(bodies)
           /\ Open(dir, i).tmp = i /\ Open(dir, i).final = dir.final
           /\ Open(dir, i).data[i] = Empty
           /\ \A j \in Inodes \ {i} : Open(dir, i).data[j] = dir.data[j]
  BY DEF Open, Files

LEMMA WrittenEffect ==
    ASSUME NEW bodies, NEW dir \in Files(bodies), NEW i \in Inodes, NEW body \in bodies,
           NEW d \in Written(dir, i, body)
    PROVE  /\ d \in Files(bodies)
           /\ d.tmp = dir.tmp /\ d.final = dir.final
           /\ dir.data[i] = Empty => d.data[i] = body
           /\ \A j \in Inodes \ {i} : d.data[j] = dir.data[j]
  BY DEF Written, Files

LEMMA RenameEffect ==
    ASSUME NEW bodies, NEW dir \in Files(bodies), dir.tmp # None
    PROVE  /\ Rename(dir) \in Files(bodies)
           /\ Rename(dir).tmp = None /\ Rename(dir).final = dir.tmp
           /\ Distinct(dir) => Content(Rename(dir)) = dir.data[dir.tmp]
<1> DEFINE cleared == [i \in Inodes |-> IF i = dir.final THEN Empty ELSE dir.data[i]]
<1>1. DOMAIN dir.data = Inodes
  BY DEF Files
<1>2. Rename(dir) = [dir EXCEPT !.final = dir.tmp, !.tmp = None, !.data = cleared]
  BY <1>1 DEF Rename
<1>3. Rename(dir) = [tmp |-> None, final |-> dir.tmp, data |-> cleared]
  BY <1>2 DEF Files
<1>4. cleared \in [Inodes -> bodies \cup {Empty, Torn}]
  BY DEF Files
<1>5. dir.tmp # dir.final => cleared[dir.tmp] = dir.data[dir.tmp]
  BY DEF Files
<1> HIDE DEF cleared
<1> QED BY <1>3, <1>4, <1>5 DEF Files, Content, Distinct

LEMMA RemoveEffect ==
    ASSUME NEW bodies, NEW dir \in Files(bodies)
    PROVE  /\ RemoveTmp(dir) \in Files(bodies)
           /\ RemoveTmp(dir).tmp = None /\ RemoveTmp(dir).final = dir.final
           /\ RemoveTmp(dir).data = dir.data
           /\ [dir EXCEPT !.final = None] \in Files(bodies)
           /\ [dir EXCEPT !.final = None].tmp = dir.tmp /\ [dir EXCEPT !.final = None].final = None
           /\ [dir EXCEPT !.final = None].data = dir.data
  BY DEF RemoveTmp, Files

LEMMA ContentType ==
    ASSUME NEW bodies, NEW dir \in Files(bodies)
    PROVE  /\ Content(dir) \in bodies \cup {Empty, Torn}
           /\ IsWhole(Content(dir)) => Content(dir) \in bodies
           /\ IsWhole(Content(dir)) => dir.final # None
  BY DEF Content, Files, IsWhole

\* What is saved is whole.
LEMMA BodiesAreWhole ==
    /\ \A p \in Procs \cup {0} : IsWhole(Session(p)) /\ Session(p) # NoSession
    /\ \A i \in Ids : IsWhole(Bound(i))
  BY DEF IsWhole, Session, Bound, Empty, Torn, NoSession

-----------------------------------------------------------------------------
(* The types *)

\* The commands that are between two saves, or do not save at all.
Quiet(p) ==
    \/ ReadCredentials(p) \/ requireAuth(p) \/ Verify(p) \/ RevokeBestEffort(p)
    \/ LoadProjectConfig(p) \/ ListOnly(p) \/ reuseExistingWorkspace(p)
    \/ CreateWorkspace(p) \/ CreateRefused(p) \/ GetWorkspace(p) \/ DeleteWorkspace(p)
    \/ ParseWorkspace(p)

Save(p) ==
    \/ Clean(p)
    \/ OpenCredentials(p) \/ WriteCredentials(p) \/ RenameCredentials(p)
    \/ GiveUpCredentials(p) \/ ChmodCredentials(p) \/ ClearCredentials(p)
    \/ OpenProject(p) \/ WriteProject(p) \/ RenameProject(p) \/ GiveUpProject(p)
    \/ Unlink(p)

LEMMA NextCases == Next <=> \E p \in Procs : Quiet(p) \/ Save(p) \/ Kill(p)
  BY DEF Next, Quiet, Save

\* A step of one process that leaves it at pc, with a session, a workspace and
\* a file.
LEMMA ProcStep ==
    ASSUME TypeOK, NEW p \in Procs, NEW r \in Processes, proc' = [proc EXCEPT ![p] = r],
           r.cmd = proc[p].cmd, r.pc \in Opening <=> r.inode # None
    PROVE  /\ proc' \in [Procs -> Processes]
           /\ \A q \in Procs :
                proc'[q].cmd \in Commands[q] /\ (proc'[q].pc \in Opening <=> proc'[q].inode # None)
  BY DEF TypeOK

LEMMA GotoStep ==
    ASSUME TypeOK, NEW p \in Procs, NEW pc \in Pcs \ Opening, NEW w \in Ids \cup {0},
           proc[p].pc \notin Opening,
           Goto(p, pc) \/ GotoWith(p, pc, w)
    PROVE  /\ proc' \in [Procs -> Processes]
           /\ \A q \in Procs :
                proc'[q].cmd \in Commands[q] /\ (proc'[q].pc \in Opening <=> proc'[q].inode # None)
<1>1. proc[p] \in Processes /\ proc[p].inode = None
  BY DEF TypeOK
<1>2. CASE Goto(p, pc)
  <2>1. proc' = [proc EXCEPT ![p] = [proc[p] EXCEPT !.pc = pc]]
    BY <1>2 DEF Goto, TypeOK
  <2>2. /\ [proc[p] EXCEPT !.pc = pc] \in Processes
        /\ [proc[p] EXCEPT !.pc = pc].cmd = proc[p].cmd
        /\ [proc[p] EXCEPT !.pc = pc].pc \notin Opening
        /\ [proc[p] EXCEPT !.pc = pc].inode = None
    BY <1>1 DEF Processes
  <2> QED BY <2>1, <2>2, ProcStep
<1>3. CASE GotoWith(p, pc, w)
  <2>1. proc' = [proc EXCEPT ![p] = [proc[p] EXCEPT !.pc = pc, !.ws = w]]
    BY <1>3 DEF GotoWith, TypeOK
  <2>2. /\ [proc[p] EXCEPT !.pc = pc, !.ws = w] \in Processes
        /\ [proc[p] EXCEPT !.pc = pc, !.ws = w].cmd = proc[p].cmd
        /\ [proc[p] EXCEPT !.pc = pc, !.ws = w].pc \notin Opening
        /\ [proc[p] EXCEPT !.pc = pc, !.ws = w].inode = None
    BY <1>1 DEF Processes
  <2> QED BY <2>1, <2>2, ProcStep
<1> QED BY <1>2, <1>3

\* The steps that leave the files alone.
LEMMA QuietTypes ==
    ASSUME TypeOK, CommandInv, NEW p \in Procs, Quiet(p)
    PROVE  TypeOK'
<1> DEFINE ProcTypes ==
        /\ proc \in [Procs -> Processes]
        /\ \A q \in Procs : proc[q].cmd \in Commands[q] /\ (proc[q].pc \in Opening <=> proc[q].inode # None)
<1>0. /\ creds \in Files(Sessions) /\ project \in Files(Bindings)
      /\ proc[p] \in Processes /\ proc[p].cred \in Sessions \cup {NoSession}
      /\ proc[p].ws \in Ids \cup {0}
  BY DEF TypeOK, Processes
<1>1. Opening \subseteq Pcs /\ Ended \subseteq Pcs \ Opening
  BY DEF Opening, Pcs, Ended
<1> USE DEF files, remote, Runs, Opening
<1>2. CASE ReadCredentials(p)
  <2> DEFINE found == IF IsWhole(Content(creds)) THEN Content(creds) ELSE NoSession
             r == [proc[p] EXCEPT !.pc = "loaded", !.cred = found]
  <2>1. found \in Sessions \cup {NoSession}
    BY <1>0, ContentType
  <2>2. proc' = [proc EXCEPT ![p] = r] /\ proc[p].pc = "cleaned" /\ proc[p].inode = None
    BY <1>2 DEF ReadCredentials, TypeOK
  <2> HIDE DEF found
  <2>3. r \in Processes /\ r.cmd = proc[p].cmd /\ r.pc \notin Opening /\ r.inode = None
    BY <1>0, <2>1, <2>2 DEF Processes, Pcs
  <2> HIDE DEF r
  <2>4. ProcTypes'
    BY <2>2, <2>3, ProcStep
  <2> QED BY <1>2, <2>4 DEF ReadCredentials, TypeOK
<1>3. CASE requireAuth(p) \/ Verify(p) \/ ListOnly(p) \/ CreateRefused(p) \/ ParseWorkspace(p)
  <2>1. PICK pc \in {"failed", "authed", "save", "done", "bind"} : Goto(p, pc)
    BY <1>3 DEF requireAuth, Verify, ListOnly, CreateRefused, ParseWorkspace
  <2>2. proc[p].pc \notin Opening /\ pc \in Pcs \ Opening
    BY <1>3 DEF requireAuth, Verify, ListOnly, CreateRefused, ParseWorkspace, Pcs, Ended
  <2>3. ProcTypes'
    BY <2>1, <2>2, GotoStep DEF Ids
  <2>4. UNCHANGED <<creds, project, overlapped, kills, server, lastId, revoked, raced>>
    BY <1>3 DEF requireAuth, Verify, ListOnly, CreateRefused, ParseWorkspace
  <2> QED BY <2>3, <2>4 DEF TypeOK
<1>4. CASE RevokeBestEffort(p)
  <2>1. ProcTypes'
    <3>1. Goto(p, "clear") /\ proc[p].pc \notin Opening /\ "clear" \in Pcs \ Opening
      BY <1>4 DEF RevokeBestEffort, Pcs
    <3> QED BY <3>1, GotoStep
  <2>2. revoked' \subseteq Procs \cup {0}
    <3>1. proc[p].cred # NoSession => proc[p].cred[2] \in Procs \cup {0}
      BY <1>0 DEF Sessions, Session
    <3> QED BY <1>4, <3>1 DEF RevokeBestEffort, TypeOK
  <2> QED BY <1>4, <2>1, <2>2 DEF RevokeBestEffort, TypeOK
<1>5. CASE LoadProjectConfig(p)
  <2>1. /\ proc[p].pc = "start" /\ proc[p].cmd \in {"init", "sync", "unlink"}
        /\ UNCHANGED <<creds, project, overlapped, kills, server, lastId, revoked, raced>>
    BY <1>5 DEF LoadProjectConfig
  <2>2. \E pc \in {"load", "unlink", "failed"}, w \in Ids \cup {0} : GotoWith(p, pc, w)
    <3>1. IsWhole(Content(project)) => Content(project)[2] \in Ids
      BY <1>0, ContentType DEF Bindings, Bound
    <3> QED BY <1>5, <2>1, <3>1 DEF LoadProjectConfig
  <2>3. ProcTypes'
    <3>1. {"load", "unlink", "failed"} \subseteq Pcs \ Opening
      BY DEF Pcs, Ended
    <3> QED BY <2>1, <2>2, <3>1, GotoStep
  <2> QED BY <2>1, <2>3 DEF TypeOK
<1>6. CASE reuseExistingWorkspace(p)
  <2>0. /\ proc[p].pc = "authed"
        /\ UNCHANGED <<creds, project, overlapped, kills, server, lastId, revoked, raced>>
    BY <1>6 DEF reuseExistingWorkspace
  <2>1. ProcTypes'
    <3>1. CASE Goto(p, "create") \/ \E w \in Reusable : GotoWith(p, "bind", w.id)
      <4>1. Reusable \subseteq server
        BY DEF Reusable, Named
      <4>2. \A w \in server : w.id \in Ids
        BY DEF TypeOK, Workspaces
      <4>3. PICK pc \in {"create", "bind"}, i \in Ids \cup {0} : Goto(p, pc) \/ GotoWith(p, pc, i)
        BY <3>1, <4>1, <4>2
      <4>4. pc \in Pcs \ Opening /\ proc[p].pc \notin Opening
        BY <2>0 DEF Pcs
      <4> QED BY <4>3, <4>4, GotoStep
    <3>2. CASE proc' = [proc EXCEPT ![p].pc = "create", ![p].blind = TRUE]
      <4> DEFINE r == [proc[p] EXCEPT !.pc = "create", !.blind = TRUE]
      <4>1. proc' = [proc EXCEPT ![p] = r] /\ proc[p].inode = None
        BY <2>0, <3>2 DEF TypeOK
      <4>2. r \in Processes /\ r.cmd = proc[p].cmd /\ r.pc \notin Opening /\ r.inode = None
        BY <1>0, <4>1 DEF Processes, Pcs
      <4> HIDE DEF r
      <4> QED BY <4>1, <4>2, ProcStep
    <3> QED BY <1>6, <3>1, <3>2 DEF reuseExistingWorkspace
  <2> QED BY <2>0, <2>1 DEF TypeOK
<1>7. CASE CreateWorkspace(p)
  <2>1. lastId + 1 \in Ids /\ lastId \in Nat /\ proc[p].pc = "create"
    BY <1>7, UserCommandsAssumption DEF CreateWorkspace, TypeOK, Ids
  <2>2. server' \subseteq Workspaces /\ \A w \in server' : w.id <= lastId'
    <3> DEFINE new == [id |-> lastId + 1, here |-> TRUE, name |-> "other"]
    <3>1. new \in Workspaces /\ new.id = lastId + 1
      BY <2>1 DEF Workspaces, Names
    <3>2. server' = server \cup {new} /\ lastId' = lastId + 1
      BY <1>7 DEF CreateWorkspace
    <3>3. \A w \in server : w \in Workspaces /\ w.id <= lastId /\ w.id \in Nat
      BY DEF TypeOK, Workspaces, Ids
    <3> HIDE DEF new
    <3>4. ASSUME NEW w \in server' PROVE w \in Workspaces /\ w.id <= lastId'
      <4>1. CASE w \in server
        BY <2>1, <3>2, <3>3, <4>1
      <4>2. CASE w = new
        BY <2>1, <3>1, <3>2, <4>2
      <4> QED BY <3>2, <4>1, <4>2
    <3> QED BY <3>4
  <2>3. lastId' \in 0 .. MaxIds /\ raced' \in BOOLEAN
    BY <1>7, <2>1 DEF CreateWorkspace, TypeOK, Ids
  <2>4. PICK pc \in {"bind", "failed"} :
            proc' = [q \in Procs |->
                       IF q = p THEN [proc[p] EXCEPT !.pc = pc, !.ws = lastId + 1]
                       ELSE [proc[q] EXCEPT !.blind = proc[q].blind \/ proc[q].pc = "create"]]
    BY <1>7 DEF CreateWorkspace
  <2>5. proc' \in [Procs -> Processes]
    <3>1. [proc[p] EXCEPT !.pc = pc, !.ws = lastId + 1] \in Processes
      BY <1>0, <2>1 DEF Processes, Pcs, Ended
    <3>2. ASSUME NEW q \in Procs
          PROVE  [proc[q] EXCEPT !.blind = proc[q].blind \/ proc[q].pc = "create"] \in Processes
      <4> DEFINE b == proc[q].blind \/ proc[q].pc = "create"
      <4>1. b \in BOOLEAN /\ proc[q] \in Processes
        BY DEF TypeOK
      <4> HIDE DEF b
      <4>2. [proc[q] EXCEPT !.blind = b] \in Processes
        BY <4>1 DEF Processes
      <4> QED BY <4>2 DEF b
    <3> QED BY <2>4, <3>1, <3>2
  <2>6. \A q \in Procs : /\ proc'[q].cmd = proc[q].cmd /\ proc'[q].inode = proc[q].inode
                         /\ IF q = p THEN proc'[q].pc = pc ELSE proc'[q].pc = proc[q].pc
    BY <2>4 DEF TypeOK, Processes
  <2>7. ProcTypes'
    BY <2>1, <2>5, <2>6 DEF TypeOK
  <2> QED BY <1>7, <2>2, <2>3, <2>7 DEF CreateWorkspace, TypeOK
<1>8. CASE GetWorkspace(p)
  <2>1. /\ \E pc \in {"failed", "bind", "confirmed"}, w \in Ids \cup {0} : GotoWith(p, pc, w)
        /\ proc[p].pc = "authed"
        /\ UNCHANGED <<creds, project, overlapped, kills, server, lastId, revoked, raced>>
    BY <1>8 DEF GetWorkspace
  <2>2. {"failed", "bind", "confirmed"} \subseteq Pcs \ Opening
    BY DEF Pcs, Ended
  <2>3. ProcTypes'
    BY <2>1, <2>2, GotoStep
  <2> QED BY <2>1, <2>3 DEF TypeOK
<1>9. CASE DeleteWorkspace(p)
  <2>1. /\ \E pc \in {"failed", "done"} : Goto(p, pc)
        /\ proc[p].pc = "confirmed" /\ server' \subseteq server
        /\ UNCHANGED <<creds, project, overlapped, kills, lastId, revoked, raced>>
    BY <1>9 DEF DeleteWorkspace
  <2>2. {"failed", "done"} \subseteq Pcs \ Opening
    BY DEF Pcs, Ended
  <2>3. ProcTypes'
    BY <2>1, <2>2, GotoStep
  <2> QED BY <2>1, <2>3 DEF TypeOK
<1> QED BY <1>2, <1>3, <1>4, <1>5, <1>6, <1>7, <1>8, <1>9 DEF Quiet

\* The steps of the two saves.
LEMMA SaveTypes ==
    ASSUME TypeOK, CommandInv, NEW p \in Procs, Save(p)
    PROVE  TypeOK'
<1> DEFINE ProcTypes ==
        /\ proc \in [Procs -> Processes]
        /\ \A q \in Procs : proc[q].cmd \in Commands[q] /\ (proc[q].pc \in Opening <=> proc[q].inode # None)
<1>0. /\ creds \in Files(Sessions) /\ project \in Files(Bindings)
      /\ proc[p] \in Processes /\ overlapped \subseteq Shared
      /\ proc[p].pc \in Opening <=> proc[p].inode # None
  BY DEF TypeOK
<1>1. /\ UNCHANGED <<kills, server, lastId, revoked, raced>>
      /\ creds' \in Files(Sessions) /\ project' \in Files(Bindings) /\ overlapped' \subseteq Shared /\ ProcTypes'
      => TypeOK'
  BY DEF TypeOK
<1>2. proc[p].pc \in Opening => proc[p].inode \in Inodes
  BY <1>0 DEF Processes
<1>3. /\ [creds EXCEPT !.final = None] \in Files(Sessions) /\ RemoveTmp(creds) \in Files(Sessions)
      /\ [project EXCEPT !.final = None] \in Files(Bindings) /\ RemoveTmp(project) \in Files(Bindings)
  BY <1>0, RemoveEffect
<1>4. ASSUME NEW pc \in Pcs \ Opening, proc[p].pc \notin Opening, Goto(p, pc)
      PROVE  ProcTypes'
  <2>1. 0 \in Ids \cup {0}
    OBVIOUS
  <2> QED BY <1>4, <2>1, GotoStep
<1>5. ASSUME NEW i \in Inodes, NEW pc \in Opening, proc' = [proc EXCEPT ![p].pc = pc, ![p].inode = i]
      PROVE  ProcTypes'
  <2> DEFINE r == [proc[p] EXCEPT !.pc = pc, !.inode = i]
  <2>1. proc' = [proc EXCEPT ![p] = r] /\ i # None
    BY <1>5, InodeIsAName DEF TypeOK
  <2>2. r \in Processes /\ r.cmd = proc[p].cmd /\ r.pc \in Opening /\ r.inode # None
    BY <1>0, <2>1 DEF Processes, Pcs, Opening
  <2> HIDE DEF r
  <2> QED BY <2>1, <2>2, ProcStep
<1>6. ASSUME NEW pc \in Pcs \ Opening, proc' = [proc EXCEPT ![p].pc = pc, ![p].inode = None]
      PROVE  ProcTypes'
  <2> DEFINE r == [proc[p] EXCEPT !.pc = pc, !.inode = None]
  <2>1. proc' = [proc EXCEPT ![p] = r]
    BY <1>6 DEF TypeOK
  <2>2. r \in Processes /\ r.cmd = proc[p].cmd /\ r.pc \notin Opening /\ r.inode = None
    BY <1>0 DEF Processes
  <2> HIDE DEF r
  <2> QED BY <2>1, <2>2, ProcStep
<1>7. /\ "opened" \in Opening /\ "bindOpened" \in Opening
      /\ {"cleaned", "written", "renamed", "unnamed", "bindWritten", "bindUnnamed", "done", "failed"}
            \subseteq Pcs \ Opening
  BY DEF Opening, Pcs, Ended
<1> USE DEF files, remote, Runs
<1>8. CASE Clean(p)
  <2>1. proc[p].pc \notin Opening
    BY <1>8, <1>0 DEF Clean, Opening
  <2>2. Goto(p, "cleaned") /\ creds' = RemoveTmp(creds)
        /\ UNCHANGED <<project, kills, overlapped, server, lastId, revoked, raced>>
    BY <1>8 DEF Clean
  <2>3. ProcTypes'
    BY <2>1, <2>2, <1>4, <1>7
  <2> QED BY <1>0, <1>1, <1>3, <2>2, <2>3
<1>9. CASE OpenCredentials(p)
  <2> DEFINE i == Opened(creds, Held)
  <2>1. i \in Inodes /\ Open(creds, i) \in Files(Sessions)
    BY <1>0, OpenedIsInode, OpenEffect
  <2>2. creds' \in Files(Sessions) /\ project' \in Files(Bindings)
    BY <1>0, <1>9, <2>1 DEF OpenCredentials
  <2>3. proc' = [proc EXCEPT ![p].pc = "opened", ![p].inode = i]
    BY <1>9 DEF OpenCredentials
  <2> HIDE DEF i
  <2>4. ProcTypes'
    BY <1>5, <1>7, <2>1, <2>3
  <2>5. overlapped' \subseteq Shared
    BY <1>0, <1>9 DEF OpenCredentials, Shared
  <2>6. UNCHANGED <<kills, server, lastId, revoked, raced>>
    BY <1>9 DEF OpenCredentials
  <2> QED BY <1>1, <2>2, <2>4, <2>5, <2>6
<1>10. CASE WriteCredentials(p)
  <2>1. proc[p].inode \in Inodes /\ Session(p) \in Sessions
    BY <1>2, <1>7, <1>10 DEF WriteCredentials, Sessions
  <2>2. creds' \in Files(Sessions)
    BY <1>0, <1>10, <2>1, WrittenEffect DEF WriteCredentials
  <2>3. ProcTypes'
    BY <1>6, <1>7, <1>10 DEF WriteCredentials
  <2> QED BY <1>0, <1>1, <1>10, <2>2, <2>3 DEF WriteCredentials
<1>11. CASE RenameCredentials(p)
  <2>1. creds' \in Files(Sessions)
    BY <1>0, <1>11, RenameEffect DEF RenameCredentials
  <2>2. ProcTypes'
    BY <1>4, <1>7, <1>11 DEF RenameCredentials, Opening
  <2> QED BY <1>0, <1>1, <1>11, <2>1, <2>2 DEF RenameCredentials
<1>12. CASE GiveUpCredentials(p)
  BY <1>0, <1>1, <1>3, <1>4, <1>7, <1>12 DEF GiveUpCredentials, Opening
<1>13. CASE ChmodCredentials(p)
  BY <1>0, <1>1, <1>4, <1>7, <1>13 DEF ChmodCredentials, Opening
<1>14. CASE ClearCredentials(p)
  BY <1>0, <1>1, <1>3, <1>4, <1>7, <1>14 DEF ClearCredentials, Opening
<1>15. CASE OpenProject(p)
  <2> DEFINE i == Opened(project, Held)
  <2>1. i \in Inodes /\ Open(project, i) \in Files(Bindings)
    BY <1>0, OpenedIsInode, OpenEffect
  <2>2. creds' \in Files(Sessions) /\ project' \in Files(Bindings)
    BY <1>0, <1>15, <2>1 DEF OpenProject
  <2>3. proc' = [proc EXCEPT ![p].pc = "bindOpened", ![p].inode = i]
    BY <1>15 DEF OpenProject
  <2> HIDE DEF i
  <2>4. ProcTypes'
    BY <1>5, <1>7, <2>1, <2>3
  <2>5. overlapped' \subseteq Shared
    BY <1>0, <1>15 DEF OpenProject, Shared
  <2>6. UNCHANGED <<kills, server, lastId, revoked, raced>>
    BY <1>15 DEF OpenProject
  <2> QED BY <1>1, <2>2, <2>4, <2>5, <2>6
<1>16. CASE WriteProject(p)
  <2>1. proc[p].inode \in Inodes /\ Bound(proc[p].ws) \in Bindings
    BY <1>2, <1>7, <1>16 DEF WriteProject, Bindings, CommandInv, BindPcs
  <2>2. project' \in Files(Bindings)
    BY <1>0, <1>16, <2>1, WrittenEffect DEF WriteProject
  <2>3. ProcTypes'
    BY <1>6, <1>7, <1>16 DEF WriteProject
  <2> QED BY <1>0, <1>1, <1>16, <2>2, <2>3 DEF WriteProject
<1>17. CASE RenameProject(p)
  <2>1. project' \in Files(Bindings)
    BY <1>0, <1>17, RenameEffect DEF RenameProject
  <2>2. ProcTypes'
    BY <1>4, <1>7, <1>17 DEF RenameProject, Opening
  <2> QED BY <1>0, <1>1, <1>17, <2>1, <2>2 DEF RenameProject
<1>18. CASE GiveUpProject(p)
  BY <1>0, <1>1, <1>3, <1>4, <1>7, <1>18 DEF GiveUpProject, Opening
<1>19. CASE Unlink(p)
  BY <1>0, <1>1, <1>3, <1>4, <1>7, <1>19 DEF Unlink, Opening
<1> QED BY <1>8, <1>9, <1>10, <1>11, <1>12, <1>13, <1>14, <1>15, <1>16, <1>17, <1>18, <1>19 DEF Save

LEMMA KillTypes ==
    ASSUME TypeOK, NEW p \in Procs, Kill(p)
    PROVE  TypeOK'
<1> DEFINE r == [proc[p] EXCEPT !.pc = "killed", !.inode = None]
<1>1. proc[p] \in Processes
  BY DEF TypeOK
<1>2. proc' = [proc EXCEPT ![p] = r] /\ r.cmd = proc[p].cmd /\ r.pc = "killed" /\ r.inode = None
  BY <1>1 DEF Kill, TypeOK, Processes
<1>3. r \in Processes /\ "killed" \notin Opening
  BY <1>1 DEF Processes, Pcs, Ended, Opening
<1> HIDE DEF r
<1>4. /\ proc' \in [Procs -> Processes]
      /\ \A q \in Procs :
           proc'[q].cmd \in Commands[q] /\ (proc'[q].pc \in Opening <=> proc'[q].inode # None)
  BY <1>2, <1>3, ProcStep
<1>5. kills' \in 0 .. MaxKills
  BY UserCommandsAssumption DEF Kill, TypeOK
<1>6. UNCHANGED <<creds, project, server, lastId, revoked, overlapped, raced>>
  BY DEF Kill, files, remote
<1> QED BY <1>4, <1>5, <1>6 DEF TypeOK

LEMMA TypeStep ==
    ASSUME TypeOK, CommandInv, Next
    PROVE  TypeOK'
  BY NextCases, QuietTypes, SaveTypes, KillTypes

-----------------------------------------------------------------------------
(* The steps, by what they do to the processes *)

\* What the step of one process leaves of the others.
Others(p) ==
    \A q \in Procs \ {p} : /\ proc'[q].cmd = proc[q].cmd /\ proc'[q].pc = proc[q].pc
                           /\ proc'[q].ws = proc[q].ws /\ proc'[q].inode = proc[q].inode

Moves(p, from, to) ==
    /\ Others(p) /\ proc[p].pc \in from /\ proc'[p].pc \in to
    /\ proc'[p].cmd = proc[p].cmd

LEMMA GotoMoves ==
    ASSUME TypeOK, NEW p \in Procs, NEW pc, NEW w, Goto(p, pc) \/ GotoWith(p, pc, w)
    PROVE  /\ Others(p) /\ proc'[p].pc = pc /\ proc'[p].cmd = proc[p].cmd
           /\ proc'[p].ws = IF Goto(p, pc) THEN proc[p].ws ELSE w
           /\ Goto(p, pc) => proc'[p].inode = proc[p].inode
           /\ \A q \in Procs : proc'[q].blind = proc[q].blind
<1>1. proc \in [Procs -> Processes]
  BY DEF TypeOK
<1>2. CASE Goto(p, pc)
  BY <1>1, <1>2 DEF Goto, Others, Processes
<1>3. CASE GotoWith(p, pc, w) /\ ~Goto(p, pc)
  BY <1>1, <1>3 DEF GotoWith, Others, Processes
<1> QED BY <1>2, <1>3

\* Between the saves, each command follows its own course to a save or to an end.
LEMMA QuietMoves ==
    ASSUME TypeOK, CommandInv, NEW p \in Procs, Quiet(p)
    PROVE  /\ Moves(p, {"start", "cleaned", "loaded", "authed", "create", "confirmed"},
                    {"load", "loaded", "authed", "save", "clear", "create", "confirmed", "unlink", "bind",
                     "done", "failed"})
           /\ UNCHANGED <<creds, project, overlapped>>
           /\ proc'[p].pc = "save" => proc[p].cmd = "login"
           /\ proc'[p].pc = "clear" => proc[p].cmd = "logout"
           /\ proc'[p].pc = "unlink" => proc[p].cmd = "unlink"
           /\ proc'[p].pc = "confirmed" => proc[p].cmd = "delete"
           /\ proc'[p].pc = "done" => proc[p].cmd \in {"list", "delete"}
           /\ proc'[p].pc = "bind" => proc[p].cmd \in {"init", "relink", "sync"} /\ proc'[p].ws \in Ids
           /\ proc[p].cmd = "sync" /\ proc'[p].pc # "failed" => proc'[p].ws \in Ids
<1>0. proc \in [Procs -> Processes]
  BY DEF TypeOK
<1> USE DEF files, remote, Runs, Moves
<1>1. CASE ReadCredentials(p)
  <2>1. /\ Others(p) /\ proc'[p].pc = "loaded" /\ proc[p].pc = "cleaned"
        /\ proc'[p].cmd = proc[p].cmd /\ proc'[p].ws = proc[p].ws
    BY <1>0, <1>1 DEF ReadCredentials, Others, Processes
  <2>2. proc[p].cmd = "sync" => proc[p].ws \in Ids
    BY <2>1 DEF CommandInv
  <2> QED BY <1>1, <2>1, <2>2 DEF ReadCredentials
<1>2. CASE requireAuth(p) \/ Verify(p) \/ ListOnly(p) \/ CreateRefused(p)
  <2>1. PICK pc \in {"failed", "authed", "save", "done"} : Goto(p, pc)
    BY <1>2 DEF requireAuth, Verify, ListOnly, CreateRefused
  <2>2. /\ pc = "save" => proc[p].cmd = "login"
        /\ pc = "done" => proc[p].cmd = "list"
        /\ pc = "authed" => proc[p].pc = "loaded"
    BY <1>2, <2>1, GotoMoves DEF requireAuth, Verify, ListOnly, CreateRefused
  <2>3. proc[p].pc \in {"start", "loaded", "authed", "create"} /\ UNCHANGED <<creds, project, overlapped>>
    BY <1>2 DEF requireAuth, Verify, ListOnly, CreateRefused
  <2>4. Others(p) /\ proc'[p].pc = pc /\ proc'[p].cmd = proc[p].cmd /\ proc'[p].ws = proc[p].ws
    BY <2>1, GotoMoves
  <2>5. proc[p].cmd = "sync" /\ pc # "failed" => proc[p].ws \in Ids
    BY <2>2 DEF CommandInv
  <2> QED BY <2>1, <2>2, <2>3, <2>4, <2>5
<1>3. CASE RevokeBestEffort(p)
  BY <1>3, GotoMoves DEF RevokeBestEffort
<1>4. CASE LoadProjectConfig(p)
  <2> DEFINE c == Content(project)
             fits == IF proc[p].cmd = "init" THEN project.final = None ELSE project.final # None /\ IsWhole(c)
             next == IF proc[p].cmd = "unlink" THEN "unlink" ELSE "load"
             w == IF fits /\ proc[p].cmd = "sync" THEN c[2] ELSE 0
             pc == IF fits THEN next ELSE "failed"
  <2>1. /\ proc[p].cmd \in {"init", "sync", "unlink"} /\ proc[p].pc = "start"
        /\ UNCHANGED <<creds, project, overlapped>>
    BY <1>4 DEF LoadProjectConfig
  <2>2. [init |-> "load", sync |-> "load", unlink |-> "unlink"][proc[p].cmd] = next
    BY <2>1
  <2>3. GotoWith(p, pc, w)
    BY <1>4, <2>2 DEF LoadProjectConfig
  <2>4. fits /\ proc[p].cmd = "sync" => w \in Ids
    <3>1. IsWhole(c) => \E i \in Ids : c = Bound(i)
      BY ContentType DEF TypeOK, Bindings
    <3> QED BY <3>1 DEF Bound
  <2>5. Others(p) /\ proc'[p].pc = pc /\ proc'[p].cmd = proc[p].cmd
    BY <2>3, GotoMoves
  <2>6. proc'[p].ws = w
    BY <1>0, <2>3 DEF GotoWith, Processes
  <2> HIDE DEF w, c
  <2> QED BY <2>1, <2>4, <2>5, <2>6
<1>5. CASE reuseExistingWorkspace(p)
  <2>1. proc[p].pc = "authed" /\ proc[p].cmd = "init" /\ UNCHANGED <<creds, project, overlapped>>
    BY <1>5 DEF reuseExistingWorkspace
  <2>2. CASE Goto(p, "create")
    BY <2>1, <2>2, GotoMoves
  <2>3. CASE \E w \in Reusable : GotoWith(p, "bind", w.id)
    <3>1. PICK w \in Reusable : GotoWith(p, "bind", w.id)
      BY <2>3
    <3>2. w.id \in Ids
      BY DEF Reusable, Named, TypeOK, Workspaces
    <3>3. Others(p) /\ proc'[p].pc = "bind" /\ proc'[p].cmd = proc[p].cmd
      BY <3>1, GotoMoves
    <3>4. proc'[p].ws = w.id
      BY <1>0, <3>1 DEF GotoWith, Processes
    <3> QED BY <2>1, <3>2, <3>3, <3>4
  <2>4. CASE proc' = [proc EXCEPT ![p].pc = "create", ![p].blind = TRUE]
    <3>1. Others(p) /\ proc'[p].pc = "create" /\ proc'[p].cmd = proc[p].cmd
      BY <1>0, <2>4 DEF Others, Processes
    <3> QED BY <2>1, <3>1
  <2> QED BY <1>5, <2>2, <2>3, <2>4 DEF reuseExistingWorkspace
<1>6. CASE CreateWorkspace(p)
  <2>1. lastId + 1 \in Ids
    BY <1>6, UserCommandsAssumption DEF CreateWorkspace, TypeOK, Ids
  <2>2. PICK pc \in {"bind", "failed"} :
            proc' = [q \in Procs |->
                       IF q = p THEN [proc[p] EXCEPT !.pc = pc, !.ws = lastId + 1]
                       ELSE [proc[q] EXCEPT !.blind = proc[q].blind \/ proc[q].pc = "create"]]
    BY <1>6 DEF CreateWorkspace
  <2>3. proc'[p].pc = pc /\ proc'[p].cmd = proc[p].cmd /\ proc'[p].ws = lastId + 1
    BY <1>0, <2>2 DEF Processes
  <2>4. Others(p)
    BY <1>0, <2>2 DEF Others, Processes
  <2>5. proc[p].pc = "create" /\ proc[p].cmd = "init" /\ UNCHANGED <<creds, project, overlapped>>
    BY <1>6 DEF CreateWorkspace
  <2> QED BY <2>1, <2>3, <2>4, <2>5
<1>7. CASE GetWorkspace(p)
  <2>1. PICK w \in Ids :
            GotoWith(p, IF ~Valid(p) \/ ~OnServer(w) THEN "failed"
                        ELSE IF proc[p].cmd = "relink" THEN "bind" ELSE "confirmed", w)
    BY <1>7 DEF GetWorkspace
  <2>2. /\ Others(p) /\ proc'[p].cmd = proc[p].cmd
        /\ proc'[p].pc \in {"failed", IF proc[p].cmd = "relink" THEN "bind" ELSE "confirmed"}
    BY <2>1, GotoMoves
  <2>3. proc'[p].ws = w
    BY <1>0, <2>1 DEF GotoWith, Processes
  <2>4. proc[p].cmd \in {"relink", "delete"} /\ proc[p].pc = "authed" /\ UNCHANGED <<creds, project, overlapped>>
    BY <1>7 DEF GetWorkspace
  <2> QED BY <2>2, <2>3, <2>4
<1>8. CASE DeleteWorkspace(p)
  <2>1. /\ proc[p].pc = "confirmed" /\ proc[p].cmd = "delete"
        /\ UNCHANGED <<creds, project, overlapped>>
    BY <1>8 DEF DeleteWorkspace, CommandInv
  <2>2. PICK pc \in {"done", "failed"} : Goto(p, pc)
    BY <1>8 DEF DeleteWorkspace
  <2> QED BY <2>1, <2>2, GotoMoves
<1>9. CASE ParseWorkspace(p)
  <2>1. proc[p].pc = "authed" /\ proc[p].cmd = "sync" /\ UNCHANGED <<creds, project, overlapped>>
    BY <1>9 DEF ParseWorkspace
  <2>2. PICK pc \in {"bind", "failed"} : Goto(p, pc)
    BY <1>9 DEF ParseWorkspace
  <2>3. proc[p].ws \in Ids
    BY <2>1 DEF CommandInv
  <2>4. Others(p) /\ proc'[p].pc = pc /\ proc'[p].cmd = proc[p].cmd /\ proc'[p].ws = proc[p].ws
    BY <2>2, GotoMoves
  <2> QED BY <2>1, <2>2, <2>3, <2>4
<1> QED BY <1>1, <1>2, <1>3, <1>4, <1>5, <1>6, <1>7, <1>8, <1>9 DEF Quiet

\* The saves, step by step.
LEMMA SaveMoves ==
    ASSUME TypeOK, NEW p \in Procs
    PROVE  /\ Save(p) => proc'[p].ws = proc[p].ws
           /\ Clean(p) => Moves(p, {"start", "load"}, {"cleaned"})
                          /\ (proc[p].pc = "start" => proc[p].cmd \in LoadsFirst)
           /\ OpenCredentials(p) => Moves(p, {"save"}, {"opened"}) /\ proc'[p].inode = Opened(creds, Held)
           /\ WriteCredentials(p) => Moves(p, {"opened"}, {"written"})
           /\ RenameCredentials(p) =>
                Moves(p, {"written"}, {IF creds.tmp = None THEN "unnamed" ELSE "renamed"})
           /\ GiveUpCredentials(p) => Moves(p, {"unnamed"}, {"failed"})
           /\ ChmodCredentials(p) => Moves(p, {"renamed"}, {"done", "failed"})
           /\ ClearCredentials(p) => Moves(p, {"clear"}, {"done"})
           /\ OpenProject(p) => Moves(p, {"bind"}, {"bindOpened"}) /\ proc'[p].inode = Opened(project, Held)
           /\ WriteProject(p) => Moves(p, {"bindOpened"}, {"bindWritten"})
           /\ RenameProject(p) =>
                Moves(p, {"bindWritten"}, {IF project.tmp = None THEN "bindUnnamed" ELSE "done"})
           /\ GiveUpProject(p) =>
                Moves(p, {"bindUnnamed"}, {IF proc[p].cmd = "sync" THEN "done" ELSE "failed"})
           /\ Unlink(p) => Moves(p, {"unlink"}, {"done"})
<1>1. proc \in [Procs -> Processes]
  BY DEF TypeOK
<1>2. ASSUME NEW pc, NEW i, proc' = [proc EXCEPT ![p].pc = pc, ![p].inode = i]
      PROVE  /\ Others(p) /\ proc'[p].pc = pc /\ proc'[p].cmd = proc[p].cmd
             /\ proc'[p].ws = proc[p].ws /\ proc'[p].inode = i
  BY <1>1, <1>2 DEF Others, Processes
<1>3. ASSUME NEW pc, Goto(p, pc)
      PROVE  Others(p) /\ proc'[p].pc = pc /\ proc'[p].cmd = proc[p].cmd /\ proc'[p].ws = proc[p].ws
  BY <1>3, GotoMoves
<1> USE DEF Moves, Runs
<1>4. Clean(p) => Moves(p, {"start", "load"}, {"cleaned"}) /\ proc'[p].ws = proc[p].ws
                  /\ (proc[p].pc = "start" => proc[p].cmd \in LoadsFirst)
  BY <1>3 DEF Clean
<1>5. OpenCredentials(p) => /\ Moves(p, {"save"}, {"opened"}) /\ proc'[p].ws = proc[p].ws
                            /\ proc'[p].inode = Opened(creds, Held)
  BY <1>2 DEF OpenCredentials
<1>6. WriteCredentials(p) => Moves(p, {"opened"}, {"written"}) /\ proc'[p].ws = proc[p].ws
  BY <1>2 DEF WriteCredentials
<1>7. RenameCredentials(p) => /\ Moves(p, {"written"}, {IF creds.tmp = None THEN "unnamed" ELSE "renamed"})
                              /\ proc'[p].ws = proc[p].ws
  BY <1>3 DEF RenameCredentials
<1>8. /\ GiveUpCredentials(p) => Moves(p, {"unnamed"}, {"failed"}) /\ proc'[p].ws = proc[p].ws
      /\ ClearCredentials(p) => Moves(p, {"clear"}, {"done"}) /\ proc'[p].ws = proc[p].ws
      /\ Unlink(p) => Moves(p, {"unlink"}, {"done"}) /\ proc'[p].ws = proc[p].ws
  BY <1>3 DEF GiveUpCredentials, ClearCredentials, Unlink
<1>9. ChmodCredentials(p) => Moves(p, {"renamed"}, {"done", "failed"}) /\ proc'[p].ws = proc[p].ws
  BY <1>3 DEF ChmodCredentials
<1>10. OpenProject(p) => /\ Moves(p, {"bind"}, {"bindOpened"}) /\ proc'[p].ws = proc[p].ws
                         /\ proc'[p].inode = Opened(project, Held)
  BY <1>2 DEF OpenProject
<1>11. WriteProject(p) => Moves(p, {"bindOpened"}, {"bindWritten"}) /\ proc'[p].ws = proc[p].ws
  BY <1>2 DEF WriteProject
<1>12. RenameProject(p) => /\ Moves(p, {"bindWritten"}, {IF project.tmp = None THEN "bindUnnamed" ELSE "done"})
                           /\ proc'[p].ws = proc[p].ws
  BY <1>3 DEF RenameProject
<1>13. GiveUpProject(p) => /\ Moves(p, {"bindUnnamed"}, {IF proc[p].cmd = "sync" THEN "done" ELSE "failed"})
                           /\ proc'[p].ws = proc[p].ws
  BY <1>3 DEF GiveUpProject
<1> HIDE DEF Moves, Runs
<1> QED BY <1>4, <1>5, <1>6, <1>7, <1>8, <1>9, <1>10, <1>11, <1>12, <1>13 DEF Save

LEMMA KillMoves ==
    ASSUME TypeOK, NEW p \in Procs, Kill(p)
    PROVE  /\ Others(p) /\ proc'[p].pc = "killed" /\ proc'[p].cmd = proc[p].cmd
           /\ UNCHANGED <<creds, project, overlapped, server, raced>>
  BY DEF Kill, TypeOK, Processes, Others, files, remote

\* Each command is at a step of its own.
LEMMA CommandStep ==
    ASSUME TypeOK, CommandInv, Next
    PROVE  CommandInv'
<1>1. PICK p \in Procs : Quiet(p) \/ Save(p) \/ Kill(p)
  BY NextCases
<1>2. Others(p) /\ proc'[p].cmd = proc[p].cmd
  BY <1>1, QuietMoves, SaveMoves, KillMoves DEF Moves, Save
<1> SUFFICES ASSUME NEW q \in Procs
             PROVE  /\ proc'[q].pc \in LoginPcs => proc'[q].cmd = "login"
                    /\ proc'[q].pc = "clear" => proc'[q].cmd = "logout"
                    /\ proc'[q].pc = "unlink" => proc'[q].cmd = "unlink"
                    /\ proc'[q].pc = "confirmed" => proc'[q].cmd = "delete"
                    /\ proc'[q].pc \in BindPcs =>
                         proc'[q].cmd \in {"init", "relink", "sync"} /\ proc'[q].ws \in Ids
                    /\ proc'[q].cmd = "sync" /\ proc'[q].pc \notin {"start", "failed", "killed"} =>
                         proc'[q].ws \in Ids
  BY DEF CommandInv
<1>3. CASE q # p
  BY <1>2, <1>3 DEF Others, CommandInv
<1>4. CASE q = p /\ Quiet(p)
  BY <1>2, <1>4, QuietMoves DEF Moves, LoginPcs, BindPcs
<1>5. CASE q = p /\ Save(p)
  <2>1. proc'[p].ws = proc[p].ws
    BY <1>5, SaveMoves
  <2>2. CASE Clean(p)
    BY <1>2, <1>5, <2>1, <2>2, SaveMoves DEF Moves, LoginPcs, BindPcs, CommandInv, LoadsFirst
  <2>3. CASE \/ OpenCredentials(p) \/ WriteCredentials(p) \/ RenameCredentials(p) \/ GiveUpCredentials(p)
             \/ ChmodCredentials(p) \/ ClearCredentials(p)
    <3>1. proc[p].cmd \in SessionCmds
      BY <2>3, SaveMoves DEF Moves, CommandInv, LoginPcs, SessionCmds
    <3>2. /\ proc'[p].pc \in {"opened", "written", "renamed", "unnamed"} => proc[p].pc \in LoginPcs
          /\ proc'[p].pc \in {"opened", "written", "renamed", "unnamed", "done", "failed"}
      BY <2>3, SaveMoves DEF Moves, LoginPcs
    <3> QED BY <1>2, <1>5, <3>1, <3>2 DEF LoginPcs, BindPcs, SessionCmds, CommandInv
  <2>4. CASE OpenProject(p) \/ WriteProject(p) \/ RenameProject(p) \/ GiveUpProject(p)
    <3>1. proc[p].pc \in BindPcs /\ proc'[p].pc \in BindPcs \cup {"done", "failed"}
      BY <2>4, SaveMoves DEF Moves, BindPcs
    <3> QED BY <1>2, <1>5, <2>1, <3>1 DEF LoginPcs, BindPcs, CommandInv
  <2>5. CASE Unlink(p)
    <3>1. proc[p].pc = "unlink" /\ proc'[p].pc = "done"
      BY <2>5, SaveMoves DEF Moves
    <3> QED BY <1>2, <1>5, <3>1 DEF LoginPcs, BindPcs, CommandInv
  <2> QED BY <1>5, <2>2, <2>3, <2>4, <2>5 DEF Save
<1>6. CASE q = p /\ Kill(p)
  BY <1>2, <1>6, KillMoves DEF LoginPcs, BindPcs
<1> QED BY <1>1, <1>3, <1>4, <1>5, <1>6

\* .tmp is never the file of the final name.
LEMMA NamesStep ==
    ASSUME TypeOK, CommandInv, NamesInv, Next
    PROVE  NamesInv'
<1>1. PICK p \in Procs : Quiet(p) \/ Save(p) \/ Kill(p)
  BY NextCases
<1>2. creds \in Files(Sessions) /\ project \in Files(Bindings)
  BY DEF TypeOK
<1>3. ASSUME NEW bodies, NEW dir \in Files(bodies), Distinct(dir)
      PROVE  /\ Distinct(RemoveTmp(dir)) /\ Distinct([dir EXCEPT !.final = None])
             /\ Distinct(Open(dir, Opened(dir, Held)))
             /\ dir.tmp # None => Distinct(Rename(dir))
  <2>1. Distinct(RemoveTmp(dir)) /\ Distinct([dir EXCEPT !.final = None])
    BY <1>3, RemoveEffect DEF Distinct
  <2>2. Distinct(Open(dir, Opened(dir, Held)))
    <3>1. Opened(dir, Held) \in Inodes /\ Opened(dir, Held) # dir.final
      BY <1>3, OpenedIsInode
    <3>2. /\ Open(dir, Opened(dir, Held)).tmp = Opened(dir, Held)
          /\ Open(dir, Opened(dir, Held)).final = dir.final
      BY <3>1, OpenEffect
    <3> QED BY <3>1, <3>2 DEF Distinct
  <2>3. dir.tmp # None => Distinct(Rename(dir))
    BY RenameEffect DEF Distinct
  <2> QED BY <2>1, <2>2, <2>3
<1>4. /\ proc[p].pc \in Opening => proc[p].inode \in Inodes
      /\ proc[p].pc = "bindOpened" => Bound(proc[p].ws) \in Bindings
      /\ Session(p) \in Sessions
  BY DEF TypeOK, Processes, CommandInv, BindPcs, Bindings, Sessions
<1> USE DEF NamesInv
<1>5. CASE Quiet(p) \/ Kill(p)
  BY <1>5, QuietMoves, KillMoves DEF Distinct
<1>6. CASE Clean(p) \/ GiveUpCredentials(p)
  BY <1>2, <1>3, <1>6 DEF Clean, GiveUpCredentials
<1>7. CASE OpenCredentials(p)
  BY <1>2, <1>3, <1>7 DEF OpenCredentials
<1>8. CASE WriteCredentials(p)
  <2>1. creds'.tmp = creds.tmp /\ creds'.final = creds.final
    BY <1>2, <1>4, <1>8, WrittenEffect DEF WriteCredentials, Opening
  <2> QED BY <1>8, <2>1 DEF WriteCredentials, Distinct
<1>9. CASE RenameCredentials(p)
  BY <1>2, <1>3, <1>9 DEF RenameCredentials
<1>10. CASE ChmodCredentials(p)
  BY <1>10 DEF ChmodCredentials, files
<1>11. CASE ClearCredentials(p)
  BY <1>2, <1>3, <1>11 DEF ClearCredentials
<1>12. CASE OpenProject(p)
  BY <1>2, <1>3, <1>12 DEF OpenProject
<1>13. CASE WriteProject(p)
  <2>1. project'.tmp = project.tmp /\ project'.final = project.final
    BY <1>2, <1>4, <1>13, WrittenEffect DEF WriteProject, Opening
  <2> QED BY <1>13, <2>1 DEF WriteProject, Distinct
<1>14. CASE RenameProject(p)
  BY <1>2, <1>3, <1>14 DEF RenameProject
<1>15. CASE GiveUpProject(p)
  BY <1>2, <1>3, <1>15 DEF GiveUpProject
<1>16. CASE Unlink(p)
  BY <1>2, <1>3, <1>16 DEF Unlink
<1> QED BY <1>1, <1>5, <1>6, <1>7, <1>8, <1>9, <1>10, <1>11, <1>12, <1>13, <1>14, <1>15, <1>16 DEF Save

-----------------------------------------------------------------------------
(* Saves that do not overlap *)

\* Whatever does not write the files, or takes a name away.
LEMMA SavesPersist ==
    ASSUME NEW bodies, NEW dir \in Files(bodies), NEW d \in Files(bodies),
           NEW ps, NEW qs, NEW opened, NEW written, NEW b, NEW c,
           \A q \in Procs : ps[q].pc = opened => ps[q].inode \in Inodes,
           SavesInv(dir, ps, opened, written, b),
           d.tmp \in {dir.tmp, None}, d.final \in {dir.final, None}, d.data = dir.data,
           \A q \in Procs : qs[q].pc \in {opened, written} =>
                qs[q].pc = ps[q].pc /\ qs[q].inode = ps[q].inode /\ c[q] = b[q]
    PROVE  SavesInv(d, qs, opened, written, c)
<1>1. \A p, q \in Procs : qs[p].pc \in {opened, written} /\ qs[q].pc \in {opened, written} => p = q
  BY DEF SavesInv
<1>2. ASSUME NEW p \in Procs, qs[p].pc = opened
      PROVE  Opener(d, qs[p].inode)
  BY <1>2, InodeIsAName DEF SavesInv, Opener
<1>3. ASSUME NEW p \in Procs, qs[p].pc = written
      PROVE  d.tmp = None \/ d.data[d.tmp] = c[p]
  BY <1>3 DEF SavesInv
<1>4. d.final # None => IsWhole(Content(d))
  BY DEF SavesInv, Content
<1> QED BY <1>1, <1>2, <1>3, <1>4 DEF SavesInv

LEMMA SavesOpen ==
    ASSUME NEW bodies, NEW dir \in Files(bodies), NEW i \in Inodes, NEW p \in Procs,
           NEW ps, NEW qs, NEW opened, NEW written, NEW b, NEW c,
           SavesInv(dir, ps, opened, written, b), i # dir.final,
           \A q \in Procs : ps[q].pc \notin {opened, written},
           qs[p].pc = opened, qs[p].inode = i, opened # written,
           \A q \in Procs \ {p} : qs[q].pc = ps[q].pc
    PROVE  SavesInv(Open(dir, i), qs, opened, written, c)
<1>1. \A q \in Procs : qs[q].pc \in {opened, written} => q = p
  OBVIOUS
<1>2. Opener(Open(dir, i), qs[p].inode)
  BY OpenEffect DEF Opener
<1>3. Open(dir, i).final # None => IsWhole(Content(Open(dir, i)))
  <2>1. dir.final # None => dir.final \in Inodes
    BY DEF Files
  <2> QED BY <2>1, OpenEffect DEF SavesInv, Content
<1> QED BY <1>1, <1>2, <1>3 DEF SavesInv

LEMMA SavesWrite ==
    ASSUME NEW bodies, NEW dir \in Files(bodies), NEW p \in Procs,
           NEW ps, NEW qs, NEW opened, NEW written, NEW b, NEW c,
           SavesInv(dir, ps, opened, written, b),
           ps[p].pc = opened, ps[p].inode \in Inodes, qs[p].pc = written, opened # written,
           c[p] \in bodies, IsWhole(c[p]), NEW d \in Written(dir, ps[p].inode, c[p]),
           \A q \in Procs \ {p} : qs[q].pc = ps[q].pc
    PROVE  SavesInv(d, qs, opened, written, c)
<1> DEFINE i == ps[p].inode
           body == c[p]
<1>1. \A q \in Procs : qs[q].pc \in {opened, written} => q = p
  BY DEF SavesInv
<1>2. dir.data[i] = Empty /\ i # dir.final /\ dir.tmp \in {None, i}
  BY DEF SavesInv, Opener
<1>3. /\ d.tmp = dir.tmp /\ d.final = dir.final /\ d.data[i] = body
      /\ \A j \in Inodes \ {i} : d.data[j] = dir.data[j]
  BY <1>2, WrittenEffect
<1>4. d.final # None => IsWhole(Content(d))
  <2>1. dir.final # None => dir.final \in Inodes
    BY DEF Files
  <2> QED BY <1>2, <1>3, <2>1 DEF SavesInv, Content
<1> QED BY <1>1, <1>2, <1>3, <1>4 DEF SavesInv

LEMMA SavesRename ==
    ASSUME NEW bodies, NEW dir \in Files(bodies), NEW p \in Procs, dir.tmp # None, Distinct(dir),
           NEW ps, NEW qs, NEW opened, NEW written, NEW b, NEW c,
           SavesInv(dir, ps, opened, written, b),
           ps[p].pc = written, IsWhole(b[p]), qs[p].pc \notin {opened, written},
           \A q \in Procs \ {p} : qs[q].pc = ps[q].pc
    PROVE  SavesInv(Rename(dir), qs, opened, written, c)
<1>1. \A q \in Procs : qs[q].pc \notin {opened, written}
  BY DEF SavesInv
<1>2. IsWhole(Content(Rename(dir)))
  BY RenameEffect DEF SavesInv
<1> QED BY <1>1, <1>2 DEF SavesInv

LEMMA DamageStep ==
    ASSUME TypeOK, NamesInv, CommandInv, DamageInv, Next
    PROVE  DamageInv'
<1>1. PICK p \in Procs : Quiet(p) \/ Save(p) \/ Kill(p)
  BY NextCases
<1> DEFINE C == "credentials" \notin overlapped => SavesInv(creds, proc, "opened", "written", SessionOf)
           D == "project" \notin overlapped => SavesInv(project, proc, "bindOpened", "bindWritten", BindingOf)
<1>2. /\ creds \in Files(Sessions) /\ project \in Files(Bindings)
      /\ Distinct(creds) /\ Distinct(project)
  BY DEF TypeOK, NamesInv
<1>3. /\ \A q \in Procs : proc[q].pc \in Opening => proc[q].inode \in Inodes
      /\ proc[p].pc = "bindOpened" => Bound(proc[p].ws) \in Bindings /\ IsWhole(Bound(proc[p].ws))
      /\ Session(p) \in Sessions /\ IsWhole(Session(p))
  <2>1. \A q \in Procs : proc[q].pc \in Opening => proc[q].inode \in Inodes
    BY DEF TypeOK, Processes
  <2>2. proc[p].pc = "bindOpened" => proc[p].ws \in Ids
    BY DEF CommandInv, BindPcs
  <2> QED BY <2>1, <2>2, BodiesAreWhole DEF Bindings, Sessions
<1>4. creds' \in Files(Sessions) /\ project' \in Files(Bindings)
  BY <1>1, NextCases, TypeStep DEF TypeOK
<1>5. overlapped \subseteq overlapped'
  BY <1>1, QuietMoves, KillMoves DEF Save, Clean, OpenCredentials, WriteCredentials, RenameCredentials,
     GiveUpCredentials, ChmodCredentials, ClearCredentials, OpenProject, WriteProject, RenameProject,
     GiveUpProject, Unlink, files
<1> SUFFICES (C /\ D)'
  BY DEF DamageInv
<1>6. C /\ D
  BY DEF DamageInv
<1>20. \A q \in Procs : /\ SessionOf[q] = Session(q) /\ SessionOf'[q] = Session(q)
                         /\ BindingOf[q] = Bound(proc[q].ws) /\ BindingOf'[q] = Bound(proc'[q].ws)
  BY DEF SessionOf, BindingOf
\* What neither writes nor renames: one lemma per file.
<1>7. ASSUME creds'.tmp \in {creds.tmp, None}, creds'.final \in {creds.final, None}, creds'.data = creds.data,
             Others(p), proc'[p].pc \notin {"opened", "written"}
      PROVE  C'
  <2>1. \A q \in Procs : proc'[q].pc \in {"opened", "written"} =>
              /\ proc'[q].pc = proc[q].pc /\ proc'[q].inode = proc[q].inode
              /\ SessionOf'[q] = SessionOf[q]
    BY <1>7, <1>20 DEF Others
  <2>2. \A q \in Procs : proc[q].pc = "opened" => proc[q].inode \in Inodes
    BY <1>3 DEF Opening
  <2> QED BY <1>2, <1>4, <1>5, <1>6, <1>7, <2>1, <2>2, SavesPersist
<1>8. ASSUME project'.tmp \in {project.tmp, None}, project'.final \in {project.final, None},
             project'.data = project.data,
             Others(p), proc'[p].pc \notin {"bindOpened", "bindWritten"}
      PROVE  D'
  <2>1. \A q \in Procs : proc'[q].pc \in {"bindOpened", "bindWritten"} =>
              /\ proc'[q].pc = proc[q].pc /\ proc'[q].inode = proc[q].inode
              /\ BindingOf'[q] = BindingOf[q]
    BY <1>8, <1>20 DEF Others
  <2>2. \A q \in Procs : proc[q].pc = "bindOpened" => proc[q].inode \in Inodes
    BY <1>3 DEF Opening
  <2> QED BY <1>2, <1>4, <1>5, <1>6, <1>8, <2>1, <2>2, SavesPersist
<1> HIDE DEF C, D
<1>9. CASE Quiet(p) \/ Kill(p)
  <2>1. /\ UNCHANGED <<creds, project>> /\ Others(p)
        /\ proc'[p].pc \notin {"opened", "written", "bindOpened", "bindWritten"}
    BY <1>9, QuietMoves, KillMoves DEF Moves
  <2> QED BY <1>7, <1>8, <2>1
<1>10. CASE Clean(p) \/ GiveUpCredentials(p) \/ ChmodCredentials(p) \/ ClearCredentials(p)
  <2>1. /\ Others(p) /\ UNCHANGED project
        /\ proc'[p].pc \notin {"opened", "written", "bindOpened", "bindWritten"}
    BY <1>10, SaveMoves
       DEF Moves, Clean, GiveUpCredentials, ChmodCredentials, ClearCredentials, files
  <2>2. creds' \in {RemoveTmp(creds), creds, [creds EXCEPT !.final = None]}
    BY <1>10 DEF Clean, GiveUpCredentials, ChmodCredentials, ClearCredentials, files
  <2>3. creds'.tmp \in {creds.tmp, None} /\ creds'.final \in {creds.final, None} /\ creds'.data = creds.data
    BY <1>2, <2>2, RemoveEffect
  <2> QED BY <1>7, <1>8, <2>1, <2>3
<1>11. CASE OpenCredentials(p)
  <2> DEFINE i == Opened(creds, Held)
  <2>1. /\ Others(p) /\ UNCHANGED project /\ creds' = Open(creds, i)
        /\ proc'[p].pc = "opened" /\ proc'[p].inode = i
        /\ "credentials" \notin overlapped' => \A q \in Procs : proc[q].pc \notin {"opened", "written"}
    BY <1>11, SaveMoves DEF Moves, OpenCredentials, Saving
  <2>2. i \in Inodes /\ i # creds.final
    BY <1>2, OpenedIsInode
  <2> HIDE DEF i
  <2>3. \A q \in Procs \ {p} : proc'[q].pc = proc[q].pc
    BY <2>1 DEF Others
  <2>4. "credentials" \notin overlapped' => SavesInv(Open(creds, i), proc', "opened", "written", SessionOf')
    BY <1>2, <1>5, <1>6, <2>1, <2>2, <2>3, SavesOpen DEF C
  <2> QED BY <1>8, <2>1, <2>4 DEF C
<1>12. CASE WriteCredentials(p)
  <2>1. /\ Others(p) /\ UNCHANGED project /\ creds' \in Written(creds, proc[p].inode, Session(p))
        /\ proc[p].pc = "opened" /\ proc'[p].pc = "written"
    BY <1>12, SaveMoves DEF Moves, WriteCredentials
  <2>2. \A q \in Procs \ {p} : proc'[q].pc = proc[q].pc
    BY <2>1 DEF Others
  <2>3. proc[p].inode \in Inodes
    BY <1>3, <2>1 DEF Opening
  <2>4. ASSUME "credentials" \notin overlapped' PROVE SavesInv(creds', proc', "opened", "written", SessionOf')
    <3>1. SavesInv(creds, proc, "opened", "written", SessionOf)
      BY <1>5, <1>6, <2>4 DEF C
    <3>2. SessionOf'[p] = Session(p)
      BY <1>20
    <3>3. Session(p) \in Sessions /\ IsWhole(Session(p))
      BY <1>3
    <3>4. creds' \in Written(creds, proc[p].inode, SessionOf'[p])
      BY <2>1, <3>2
    <3> QED BY <1>2, <2>1, <2>2, <2>3, <3>1, <3>2, <3>3, <3>4, SavesWrite
  <2> QED BY <1>8, <2>1, <2>4 DEF C
<1>13. CASE RenameCredentials(p)
  <2>1. /\ Others(p) /\ UNCHANGED project /\ proc[p].pc = "written"
        /\ proc'[p].pc \in {"unnamed", "renamed"}
    BY <1>13, SaveMoves DEF Moves, RenameCredentials
  <2>2. \A q \in Procs \ {p} : proc'[q].pc = proc[q].pc
    BY <2>1 DEF Others
  <2>3. CASE creds.tmp = None
    BY <1>7, <1>8, <1>13, <2>1, <2>3 DEF RenameCredentials
  <2>4. CASE creds.tmp # None
    <3>1. ASSUME "credentials" \notin overlapped' PROVE SavesInv(Rename(creds), proc', "opened", "written", SessionOf')
      <4>1. SavesInv(creds, proc, "opened", "written", SessionOf)
        BY <1>5, <1>6, <3>1 DEF C
      <4>2. IsWhole(SessionOf[p])
        BY <1>3, <1>20
      <4>3. proc'[p].pc \notin {"opened", "written"}
        BY <2>1
      <4> QED BY <1>2, <2>1, <2>2, <2>4, <4>1, <4>2, <4>3, SavesRename
    <3> QED BY <1>8, <1>13, <2>1, <2>4, <3>1 DEF C, RenameCredentials
  <2> QED BY <2>3, <2>4
<1>14. CASE OpenProject(p)
  <2> DEFINE i == Opened(project, Held)
  <2>1. /\ Others(p) /\ UNCHANGED creds /\ project' = Open(project, i)
        /\ proc'[p].pc = "bindOpened" /\ proc'[p].inode = i
        /\ "project" \notin overlapped' => \A q \in Procs : proc[q].pc \notin {"bindOpened", "bindWritten"}
    BY <1>14, SaveMoves DEF Moves, OpenProject, Saving
  <2>2. i \in Inodes /\ i # project.final
    BY <1>2, OpenedIsInode
  <2> HIDE DEF i
  <2>3. \A q \in Procs \ {p} : proc'[q].pc = proc[q].pc
    BY <2>1 DEF Others
  <2>4. "project" \notin overlapped' => SavesInv(Open(project, i), proc', "bindOpened", "bindWritten", BindingOf')
    BY <1>2, <1>5, <1>6, <2>1, <2>2, <2>3, SavesOpen DEF D
  <2> QED BY <1>7, <2>1, <2>4 DEF D
<1>15. CASE WriteProject(p)
  <2>1. /\ Others(p) /\ UNCHANGED creds /\ project' \in Written(project, proc[p].inode, Bound(proc[p].ws))
        /\ proc[p].pc = "bindOpened" /\ proc'[p].pc = "bindWritten"
    BY <1>15, SaveMoves DEF Moves, WriteProject
  <2>2. \A q \in Procs \ {p} : proc'[q].pc = proc[q].pc
    BY <2>1 DEF Others
  <2>3. proc[p].inode \in Inodes
    BY <1>3, <2>1 DEF Opening
  <2>5. proc'[p].ws = proc[p].ws
    BY <1>15, SaveMoves DEF Save
  <2>4. ASSUME "project" \notin overlapped' PROVE SavesInv(project', proc', "bindOpened", "bindWritten", BindingOf')
    <3>1. SavesInv(project, proc, "bindOpened", "bindWritten", BindingOf)
      BY <1>5, <1>6, <2>4 DEF D
    <3>2. BindingOf'[p] = Bound(proc[p].ws)
      BY <1>20, <2>5
    <3>3. Bound(proc[p].ws) \in Bindings /\ IsWhole(Bound(proc[p].ws))
      BY <1>3, <2>1
    <3>4. project' \in Written(project, proc[p].inode, BindingOf'[p])
      BY <2>1, <3>2
    <3> QED BY <1>2, <2>1, <2>2, <2>3, <3>1, <3>2, <3>3, <3>4, SavesWrite
  <2> QED BY <1>7, <2>1, <2>4 DEF D
<1>16. CASE RenameProject(p)
  <2>1. /\ Others(p) /\ UNCHANGED creds /\ proc[p].pc = "bindWritten"
        /\ proc'[p].pc \in {"bindUnnamed", "done"}
    BY <1>16, SaveMoves DEF Moves, RenameProject
  <2>2. \A q \in Procs \ {p} : proc'[q].pc = proc[q].pc
    BY <2>1 DEF Others
  <2>5. IsWhole(Bound(proc[p].ws))
    BY <2>1, BodiesAreWhole DEF CommandInv, BindPcs
  <2>3. CASE project.tmp = None
    BY <1>7, <1>8, <1>16, <2>1, <2>3 DEF RenameProject
  <2>4. CASE project.tmp # None
    <3>1. ASSUME "project" \notin overlapped' PROVE SavesInv(Rename(project), proc', "bindOpened", "bindWritten", BindingOf')
      <4>1. SavesInv(project, proc, "bindOpened", "bindWritten", BindingOf)
        BY <1>5, <1>6, <3>1 DEF D
      <4>2. IsWhole(BindingOf[p])
        BY <1>3, <1>20, <2>5
      <4>3. proc'[p].pc \notin {"bindOpened", "bindWritten"}
        BY <2>1
      <4> QED BY <1>2, <2>1, <2>2, <2>4, <4>1, <4>2, <4>3, SavesRename
    <3> QED BY <1>7, <1>16, <2>1, <2>4, <3>1 DEF D, RenameProject
  <2> QED BY <2>3, <2>4
<1>17. CASE GiveUpProject(p) \/ Unlink(p)
  <2>1. /\ Others(p) /\ UNCHANGED creds
        /\ proc'[p].pc \notin {"opened", "written", "bindOpened", "bindWritten"}
    BY <1>17, SaveMoves DEF Moves, GiveUpProject, Unlink
  <2>2. project' \in {RemoveTmp(project), [project EXCEPT !.final = None]}
    BY <1>17 DEF GiveUpProject, Unlink
  <2>3. /\ project'.tmp \in {project.tmp, None} /\ project'.final \in {project.final, None}
        /\ project'.data = project.data
    BY <1>2, <2>2, RemoveEffect
  <2> QED BY <1>7, <1>8, <2>1, <2>3
<1> QED BY <1>1, <1>9, <1>10, <1>11, <1>12, <1>13, <1>14, <1>15, <1>16, <1>17 DEF Save

-----------------------------------------------------------------------------
(* The command that alone writes a file *)

\* The rest clean up the credentials, at most, and leave the binding alone.
LEMMA OtherFiles ==
    ASSUME TypeOK, CommandInv, NEW p \in Procs, Quiet(p) \/ Save(p) \/ Kill(p)
    PROVE  /\ proc[p].cmd \notin SessionCmds => creds' \in {creds, RemoveTmp(creds)}
           /\ proc[p].cmd \notin BindingCmds => project' = project
<1>1. CASE Quiet(p) \/ Kill(p)
  BY <1>1, QuietMoves, KillMoves
<1>2. CASE Clean(p) \/ ChmodCredentials(p)
  BY <1>2 DEF Clean, ChmodCredentials, files
<1>3. CASE OpenCredentials(p) \/ WriteCredentials(p) \/ RenameCredentials(p) \/ GiveUpCredentials(p)
           \/ ClearCredentials(p)
  <2>1. proc[p].cmd \in SessionCmds
    BY <1>3 DEF OpenCredentials, WriteCredentials, RenameCredentials, GiveUpCredentials, ClearCredentials,
       CommandInv, LoginPcs, SessionCmds
  <2>2. project' = project
    BY <1>3 DEF OpenCredentials, WriteCredentials, RenameCredentials, GiveUpCredentials, ClearCredentials
  <2> QED BY <2>1, <2>2
<1>4. CASE OpenProject(p) \/ WriteProject(p) \/ RenameProject(p) \/ GiveUpProject(p) \/ Unlink(p)
  <2>1. proc[p].cmd \in BindingCmds
    BY <1>4 DEF OpenProject, WriteProject, RenameProject, GiveUpProject, Unlink,
       CommandInv, BindPcs, BindingCmds
  <2>2. creds' = creds
    BY <1>4 DEF OpenProject, WriteProject, RenameProject, GiveUpProject, Unlink
  <2> QED BY <2>1, <2>2
<1> QED BY <1>1, <1>2, <1>3, <1>4 DEF Save

LEMMA SessionStep ==
    ASSUME TypeOK, NamesInv, CommandInv, SessionInv, Next
    PROVE  SessionInv'
<1>1. PICK p \in Procs : Quiet(p) \/ Save(p) \/ Kill(p)
  BY NextCases
<1>2. creds \in Files(Sessions) /\ Distinct(creds) /\ \A q \in Procs : Session(q) \in Sessions
  BY DEF TypeOK, NamesInv, Sessions
<1>3. Others(p) /\ proc'[p].cmd = proc[p].cmd
  BY <1>1, QuietMoves, SaveMoves, KillMoves DEF Moves, Save
<1> SUFFICES ASSUME NEW q \in Procs, Alone(q, SessionCmds)'
             PROVE  /\ proc'[q].pc = "opened" => Opener(creds', proc'[q].inode)
                    /\ proc'[q].pc = "written" => creds'.tmp = None \/ creds'.data[creds'.tmp] = Session(q)
                    /\ proc'[q].cmd = "login" /\ proc'[q].pc \in {"renamed", "done"} =>
                         Content(creds') = Session(q)
                    /\ proc'[q].cmd = "logout" /\ proc'[q].pc = "done" => creds'.final = None
  BY DEF SessionInv
<1>4. Alone(q, SessionCmds)
  BY <1>3 DEF Alone, Others
<1>5. /\ proc[q].pc = "opened" => Opener(creds, proc[q].inode)
      /\ proc[q].pc = "written" => creds.tmp = None \/ creds.data[creds.tmp] = Session(q)
      /\ proc[q].cmd = "login" /\ proc[q].pc \in {"renamed", "done"} => Content(creds) = Session(q)
      /\ proc[q].cmd = "logout" /\ proc[q].pc = "done" => creds.final = None
  BY <1>4 DEF SessionInv
<1>6. CASE q # p
  <2>1. creds' \in {creds, RemoveTmp(creds)}
    BY <1>1, <1>4, <1>6, OtherFiles DEF Alone
  <2>2. creds'.tmp \in {creds.tmp, None} /\ creds'.final = creds.final /\ creds'.data = creds.data
    BY <1>2, <2>1, RemoveEffect
  <2>3. /\ proc'[q].pc = proc[q].pc /\ proc'[q].cmd = proc[q].cmd /\ proc'[q].inode = proc[q].inode
    BY <1>3, <1>6 DEF Others
  <2>4. proc[q].pc = "opened" => proc[q].inode \in Inodes
    BY DEF TypeOK, Processes, Opening
  <2> QED BY <1>5, <2>2, <2>3, <2>4, InodeIsAName DEF Opener, Content
<1>7. CASE q = p /\ (Quiet(p) \/ Kill(p))
  BY <1>7, <1>3, QuietMoves, KillMoves DEF Moves
<1>8. CASE q = p /\ (Clean(p) \/ GiveUpCredentials(p))
  <2>1. proc'[p].pc \in {"cleaned", "failed"}
    BY <1>8, SaveMoves DEF Moves
  <2> QED BY <1>8, <2>1
<1>9. CASE q = p /\ OpenCredentials(p)
  <2> DEFINE i == Opened(creds, Held)
  <2>1. creds' = Open(creds, i) /\ proc'[p].pc = "opened" /\ proc'[p].inode = i
    BY <1>9, SaveMoves DEF Moves, OpenCredentials
  <2>2. i \in Inodes /\ i # creds.final
    BY <1>2, OpenedIsInode
  <2> HIDE DEF i
  <2>3. Opener(creds', i)
    BY <1>2, <2>1, <2>2, OpenEffect DEF Opener
  <2> QED BY <1>9, <2>1, <2>3
<1>10. CASE q = p /\ WriteCredentials(p)
  <2>1. proc[p].pc = "opened" /\ proc'[p].pc = "written"
        /\ creds' \in Written(creds, proc[p].inode, Session(p))
    BY <1>10, SaveMoves DEF Moves, WriteCredentials
  <2>2. proc[p].inode \in Inodes
    BY <2>1 DEF TypeOK, Processes, Opening
  <2>3. creds'.tmp = creds.tmp /\ creds'.data[proc[p].inode] = Session(p) /\ creds.tmp \in {None, proc[p].inode}
    BY <1>2, <1>5, <1>10, <2>1, <2>2, WrittenEffect DEF Opener
  <2> QED BY <1>10, <2>1, <2>3
<1>11. CASE q = p /\ RenameCredentials(p)
  <2>1. proc[p].pc = "written" /\ proc'[p].pc = IF creds.tmp = None THEN "unnamed" ELSE "renamed"
    BY <1>11, SaveMoves DEF Moves
  <2>2. CASE creds.tmp = None
    BY <1>11, <2>1, <2>2
  <2>3. CASE creds.tmp # None
    <3>1. creds.data[creds.tmp] = Session(p) /\ creds' = Rename(creds)
      BY <1>5, <1>11, <2>1, <2>3 DEF RenameCredentials
    <3>2. Content(creds') = Session(p)
      BY <1>2, <2>3, <3>1, RenameEffect
    <3>3. proc[p].cmd = "login"
      BY <2>1 DEF CommandInv, LoginPcs
    <3> QED BY <1>3, <1>11, <2>1, <2>3, <3>2, <3>3
  <2> QED BY <2>2, <2>3
<1>12. CASE q = p /\ ChmodCredentials(p)
  <2>1. /\ proc[p].pc = "renamed" /\ proc'[p].pc \in {"done", "failed"} /\ creds' = creds
        /\ proc[p].cmd = "login"
    BY <1>12, SaveMoves DEF Moves, ChmodCredentials, files, CommandInv, LoginPcs
  <2> QED BY <1>3, <1>5, <1>12, <2>1
<1>13. CASE q = p /\ ClearCredentials(p)
  <2>1. /\ proc'[p].pc = "done" /\ creds' = [creds EXCEPT !.final = None] /\ proc[p].cmd = "logout"
    BY <1>13, SaveMoves DEF Moves, ClearCredentials, CommandInv
  <2>2. creds'.final = None
    BY <1>2, <2>1, RemoveEffect
  <2> QED BY <1>3, <1>13, <2>1, <2>2
<1>14. CASE q = p /\ (OpenProject(p) \/ WriteProject(p) \/ RenameProject(p) \/ GiveUpProject(p) \/ Unlink(p))
  <2>1. /\ proc'[p].pc \in {"bindOpened", "bindWritten", "bindUnnamed", "done", "failed"}
        /\ proc[p].pc \in BindPcs \cup {"unlink"}
    BY <1>14, SaveMoves DEF Moves, BindPcs
  <2>2. proc[p].cmd \notin SessionCmds
    BY <2>1 DEF CommandInv, SessionCmds
  <2> QED BY <1>3, <1>14, <2>1, <2>2 DEF SessionCmds
<1> QED BY <1>1, <1>6, <1>7, <1>8, <1>9, <1>10, <1>11, <1>12, <1>13, <1>14 DEF Save

LEMMA BindingStep ==
    ASSUME TypeOK, NamesInv, CommandInv, BindingInv, Next
    PROVE  BindingInv'
<1>1. PICK p \in Procs : Quiet(p) \/ Save(p) \/ Kill(p)
  BY NextCases
<1>2. project \in Files(Bindings) /\ Distinct(project) /\ \A i \in Ids : Bound(i) \in Bindings
  BY DEF TypeOK, NamesInv, Bindings
<1>3. Others(p) /\ proc'[p].cmd = proc[p].cmd
  BY <1>1, QuietMoves, SaveMoves, KillMoves DEF Moves, Save
<1> SUFFICES ASSUME NEW q \in Procs, Alone(q, BindingCmds)'
             PROVE  /\ proc'[q].pc = "bindOpened" => Opener(project', proc'[q].inode)
                    /\ proc'[q].pc = "bindWritten" =>
                         project'.tmp = None \/ project'.data[project'.tmp] = Bound(proc'[q].ws)
                    /\ proc'[q].cmd \in {"init", "relink"} /\ proc'[q].pc = "done" =>
                         Content(project') = Bound(proc'[q].ws)
                    /\ proc'[q].cmd = "unlink" /\ proc'[q].pc = "done" => project'.final = None
  BY DEF BindingInv
<1>4. Alone(q, BindingCmds)
  BY <1>3 DEF Alone, Others
<1>5. /\ proc[q].pc = "bindOpened" => Opener(project, proc[q].inode)
      /\ proc[q].pc = "bindWritten" => project.tmp = None \/ project.data[project.tmp] = Bound(proc[q].ws)
      /\ proc[q].cmd \in {"init", "relink"} /\ proc[q].pc = "done" => Content(project) = Bound(proc[q].ws)
      /\ proc[q].cmd = "unlink" /\ proc[q].pc = "done" => project.final = None
  BY <1>4 DEF BindingInv
<1>6. CASE q # p
  <2>1. project' = project
    BY <1>1, <1>4, <1>6, OtherFiles DEF Alone
  <2>2. /\ proc'[q].pc = proc[q].pc /\ proc'[q].cmd = proc[q].cmd
        /\ proc'[q].inode = proc[q].inode /\ proc'[q].ws = proc[q].ws
    BY <1>3, <1>6 DEF Others
  <2> QED BY <1>5, <2>1, <2>2
<1>7. CASE q = p /\ (Quiet(p) \/ Kill(p))
  BY <1>7, <1>3, QuietMoves, KillMoves DEF Moves
<1>8. CASE q = p /\ (Clean(p) \/ OpenCredentials(p) \/ WriteCredentials(p) \/ RenameCredentials(p)
                     \/ GiveUpCredentials(p) \/ ChmodCredentials(p) \/ ClearCredentials(p))
  <2>1. /\ proc'[p].pc \notin {"bindOpened", "bindWritten"}
        /\ proc'[p].pc = "done" => proc[p].pc \in LoginPcs \cup {"clear"}
    BY <1>8, SaveMoves DEF Moves, LoginPcs
  <2>2. proc'[p].pc = "done" => proc[p].cmd \in {"login", "logout"}
    BY <2>1 DEF CommandInv
  <2> QED BY <1>3, <1>8, <2>1, <2>2
<1>9. CASE q = p /\ OpenProject(p)
  <2> DEFINE i == Opened(project, Held)
  <2>1. project' = Open(project, i) /\ proc'[p].pc = "bindOpened" /\ proc'[p].inode = i
    BY <1>9, SaveMoves DEF Moves, OpenProject
  <2>2. i \in Inodes /\ i # project.final
    BY <1>2, OpenedIsInode
  <2> HIDE DEF i
  <2>3. Opener(project', i)
    BY <1>2, <2>1, <2>2, OpenEffect DEF Opener
  <2> QED BY <1>9, <2>1, <2>3
<1>10. CASE q = p /\ WriteProject(p)
  <2>1. /\ proc[p].pc = "bindOpened" /\ proc'[p].pc = "bindWritten"
        /\ project' \in Written(project, proc[p].inode, Bound(proc[p].ws))
        /\ proc'[p].ws = proc[p].ws
    BY <1>10, SaveMoves DEF Moves, WriteProject, Save
  <2>2. proc[p].inode \in Inodes /\ Bound(proc[p].ws) \in Bindings
    BY <1>2, <2>1 DEF TypeOK, Processes, Opening, CommandInv, BindPcs
  <2>3. /\ project'.tmp = project.tmp /\ project'.data[proc[p].inode] = Bound(proc[p].ws)
        /\ project.tmp \in {None, proc[p].inode}
    BY <1>2, <1>5, <1>10, <2>1, <2>2, WrittenEffect DEF Opener
  <2> QED BY <1>10, <2>1, <2>3
<1>11. CASE q = p /\ RenameProject(p)
  <2>1. /\ proc[p].pc = "bindWritten" /\ proc'[p].pc = IF project.tmp = None THEN "bindUnnamed" ELSE "done"
        /\ proc'[p].ws = proc[p].ws
    BY <1>11, SaveMoves DEF Moves, Save
  <2>2. CASE project.tmp = None
    BY <1>11, <2>1, <2>2
  <2>3. CASE project.tmp # None
    <3>1. project.data[project.tmp] = Bound(proc[p].ws) /\ project' = Rename(project)
      BY <1>5, <1>11, <2>1, <2>3 DEF RenameProject
    <3>2. Content(project') = Bound(proc'[p].ws)
      BY <1>2, <2>1, <2>3, <3>1, RenameEffect
    <3>3. proc[p].cmd # "unlink"
      BY <2>1 DEF CommandInv, BindPcs
    <3> QED BY <1>3, <1>11, <2>1, <2>3, <3>2, <3>3
  <2> QED BY <2>2, <2>3
<1>12. CASE q = p /\ GiveUpProject(p)
  <2>1. proc'[p].pc = IF proc[p].cmd = "sync" THEN "done" ELSE "failed"
    BY <1>12, SaveMoves DEF Moves
  <2> QED BY <1>3, <1>12, <2>1
<1>13. CASE q = p /\ Unlink(p)
  <2>1. /\ proc'[p].pc = "done" /\ project' = [project EXCEPT !.final = None] /\ proc[p].cmd = "unlink"
    BY <1>13, SaveMoves DEF Moves, Unlink, CommandInv
  <2>2. project'.final = None
    BY <1>2, <2>1, RemoveEffect
  <2> QED BY <1>3, <1>13, <2>1, <2>2
<1> QED BY <1>1, <1>6, <1>7, <1>8, <1>9, <1>10, <1>11, <1>12, <1>13 DEF Save

-----------------------------------------------------------------------------
(* One workspace *)

\* Only a create, a delete and the search before a create touch what the
\* invariant is about.
LEMMA OtherWorkspaces ==
    ASSUME TypeOK, NEW p \in Procs, Quiet(p) \/ Save(p) \/ Kill(p),
           ~CreateWorkspace(p), ~DeleteWorkspace(p), ~reuseExistingWorkspace(p)
    PROVE  /\ UNCHANGED <<server, raced>>
           /\ \A q \in Procs : proc'[q].pc = "create" =>
                 proc[q].pc = "create" /\ proc'[q].blind = proc[q].blind
<1>1. proc \in [Procs -> Processes]
  BY DEF TypeOK
<1> DEFINE Kept == \A q \in Procs : proc'[q].pc = "create" =>
                      proc[q].pc = "create" /\ proc'[q].blind = proc[q].blind
<1>2. ASSUME NEW pc, NEW w, pc # "create", Goto(p, pc) \/ GotoWith(p, pc, w)
      PROVE  Kept
  BY <1>2, GotoMoves DEF Others
<1>3. ASSUME NEW pc, NEW i, pc # "create",
             \/ proc' = [proc EXCEPT ![p].pc = pc, ![p].inode = i]
             \/ proc' = [proc EXCEPT ![p].pc = pc, ![p].cred = i]
      PROVE  Kept
  BY <1>1, <1>3 DEF Processes
<1> HIDE DEF Kept
<1> USE DEF remote, files
<1>4. CASE ReadCredentials(p)
  <2>1. PICK found : proc' = [proc EXCEPT ![p].pc = "loaded", ![p].cred = found]
    BY <1>4 DEF ReadCredentials
  <2>2. Kept
    BY <1>3, <2>1
  <2> QED BY <1>4, <2>2 DEF ReadCredentials, Kept
<1>5. CASE requireAuth(p) \/ Verify(p) \/ ListOnly(p) \/ CreateRefused(p) \/ ParseWorkspace(p) \/ RevokeBestEffort(p)
  <2>1. PICK pc \in {"failed", "authed", "save", "done", "bind", "clear"} : Goto(p, pc)
    BY <1>5 DEF requireAuth, Verify, ListOnly, CreateRefused, ParseWorkspace, RevokeBestEffort
  <2>2. Kept
    BY <1>2, <2>1
  <2> QED BY <1>5, <2>2 DEF requireAuth, Verify, ListOnly, CreateRefused, ParseWorkspace, RevokeBestEffort, Kept
<1>6. CASE LoadProjectConfig(p)
  <2> DEFINE next == [init |-> "load", sync |-> "load", unlink |-> "unlink"][proc[p].cmd]
  <2>1. next \in {"load", "unlink"}
    BY <1>6 DEF LoadProjectConfig, Runs
  <2>2. \E pc \in {"load", "unlink", "failed"} : \E w \in {0, Content(project)[2]} : GotoWith(p, pc, w)
    BY <1>6, <2>1 DEF LoadProjectConfig
  <2>3. Kept
    BY <1>2, <2>2
  <2> QED BY <1>6, <2>3 DEF LoadProjectConfig, Kept
<1>7. CASE GetWorkspace(p)
  <2>1. \E pc \in {"failed", "bind", "confirmed"} : \E w \in Ids : GotoWith(p, pc, w)
    BY <1>7 DEF GetWorkspace
  <2>2. Kept
    BY <1>2, <2>1
  <2> QED BY <1>7, <2>2 DEF GetWorkspace, Kept
<1>8. CASE OpenCredentials(p) \/ WriteCredentials(p) \/ OpenProject(p) \/ WriteProject(p) \/ Kill(p)
  <2>1. \E pc \in {"opened", "written", "bindOpened", "bindWritten", "killed"} :
           \E i \in {Opened(creds, Held), Opened(project, Held), None} :
              proc' = [proc EXCEPT ![p].pc = pc, ![p].inode = i]
    BY <1>8 DEF OpenCredentials, WriteCredentials, OpenProject, WriteProject, Kill
  <2>2. Kept
    BY <1>3, <2>1
  <2> QED BY <1>8, <2>2 DEF OpenCredentials, WriteCredentials, OpenProject, WriteProject, Kill, Kept
<1>9. CASE Clean(p) \/ RenameCredentials(p) \/ GiveUpCredentials(p) \/ ChmodCredentials(p) \/ ClearCredentials(p)
           \/ RenameProject(p) \/ GiveUpProject(p) \/ Unlink(p)
  <2>1. PICK pc \in {"cleaned", "renamed", "unnamed", "failed", "done", "bindUnnamed"} : Goto(p, pc)
    BY <1>9 DEF Clean, RenameCredentials, GiveUpCredentials, ChmodCredentials, ClearCredentials,
       RenameProject, GiveUpProject, Unlink
  <2>2. Kept
    BY <1>2, <2>1
  <2> QED BY <1>9, <2>2 DEF Clean, RenameCredentials, GiveUpCredentials, ChmodCredentials, ClearCredentials,
       RenameProject, GiveUpProject, Unlink, Kept
<1> QED BY <1>4, <1>5, <1>6, <1>7, <1>8, <1>9 DEF Quiet, Save

LEMMA WorkspaceStep ==
    ASSUME TypeOK, WorkspaceInv, Next
    PROVE  WorkspaceInv'
<1>1. PICK p \in Procs : Quiet(p) \/ Save(p) \/ Kill(p)
  BY NextCases
<1>2. proc \in [Procs -> Processes]
  BY DEF TypeOK
<1>3. CASE CreateWorkspace(p)
  <2> SUFFICES ASSUME ~raced'
               PROVE  /\ \A v, w \in server' : v.here /\ w.here => v = w
                      /\ \A q \in Procs : proc'[q].pc = "create" /\ ~proc'[q].blind =>
                            \A w \in server' : ~w.here
    BY DEF WorkspaceInv
  <2>1. ~raced /\ ~proc[p].blind /\ proc[p].pc = "create"
    BY <1>3 DEF CreateWorkspace, Runs
  <2>2. \A w \in server : ~w.here
    BY <2>1 DEF WorkspaceInv
  <2>3. \A v, w \in server' : v.here /\ w.here => v = w
    BY <1>3, <2>2 DEF CreateWorkspace
  <2>4. PICK pc \in {"bind", "failed"} :
            proc' = [q \in Procs |->
                       IF q = p THEN [proc[p] EXCEPT !.pc = pc, !.ws = lastId + 1]
                       ELSE [proc[q] EXCEPT !.blind = proc[q].blind \/ proc[q].pc = "create"]]
    BY <1>3 DEF CreateWorkspace
  <2>5. proc'[p].pc # "create"
    BY <1>2, <2>4 DEF Processes
  <2>6. ASSUME NEW q \in Procs \ {p}, proc'[q].pc = "create"
        PROVE  proc'[q].blind
    <3>1. proc'[q] = [proc[q] EXCEPT !.blind = proc[q].blind \/ proc[q].pc = "create"] /\ proc[q] \in Processes
      BY <1>2, <2>4
    <3>2. proc[q].pc = "create"
      BY <2>6, <3>1 DEF Processes
    <3> QED BY <3>1, <3>2 DEF Processes
  <2> QED BY <2>3, <2>5, <2>6
<1>4. CASE DeleteWorkspace(p)
  <2>1. server' \subseteq server /\ raced' = raced
    BY <1>4 DEF DeleteWorkspace
  <2>2. PICK pc \in {"done", "failed"} : Goto(p, pc)
    BY <1>4 DEF DeleteWorkspace
  <2>3. \A q \in Procs : proc'[q].pc = "create" => proc[q].pc = "create" /\ proc'[q].blind = proc[q].blind
    BY <2>2, GotoMoves DEF Others
  <2> QED BY <2>1, <2>3 DEF WorkspaceInv
<1>5. CASE reuseExistingWorkspace(p)
  <2>1. server' = server /\ raced' = raced
    BY <1>5 DEF reuseExistingWorkspace, remote
  <2>2. CASE Reusable = {} /\ Goto(p, "create")
    <3>1. \A w \in server : ~w.here
      BY <2>2 DEF Reusable
    <3> QED BY <2>1, <3>1 DEF WorkspaceInv
  <2>3. CASE \E w \in Reusable : GotoWith(p, "bind", w.id)
    <3>1. \A q \in Procs : proc'[q].pc = "create" => proc[q].pc = "create" /\ proc'[q].blind = proc[q].blind
      BY <2>3, GotoMoves DEF Others
    <3> QED BY <2>1, <3>1 DEF WorkspaceInv
  <2>4. CASE proc' = [proc EXCEPT ![p].pc = "create", ![p].blind = TRUE]
    <3>1. proc'[p].blind /\ \A q \in Procs \ {p} : proc'[q] = proc[q]
      BY <1>2, <2>4 DEF Processes
    <3> QED BY <2>1, <3>1 DEF WorkspaceInv
  <2> QED BY <1>5, <2>2, <2>3, <2>4 DEF reuseExistingWorkspace
<1>6. CASE ~CreateWorkspace(p) /\ ~DeleteWorkspace(p) /\ ~reuseExistingWorkspace(p)
  <2>1. /\ UNCHANGED <<server, raced>>
        /\ \A q \in Procs : proc'[q].pc = "create" =>
              proc[q].pc = "create" /\ proc'[q].blind = proc[q].blind
    BY <1>1, <1>6, OtherWorkspaces
  <2> QED BY <2>1 DEF WorkspaceInv
<1> QED BY <1>3, <1>4, <1>5, <1>6

-----------------------------------------------------------------------------
(* The two files do what AtomicFile says *)

\* The file keeps its body when its inode and its data are left alone.
LEMMA FileOfKept ==
    ASSUME NEW dir, NEW d, d.final = dir.final,
           dir.final # None => d.data[dir.final] = dir.data[dir.final]
    PROVE  FileOf(d) = FileOf(dir)
  BY DEF FileOf

\* What was asked for, before and after a step.
LEMMA Asked ==
    ASSUME NEW q \in Procs
    PROVE  /\ proc[q].pc \in {"save", "opened", "written"} => AskedOfCredentials[q] = Session(q)
           /\ proc[q].pc = "clear" => AskedOfCredentials[q] = Absent
           /\ proc[q].pc \notin {"save", "opened", "written", "clear"} => AskedOfCredentials[q] = Idle
           /\ proc[q].pc \in {"bind", "bindOpened", "bindWritten"} =>
                AskedOfProject[q] = Bound(proc[q].ws)
           /\ proc[q].pc = "unlink" => AskedOfProject[q] = Absent
           /\ proc[q].pc \notin {"bind", "bindOpened", "bindWritten", "unlink"} =>
                AskedOfProject[q] = Idle
  BY DEF AskedOfCredentials, AskedOfProject

LEMMA AskedNext ==
    ASSUME NEW q \in Procs
    PROVE  /\ proc'[q].pc \in {"save", "opened", "written"} => AskedOfCredentials'[q] = Session(q)
           /\ proc'[q].pc = "clear" => AskedOfCredentials'[q] = Absent
           /\ proc'[q].pc \notin {"save", "opened", "written", "clear"} => AskedOfCredentials'[q] = Idle
           /\ proc'[q].pc \in {"bind", "bindOpened", "bindWritten"} =>
                AskedOfProject'[q] = Bound(proc'[q].ws)
           /\ proc'[q].pc = "unlink" => AskedOfProject'[q] = Absent
           /\ proc'[q].pc \notin {"bind", "bindOpened", "bindWritten", "unlink"} =>
                AskedOfProject'[q] = Idle
  BY DEF AskedOfCredentials, AskedOfProject

\* Only the process that takes the step asks for something else.
LEMMA AskedMoves ==
    ASSUME NEW p \in Procs, Others(p)
    PROVE  /\ AskedOfCredentials' = [AskedOfCredentials EXCEPT ![p] = AskedOfCredentials'[p]]
           /\ AskedOfProject' = [AskedOfProject EXCEPT ![p] = AskedOfProject'[p]]
           /\ AskedOfCredentials'[p] = AskedOfCredentials[p] => AskedOfCredentials' = AskedOfCredentials
           /\ AskedOfProject'[p] = AskedOfProject[p] => AskedOfProject' = AskedOfProject
<1>1. \A q \in Procs \ {p} : /\ AskedOfCredentials'[q] = AskedOfCredentials[q]
                             /\ AskedOfProject'[q] = AskedOfProject[q]
  BY DEF Others, AskedOfCredentials, AskedOfProject
<1>2. /\ AskedOfCredentials = [q \in Procs |-> AskedOfCredentials[q]]
      /\ AskedOfCredentials' = [q \in Procs |-> AskedOfCredentials'[q]]
      /\ AskedOfProject = [q \in Procs |-> AskedOfProject[q]]
      /\ AskedOfProject' = [q \in Procs |-> AskedOfProject'[q]]
  BY DEF AskedOfCredentials, AskedOfProject
<1> QED BY <1>1, <1>2

LEMMA Distinguished ==
    /\ Absent # Idle
    /\ \A q \in Procs : Session(q) \in Sessions /\ Session(q) # Idle /\ Session(q) # Absent
    /\ \A i : Bound(i) # Idle /\ Bound(i) # Absent
  BY DEF Absent, Idle, Session, Sessions, Bound

\* A step that leaves each file as it is, or brings the one body asked for.
LEMMA CredentialsAct ==
    ASSUME NEW p \in Procs, Others(p), "credentials" \notin overlapped,
           "credentials" \notin overlapped',
           \/ /\ FileOf(creds)' = FileOf(creds)
              /\ \/ AskedOfCredentials'[p] = AskedOfCredentials[p]
                 \/ AskedOfCredentials[p] = Idle /\ AskedOfCredentials'[p] \in Sessions \cup {Absent}
                 \/ AskedOfCredentials[p] # Idle /\ AskedOfCredentials'[p] = Idle
           \/ /\ FileOf(creds)' = AskedOfCredentials[p]
              /\ AskedOfCredentials[p] # Idle /\ AskedOfCredentials'[p] = Idle
    PROVE  [Credentials!Next]_<<FileOf(creds), AskedOfCredentials, "credentials" \in overlapped>>
<1>1. ("credentials" \in overlapped)' = ("credentials" \in overlapped)
  OBVIOUS
<1>2. AskedOfCredentials' = [AskedOfCredentials EXCEPT ![p] = AskedOfCredentials'[p]]
  BY AskedMoves
<1>3. CASE FileOf(creds)' = FileOf(creds) /\ AskedOfCredentials'[p] = AskedOfCredentials[p]
  BY <1>1, <1>3, AskedMoves
<1>4. CASE /\ FileOf(creds)' = FileOf(creds)
           /\ AskedOfCredentials[p] = Idle /\ AskedOfCredentials'[p] \in Sessions \cup {Absent}
  <2>1. Credentials!Ask(p)
    BY <1>1, <1>4 DEF Credentials!Ask
  <2> QED BY <1>2, <2>1 DEF Credentials!Next
<1>5. CASE FileOf(creds)' = FileOf(creds) /\ AskedOfCredentials[p] # Idle /\ AskedOfCredentials'[p] = Idle
  <2>1. Credentials!Abandon(p)
    BY <1>1, <1>5 DEF Credentials!Abandon
  <2> QED BY <1>2, <2>1 DEF Credentials!Next
<1>6. CASE /\ FileOf(creds)' = AskedOfCredentials[p]
           /\ AskedOfCredentials[p] # Idle /\ AskedOfCredentials'[p] = Idle
  <2>1. Credentials!Commit(p)
    BY <1>1, <1>6 DEF Credentials!Commit
  <2> QED BY <1>2, <2>1 DEF Credentials!Next
<1> QED BY <1>3, <1>4, <1>5, <1>6

LEMMA ProjectAct ==
    ASSUME NEW p \in Procs, Others(p), "project" \notin overlapped, "project" \notin overlapped',
           \/ /\ FileOf(project)' = FileOf(project)
              /\ \/ AskedOfProject'[p] = AskedOfProject[p]
                 \/ AskedOfProject[p] = Idle /\ AskedOfProject'[p] \in Bindings \cup {Absent}
                 \/ AskedOfProject[p] # Idle /\ AskedOfProject'[p] = Idle
           \/ /\ FileOf(project)' = AskedOfProject[p]
              /\ AskedOfProject[p] # Idle /\ AskedOfProject'[p] = Idle
    PROVE  [Project!Next]_<<FileOf(project), AskedOfProject, "project" \in overlapped>>
<1>1. ("project" \in overlapped)' = ("project" \in overlapped)
  OBVIOUS
<1>2. AskedOfProject' = [AskedOfProject EXCEPT ![p] = AskedOfProject'[p]]
  BY AskedMoves
<1>3. CASE FileOf(project)' = FileOf(project) /\ AskedOfProject'[p] = AskedOfProject[p]
  BY <1>1, <1>3, AskedMoves
<1>4. CASE /\ FileOf(project)' = FileOf(project)
           /\ AskedOfProject[p] = Idle /\ AskedOfProject'[p] \in Bindings \cup {Absent}
  <2>1. Project!Ask(p)
    BY <1>1, <1>4 DEF Project!Ask
  <2> QED BY <1>2, <2>1 DEF Project!Next
<1>5. CASE FileOf(project)' = FileOf(project) /\ AskedOfProject[p] # Idle /\ AskedOfProject'[p] = Idle
  <2>1. Project!Abandon(p)
    BY <1>1, <1>5 DEF Project!Abandon
  <2> QED BY <1>2, <2>1 DEF Project!Next
<1>6. CASE /\ FileOf(project)' = AskedOfProject[p]
           /\ AskedOfProject[p] # Idle /\ AskedOfProject'[p] = Idle
  <2>1. Project!Commit(p)
    BY <1>1, <1>6 DEF Project!Commit
  <2> QED BY <1>2, <2>1 DEF Project!Next
<1> QED BY <1>3, <1>4, <1>5, <1>6

\* A rename brings the body that was asked for, as long as one save at a time
\* has been under way.
LEMMA RenameFile ==
    ASSUME NEW bodies, NEW dir \in Files(bodies), dir.tmp # None, Distinct(dir)
    PROVE  FileOf(Rename(dir)) = dir.data[dir.tmp]
  BY RenameEffect DEF FileOf, Content

LEMMA FileOfEffects ==
    ASSUME NEW bodies, NEW dir \in Files(bodies)
    PROVE  /\ FileOf(RemoveTmp(dir)) = FileOf(dir)
           /\ FileOf([dir EXCEPT !.final = None]) = Absent
           /\ \A i \in Inodes \ {dir.final} : FileOf(Open(dir, i)) = FileOf(dir)
<1>1. FileOf(RemoveTmp(dir)) = FileOf(dir) /\ FileOf([dir EXCEPT !.final = None]) = Absent
  BY RemoveEffect DEF FileOf
<1>2. ASSUME NEW i \in Inodes \ {dir.final}
      PROVE  FileOf(Open(dir, i)) = FileOf(dir)
  <2>1. dir.final # None => dir.final \in Inodes
    BY DEF Files
  <2> QED BY <2>1, OpenEffect DEF FileOf
<1> QED BY <1>1, <1>2

LEMMA FileOfWritten ==
    ASSUME NEW bodies, NEW dir \in Files(bodies), NEW i \in Inodes, i # dir.final, NEW body \in bodies,
           NEW d \in Written(dir, i, body)
    PROVE  FileOf(d) = FileOf(dir)
<1>1. dir.final # None => dir.final \in Inodes
  BY DEF Files
<1> QED BY <1>1, WrittenEffect DEF FileOf

\* Every step is a step of the abstract file, or none.
LEMMA CredentialsStep ==
    ASSUME TypeOK, NamesInv, CommandInv, DamageInv, Next
    PROVE  [Credentials!Next]_<<FileOf(creds), AskedOfCredentials, "credentials" \in overlapped>>
<1> DEFINE Goal == [Credentials!Next]_<<FileOf(creds), AskedOfCredentials, "credentials" \in overlapped>>
<1>1. PICK p \in Procs : Quiet(p) \/ Save(p) \/ Kill(p)
  BY NextCases
<1>2. creds \in Files(Sessions) /\ Distinct(creds)
  BY DEF TypeOK, NamesInv
<1>3. Others(p)
  BY <1>1, QuietMoves, SaveMoves, KillMoves DEF Moves, Save
<1>4. overlapped \subseteq overlapped' /\ (~OpenCredentials(p) =>
         ("credentials" \in overlapped' => "credentials" \in overlapped))
  BY <1>1, QuietMoves, KillMoves DEF Save, Clean, OpenCredentials, WriteCredentials, RenameCredentials,
     GiveUpCredentials, ChmodCredentials, ClearCredentials, OpenProject, WriteProject, RenameProject,
     GiveUpProject, Unlink, files
<1>5. CASE "credentials" \in overlapped
  <2>1. "credentials" \in overlapped /\ ("credentials" \in overlapped)'
    BY <1>4, <1>5
  <2> QED BY <2>1 DEF Credentials!Next
<1> SUFFICES ASSUME "credentials" \notin overlapped PROVE Goal
  BY <1>5
<1>6. SavesInv(creds, proc, "opened", "written", SessionOf)
  BY DEF DamageInv
<1>7. ASSUME ~OpenCredentials(p), FileOf(creds)' = FileOf(creds),
             \/ AskedOfCredentials'[p] = AskedOfCredentials[p]
             \/ AskedOfCredentials[p] = Idle /\ AskedOfCredentials'[p] \in Sessions \cup {Absent}
             \/ AskedOfCredentials[p] # Idle /\ AskedOfCredentials'[p] = Idle
      PROVE  Goal
  BY <1>3, <1>4, <1>7, CredentialsAct
<1>8. ASSUME ~OpenCredentials(p), FileOf(creds)' = AskedOfCredentials[p],
             AskedOfCredentials[p] # Idle, AskedOfCredentials'[p] = Idle
      PROVE  Goal
  BY <1>3, <1>4, <1>8, CredentialsAct
<1>9. \/ AskedOfCredentials[p] = Idle
      \/ AskedOfCredentials[p] \in Sessions \cup {Absent} /\ AskedOfCredentials[p] # Idle
  BY Asked, Distinguished
<1> HIDE DEF Goal
<1>10. CASE OpenCredentials(p)
  <2> DEFINE i == Opened(creds, Held)
  <2>1. /\ creds' = Open(creds, i) /\ proc[p].pc = "save" /\ proc'[p].pc = "opened"
    BY <1>10, SaveMoves DEF Moves, OpenCredentials
  <2>2. i \in Inodes \ {creds.final}
    BY <1>2, OpenedIsInode
  <2> HIDE DEF i
  <2>3. FileOf(creds)' = FileOf(creds)
    BY <1>2, <2>1, <2>2, FileOfEffects
  <2>4. AskedOfCredentials[p] = Session(p) /\ AskedOfCredentials'[p] = Session(p)
    BY <2>1, Asked, AskedNext
  <2>5. CASE "credentials" \notin overlapped'
    BY <1>3, <2>3, <2>4, <2>5, CredentialsAct DEF Goal
  <2>6. CASE "credentials" \in overlapped'
    <3>1. PICK q \in Procs : proc[q].pc \in {"opened", "written"}
      BY <1>10, <2>6 DEF OpenCredentials, Saving
    <3>2. p # q /\ AskedOfCredentials[p] \in Sessions /\ AskedOfCredentials[q] \in Sessions
      BY <2>1, <2>4, <3>1, Asked, Distinguished
    <3>3. AskedOfCredentials' = AskedOfCredentials
      BY <1>3, <2>4, AskedMoves
    <3>4. ("credentials" \in overlapped)'
      BY <2>6
    <3>5. Credentials!Contend(p, q)
      BY <2>3, <3>2, <3>3, <3>4 DEF Credentials!Contend
    <3> QED BY <3>5 DEF Credentials!Next, Goal
  <2> QED BY <2>5, <2>6
<1>11. CASE Quiet(p) \/ Kill(p)
  <2>1. /\ creds' = creds /\ ~OpenCredentials(p)
        /\ proc'[p].pc \notin {"opened", "written"}
        /\ proc[p].pc \in {"save", "opened", "written", "clear"} => proc'[p].pc = "killed"
    <3>1. CASE Quiet(p)
      BY <3>1, QuietMoves DEF Moves, OpenCredentials
    <3>2. CASE Kill(p)
      BY <3>2, KillMoves, SaveMoves DEF Moves
    <3> QED BY <1>11, <3>1, <3>2
  <2>2. CASE proc[p].pc \in {"save", "opened", "written", "clear"}
    <3>1. AskedOfCredentials[p] # Idle /\ AskedOfCredentials'[p] = Idle
      BY <2>1, <2>2, Asked, AskedNext, Distinguished
    <3> QED BY <1>7, <2>1, <3>1
  <2>3. CASE proc[p].pc \notin {"save", "opened", "written", "clear"}
    <3>1. AskedOfCredentials[p] = Idle
      BY <2>3, Asked
    <3>2. AskedOfCredentials'[p] \in Sessions \cup {Absent, Idle}
      BY AskedNext, Distinguished
    <3> QED BY <1>7, <2>1, <3>1, <3>2
  <2> QED BY <2>2, <2>3
<1>12. CASE Clean(p) \/ GiveUpCredentials(p) \/ ChmodCredentials(p)
  <2>1. /\ proc[p].pc \in {"start", "load", "unnamed", "renamed"}
        /\ proc'[p].pc \in {"cleaned", "failed", "done"}
        /\ creds' \in {creds, RemoveTmp(creds)} /\ ~OpenCredentials(p)
    BY <1>12, SaveMoves DEF Moves, Clean, GiveUpCredentials, ChmodCredentials, OpenCredentials, files
  <2>2. FileOf(creds)' = FileOf(creds)
    BY <1>2, <2>1, FileOfEffects
  <2>3. AskedOfCredentials'[p] = AskedOfCredentials[p]
    BY <2>1, Asked, AskedNext
  <2> QED BY <1>7, <2>1, <2>2, <2>3
<1>13. CASE WriteCredentials(p)
  <2>1. /\ proc[p].pc = "opened" /\ proc'[p].pc = "written" /\ ~OpenCredentials(p)
        /\ creds' \in Written(creds, proc[p].inode, Session(p))
    BY <1>13, SaveMoves DEF Moves, WriteCredentials, OpenCredentials
  <2>2. proc[p].inode \in Inodes /\ proc[p].inode # creds.final
    BY <1>6, <2>1 DEF SavesInv, Opener, TypeOK, Processes, Opening
  <2>3. FileOf(creds)' = FileOf(creds)
    BY <1>2, <2>1, <2>2, FileOfWritten, Distinguished
  <2>4. AskedOfCredentials'[p] = AskedOfCredentials[p]
    BY <2>1, Asked, AskedNext
  <2> QED BY <1>7, <2>1, <2>3, <2>4
<1>14. CASE RenameCredentials(p)
  <2>1. /\ proc[p].pc = "written" /\ proc'[p].pc \in {"unnamed", "renamed"} /\ ~OpenCredentials(p)
        /\ creds' = IF creds.tmp = None THEN creds ELSE Rename(creds)
    BY <1>14, SaveMoves DEF Moves, RenameCredentials, OpenCredentials
  <2>2. AskedOfCredentials[p] = Session(p) /\ AskedOfCredentials[p] # Idle /\ AskedOfCredentials'[p] = Idle
    BY <2>1, Asked, AskedNext, Distinguished
  <2>3. CASE creds.tmp = None
    BY <1>7, <2>1, <2>2, <2>3
  <2>4. CASE creds.tmp # None
    <3>1. creds.data[creds.tmp] = Session(p)
      BY <1>6, <2>1, <2>4 DEF SavesInv, SessionOf
    <3>2. FileOf(creds)' = Session(p)
      BY <1>2, <2>1, <2>4, <3>1, RenameFile
    <3> QED BY <1>8, <2>1, <2>2, <3>2
  <2> QED BY <2>3, <2>4
<1>15. CASE ClearCredentials(p)
  <2>1. /\ proc[p].pc = "clear" /\ proc'[p].pc = "done" /\ ~OpenCredentials(p)
        /\ creds' = [creds EXCEPT !.final = None]
    BY <1>15, SaveMoves DEF Moves, ClearCredentials, OpenCredentials
  <2>2. AskedOfCredentials[p] = Absent /\ AskedOfCredentials'[p] = Idle
    BY <2>1, Asked, AskedNext
  <2>3. FileOf(creds)' = Absent
    BY <1>2, <2>1, FileOfEffects
  <2> QED BY <1>8, <2>1, <2>2, <2>3, Distinguished
<1>16. CASE OpenProject(p) \/ WriteProject(p) \/ RenameProject(p) \/ GiveUpProject(p) \/ Unlink(p)
  <2>1. /\ proc[p].pc \in {"bind", "bindOpened", "bindWritten", "bindUnnamed", "unlink"}
        /\ proc'[p].pc \in {"bindOpened", "bindWritten", "bindUnnamed", "done", "failed"}
        /\ creds' = creds /\ ~OpenCredentials(p)
    BY <1>16, SaveMoves DEF Moves, OpenProject, WriteProject, RenameProject, GiveUpProject, Unlink,
       OpenCredentials
  <2>2. AskedOfCredentials'[p] = AskedOfCredentials[p]
    BY <2>1, Asked, AskedNext
  <2> QED BY <1>7, <2>1, <2>2
<1> QED BY <1>1, <1>10, <1>11, <1>12, <1>13, <1>14, <1>15, <1>16 DEF Save, Goal

LEMMA ProjectStep ==
    ASSUME TypeOK, NamesInv, CommandInv, DamageInv, Next
    PROVE  [Project!Next]_<<FileOf(project), AskedOfProject, "project" \in overlapped>>
<1> DEFINE Goal == [Project!Next]_<<FileOf(project), AskedOfProject, "project" \in overlapped>>
           saving == {"bind", "bindOpened", "bindWritten"}
<1>1. PICK p \in Procs : Quiet(p) \/ Save(p) \/ Kill(p)
  BY NextCases
<1>2. project \in Files(Bindings) /\ Distinct(project)
  BY DEF TypeOK, NamesInv
<1>3. Others(p)
  BY <1>1, QuietMoves, SaveMoves, KillMoves DEF Moves, Save
<1>4. overlapped \subseteq overlapped' /\ (~OpenProject(p) =>
         ("project" \in overlapped' => "project" \in overlapped))
  BY <1>1, QuietMoves, KillMoves DEF Save, Clean, OpenCredentials, WriteCredentials, RenameCredentials,
     GiveUpCredentials, ChmodCredentials, ClearCredentials, OpenProject, WriteProject, RenameProject,
     GiveUpProject, Unlink, files
<1>5. CASE "project" \in overlapped
  <2>1. "project" \in overlapped /\ ("project" \in overlapped)'
    BY <1>4, <1>5
  <2> QED BY <2>1 DEF Project!Next
<1> SUFFICES ASSUME "project" \notin overlapped PROVE Goal
  BY <1>5
<1>6. SavesInv(project, proc, "bindOpened", "bindWritten", BindingOf)
  BY DEF DamageInv
<1>7. ASSUME ~OpenProject(p), FileOf(project)' = FileOf(project),
             \/ AskedOfProject'[p] = AskedOfProject[p]
             \/ AskedOfProject[p] = Idle /\ AskedOfProject'[p] \in Bindings \cup {Absent}
             \/ AskedOfProject[p] # Idle /\ AskedOfProject'[p] = Idle
      PROVE  Goal
  BY <1>3, <1>4, <1>7, ProjectAct
<1>8. ASSUME ~OpenProject(p), FileOf(project)' = AskedOfProject[p],
             AskedOfProject[p] # Idle, AskedOfProject'[p] = Idle
      PROVE  Goal
  BY <1>3, <1>4, <1>8, ProjectAct
<1>9. \A q \in Procs : proc[q].pc \in saving => Bound(proc[q].ws) \in Bindings
  BY DEF CommandInv, BindPcs, Bindings
<1> HIDE DEF Goal
<1>10. CASE OpenProject(p)
  <2> DEFINE i == Opened(project, Held)
  <2>1. /\ project' = Open(project, i) /\ proc[p].pc = "bind" /\ proc'[p].pc = "bindOpened"
        /\ proc'[p].ws = proc[p].ws
    BY <1>10, SaveMoves DEF Moves, OpenProject, Save
  <2>2. i \in Inodes \ {project.final}
    BY <1>2, OpenedIsInode
  <2> HIDE DEF i
  <2>3. FileOf(project)' = FileOf(project)
    BY <1>2, <2>1, <2>2, FileOfEffects
  <2>4. AskedOfProject[p] = Bound(proc[p].ws) /\ AskedOfProject'[p] = Bound(proc[p].ws)
    BY <2>1, Asked, AskedNext
  <2>5. CASE "project" \notin overlapped'
    BY <1>3, <2>3, <2>4, <2>5, ProjectAct DEF Goal
  <2>6. CASE "project" \in overlapped'
    <3>1. PICK q \in Procs : proc[q].pc \in {"bindOpened", "bindWritten"}
      BY <1>10, <2>6 DEF OpenProject, Saving
    <3>2. AskedOfProject[q] = Bound(proc[q].ws)
      BY <3>1, Asked
    <3>3. p # q /\ AskedOfProject[p] \in Bindings /\ AskedOfProject[q] \in Bindings
      BY <1>9, <2>1, <2>4, <3>1, <3>2
    <3>4. AskedOfProject' = AskedOfProject
      BY <1>3, <2>4, AskedMoves
    <3>5. ("project" \in overlapped)'
      BY <2>6
    <3>6. Project!Contend(p, q)
      BY <2>3, <3>3, <3>4, <3>5 DEF Project!Contend
    <3> QED BY <3>6 DEF Project!Next, Goal
  <2> QED BY <2>5, <2>6
<1>11. CASE Quiet(p) \/ Kill(p)
  <2>1. /\ project' = project /\ ~OpenProject(p)
        /\ proc'[p].pc \notin {"bindOpened", "bindWritten"}
        /\ proc[p].pc \in saving \cup {"unlink"} => proc'[p].pc = "killed"
        /\ proc'[p].pc = "bind" => proc'[p].ws \in Ids
    <3>1. CASE Quiet(p)
      BY <3>1, QuietMoves DEF Moves, OpenProject
    <3>2. CASE Kill(p)
      BY <3>2, KillMoves, SaveMoves DEF Moves
    <3> QED BY <1>11, <3>1, <3>2
  <2>2. CASE proc[p].pc \in saving \cup {"unlink"}
    <3>1. AskedOfProject[p] # Idle /\ AskedOfProject'[p] = Idle
      BY <2>1, <2>2, Asked, AskedNext, Distinguished
    <3> QED BY <1>7, <2>1, <3>1
  <2>3. CASE proc[p].pc \notin saving \cup {"unlink"}
    <3>1. AskedOfProject[p] = Idle
      BY <2>3, Asked
    <3>2. AskedOfProject'[p] \in Bindings \cup {Absent, Idle}
      <4>1. proc'[p].pc = "bind" => Bound(proc'[p].ws) \in Bindings
        BY <2>1 DEF Bindings
      <4> QED BY <2>1, <4>1, AskedNext
    <3> QED BY <1>7, <2>1, <3>1, <3>2
  <2> QED BY <2>2, <2>3
<1>12. CASE GiveUpProject(p)
  <2>1. /\ proc[p].pc = "bindUnnamed" /\ proc'[p].pc \in {"failed", "done"}
        /\ project' = RemoveTmp(project) /\ ~OpenProject(p)
    BY <1>12, SaveMoves DEF Moves, GiveUpProject, OpenProject
  <2>2. FileOf(project)' = FileOf(project)
    BY <1>2, <2>1, FileOfEffects
  <2>3. AskedOfProject'[p] = AskedOfProject[p]
    BY <2>1, Asked, AskedNext
  <2> QED BY <1>7, <2>1, <2>2, <2>3
<1>13. CASE WriteProject(p)
  <2>1. /\ proc[p].pc = "bindOpened" /\ proc'[p].pc = "bindWritten" /\ ~OpenProject(p)
        /\ project' \in Written(project, proc[p].inode, Bound(proc[p].ws))
        /\ proc'[p].ws = proc[p].ws
    BY <1>13, SaveMoves DEF Moves, WriteProject, OpenProject, Save
  <2>2. proc[p].inode \in Inodes /\ proc[p].inode # project.final
    BY <1>6, <2>1 DEF SavesInv, Opener, TypeOK, Processes, Opening
  <2>3. FileOf(project)' = FileOf(project)
    BY <1>2, <1>9, <2>1, <2>2, FileOfWritten
  <2>4. AskedOfProject'[p] = AskedOfProject[p]
    BY <2>1, Asked, AskedNext
  <2> QED BY <1>7, <2>1, <2>3, <2>4
<1>14. CASE RenameProject(p)
  <2>1. /\ proc[p].pc = "bindWritten" /\ proc'[p].pc \in {"bindUnnamed", "done"} /\ ~OpenProject(p)
        /\ project' = IF project.tmp = None THEN project ELSE Rename(project)
    BY <1>14, SaveMoves DEF Moves, RenameProject, OpenProject
  <2>2. /\ AskedOfProject[p] = Bound(proc[p].ws) /\ AskedOfProject[p] # Idle
        /\ AskedOfProject'[p] = Idle
    BY <2>1, Asked, AskedNext, Distinguished
  <2>3. CASE project.tmp = None
    BY <1>7, <2>1, <2>2, <2>3
  <2>4. CASE project.tmp # None
    <3>1. project.data[project.tmp] = Bound(proc[p].ws)
      BY <1>6, <2>1, <2>4 DEF SavesInv, BindingOf
    <3>2. FileOf(project)' = Bound(proc[p].ws)
      BY <1>2, <2>1, <2>4, <3>1, RenameFile
    <3> QED BY <1>8, <2>1, <2>2, <3>2
  <2> QED BY <2>3, <2>4
<1>15. CASE Unlink(p)
  <2>1. /\ proc[p].pc = "unlink" /\ proc'[p].pc = "done" /\ ~OpenProject(p)
        /\ project' = [project EXCEPT !.final = None]
    BY <1>15, SaveMoves DEF Moves, Unlink, OpenProject
  <2>2. AskedOfProject[p] = Absent /\ AskedOfProject'[p] = Idle
    BY <2>1, Asked, AskedNext
  <2>3. FileOf(project)' = Absent
    BY <1>2, <2>1, FileOfEffects
  <2> QED BY <1>8, <2>1, <2>2, <2>3, Distinguished
<1>16. CASE \/ Clean(p) \/ OpenCredentials(p) \/ WriteCredentials(p) \/ RenameCredentials(p)
            \/ GiveUpCredentials(p) \/ ChmodCredentials(p) \/ ClearCredentials(p)
  <2>1. /\ proc[p].pc \in {"start", "load", "save", "opened", "written", "unnamed", "renamed", "clear"}
        /\ proc'[p].pc \in {"cleaned", "opened", "written", "unnamed", "renamed", "done", "failed"}
        /\ project' = project /\ ~OpenProject(p)
    BY <1>16, SaveMoves DEF Moves, Clean, OpenCredentials, WriteCredentials, RenameCredentials,
       GiveUpCredentials, ChmodCredentials, ClearCredentials, OpenProject, files
  <2>2. AskedOfProject'[p] = AskedOfProject[p]
    BY <2>1, Asked, AskedNext
  <2> QED BY <1>7, <2>1, <2>2
<1> QED BY <1>1, <1>10, <1>11, <1>12, <1>13, <1>14, <1>15, <1>16 DEF Save, Goal

-----------------------------------------------------------------------------
(* The theorems *)

LEMMA InitialFiles ==
    ASSUME NEW bodies, NEW c \in bodies \cup {Empty}
    PROVE  /\ Directory(Inodes, c) \in Files(bodies)
           /\ Directory(Inodes, c).tmp = None
           /\ Directory(Inodes, c).final # None => Content(Directory(Inodes, c)) = c /\ c # Empty
<1>1. 1 \in Inodes
  <2>1. Cardinality(Procs) \in Nat
    BY UserCommandsAssumption, FS_CardinalityType
  <2> QED BY <2>1 DEF Inodes
<1> QED BY <1>1 DEF Directory, Files, Content, None

LEMMA InitIInv == Init => IInv
<1> SUFFICES ASSUME Init PROVE IInv
  OBVIOUS
<1>1. PICK cmd \in [Procs -> UNION {Commands[p] : p \in Procs}] :
          /\ \A p \in Procs : cmd[p] \in Commands[p]
          /\ proc = Started(cmd)
  BY DEF Init
<1>2. \A p \in Procs : /\ proc[p].cmd = cmd[p] /\ proc[p].pc = "start" /\ proc[p].inode = None
                       /\ proc[p] \in Processes
  BY <1>1 DEF Started, Processes, Pcs
<1>3. /\ server \subseteq Workspaces /\ \A v, w \in server : v = w
      /\ lastId \in 0 .. MaxIds /\ \A w \in server : w.id <= lastId
  <2>1. CASE server = {}
    BY <2>1, FS_EmptySet, UserCommandsAssumption DEF Init
  <2>2. CASE \E h \in BOOLEAN, n \in Names : server = {[id |-> 1, here |-> h, name |-> n]}
    <3>1. PICK h \in BOOLEAN, n \in Names : server = {[id |-> 1, here |-> h, name |-> n]}
      BY <2>2
    <3>2. lastId = 1
      BY <3>1, FS_Singleton DEF Init
    <3> QED BY <3>1, <3>2, UserCommandsAssumption DEF Workspaces, Ids
  <2> QED BY <2>1, <2>2 DEF Init
<1>4. \E c \in Sessions \cup {Empty} : creds = Directory(Inodes, c)
  BY DEF Init, Sessions
<1>5. \E c \in Bindings \cup {Empty} : project = Directory(Inodes, c)
  <2>1. \A w \in server : Bound(w.id) \in Bindings
    BY <1>3 DEF Bindings, Workspaces
  <2> QED BY <2>1 DEF Init
<1>6. /\ creds \in Files(Sessions) /\ creds.tmp = None /\ (creds.final # None => IsWhole(Content(creds)))
      /\ project \in Files(Bindings) /\ project.tmp = None /\ (project.final # None => IsWhole(Content(project)))
  BY <1>4, <1>5, InitialFiles, BodiesAreWhole DEF Sessions, Bindings
<1>7. revoked = {} /\ kills = 0 /\ overlapped = {} /\ raced = FALSE
  BY DEF Init
<1>8. TypeOK
  <2>1. proc \in [Procs -> Processes]
    BY <1>1, <1>2 DEF Started
  <2>2. \A p \in Procs : proc[p].cmd \in Commands[p] /\ (proc[p].pc \in Opening <=> proc[p].inode # None)
    BY <1>1, <1>2 DEF Opening
  <2>3. kills \in 0 .. MaxKills
    BY <1>7, UserCommandsAssumption
  <2> QED BY <1>3, <1>6, <1>7, <2>1, <2>2, <2>3 DEF TypeOK
<1>9. NamesInv /\ CommandInv
  BY <1>2, <1>6 DEF NamesInv, Distinct, CommandInv, LoginPcs, BindPcs
<1>10. DamageInv /\ SessionInv /\ BindingInv
  BY <1>2, <1>6 DEF DamageInv, SavesInv, SessionInv, BindingInv
<1>11. WorkspaceInv
  BY <1>2, <1>3 DEF WorkspaceInv
<1> QED BY <1>8, <1>9, <1>10, <1>11 DEF IInv

LEMMA Unchanged == IInv /\ UNCHANGED vars => IInv'
<1> SUFFICES ASSUME IInv, UNCHANGED vars PROVE IInv'
  OBVIOUS
<1>1. TypeOK'
  BY DEF IInv, TypeOK, vars
<1>2. NamesInv' /\ CommandInv' /\ DamageInv'
  BY DEF IInv, NamesInv, CommandInv, DamageInv, SavesInv, SessionOf, BindingOf, vars
<1>3. SessionInv' /\ BindingInv' /\ WorkspaceInv'
  BY DEF IInv, SessionInv, BindingInv, WorkspaceInv, Alone, vars
<1> QED BY <1>1, <1>2, <1>3 DEF IInv

(* The invariant that the safety properties follow from.                     *)
THEOREM Inductive == Spec => []IInv
<1>1. IInv /\ [Next]_vars => IInv'
  BY TypeStep, CommandStep, NamesStep, DamageStep, SessionStep, BindingStep, WorkspaceStep, Unchanged
     DEF IInv
<1> QED BY InitIInv, <1>1, PTL DEF Spec

(* Every command stays in its course, with an open file exactly while it is  *)
(* between the open and the write of a save.                                 *)
THEOREM TypeCorrect == Spec => []TypeOK
<1>1. IInv => TypeOK
  BY DEF IInv
<1> QED BY Inductive, <1>1, PTL

(* Saves that do not overlap leave a whole file or none, whatever is killed  *)
(* and whatever removes their .tmp.                                          *)
THEOREM FilesStayWhole == Spec => []NoDamage
<1>1. IInv => NoDamage
  BY DEF IInv, DamageInv, SavesInv, NoDamage
<1> QED BY Inductive, <1>1, PTL

(* A command that alone writes a file has left there what it reports.        *)
THEOREM SuccessIsOnDisk == Spec => []ReportsHonest
<1>1. IInv => ReportsHonest
  BY DEF IInv, SessionInv, BindingInv, ReportsHonest, Alone, SessionCmds, BindingCmds
<1> QED BY Inductive, <1>1, PTL

(* However many inits run, are killed or lose an answer, this directory gets *)
(* one workspace, but for an init that could not see another's.              *)
THEOREM OneWorkspace == Spec => []NoDuplicates
<1>1. IInv => NoDuplicates
  <2> SUFFICES ASSUME IInv, ~raced
               PROVE  Cardinality({w \in server : w.here}) <= 1
    BY DEF NoDuplicates
  <2>1. \A v, w \in {x \in server : x.here} : v = w
    BY DEF IInv, WorkspaceInv
  <2>2. CASE {w \in server : w.here} = {}
    BY <2>2, FS_EmptySet
  <2>3. CASE {w \in server : w.here} # {}
    <3>1. PICK v \in {w \in server : w.here} : TRUE
      BY <2>3
    <3>2. {w \in server : w.here} = {v}
      BY <2>1, <3>1
    <3>3. Cardinality({v}) = 1
      BY FS_Singleton
    <3> QED BY <3>2, <3>3
  <2> QED BY <2>2, <2>3
<1> QED BY Inductive, <1>1, PTL

(* SaveCredentials and SaveProjectConfig do what an atomic save would, for   *)
(* any number of commands and kills, until two saves of one file overlap.    *)
THEOREM SavesAreAtomic == Spec => RefinesAtomicFile
<1>1. Init => Credentials!Init /\ Project!Init
  <2> SUFFICES ASSUME Init PROVE Credentials!Init /\ Project!Init
    OBVIOUS
  <2>1. TypeOK /\ overlapped = {} /\ \A p \in Procs : proc[p].pc = "start"
    <3>1. overlapped = {} /\ \A p \in Procs : proc[p].pc = "start"
      BY DEF Init, Started
    <3>2. TypeOK
      BY InitIInv DEF IInv
    <3> QED BY <3>1, <3>2
  <2>2. /\ AskedOfCredentials = [p \in Procs |-> Idle]
        /\ AskedOfProject = [p \in Procs |-> Idle]
    BY <2>1 DEF AskedOfCredentials, AskedOfProject
  <2>3. FileOf(creds) \in Sessions \cup {Absent} /\ FileOf(project) \in Bindings \cup {Absent}
    <3>1. NoDamage
      BY <2>1, InitIInv DEF IInv, DamageInv, SavesInv, NoDamage
    <3> QED BY <2>1, <3>1, ContentType DEF NoDamage, TypeOK, FileOf, Content
  <2> QED BY <2>1, <2>2, <2>3 DEF Credentials!Init, Project!Init
<1>2. IInv /\ [Next]_vars =>
        /\ [Credentials!Next]_<<FileOf(creds), AskedOfCredentials, "credentials" \in overlapped>>
        /\ [Project!Next]_<<FileOf(project), AskedOfProject, "project" \in overlapped>>
  <2>1. CASE UNCHANGED vars
    BY <2>1 DEF vars, FileOf, AskedOfCredentials, AskedOfProject
  <2>2. CASE Next
    BY <2>2, CredentialsStep, ProjectStep DEF IInv
  <2> QED BY <2>1, <2>2
<1> QED BY <1>1, <1>2, Inductive, PTL
        DEF Spec, RefinesAtomicFile, Credentials!Spec, Project!Spec
=============================================================================
