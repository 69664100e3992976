------------------------ MODULE ManifestCacheProofs ------------------------
(***************************************************************************)
(* For any syncs, Read requests, index versions and crashes: the copy that *)
(* requests share moves forward as long as the file on disk does, and the  *)
(* daemon's own rename does not land an older copy over a newer one.       *)
(*                                                                         *)
(* The argument: a copy of the daemon's in .tmp is the one of the refetch  *)
(* that is under way (TmpInv), and after the comparison either it is not   *)
(* older than manifest.json or a sync has taken it away (GapInv).  What a  *)
(* request read, and what memory holds, is not newer than manifest.json or *)
(* than what the next rename of the daemon brings (MemoryInv).             *)
(*                                                                         *)
(* Then what is shown in place of something longer, a file by its manifest *)
(* entry first: `browzer read`, codereview aggregate and the filters of    *)
(* `browzer run` leave out what NothingHidden names and nothing else that  *)
(* counts, of input of any length (NothingIsHidden).                       *)
(***************************************************************************)
EXTENDS ManifestCache, Decisions, FiniteSetTheorems, FunctionTheorems, WellFoundedInduction, TLAPS

InFlight == {"fetched", "opened", "written", "compared"}
DaemonCopy(c) == IsWhole(c) /\ c[2] = "daemon"

\* The version that the next copy of the daemon's has at least.
NextVersion == IF refetch.pc \in InFlight THEN refetch.version ELSE server

\* What was fetched is a version the server has, or had.
VersionInv ==
    /\ refetch.pc \in InFlight => refetch.version \in 1 .. server
    /\ \A s \in Syncs : sync[s].pc \in {"fetched", "opened", "written"} => sync[s].version \in Versions

\* A copy of the daemon's in .tmp is the one that was fetched last.
TmpInv ==
    /\ refetch.pc \in {"opened", "written", "compared"}
    /\ disk.tmp # None /\ DaemonCopy(disk.data[disk.tmp])
    => disk.data[disk.tmp][1] = refetch.version

\* Between the comparison and the rename manifest.json gets newer only by a
\* rename, which takes .tmp away, or by a write in place.
GapInv ==
    /\ refetch.pc = "compared" /\ ~inPlace
    /\ disk.tmp # None /\ DaemonCopy(disk.data[disk.tmp]) /\ IsWhole(Content(disk))
    => Content(disk)[1] <= refetch.version

\* manifest.json is a copy of version n or later.
Reaches(dir, n) == IsWhole(Content(dir)) /\ n <= Content(dir)[1]

\* What a request read, and what memory holds, is not newer than manifest.json
\* or than what the daemon renames next.
MemoryInv ==
    ~wentBack =>
        /\ memory[1] <= NextVersion \/ Reaches(disk, memory[1])
        /\ refetch.pc = "compared" => memory[1] <= refetch.version
        /\ \A r \in Requests : request[r].pc = "loaded" => Reaches(disk, request[r].saw[1])

IInv == TypeOK /\ VersionInv /\ TmpInv /\ GapInv /\ MemoryInv

-----------------------------------------------------------------------------
(* The directory *)

\* Among three files more than there are syncs, one is neither held by a sync
\* nor one of two others.
LEMMA FreshInode ==
    ASSUME NEW f, f \in [Syncs -> Inodes \cup {None}], NEW x, NEW y
    PROVE  \E i \in Inodes : i # x /\ i # y /\ \A s \in Syncs : i # f[s]
<1> DEFINE T == {f[s] : s \in Syncs}
           n == Cardinality(Syncs)
<1>0. IsFiniteSet(Syncs)
  BY ManifestCacheAssumption
<1>1. n \in Nat
  BY <1>0, FS_CardinalityType
<1>2. IsFiniteSet(T) /\ Cardinality(T) <= n
  <2>0. f = [s \in Syncs |-> f[s]]
    OBVIOUS
  <2>1. f \in [Syncs -> T] /\ \A t \in T : \E s \in Syncs : f[s] = t
    BY <2>0
  <2> HIDE DEF T
  <2>2. f \in Surjection(Syncs, T)
    BY <2>1 DEF Surjection
  <2> QED BY <1>0, <2>2, FS_Surjection
<1>3. Cardinality(T) \in Nat
  BY <1>2, FS_CardinalityType
<1> DEFINE U == T \cup {x}
           V == U \cup {y}
<1> HIDE DEF T, n
<1>4. IsFiniteSet(U) /\ Cardinality(U) \in Nat /\ Cardinality(U) <= n + 1
  BY <1>1, <1>2, <1>3, FS_AddElement
<1> HIDE DEF U
<1>5. IsFiniteSet(V) /\ Cardinality(V) \in Nat /\ Cardinality(V) <= n + 2
  <2>1. /\ IsFiniteSet(V)
        /\ Cardinality(V) = IF y \in U THEN Cardinality(U) ELSE Cardinality(U) + 1
    BY <1>4, FS_AddElement
  <2> HIDE DEF V
  <2> QED BY <1>1, <1>4, <2>1
<1> HIDE DEF V
<1>6. IsFiniteSet(Inodes) /\ Cardinality(Inodes) = n + 3
  <2>1. 1 \in Int /\ n + 3 \in Int /\ n + 3 >= 1 /\ Inodes = 1 .. n + 3
    BY <1>1 DEF Inodes, n
  <2> QED BY <1>1, <2>1, FS_Interval
<1>7. ~(Inodes \subseteq V)
  <2> SUFFICES ASSUME Inodes \subseteq V PROVE FALSE
    OBVIOUS
  <2>1. Cardinality(Inodes) <= Cardinality(V)
    BY <1>5, FS_Subset
  <2> QED BY <1>1, <1>5, <1>6, <2>1
<1> QED BY <1>7 DEF T, U, V

\* Opening .tmp finds a file.
LEMMA OpenedIsInode == TypeOK => Opened(disk, Held) \in Inodes
<1> SUFFICES ASSUME TypeOK PROVE Opened(disk, Held) \in Inodes
  OBVIOUS
<1>1. disk \in Directories /\ DOMAIN disk.data = Inodes
  BY DEF TypeOK, Directories
<1>2. CASE disk.tmp # None
  BY <1>1, <1>2 DEF Opened, Directories
<1>3. CASE disk.tmp = None
  <2> DEFINE f == [s \in Syncs |-> sync[s].inode]
  <2>1. f \in [Syncs -> Inodes \cup {None}]
    BY DEF TypeOK, Pulls
  <2> HIDE DEF f
  <2>2. \E i \in Inodes : i # refetch.inode /\ i # disk.final /\ \A s \in Syncs : i # f[s]
    BY <2>1, FreshInode
  <2>3. \E i \in DOMAIN disk.data : i \notin Held \cup {disk.final}
    BY <1>1, <2>2 DEF Held, f
  <2>4. (CHOOSE i \in DOMAIN disk.data : i \notin Held \cup {disk.final}) \in DOMAIN disk.data
    BY <2>3
  <2> QED BY <1>1, <1>3, <2>4 DEF Opened
<1> QED BY <1>2, <1>3

\* The operations on a directory, by what they do to the names and the files.
LEMMA OpenEffect ==
    ASSUME NEW d \in Directories, NEW i \in Inodes
    PROVE  /\ Open(d, i) \in Directories
           /\ Open(d, i).tmp = i /\ Open(d, i).final = d.final
           /\ Open(d, i).data[i] = Empty
           /\ \A j \in Inodes \ {i} : Open(d, i).data[j] = d.data[j]
  BY DEF Open, Directories

LEMMA WrittenEffect ==
    ASSUME NEW d \in Directories, NEW i \in Inodes, NEW body \in Copies, NEW w \in Written(d, i, body)
    PROVE  /\ w \in Directories
           /\ w.tmp = d.tmp /\ w.final = d.final
           /\ w.data[i] \in {body, Torn}
           /\ \A j \in Inodes \ {i} : w.data[j] = d.data[j]
  BY DEF Written, Directories

LEMMA RenameEffect ==
    ASSUME NEW d \in Directories, d.tmp # None
    PROVE  /\ Rename(d) \in Directories
           /\ Rename(d).tmp = None /\ Rename(d).final = d.tmp
           /\ Content(Rename(d)) \in {d.data[d.tmp], Empty}
<1> DEFINE cleared == [i \in Inodes |-> IF i = d.final THEN Empty ELSE d.data[i]]
<1>1. DOMAIN d.data = Inodes
  BY DEF Directories
<1>2. Rename(d) = [d EXCEPT !.final = d.tmp, !.tmp = None, !.data = cleared]
  BY <1>1 DEF Rename
<1>3. Rename(d) = [tmp |-> None, final |-> d.tmp, data |-> cleared]
  BY <1>2 DEF Directories
<1>4. cleared \in [Inodes -> Copies \cup {Empty, Torn}]
  BY DEF Directories
<1>5. cleared[d.tmp] \in {d.data[d.tmp], Empty}
  BY DEF Directories
<1> HIDE DEF cleared
<1> QED BY <1>3, <1>4, <1>5 DEF Directories, Content

LEMMA RemoveEffect ==
    ASSUME NEW d \in Directories
    PROVE  /\ RemoveTmp(d) \in Directories
           /\ RemoveTmp(d).tmp = None /\ Content(RemoveTmp(d)) = Content(d)
  BY DEF RemoveTmp, Directories, Content

LEMMA ContentType ==
    ASSUME NEW d \in Directories
    PROVE  /\ Content(d) \in Copies \cup {Empty, Torn}
           /\ IsWhole(Content(d)) => Content(d) \in Copies /\ Content(d)[1] \in Versions
  BY DEF Content, Directories, IsWhole, Copies, Inodes, None

-----------------------------------------------------------------------------
(* The initial state, the types *)

LEMMA InitIInv == Init => IInv
<1> SUFFICES ASSUME Init PROVE IInv
  OBVIOUS
<1> USE ManifestCacheAssumption DEF Init, Idle, NoCopy, None
<1>1. TypeOK
  <2>1. server \in Versions /\ memory \in Copies \cup {NoCopy} /\ kicked \in 0 .. MaxKicks
    BY DEF Versions
  <2>2. disk = [tmp |-> None, final |-> None, data |-> [i \in Inodes |-> IF i = 1 THEN Empty ELSE Empty]]
    BY DEF Directory
  <2>3. disk \in Directories
    BY <2>2 DEF Directories
  <2>4. /\ request \in [Requests -> Gets] /\ refetch \in Refetches /\ sync \in [Syncs -> Pulls]
        /\ refetch.pc = "idle" /\ refetch.inode = 0
        /\ \A s \in Syncs : sync[s].pc = "idle" /\ sync[s].inode = 0
    BY DEF Gets, Refetches, Pulls
  <2>5. crashes \in 0 .. MaxCrashes
    OBVIOUS
  <2>6. wentBack \in BOOLEAN /\ inPlace \in BOOLEAN
    OBVIOUS
  <2> QED BY <2>1, <2>3, <2>4, <2>5, <2>6 DEF TypeOK
<1>2. VersionInv /\ TmpInv /\ GapInv
  BY DEF VersionInv, TmpInv, GapInv, InFlight
<1>3. MemoryInv
  BY DEF MemoryInv, NextVersion, InFlight
<1> QED BY <1>1, <1>2, <1>3 DEF IInv

\* The two kinds of writer that write what they fetched.
LEMMA BodyTypes ==
    ASSUME TypeOK, VersionInv
    PROVE  /\ refetch.pc \in InFlight => <<refetch.version, "daemon">> \in Copies
           /\ \A s \in Syncs : sync[s].pc \in {"fetched", "opened", "written"} =>
                <<sync[s].version, s>> \in Copies
  BY DEF TypeOK, VersionInv, Versions, Copies, Refetches, Pulls

LEMMA TypeStep == TypeOK /\ VersionInv /\ [Next]_vars => TypeOK' /\ VersionInv'
<1> SUFFICES ASSUME TypeOK, VersionInv, [Next]_vars PROVE TypeOK' /\ VersionInv'
  OBVIOUS
<1> USE ManifestCacheAssumption DEF TypeOK, VersionInv, Versions, InFlight, Gets, Refetches, Pulls
<1>0. Idle \in Refetches /\ Idle.pc = "idle" /\ Idle.inode = None
  BY DEF Idle
<1>1. CASE UNCHANGED vars
  BY <1>1 DEF vars
<1>2. CASE Reindex
  BY <1>2 DEF Reindex
<1>3. ASSUME NEW r \in Requests, Get(r) PROVE TypeOK' /\ VersionInv'
  <2>1. CASE GetMisses(r)
    BY <2>1 DEF GetMisses, Request, NoCopy
  <2>2. CASE ReadNothing(r)
    BY <2>2 DEF ReadNothing, Request
  <2>3. CASE ReadFile(r)
    <3>1. Content(disk) \in Copies \cup {Empty, Torn}
      BY ContentType
    <3>2. request' \in [Requests -> [pc : {"idle", "missed", "loaded"}, saw : Copies \cup {NoCopy}]]
      BY <2>3, <3>1 DEF ReadFile, Request, IsWhole
    <3> QED BY <2>3, <3>2 DEF ReadFile
  <2>4. CASE Install(r)
    BY <2>4 DEF Install, Request
  <2> QED BY <1>3, <2>1, <2>2, <2>3, <2>4 DEF Get
<1>4. CASE Kick
  BY <1>4 DEF Kick, StartRefetch, JoinRefetch
<1>5. CASE FetchFails \/ Fetch
  <2>1. CASE FetchFails
    BY <1>0, <2>1 DEF FetchFails
  <2>2. CASE Fetch
    <3>1. refetch' = [refetch EXCEPT !.pc = "fetched", !.version = server] /\ refetch.inode = None
      BY <2>2 DEF Fetch
    <3>2. refetch' \in Refetches /\ refetch'.pc = "fetched" /\ refetch'.inode = None
      BY <3>1
    <3>3. refetch'.version \in 1 .. server
      BY <3>1
    <3> QED BY <2>2, <3>2, <3>3 DEF Fetch
  <2> QED BY <1>5, <2>1, <2>2
<1>6. CASE RefetchOpens
  <2> DEFINE ino == Opened(disk, Held)
  <2>1. ino \in Inodes
    BY OpenedIsInode
  <2>2. disk' = Open(disk, ino) /\ refetch' = [refetch EXCEPT !.pc = "opened", !.inode = ino]
        /\ wentBack' \in BOOLEAN
    BY <1>6 DEF RefetchOpens, Publish
  <2> HIDE DEF ino
  <2>3. disk' \in Directories
    BY <2>1, <2>2, OpenEffect
  <2>4. ino # None
    BY <2>1 DEF Inodes, None
  <2> QED BY <1>6, <2>1, <2>2, <2>3, <2>4 DEF RefetchOpens
<1>7. CASE RefetchWrites
  <2>1. PICK d \in Written(disk, refetch.inode, <<refetch.version, "daemon">>) :
          disk' = d /\ wentBack' \in BOOLEAN
    BY <1>7 DEF RefetchWrites, Publish
  <2>2. refetch.inode \in Inodes /\ <<refetch.version, "daemon">> \in Copies
    BY <1>7, BodyTypes DEF RefetchWrites
  <2>3. disk' \in Directories
    BY <2>1, <2>2, WrittenEffect
  <2> QED BY <1>7, <2>1, <2>3 DEF RefetchWrites, None
<1>8. CASE Compare
  <2>1. disk' \in Directories
    BY <1>8, RemoveEffect DEF Compare
  <2>2. refetch' = Idle \/ refetch' = [refetch EXCEPT !.pc = "compared"]
    BY <1>8 DEF Compare
  <2>3. refetch' \in Refetches /\ (refetch'.pc = "opened" <=> refetch'.inode # None)
        /\ (refetch'.pc \in InFlight => refetch'.version \in 1 .. server)
    BY <1>0, <1>8, <2>2 DEF Compare
  <2> QED BY <1>8, <2>1, <2>3 DEF Compare
<1>9. CASE RefetchRenames
  <2>1. disk' \in Directories /\ wentBack' \in BOOLEAN
    BY <1>9, RenameEffect DEF RefetchRenames, Publish
  <2>2. memory' \in Copies \cup {NoCopy}
    BY <1>9, BodyTypes DEF RefetchRenames
  <2> QED BY <1>9, <2>1, <2>2 DEF RefetchRenames, Idle, None
<1>10. ASSUME NEW s \in Syncs, Sync(s) PROVE TypeOK' /\ VersionInv'
  <2>1. CASE SyncFetches(s)
    BY <2>1 DEF SyncFetches
  <2>2. CASE SyncOpens(s)
    <3> DEFINE ino == Opened(disk, Held)
    <3>1. ino \in Inodes
      BY OpenedIsInode
    <3>2. disk' = Open(disk, ino) /\ sync' = [sync EXCEPT ![s].pc = "opened", ![s].inode = ino]
          /\ wentBack' \in BOOLEAN
      BY <2>2 DEF SyncOpens, Publish
    <3> HIDE DEF ino
    <3>3. disk' \in Directories
      BY <3>1, <3>2, OpenEffect
    <3>4. ino # None
      BY <3>1 DEF Inodes, None
    <3> QED BY <2>2, <3>1, <3>2, <3>3, <3>4 DEF SyncOpens
  <2>3. CASE SyncWrites(s)
    <3>1. PICK d \in Written(disk, sync[s].inode, <<sync[s].version, s>>) :
            disk' = d /\ wentBack' \in BOOLEAN
      BY <2>3 DEF SyncWrites, Publish
    <3>2. sync[s].inode \in Inodes /\ <<sync[s].version, s>> \in Copies
      BY <2>3, BodyTypes DEF SyncWrites
    <3>3. disk' \in Directories
      BY <3>1, <3>2, WrittenEffect
    <3> QED BY <2>3, <3>1, <3>3 DEF SyncWrites, None
  <2>4. CASE SyncRenames(s)
    <3>1. disk' \in Directories /\ wentBack' \in BOOLEAN
      BY <2>4, RenameEffect DEF SyncRenames, Publish
    <3>2. \E pc \in {"failed", "done"} : sync' = [sync EXCEPT ![s].pc = pc]
      BY <2>4 DEF SyncRenames
    <3>3. sync' \in [Syncs -> Pulls] /\ \A t \in Syncs : sync'[t].pc = "opened" <=> sync'[t].inode # None
      BY <2>4, <3>2 DEF SyncRenames
    <3>4. \A t \in Syncs : sync'[t].pc \in {"fetched", "opened", "written"} => sync'[t].version \in Versions
      BY <3>2
    <3> QED BY <2>4, <3>1, <3>3, <3>4 DEF SyncRenames
  <2>5. CASE KillSync(s)
    <3>1. sync' \in [Syncs -> Pulls] /\ \A t \in Syncs : sync'[t].pc = "opened" <=> sync'[t].inode # None
      BY <2>5 DEF KillSync, None
    <3>2. \A t \in Syncs : sync'[t].pc \in {"fetched", "opened", "written"} => sync'[t].version \in Versions
      BY <2>5 DEF KillSync
    <3> QED BY <2>5, <3>1, <3>2 DEF KillSync
  <2> QED BY <1>10, <2>1, <2>2, <2>3, <2>4, <2>5 DEF Sync
<1>11. CASE RestartDaemon
  BY <1>11 DEF RestartDaemon, Idle, NoCopy, None
<1> QED BY <1>1, <1>2, <1>3, <1>4, <1>5, <1>6, <1>7, <1>8, <1>9, <1>10, <1>11 DEF Next, Flight

-----------------------------------------------------------------------------
(* The file on disk *)

\* A write of a sync leaves a copy of the sync's, or a torn one.
LEMMA SyncWriteEffect ==
    ASSUME TypeOK, VersionInv, NEW s \in Syncs, SyncWrites(s)
    PROVE  /\ disk'.tmp = disk.tmp /\ disk'.final = disk.final
           /\ \A i \in Inodes :
                IF i = sync[s].inode THEN ~DaemonCopy(disk'.data[i])
                ELSE disk'.data[i] = disk.data[i]
           /\ inPlace' = (inPlace \/ sync[s].inode = disk.final)
<1>1. /\ disk \in Directories /\ sync[s].inode \in Inodes
      /\ <<sync[s].version, s>> \in Copies
  BY BodyTypes DEF TypeOK, SyncWrites, Pulls
<1>2. disk' \in Written(disk, sync[s].inode, <<sync[s].version, s>>)
  BY DEF SyncWrites, Publish
<1>3. disk'.data[sync[s].inode] \in {<<sync[s].version, s>>, Torn}
  BY <1>1, <1>2, WrittenEffect
<1>4. ~DaemonCopy(disk'.data[sync[s].inode])
  BY <1>3, ManifestCacheAssumption DEF DaemonCopy, IsWhole
<1> QED BY <1>1, <1>2, <1>4, WrittenEffect DEF SyncWrites

\* Opening .tmp empties it.
LEMMA OpenedIsNoCopy ==
    ASSUME TypeOK, disk' = Open(disk, Opened(disk, Held))
    PROVE  disk'.tmp # None /\ ~DaemonCopy(disk'.data[disk'.tmp])
<1>1. Opened(disk, Held) \in Inodes /\ disk \in Directories
  BY OpenedIsInode DEF TypeOK
<1> QED BY <1>1, OpenEffect DEF DaemonCopy, IsWhole, Inodes, None

\* The steps of a refetch before it has the file open.
LEMMA EarlyFlight ==
    ASSUME TypeOK, StartRefetch \/ FetchFails \/ Fetch
    PROVE  refetch'.pc \in {"fetching", "idle", "fetched"}
<1>1. DOMAIN refetch = {"pc", "version", "inode"}
  BY DEF TypeOK, Refetches
<1>2. CASE StartRefetch
  BY <1>1, <1>2 DEF StartRefetch
<1>3. CASE FetchFails
  BY <1>3 DEF FetchFails, Idle
<1>4. CASE Fetch
  BY <1>1, <1>4 DEF Fetch
<1> QED BY <1>2, <1>3, <1>4

LEMMA TmpStep == TypeOK /\ VersionInv /\ TmpInv /\ [Next]_vars => TmpInv'
<1> SUFFICES ASSUME TypeOK, VersionInv, TmpInv, [Next]_vars PROVE TmpInv'
  OBVIOUS
<1> USE DEF TmpInv
<1>0. disk \in Directories /\ refetch \in Refetches
  BY DEF TypeOK
<1>1. CASE UNCHANGED vars
  BY <1>1 DEF vars
<1>2. CASE Reindex \/ Kick \/ FetchFails \/ Fetch
  <2>1. CASE Reindex \/ JoinRefetch
    BY <2>1 DEF Reindex, JoinRefetch
  <2>2. CASE StartRefetch \/ FetchFails \/ Fetch
    <3>1. refetch'.pc \in {"fetching", "idle", "fetched"}
      BY <2>2, EarlyFlight
    <3> QED BY <3>1
  <2> QED BY <1>2, <2>1, <2>2 DEF Kick
<1>3. ASSUME NEW r \in Requests, Get(r) PROVE TmpInv'
  BY <1>3 DEF Get, GetMisses, ReadNothing, ReadFile, Install
<1>4. CASE RefetchOpens
  <2>1. disk' = Open(disk, Opened(disk, Held))
    BY <1>4 DEF RefetchOpens, Publish
  <2> QED BY <2>1, OpenedIsNoCopy
<1>5. CASE RefetchWrites
  <2>1. /\ refetch.inode \in Inodes /\ <<refetch.version, "daemon">> \in Copies
        /\ disk' \in Written(disk, refetch.inode, <<refetch.version, "daemon">>)
        /\ refetch'.version = refetch.version /\ refetch.pc = "opened"
    BY <1>5, BodyTypes DEF RefetchWrites, Publish, TypeOK, Refetches, InFlight
  <2>2. /\ disk'.tmp = disk.tmp
        /\ disk'.data[refetch.inode] \in {<<refetch.version, "daemon">>, Torn}
        /\ \A j \in Inodes \ {refetch.inode} : disk'.data[j] = disk.data[j]
    BY <1>0, <2>1, WrittenEffect
  <2>3. CASE disk.tmp = refetch.inode
    BY <2>1, <2>2, <2>3 DEF DaemonCopy, IsWhole
  <2>4. CASE disk.tmp # refetch.inode
    BY <1>0, <2>1, <2>2, <2>4 DEF Directories
  <2> QED BY <2>3, <2>4
<1>6. CASE Compare
  BY <1>0, <1>6, RemoveEffect DEF Compare, Idle, Refetches
<1>7. CASE RefetchRenames \/ RestartDaemon
  BY <1>7 DEF RefetchRenames, RestartDaemon, Idle
<1>8. ASSUME NEW s \in Syncs, Sync(s) PROVE TmpInv'
  <2>1. refetch' = refetch
    BY <1>8 DEF Sync, SyncFetches, SyncOpens, SyncWrites, SyncRenames, KillSync
  <2>2. CASE SyncFetches(s) \/ KillSync(s)
    BY <2>1, <2>2 DEF SyncFetches, KillSync
  <2>3. CASE SyncOpens(s)
    <3>1. disk' = Open(disk, Opened(disk, Held))
      BY <2>3 DEF SyncOpens, Publish
    <3> QED BY <3>1, OpenedIsNoCopy
  <2>4. CASE SyncWrites(s)
    BY <1>0, <2>1, <2>4, SyncWriteEffect DEF Directories
  <2>5. CASE SyncRenames(s)
    <3>1. disk' = disk \/ disk'.tmp = None
      BY <1>0, <2>5, RenameEffect DEF SyncRenames, Publish
    <3> QED BY <2>1, <3>1
  <2> QED BY <1>8, <2>2, <2>3, <2>4, <2>5 DEF Sync
<1> QED BY <1>1, <1>2, <1>3, <1>4, <1>5, <1>6, <1>7, <1>8 DEF Next, Flight

LEMMA GapStep == TypeOK /\ VersionInv /\ TmpInv /\ GapInv /\ [Next]_vars => GapInv'
<1> SUFFICES ASSUME TypeOK, VersionInv, TmpInv, GapInv, [Next]_vars PROVE GapInv'
  OBVIOUS
<1> USE DEF GapInv
<1>0. disk \in Directories /\ refetch \in Refetches
  BY DEF TypeOK
<1>1. CASE UNCHANGED vars
  BY <1>1 DEF vars, Content
<1>2. CASE Reindex \/ Kick \/ FetchFails \/ Fetch
  <2>1. CASE Reindex \/ JoinRefetch
    BY <2>1 DEF Reindex, JoinRefetch, Content
  <2>2. CASE StartRefetch \/ FetchFails \/ Fetch
    <3>1. refetch'.pc \in {"fetching", "idle", "fetched"}
      BY <2>2, EarlyFlight
    <3> QED BY <3>1
  <2> QED BY <1>2, <2>1, <2>2 DEF Kick
<1>3. ASSUME NEW r \in Requests, Get(r) PROVE GapInv'
  BY <1>3 DEF Get, GetMisses, ReadNothing, ReadFile, Install, Content
<1>4. CASE RefetchOpens \/ RefetchWrites
  BY <1>0, <1>4 DEF RefetchOpens, RefetchWrites, Refetches
<1>5. CASE Compare
  <2>1. refetch'.pc = "compared" =>
            /\ ~(IsWhole(Content(disk)) /\ Content(disk)[1] > refetch.version)
            /\ disk' = disk /\ refetch'.version = refetch.version
    BY <1>0, <1>5 DEF Compare, Idle, Refetches
  <2>2. refetch.version \in 1 .. server /\ server \in Nat
    BY <1>5 DEF Compare, VersionInv, InFlight, TypeOK, Versions
  <2>3. IsWhole(Content(disk)) => Content(disk)[1] \in Versions
    BY <1>0, ContentType
  <2> QED BY <2>1, <2>2, <2>3 DEF Content, Versions
<1>6. CASE RefetchRenames \/ RestartDaemon
  BY <1>6 DEF RefetchRenames, RestartDaemon, Idle
<1>7. ASSUME NEW s \in Syncs, Sync(s) PROVE GapInv'
  <2>1. refetch' = refetch
    BY <1>7 DEF Sync, SyncFetches, SyncOpens, SyncWrites, SyncRenames, KillSync
  <2>2. CASE SyncFetches(s) \/ KillSync(s)
    BY <2>1, <2>2 DEF SyncFetches, KillSync, Content
  <2>3. CASE SyncOpens(s)
    <3>1. disk' = Open(disk, Opened(disk, Held))
      BY <2>3 DEF SyncOpens, Publish
    <3> QED BY <3>1, OpenedIsNoCopy
  <2>4. CASE SyncWrites(s)
    <3>1. disk.tmp # None => disk.tmp \in Inodes
      BY <1>0 DEF Directories
    <3>2. disk.final # None => disk.final \in Inodes
      BY <1>0 DEF Directories
    <3>3. ~inPlace' => Content(disk') = Content(disk)
      BY <2>4, <3>2, SyncWriteEffect DEF Content
    <3>4. disk'.tmp = disk.tmp /\ (~inPlace' => ~inPlace)
      BY <2>4, SyncWriteEffect
    <3>5. disk.tmp # None /\ DaemonCopy(disk'.data[disk.tmp]) => disk'.data[disk.tmp] = disk.data[disk.tmp]
      BY <2>4, <3>1, SyncWriteEffect
    <3> QED BY <2>1, <3>3, <3>4, <3>5
  <2>5. CASE SyncRenames(s)
    <3>1. UNCHANGED <<disk, inPlace>> \/ disk'.tmp = None
      BY <1>0, <2>5, RenameEffect DEF SyncRenames, Publish
    <3> QED BY <2>1, <3>1 DEF Content
  <2> QED BY <1>7, <2>2, <2>3, <2>4, <2>5 DEF Sync
<1> QED BY <1>1, <1>2, <1>3, <1>4, <1>5, <1>6, <1>7 DEF Next, Flight

-----------------------------------------------------------------------------
(* The copy in memory *)

\* As long as wentBack stays FALSE, manifest.json stays whole and as new.
LEMMA DiskForward ==
    ASSUME TypeOK, [Next]_vars, ~wentBack'
    PROVE  /\ ~wentBack
           /\ TypeOK' => (IsWhole(Content(disk)) =>
                IsWhole(Content(disk')) /\ Content(disk')[1] >= Content(disk)[1])
<1>1. \/ disk' = disk /\ wentBack' = wentBack
      \/ Publish(disk')
      \/ disk' = RemoveTmp(disk) /\ wentBack' = wentBack
  BY DEF Next, Kick, Flight, Get, Sync, vars, Reindex, StartRefetch, JoinRefetch, FetchFails, Fetch,
         RefetchOpens, RefetchWrites, Compare, RefetchRenames, RestartDaemon, GetMisses, ReadNothing,
         ReadFile, Install, SyncFetches, SyncOpens, SyncWrites, SyncRenames, KillSync, Publish
<1>2. disk \in Directories /\ (IsWhole(Content(disk)) => Content(disk)[1] \in Versions)
  BY ContentType DEF TypeOK
<1>3. TypeOK' => (IsWhole(Content(disk')) => Content(disk')[1] \in Versions)
  BY ContentType DEF TypeOK
<1>4. CASE disk' = disk /\ wentBack' = wentBack
  BY <1>2, <1>4 DEF Versions
<1>5. CASE Publish(disk')
  <2>1. ~wentBack /\ ~(IsWhole(Content(disk)) /\ (~IsWhole(Content(disk')) \/ Content(disk')[1] < Content(disk)[1]))
    BY <1>5 DEF Publish
  <2>2. \A v, w \in Versions : ~(v < w) => v >= w
    BY DEF Versions
  <2> QED BY <1>2, <1>3, <2>1, <2>2
<1>6. CASE disk' = RemoveTmp(disk) /\ wentBack' = wentBack
  BY <1>2, <1>6, RemoveEffect DEF Versions
<1> QED BY <1>1, <1>4, <1>5, <1>6

LEMMA MemoryStep ==
    TypeOK /\ TypeOK' /\ VersionInv /\ VersionInv' /\ MemoryInv /\ [Next]_vars => MemoryInv'
<1> SUFFICES ASSUME TypeOK, TypeOK', VersionInv, VersionInv', MemoryInv, [Next]_vars, ~wentBack'
             PROVE  MemoryInv'
  BY DEF MemoryInv
<1>1. /\ ~wentBack
      /\ \A n \in Nat : Reaches(disk, n) => Reaches(disk', n)
  <2>1. IsWhole(Content(disk)) => Content(disk)[1] \in Nat
    BY ContentType DEF TypeOK, Versions
  <2>2. IsWhole(Content(disk')) => Content(disk')[1] \in Nat
    BY ContentType DEF TypeOK, Versions
  <2>3. IsWhole(Content(disk)) => IsWhole(Content(disk')) /\ Content(disk')[1] >= Content(disk)[1]
    BY DiskForward
  <2> QED BY <2>1, <2>2, <2>3, DiskForward DEF Reaches
<1>2. /\ memory[1] \in Nat /\ memory'[1] \in Nat
      /\ server \in Nat /\ server' \in Nat
      /\ refetch.pc \in InFlight => refetch.version \in Nat /\ refetch.version <= server
      /\ refetch'.pc \in InFlight => refetch'.version \in Nat /\ refetch'.version <= server'
      /\ \A r \in Requests : request[r].saw[1] \in Nat /\ request'[r].saw[1] \in Nat
  BY DEF TypeOK, VersionInv, Versions, Copies, NoCopy, Gets
<1>3. /\ memory[1] <= NextVersion \/ Reaches(disk, memory[1])
      /\ refetch.pc = "compared" => memory[1] <= refetch.version
      /\ \A r \in Requests : request[r].pc = "loaded" => Reaches(disk, request[r].saw[1])
  BY <1>1 DEF MemoryInv
<1> SUFFICES /\ memory'[1] <= NextVersion' \/ Reaches(disk', memory'[1])
             /\ refetch'.pc = "compared" => memory'[1] <= refetch'.version
             /\ \A r \in Requests : request'[r].pc = "loaded" => Reaches(disk', request'[r].saw[1])
  BY DEF MemoryInv
<1> USE DEF NextVersion, InFlight
<1>4. CASE UNCHANGED vars
  BY <1>1, <1>2, <1>3, <1>4 DEF vars
<1>5. CASE Reindex
  BY <1>1, <1>2, <1>3, <1>5 DEF Reindex
<1>6. ASSUME NEW r \in Requests, Get(r)
      PROVE  /\ memory'[1] <= NextVersion' \/ Reaches(disk', memory'[1])
             /\ refetch'.pc = "compared" => memory'[1] <= refetch'.version
             /\ \A q \in Requests : request'[q].pc = "loaded" => Reaches(disk', request'[q].saw[1])
  <2>1. server' = server /\ refetch' = refetch
    BY <1>6 DEF Get, GetMisses, ReadNothing, ReadFile, Install
  <2>2. CASE GetMisses(r)
    BY <1>1, <1>2, <1>3, <2>1, <2>2 DEF GetMisses, Request, TypeOK
  <2>3. CASE ReadNothing(r)
    BY <1>1, <1>2, <1>3, <2>1, <2>3 DEF ReadNothing, Request, TypeOK
  <2>4. CASE ReadFile(r)
    <3>1. memory' = memory /\ \A q \in Requests \ {r} : request'[q] = request[q]
      BY <2>4 DEF ReadFile, Request, TypeOK
    <3>2. request'[r].pc = "loaded" => IsWhole(Content(disk)) /\ request'[r].saw = Content(disk)
      BY <2>4 DEF ReadFile, Request, TypeOK
    <3>3. IsWhole(Content(disk)) => Content(disk)[1] \in Nat
      BY ContentType DEF TypeOK, Versions
    <3>4. request'[r].pc = "loaded" => Reaches(disk, request'[r].saw[1])
      BY <3>2, <3>3 DEF Reaches
    <3> QED BY <1>1, <1>2, <1>3, <2>1, <3>1, <3>4
  <2>5. CASE Install(r)
    <3>1. /\ \A q \in Requests : request'[q].pc = "loaded" => request'[q] = request[q]
          /\ request[r].pc = "loaded" /\ refetch.pc # "compared"
          /\ memory' \in {memory, request[r].saw}
      BY <2>5 DEF Install, Request, Locked, TypeOK
    <3> QED BY <1>1, <1>2, <1>3, <2>1, <3>1
  <2> QED BY <1>6, <2>2, <2>3, <2>4, <2>5 DEF Get
<1>7. CASE Kick
  <2>1. UNCHANGED <<server, memory, request>>
    BY <1>7 DEF Kick, StartRefetch, JoinRefetch
  <2>2. refetch' = refetch \/ (refetch.pc = "idle" /\ refetch'.pc = "fetching")
    BY <1>7, EarlyFlight DEF Kick, StartRefetch, JoinRefetch, TypeOK, Refetches
  <2> QED BY <1>1, <1>2, <1>3, <2>1, <2>2
<1>8. CASE FetchFails
  BY <1>1, <1>2, <1>3, <1>8 DEF FetchFails, Idle
<1>9. CASE Fetch
  <2>1. refetch'.version = server /\ refetch'.pc = "fetched"
    BY <1>9 DEF Fetch, TypeOK, Refetches
  <2> QED BY <1>1, <1>2, <1>3, <1>9, <2>1 DEF Fetch
<1>10. CASE RefetchOpens \/ RefetchWrites
  <2>1. UNCHANGED <<server, memory, request>>
    BY <1>10 DEF RefetchOpens, RefetchWrites
  <2>2. /\ refetch'.version = refetch.version
        /\ refetch.pc \in {"fetched", "opened"} /\ refetch'.pc \in {"opened", "written"}
    BY <1>10 DEF RefetchOpens, RefetchWrites, TypeOK, Refetches
  <2> QED BY <1>1, <1>2, <1>3, <2>1, <2>2
<1>11. CASE Compare
  <2>1. UNCHANGED <<server, memory, request>> /\ refetch.pc = "written"
    BY <1>11 DEF Compare
  <2>2. \/ refetch'.pc = "idle"
        \/ /\ refetch'.pc = "compared" /\ refetch'.version = refetch.version
           /\ ~(IsWhole(Content(disk)) /\ Content(disk)[1] > refetch.version)
    BY <1>11 DEF Compare, Idle, TypeOK, Refetches
  <2>3. IsWhole(Content(disk)) => Content(disk)[1] \in Nat
    BY ContentType DEF TypeOK, Versions
  <2>4. refetch'.pc = "compared" => memory[1] <= refetch.version
    BY <1>2, <1>3, <2>1, <2>2, <2>3 DEF Reaches
  <2> QED BY <1>1, <1>2, <1>3, <2>1, <2>2, <2>4
<1>12. CASE RefetchRenames
  <2>1. /\ server' = server /\ request' = request /\ refetch'.pc = "idle" /\ refetch.pc = "compared"
        /\ memory' \in {memory, <<refetch.version, "daemon">>}
    BY <1>12 DEF RefetchRenames, Idle
  <2>2. memory'[1] <= refetch.version
    BY <1>2, <1>3, <2>1
  <2> QED BY <1>1, <1>2, <1>3, <2>1, <2>2
<1>13. ASSUME NEW s \in Syncs, Sync(s) PROVE UNCHANGED <<server, memory, request, refetch>>
  BY <1>13 DEF Sync, SyncFetches, SyncOpens, SyncWrites, SyncRenames, KillSync
<1>14. CASE \E s \in Syncs : Sync(s)
  BY <1>1, <1>2, <1>3, <1>13, <1>14
<1>15. CASE RestartDaemon
  BY <1>1, <1>2, <1>3, <1>15 DEF RestartDaemon, Idle, NoCopy
<1> QED BY <1>4, <1>5, <1>6, <1>7, <1>8, <1>9, <1>10, <1>11, <1>12, <1>14, <1>15 DEF Next, Flight

-----------------------------------------------------------------------------
\* The strengthened invariant holds in every reachable state.
THEOREM Inductive == Spec => []IInv
<1>1. IInv /\ [Next]_vars => IInv'
  BY TypeStep, TmpStep, GapStep, MemoryStep DEF IInv
<1> QED BY InitIInv, <1>1, PTL DEF Spec

\* The variables keep their types; in particular a writer that opens .tmp
\* always finds a file, and holds it until it has written.
THEOREM TypeCorrect == Spec => []TypeOK
<1>1. IInv => TypeOK
  BY DEF IInv
<1> QED BY <1>1, Inductive, PTL

\* ManifestCache.Get never serves an older copy after a newer one, for any
\* number of requests, syncs and refetches, while the file moves forward.
THEOREM MemoryIsForward == Spec => MemoryForward
<1>1. IInv /\ IInv' /\ [Next]_vars =>
        [~wentBack' /\ memory' # NoCopy => memory'[1] >= memory[1]]_vars
  <2> SUFFICES ASSUME IInv, IInv', Next, ~wentBack', memory' # NoCopy
               PROVE  memory'[1] >= memory[1]
    BY DEF vars
  <2>1. memory[1] \in Nat /\ memory'[1] \in Nat
    BY DEF IInv, TypeOK, Copies, NoCopy, Versions
  <2>2. ~wentBack
    BY DiskForward DEF IInv
  <2>3. CASE memory' = memory
    BY <2>1, <2>3
  <2>4. ASSUME NEW r \in Requests, Install(r) PROVE memory' = memory \/ memory[1] = 0
    BY <2>4 DEF Install, NoCopy
  <2>5. CASE RefetchRenames
    <3>1. memory[1] <= refetch.version
      BY <2>2, <2>5 DEF RefetchRenames, IInv, MemoryInv
    <3>2. refetch.version \in Nat
      BY DEF IInv, TypeOK, Refetches, Versions
    <3>3. memory' \in {memory, <<refetch.version, "daemon">>}
      BY <2>5 DEF RefetchRenames
    <3> QED BY <2>1, <3>1, <3>2, <3>3
  <2>6. \/ memory' = memory \/ RefetchRenames \/ RestartDaemon
        \/ \E r \in Requests : Install(r)
    BY DEF Next, Kick, Flight, Get, Sync, Reindex, StartRefetch, JoinRefetch, FetchFails, Fetch,
           RefetchOpens, RefetchWrites, Compare, GetMisses, ReadNothing, ReadFile, SyncFetches,
           SyncOpens, SyncWrites, SyncRenames, KillSync
  <2>7. ~RestartDaemon
    BY DEF RestartDaemon
  <2> QED BY <2>1, <2>3, <2>4, <2>5, <2>6, <2>7
<1> QED BY <1>1, Inductive, PTL DEF Spec, MemoryForward

\* The comparison that kickRefetch makes under c.mu is good for the rename
\* that follows it, unless a sync writes to manifest.json itself in between.
THEOREM RefetchLandsForward == Spec => LandsForward
<1>1. IInv /\ [Next]_vars =>
        [/\ RefetchRenames /\ ~inPlace
         /\ IsWhole(Content(disk)) /\ IsWhole(Content(disk')) /\ Content(disk')[2] = "daemon"
         => Content(disk')[1] >= Content(disk)[1]]_vars
  <2> SUFFICES ASSUME IInv, RefetchRenames, ~inPlace,
                      IsWhole(Content(disk)), IsWhole(Content(disk')), Content(disk')[2] = "daemon"
               PROVE  Content(disk')[1] >= Content(disk)[1]
    OBVIOUS
  <2>1. disk \in Directories /\ Content(disk)[1] \in Nat /\ refetch.version \in Nat
    BY ContentType DEF IInv, TypeOK, Refetches, Versions
  <2>2. CASE disk.tmp = None
    BY <2>1, <2>2 DEF RefetchRenames
  <2>3. CASE disk.tmp # None
    <3>1. Content(disk') = disk.data[disk.tmp]
      BY <2>1, <2>3, RenameEffect DEF RefetchRenames, Publish, IsWhole
    <3>2. Content(disk')[1] = refetch.version /\ Content(disk)[1] <= refetch.version
      BY <2>3, <3>1 DEF IInv, TmpInv, GapInv, DaemonCopy, RefetchRenames
    <3> QED BY <2>1, <3>2
  <2> QED BY <2>2, <2>3
<1> QED BY <1>1, Inductive, PTL DEF Spec, LandsForward

-----------------------------------------------------------------------------
(* Numbers and functions defined by recursion.                               *)

\* A set of natural numbers has a least one.
LEMMA LeastNumber ==
    ASSUME NEW T \in SUBSET Nat, T # {}
    PROVE  \E x \in T : \A y \in T : x <= y
<1> DEFINE R == {ss \in Nat \X Nat : ss[1] < ss[2]}
<1>1. IsWellFoundedOn(R, Nat)
  BY NatLessThanWellFounded DEF OpToRel
<1>2. \A x, y \in Nat : <<y, x>> \in R <=> y < x
  OBVIOUS
<1> HIDE DEF R
<1>3. PICK x \in T : \A y \in T : <<y, x>> \notin R
  BY <1>1, WFMin
<1>4. \A y \in T : y \in Nat /\ x \in Nat /\ ~(y < x)
  BY <1>2, <1>3
<1>5. \A y \in T : x <= y
  BY <1>4
<1> QED BY <1>5

\* Induction over the natural numbers, as a set.
LEMMA Numbers ==
    ASSUME NEW P, 0 \in P, \A n \in Nat : n \in P => n + 1 \in P
    PROVE  Nat \subseteq P
<1> SUFFICES ASSUME Nat \ P # {} PROVE FALSE
  OBVIOUS
<1>1. PICK n \in Nat \ P : \A m \in Nat \ P : n <= m
  BY LeastNumber
<1>2. n # 0 /\ n - 1 \in Nat
  BY <1>1
<1>3. n - 1 \in P
  BY <1>1, <1>2
<1> QED BY <1>1, <1>2, <1>3

\* A set of natural numbers below a bound has a greatest one.
LEMMA GreatestNumber ==
    ASSUME NEW n \in Nat, NEW S, S # {}, S \subseteq 1 .. n
    PROVE  \E k \in S : \A j \in S : j <= k
<1> DEFINE D == {n - k : k \in S}
<1>1. D # {} /\ D \subseteq Nat
  OBVIOUS
<1>2. PICK d \in D : \A e \in D : d <= e
  BY <1>1, LeastNumber
<1>3. PICK k \in S : d = n - k
  BY <1>2
<1>4. \A j \in S : n - j \in D /\ j \in Nat
  OBVIOUS
<1> HIDE DEF D
<1>5. ASSUME NEW j \in S
      PROVE  j <= k
  <2>1. n - k <= n - j /\ j \in Nat /\ k \in Nat
    BY <1>2, <1>3, <1>4
  <2> QED BY <2>1
<1> QED BY <1>5

\* What a function does with the numbers up to n, one after the other.
Traces(F, base, S, n, h) ==
    /\ h \in [0 .. n -> S] /\ h[0] = base
    /\ \A m \in 1 .. n : h[m] = F[<<m, h[m - 1]>>]

\* Two of them agree as far as both go.
LEMMA TracesAgree ==
    ASSUME NEW S, NEW base \in S, NEW F \in [Nat \X S -> S], NEW n \in Nat,
           NEW h, NEW k, Traces(F, base, S, n, h), Traces(F, base, S, n + 1, k)
    PROVE  h[n] = k[n]
<1> DEFINE P == {m \in Nat : m <= n => h[m] = k[m]}
<1>1. 0 \in P
  BY DEF Traces
<1>2. ASSUME NEW m \in Nat, m \in P
      PROVE  m + 1 \in P
  <2> SUFFICES ASSUME m + 1 <= n PROVE h[m + 1] = k[m + 1]
    OBVIOUS
  <2>1. m + 1 \in 1 .. n /\ m + 1 \in 1 .. n + 1 /\ (m + 1) - 1 = m /\ h[m] = k[m]
    BY <1>2
  <2>2. h[m + 1] = F[<<m + 1, h[m]>>] /\ k[m + 1] = F[<<m + 1, k[m]>>]
    BY <2>1 DEF Traces
  <2> QED BY <2>1, <2>2
<1> HIDE DEF P
<1>3. Nat \subseteq P
  BY <1>1, <1>2, Numbers
<1> QED BY <1>3 DEF P

\* There is one of every length.
LEMMA TracesExist ==
    ASSUME NEW S, NEW base \in S, NEW F \in [Nat \X S -> S]
    PROVE  \A n \in Nat : \E h : Traces(F, base, S, n, h)
<1> DEFINE P == {n \in Nat : \E h : Traces(F, base, S, n, h)}
<1>1. 0 \in P
  <2> DEFINE h == [m \in 0 .. 0 |-> base]
  <2>1. Traces(F, base, S, 0, h)
    BY DEF Traces
  <2> QED BY <2>1
<1>2. ASSUME NEW n \in Nat, n \in P
      PROVE  n + 1 \in P
  <2>1. PICK h : Traces(F, base, S, n, h)
    BY <1>2
  <2> DEFINE v == F[<<n + 1, h[n]>>]
             k == [m \in 0 .. n + 1 |-> IF m = n + 1 THEN v ELSE h[m]]
  <2>2. \A m \in 0 .. n : h[m] \in S
    BY <2>1 DEF Traces
  <2>3. v \in S
    <3>1. h[n] \in S
      BY <2>2
    <3>2. <<n + 1, h[n]>> \in Nat \X S
      BY <3>1
    <3> QED BY <3>2
  <2>4. v = F[<<n + 1, h[n]>>]
    OBVIOUS
  <2> HIDE DEF v
  <2>5. k \in [0 .. n + 1 -> S]
    <3>1. ASSUME NEW m \in 0 .. n + 1
          PROVE  (IF m = n + 1 THEN v ELSE h[m]) \in S
      <4>1. m # n + 1 => m \in 0 .. n
        OBVIOUS
      <4> QED BY <2>2, <2>3, <4>1
    <3> QED BY <3>1
  <2>6. k[n + 1] = v /\ \A m \in 0 .. n : k[m] = h[m]
    OBVIOUS
  <2> HIDE DEF k
  <2>7. ASSUME NEW m \in 1 .. n + 1
        PROVE  k[m] = F[<<m, k[m - 1]>>]
    <3>1. m - 1 \in 0 .. n
      OBVIOUS
    <3>2. k[m - 1] = h[m - 1]
      BY <2>6, <3>1
    <3>3. CASE m = n + 1
      <4>1. m - 1 = n
        BY <3>3
      <4> QED BY <2>4, <2>6, <3>2, <3>3, <4>1
    <3>4. CASE m # n + 1
      <4>1. m \in 1 .. n /\ m \in 0 .. n
        BY <3>4
      <4>2. h[m] = F[<<m, h[m - 1]>>]
        BY <2>1, <4>1 DEF Traces
      <4> QED BY <2>6, <3>2, <4>1, <4>2
    <3> QED BY <3>3, <3>4
  <2>8. k[0] = base
    BY <2>1, <2>6 DEF Traces
  <2>9. Traces(F, base, S, n + 1, k)
    BY <2>5, <2>7, <2>8 DEF Traces
  <2> QED BY <2>9
<1> HIDE DEF P
<1>3. Nat \subseteq P
  BY <1>1, <1>2, Numbers
<1> QED BY <1>3 DEF P

Recurses(g, base, F, S) ==
    /\ g \in [Nat -> S] /\ g[0] = base
    /\ \A n \in Nat : n # 0 => g[n] = F[<<n, g[n - 1]>>] /\ g[n - 1] \in S

\* A recursive function on the numbers is what its definition says.
LEMMA Recursion ==
    ASSUME NEW S, NEW base \in S, NEW F \in [Nat \X S -> S]
    PROVE  \E g : Recurses(g, base, F, S)
<1> DEFINE h(n) == CHOOSE t : Traces(F, base, S, n, t)
           g == [n \in Nat |-> h(n)[n]]
<1>1. \A n \in Nat : Traces(F, base, S, n, h(n))
  BY TracesExist
<1> HIDE DEF h
<1>2. \A n \in Nat : h(n)[n] \in S
  BY <1>1 DEF Traces
<1>3. h(0)[0] = base
  BY <1>1 DEF Traces
<1>4. ASSUME NEW n \in Nat, n # 0
      PROVE  h(n)[n] = F[<<n, h(n - 1)[n - 1]>>]
  <2>1. n - 1 \in Nat /\ (n - 1) + 1 = n
    BY <1>4
  <2>2. Traces(F, base, S, n - 1, h(n - 1)) /\ Traces(F, base, S, (n - 1) + 1, h(n))
    BY <1>1, <2>1
  <2>3. h(n - 1)[n - 1] = h(n)[n - 1]
    BY <2>1, <2>2, TracesAgree
  <2>4. h(n)[n] = F[<<n, h(n)[n - 1]>>]
    BY <1>1, <1>4 DEF Traces
  <2> QED BY <2>3, <2>4
<1>5. g \in [Nat -> S]
  BY <1>2
<1>6. g[0] = base
  BY <1>3
<1>7. ASSUME NEW n \in Nat, n # 0
      PROVE  g[n] = F[<<n, g[n - 1]>>] /\ g[n - 1] \in S
  BY <1>2, <1>4, <1>7
<1> HIDE DEF g
<1> QED BY <1>5, <1>6, <1>7 DEF Recurses

-----------------------------------------------------------------------------
(* What a file is shown as.                                                  *)

Parts == [part : {"line", "beginning", "blank", "doc", "signature", "body stripped"}, at : Nat]
ShowsWhole(out, i) == \E k \in DOMAIN out : out[k].part = "line" /\ out[k].at = i
Shows(out, i) == \E k \in DOMAIN out : out[k].part # "blank" /\ out[k].at = i
TopDown(out) == \A i, j \in DOMAIN out :
    i < j /\ out[i].part # "blank" /\ out[j].part # "blank" => out[i].at <= out[j].at
Until(out, n) == \A k \in DOMAIN out : out[k].part # "blank" => out[k].at <= n

\* Dropping the blank lines at the end drops no other line.
LEMMA LastBlanks ==
    ASSUME NEW out \in Seq(Parts)
    PROVE  \E m \in 0 .. Len(out) :
               /\ WithoutTrailingBlanks(out) = SubSeq(out, 1, m)
               /\ \A k \in m + 1 .. Len(out) : out[k].part = "blank"
<1> DEFINE kept == {i \in DOMAIN out : out[i].part # "blank"}
<1>1. Len(out) \in Nat /\ DOMAIN out = 1 .. Len(out)
  OBVIOUS
<1>2. CASE kept = {}
  <2>1. WithoutTrailingBlanks(out) = SubSeq(out, 1, 0)
    BY <1>2 DEF WithoutTrailingBlanks
  <2>2. \A k \in 0 + 1 .. Len(out) : out[k].part = "blank"
    BY <1>1, <1>2
  <2> QED BY <1>1, <2>1, <2>2
<1>3. CASE kept # {}
  <2> DEFINE m == CHOOSE i \in kept : \A j \in kept : j <= i
  <2>1. WithoutTrailingBlanks(out) = SubSeq(out, 1, m)
    BY <1>3 DEF WithoutTrailingBlanks
  <2>2. kept \subseteq 1 .. Len(out)
    BY <1>1
  <2> HIDE DEF kept
  <2>3. m \in kept /\ \A j \in kept : j <= m
    BY <1>1, <1>3, <2>2, GreatestNumber
  <2> HIDE DEF m
  <2>4. ASSUME NEW k \in m + 1 .. Len(out)
        PROVE  out[k].part = "blank"
    <3>1. k \in DOMAIN out /\ m \in Nat /\ ~(k <= m)
      BY <1>1, <2>2, <2>3
    <3>2. k \notin kept
      BY <2>3, <3>1
    <3> QED BY <3>1, <3>2 DEF kept
  <2>5. m \in 0 .. Len(out)
    BY <1>1, <2>2, <2>3
  <2> QED BY <2>1, <2>4, <2>5
<1> QED BY <1>2, <1>3

\* What a line adds to the text that is shown.
LEMMA StripLineType ==
    ASSUME NEW out \in Seq(Parts), NEW lines, NEW i \in Nat, NEW hidden
    PROVE  StripLine(out, lines, i, hidden) \in Seq(Parts)
<1>1. /\ Append(out, BlankLine) \in Seq(Parts) /\ Append(out, LineAt(i)) \in Seq(Parts)
      /\ Append(out, CutLine(i)) \in Seq(Parts)
  <2>1. BlankLine \in Parts /\ LineAt(i) \in Parts /\ CutLine(i) \in Parts
    BY DEF BlankLine, LineAt, CutLine, Parts
  <2> QED BY <2>1
<1>2. WithoutTrailingBlanks(out) \in Seq(Parts)
  <2>1. PICK m \in 0 .. Len(out) : WithoutTrailingBlanks(out) = SubSeq(out, 1, m)
    BY LastBlanks
  <2> QED BY <2>1
<1> QED BY <1>1, <1>2 DEF StripLine

\* A line is added at the end, a comment taken out with the white space
\* before it: nothing that is shown is lost.
LEMMA StripLineKeeps ==
    ASSUME NEW out \in Seq(Parts), NEW lines, NEW i \in Nat \ {0}, NEW hidden,
           TopDown(out), Until(out, i - 1)
    PROVE  LET new == StripLine(out, lines, i, hidden)
           IN  /\ TopDown(new) /\ Until(new, i)
               /\ \A j : (Shows(out, j) => Shows(new, j)) /\ (ShowsWhole(out, j) => ShowsWhole(new, j))
               /\ i \notin hidden /\ lines[i] \notin {"note", "blank"} =>
                     Shows(new, i) /\ (lines[i] = "text" \/ ShowsWhole(new, i))
<1> DEFINE new == StripLine(out, lines, i, hidden)
           Kept(o) == /\ TopDown(o) /\ Until(o, i)
                      /\ \A j : (Shows(out, j) => Shows(o, j)) /\ (ShowsWhole(out, j) => ShowsWhole(o, j))
<1>1. Len(out) \in Nat /\ DOMAIN out = 1 .. Len(out)
  OBVIOUS
<1>2. \A k \in DOMAIN out : out[k].at \in Nat
  <2>1. \A k \in DOMAIN out : out[k] \in Parts
    OBVIOUS
  <2> QED BY <2>1 DEF Parts
<1>3. Kept(out)
  BY <1>2 DEF Until
<1>4. Kept(WithoutTrailingBlanks(out))
  <2>1. PICK m \in 0 .. Len(out) :
            /\ WithoutTrailingBlanks(out) = SubSeq(out, 1, m)
            /\ \A k \in m + 1 .. Len(out) : out[k].part = "blank"
    BY LastBlanks
  <2> DEFINE o == SubSeq(out, 1, m)
  <2>2. DOMAIN o = 1 .. m /\ \A k \in 1 .. m : k \in DOMAIN out /\ o[k] = out[k]
    BY <1>1
  <2> HIDE DEF o
  <2>3. TopDown(o)
    BY <2>2 DEF TopDown
  <2>4. Until(o, i)
    BY <1>3, <2>2 DEF Until
  <2>5. ASSUME NEW j, Shows(out, j)
        PROVE  Shows(o, j)
    <3>1. PICK k \in DOMAIN out : out[k].part # "blank" /\ out[k].at = j
      BY <2>5 DEF Shows
    <3>2. k \in 1 .. m
      BY <1>1, <2>1, <3>1
    <3> QED BY <2>2, <3>1, <3>2 DEF Shows
  <2>6. ASSUME NEW j, ShowsWhole(out, j)
        PROVE  ShowsWhole(o, j)
    <3>1. PICK k \in DOMAIN out : out[k].part = "line" /\ out[k].at = j
      BY <2>6 DEF ShowsWhole
    <3>2. k \in 1 .. m
      BY <1>1, <2>1, <3>1
    <3> QED BY <2>2, <3>1, <3>2 DEF ShowsWhole
  <2> QED BY <2>1, <2>3, <2>4, <2>5, <2>6 DEF o
<1>5. ASSUME NEW p \in Parts, p.part = "blank" \/ p.at = i
      PROVE  /\ Kept(Append(out, p))
             /\ p.part # "blank" => Shows(Append(out, p), i)
             /\ p.part = "line" => ShowsWhole(Append(out, p), i)
  <2> DEFINE o == Append(out, p)
  <2>1. /\ DOMAIN o = 1 .. Len(out) + 1 /\ o[Len(out) + 1] = p
        /\ \A k \in 1 .. Len(out) : o[k] = out[k]
    BY <1>1
  <2> HIDE DEF o
  <2>2. TopDown(o)
    <3> SUFFICES ASSUME NEW k \in DOMAIN o, NEW j \in DOMAIN o, k < j,
                        o[k].part # "blank", o[j].part # "blank"
                 PROVE  o[k].at <= o[j].at
      BY DEF TopDown
    <3>1. k \in 1 .. Len(out) /\ o[k] = out[k]
      BY <1>1, <2>1
    <3>2. CASE j \in 1 .. Len(out)
      BY <1>1, <2>1, <3>1, <3>2 DEF TopDown
    <3>3. CASE j = Len(out) + 1
      <4>1. out[k].at <= i - 1 /\ out[k].at \in Nat
        BY <1>1, <1>2, <3>1 DEF Until
      <4>2. o[j].at = i
        BY <1>5, <2>1, <3>3
      <4> QED BY <3>1, <4>1, <4>2
    <3> QED BY <1>1, <2>1, <3>2, <3>3
  <2>3. Until(o, i)
    <3> SUFFICES ASSUME NEW k \in DOMAIN o, o[k].part # "blank"
                 PROVE  o[k].at <= i
      BY DEF Until
    <3>1. CASE k \in 1 .. Len(out)
      BY <1>1, <1>3, <2>1, <3>1 DEF Until
    <3>2. CASE k = Len(out) + 1
      BY <1>5, <2>1, <3>2
    <3> QED BY <1>1, <2>1, <3>1, <3>2
  <2>4. ASSUME NEW j, Shows(out, j)
        PROVE  Shows(o, j)
    <3>1. PICK k \in DOMAIN out : out[k].part # "blank" /\ out[k].at = j
      BY <2>4 DEF Shows
    <3>2. k \in DOMAIN o /\ o[k] = out[k]
      BY <1>1, <2>1
    <3> QED BY <3>1, <3>2 DEF Shows
  <2>5. (p.part # "blank" => Shows(o, i)) /\ (p.part = "line" => ShowsWhole(o, i))
    <3>1. Len(out) + 1 \in DOMAIN o
      BY <1>1, <2>1
    <3> QED BY <1>5, <2>1, <3>1 DEF Shows, ShowsWhole
  <2>6. ASSUME NEW j, ShowsWhole(out, j)
        PROVE  ShowsWhole(o, j)
    <3>1. PICK k \in DOMAIN out : out[k].part = "line" /\ out[k].at = j
      BY <2>6 DEF ShowsWhole
    <3>2. k \in DOMAIN o /\ o[k] = out[k]
      BY <1>1, <2>1
    <3> QED BY <3>1, <3>2 DEF ShowsWhole
  <2> QED BY <2>2, <2>3, <2>4, <2>5, <2>6 DEF o
<1> HIDE DEF Kept
<1>6. Kept(Append(out, BlankLine))
  <2>1. BlankLine \in Parts /\ BlankLine.part = "blank"
    BY DEF BlankLine, Parts
  <2> QED BY <1>5, <2>1
<1>7. /\ Kept(Append(out, LineAt(i)))
      /\ Shows(Append(out, LineAt(i)), i) /\ ShowsWhole(Append(out, LineAt(i)), i)
  <2>1. LineAt(i) \in Parts /\ LineAt(i).at = i /\ LineAt(i).part = "line"
    BY DEF LineAt, Parts
  <2> QED BY <1>5, <2>1
<1>8. Kept(Append(out, CutLine(i))) /\ Shows(Append(out, CutLine(i)), i)
  <2>1. CutLine(i) \in Parts /\ CutLine(i).at = i /\ CutLine(i).part = "beginning"
    BY DEF CutLine, Parts
  <2> QED BY <1>5, <2>1
<1>9. /\ Kept(new)
      /\ i \notin hidden /\ lines[i] \notin {"note", "blank"} =>
            Shows(new, i) /\ (lines[i] = "text" \/ ShowsWhole(new, i))
  <2>1. CASE i \in hidden
    <3>1. new = out
      BY <2>1 DEF StripLine
    <3> QED BY <1>3, <2>1, <3>1
  <2>2. CASE i \notin hidden /\ lines[i] = "note"
    <3>1. new = WithoutTrailingBlanks(out)
      BY <2>2 DEF StripLine
    <3> QED BY <1>4, <2>2, <3>1
  <2>3. CASE i \notin hidden /\ lines[i] = "blank"
    <3>1. new = out \/ new = Append(out, BlankLine)
      BY <2>3 DEF StripLine
    <3> QED BY <1>3, <1>6, <2>3, <3>1
  <2>4. CASE i \notin hidden /\ lines[i] \notin {"note", "blank", "text"}
    <3>1. new = Append(out, LineAt(i))
      BY <2>4 DEF StripLine
    <3> QED BY <1>7, <3>1
  <2>5. CASE i \notin hidden /\ lines[i] = "text"
    <3>1. new = Append(out, CutLine(i))
      BY <2>5 DEF StripLine
    <3> QED BY <1>8, <2>5, <3>1
  <2> QED BY <2>1, <2>2, <2>3, <2>4, <2>5
<1> QED BY <1>9 DEF Kept

\* A line taken for a part of a comment has a start before it, with no end
\* from there on, and an end after it.
LEMMA BlocksAreBetween ==
    ASSUME NEW lines \in Seq(STRING)
    PROVE  \A i \in InBlocks(lines) : \E o \in 1 .. i - 1, c \in i + 1 .. Len(lines) :
               lines[o] = "open" /\ lines[c] = "close" /\ \A k \in o + 1 .. i : lines[k] # "close"
<1> DEFINE Where == {"code", "comment"}
           Rec(h) == h = [n \in Nat |-> IF n = 0 THEN "code" ELSE StateAfter(h[n - 1], lines, n)]
           after == CHOOSE h : Rec(h)
           F == [p \in Nat \X Where |-> StateAfter(p[2], lines, p[1])]
<1>1. InBlocks(lines) = {i \in DOMAIN lines : after[i - 1] = "comment" /\ lines[i] # "close"}
  BY DEF InBlocks
<1>2. F \in [Nat \X Where -> Where]
  <2>1. \A p \in Nat \X Where : StateAfter(p[2], lines, p[1]) \in Where
    BY DEF StateAfter
  <2> QED BY <2>1
<1>3. \A n \in Nat, w \in Where : F[<<n, w>>] = StateAfter(w, lines, n)
  OBVIOUS
<1>4. "code" \in Where
  OBVIOUS
<1> HIDE DEF F, Where
<1>5. PICK g : Recurses(g, "code", F, Where)
  BY <1>2, <1>4, Recursion
<1>6. Rec(g)
  <2>1. ASSUME NEW n \in Nat, n # 0
        PROVE  g[n] = StateAfter(g[n - 1], lines, n)
    BY <1>3, <1>5, <2>1 DEF Recurses
  <2> QED BY <1>5, <2>1 DEF Recurses
<1> HIDE DEF Rec
<1>9. Rec(after)
  BY <1>6
<1> HIDE DEF after
<1>10. /\ after[0] = "code"
       /\ \A n \in Nat \ {0} : after[n] = StateAfter(after[n - 1], lines, n)
  BY <1>9 DEF Rec
<1> DEFINE Started(n) == \E o \in 1 .. n :
               lines[o] = "open" /\ Closes(lines, o) /\ \A k \in o + 1 .. n : lines[k] # "close"
           P == {n \in Nat : after[n] = "comment" => Started(n)}
<1>11. 0 \in P
  BY <1>10
<1>12. ASSUME NEW n \in Nat, n \in P
       PROVE  n + 1 \in P
  <2> SUFFICES ASSUME after[n + 1] = "comment" PROVE Started(n + 1)
    OBVIOUS
  <2>1. n + 1 \in Nat \ {0} /\ (n + 1) - 1 = n
    OBVIOUS
  <2>2. after[n + 1] = StateAfter(after[n], lines, n + 1)
    BY <1>10, <2>1
  <2>3. CASE after[n] = "comment"
    <3>1. PICK o \in 1 .. n :
              lines[o] = "open" /\ Closes(lines, o) /\ \A k \in o + 1 .. n : lines[k] # "close"
      BY <1>12, <2>3
    <3>2. lines[n + 1] # "close"
      BY <2>2, <2>3 DEF StateAfter
    <3>3. o \in 1 .. n + 1 /\ \A k \in o + 1 .. n + 1 : k \in o + 1 .. n \/ k = n + 1
      OBVIOUS
    <3>4. \A k \in o + 1 .. n + 1 : lines[k] # "close"
      BY <3>1, <3>2, <3>3
    <3> QED BY <3>1, <3>3, <3>4
  <2>4. CASE after[n] # "comment"
    <3>1. lines[n + 1] = "open" /\ Closes(lines, n + 1)
      BY <2>2, <2>4 DEF StateAfter
    <3>2. n + 1 \in 1 .. n + 1 /\ \A k \in (n + 1) + 1 .. n + 1 : FALSE
      OBVIOUS
    <3> QED BY <3>1, <3>2
  <2> QED BY <2>3, <2>4
<1> HIDE DEF P
<1>13. Nat \subseteq P
  BY <1>11, <1>12, Numbers
<1>14. ASSUME NEW i \in InBlocks(lines)
       PROVE  \E o \in 1 .. i - 1, c \in i + 1 .. Len(lines) :
                  lines[o] = "open" /\ lines[c] = "close" /\ \A k \in o + 1 .. i : lines[k] # "close"
  <2>1. i \in 1 .. Len(lines) /\ after[i - 1] = "comment" /\ lines[i] # "close" /\ Len(lines) \in Nat
    BY <1>1
  <2>2. i - 1 \in Nat
    BY <2>1
  <2>3. Started(i - 1)
    BY <1>13, <2>1, <2>2 DEF P
  <2>4. PICK o \in 1 .. i - 1 :
            lines[o] = "open" /\ Closes(lines, o) /\ \A k \in o + 1 .. i - 1 : lines[k] # "close"
    BY <2>3
  <2>5. PICK c \in o + 1 .. Len(lines) : lines[c] = "close"
    BY <2>4 DEF Closes
  <2>6. \A k \in o + 1 .. i : k \in o + 1 .. i - 1 \/ k = i
    BY <2>1
  <2>7. \A k \in o + 1 .. i : lines[k] # "close"
    BY <2>1, <2>4, <2>6
  <2>8. c \notin o + 1 .. i
    BY <2>5, <2>7
  <2>9. c \in i + 1 .. Len(lines)
    BY <2>1, <2>4, <2>5, <2>8
  <2> QED BY <2>4, <2>5, <2>7, <2>9
<1> QED BY <1>14

\* The minimal level: top to bottom, and every line of code outside comments,
\* whole unless it has the sign of a comment in a string.
LEMMA MinimalLevel ==
    ASSUME NEW lines \in Seq(STRING), NEW lang
    PROVE  LET out == stripComments(lines, lang)
               hidden == IF lang = "python" THEN {} ELSE InBlocks(lines)
           IN  /\ out \in Seq(Parts) /\ TopDown(out)
               /\ \A i \in DOMAIN lines :
                     \/ lines[i] \in {"note", "blank"} \/ i \in hidden
                     \/ Shows(out, i) /\ (lines[i] = "text" \/ ShowsWhole(out, i))
<1> DEFINE hidden == IF lang = "python" THEN {} ELSE InBlocks(lines)
           Rec(h) == h = [i \in Nat |-> IF i = 0 THEN <<>> ELSE StripLine(h[i - 1], lines, i, hidden)]
           S == Seq(Parts)
           F == [p \in Nat \X S |-> StripLine(p[2], lines, p[1], hidden)]
           out == CHOOSE h : Rec(h)
<1>1. stripComments(lines, lang) = out[Len(lines)]
  BY DEF stripComments
<1> HIDE DEF hidden
<1>2. F \in [Nat \X S -> S]
  <2>1. \A p \in Nat \X S : StripLine(p[2], lines, p[1], hidden) \in S
    BY StripLineType
  <2> QED BY <2>1
<1>3. \A n \in Nat, o \in S : F[<<n, o>>] = StripLine(o, lines, n, hidden)
  OBVIOUS
<1>4. <<>> \in S
  OBVIOUS
<1> HIDE DEF F, S
<1>5. PICK g : Recurses(g, <<>>, F, S)
  BY <1>2, <1>4, Recursion
<1>6. Rec(g)
  <2>1. ASSUME NEW n \in Nat, n # 0
        PROVE  g[n] = StripLine(g[n - 1], lines, n, hidden)
    BY <1>3, <1>5, <2>1 DEF Recurses
  <2> QED BY <1>5, <2>1 DEF Recurses
<1> HIDE DEF Rec
<1>7. Rec(out)
  BY <1>6
<1> HIDE DEF out
<1>8. /\ out[0] = <<>>
      /\ \A n \in Nat \ {0} : out[n] = StripLine(out[n - 1], lines, n, hidden)
  BY <1>7 DEF Rec
<1> DEFINE Complete(n) == \A i \in 1 .. n :
               \/ lines[i] \in {"note", "blank"} \/ i \in hidden
               \/ Shows(out[n], i) /\ (lines[i] = "text" \/ ShowsWhole(out[n], i))
           P == {n \in Nat : out[n] \in Seq(Parts) /\ TopDown(out[n]) /\ Until(out[n], n) /\ Complete(n)}
<1>9. 0 \in P
  <2>1. <<>> \in Seq(Parts) /\ TopDown(<<>>) /\ Until(<<>>, 0)
    BY DEF TopDown, Until
  <2>2. Complete(0)
    OBVIOUS
  <2> HIDE DEF Complete
  <2> QED BY <1>8, <2>1, <2>2
<1>10. ASSUME NEW n \in Nat, n \in P
       PROVE  n + 1 \in P
  <2>1. n + 1 \in Nat \ {0} /\ (n + 1) - 1 = n
    OBVIOUS
  <2>2. out[n + 1] = StripLine(out[n], lines, n + 1, hidden)
    BY <1>8, <2>1
  <2>3. out[n] \in Seq(Parts) /\ TopDown(out[n]) /\ Until(out[n], n) /\ Complete(n)
    BY <1>10
  <2>4. out[n + 1] \in Seq(Parts)
    BY <2>1, <2>2, <2>3, StripLineType
  <2>5. /\ TopDown(out[n + 1]) /\ Until(out[n + 1], n + 1)
        /\ \A j : /\ Shows(out[n], j) => Shows(out[n + 1], j)
                  /\ ShowsWhole(out[n], j) => ShowsWhole(out[n + 1], j)
        /\ n + 1 \notin hidden /\ lines[n + 1] \notin {"note", "blank"} =>
              Shows(out[n + 1], n + 1) /\ (lines[n + 1] = "text" \/ ShowsWhole(out[n + 1], n + 1))
    <3> DEFINE i == n + 1
               new == StripLine(out[n], lines, i, hidden)
    <3>1. i \in Nat \ {0} /\ Until(out[n], i - 1)
      BY <2>1, <2>3
    <3> HIDE DEF i
    <3>2. /\ TopDown(new) /\ Until(new, i)
          /\ \A j : (Shows(out[n], j) => Shows(new, j)) /\ (ShowsWhole(out[n], j) => ShowsWhole(new, j))
          /\ i \notin hidden /\ lines[i] \notin {"note", "blank"} =>
                Shows(new, i) /\ (lines[i] = "text" \/ ShowsWhole(new, i))
      BY <2>3, <3>1, StripLineKeeps
    <3> QED BY <2>2, <3>2 DEF i
  <2>6. \A i \in 1 .. n + 1 : i \in 1 .. n \/ i = n + 1
    OBVIOUS
  <2>7. Complete(n + 1)
    BY <2>3, <2>5, <2>6
  <2> QED BY <2>4, <2>5, <2>7
<1> HIDE DEF P
<1>11. Nat \subseteq P
  BY <1>9, <1>10, Numbers
<1>12. Len(lines) \in P /\ DOMAIN lines = 1 .. Len(lines)
  BY <1>11
<1> QED BY <1>1, <1>12 DEF P, hidden

Symbols == [start : Nat, doc : BOOLEAN, signature : BOOLEAN]

\* What is shown of a symbol is at the line it starts on, and is something.
LEMMA SignatureShows ==
    ASSUME NEW lines \in Seq(STRING), NEW s \in Symbols
    PROVE  LET shown == Signature(lines, s)
           IN  /\ shown \in Seq(Parts) /\ Len(shown) > 0
               /\ \A k \in DOMAIN shown : shown[k].part # "blank" /\ shown[k].at = s.start
<1> DEFINE Own == {p \in Parts : p.part # "blank" /\ p.at = s.start}
           doc == [part |-> "doc", at |-> s.start]
           sign == [part |-> "signature", at |-> s.start]
           line == LineAt(s.start)
           end == [part |-> "body stripped", at |-> s.start]
           a == IF s.doc THEN <<doc>> ELSE <<>>
           b == IF s.signature THEN <<sign>> ELSE IF s.start <= Len(lines) THEN <<line>> ELSE <<>>
<1>1. doc \in Own /\ sign \in Own /\ line \in Own /\ end \in Own
  BY DEF Symbols, Parts, LineAt
<1>2. Signature(lines, s) = a \o b \o <<end>>
  BY DEF Signature
<1> HIDE DEF Own, doc, sign, line, end
<1>3. <<doc>> \in Seq(Own) /\ <<sign>> \in Seq(Own) /\ <<line>> \in Seq(Own) /\ <<>> \in Seq(Own)
      /\ <<end>> \in Seq(Own) /\ Len(<<end>>) = 1
  BY <1>1
<1>4. Signature(lines, s) \in Seq(Own) /\ Len(Signature(lines, s)) > 0
  <2>1. a \in Seq(Own) /\ b \in Seq(Own)
    BY <1>3
  <2> HIDE DEF a, b
  <2>2. a \o b \in Seq(Own)
    BY <2>1
  <2> DEFINE ab == a \o b
  <2> HIDE DEF ab
  <2>3. ab \o <<end>> \in Seq(Own) /\ Len(ab \o <<end>>) = Len(ab) + 1 /\ Len(ab) \in Nat
    BY <1>1, <2>2 DEF ab
  <2> QED BY <1>2, <2>3 DEF ab
<1>5. \A k \in DOMAIN Signature(lines, s) : Signature(lines, s)[k] \in Own
  BY <1>4
<1>6. Own \subseteq Parts
  BY DEF Own
<1>7. Signature(lines, s) \in Seq(Parts)
  BY <1>4, <1>6
<1>8. \A p \in Own : p.part # "blank" /\ p.at = s.start
  BY DEF Own
<1> QED BY <1>4, <1>5, <1>7, <1>8

\* What is shown of the symbols up to the k-th, and before the others.
Signs(out, syms, k) ==
    /\ out \in Seq(Parts) /\ TopDown(out)
    /\ \A m \in k + 1 .. Len(syms) : Until(out, syms[m].start)
    /\ \A m \in 1 .. k : Shows(out, syms[m].start)

\* The lines before the first symbol.
LEMMA ImportsFirst ==
    ASSUME NEW lines \in Seq(STRING), NEW syms \in Seq(Symbols), syms # <<>>,
           \A i, j \in DOMAIN syms : i < j => syms[i].start <= syms[j].start
    PROVE  Signs(Imports(lines, syms[1].start), syms, 0)
<1> DEFINE first == syms[1].start
           n == IF first - 1 < Len(lines) THEN first - 1 ELSE Len(lines)
           out == Imports(lines, first)
<1>1. /\ Len(lines) \in Nat /\ Len(syms) \in Nat \ {0}
      /\ DOMAIN syms = 1 .. Len(syms) /\ \A m \in 1 .. Len(syms) : syms[m] \in Symbols
  OBVIOUS
<1>2. \A m \in 1 .. Len(syms) : syms[m].start \in Nat
  BY <1>1 DEF Symbols
<1>3. first \in Nat /\ \A m \in 1 .. Len(syms) : first <= syms[m].start
  BY <1>1, <1>2
<1> HIDE DEF first
<1>4. n \in Int /\ n <= first - 1 /\ n <= Len(lines)
  BY <1>1, <1>3
<1>5. out = [i \in 1 .. n |-> LineAt(i)]
  BY DEF Imports
<1> HIDE DEF n, out
<1>6. \A i \in 1 .. n : LineAt(i) \in Parts /\ LineAt(i).at = i
  BY <1>4 DEF LineAt, Parts
<1>7. out \in Seq(Parts) /\ DOMAIN out = 1 .. n
  <2>1. ASSUME NEW k \in Nat, k <= n \/ k = 0
        PROVE  [i \in 1 .. k |-> LineAt(i)] \in Seq(Parts)
    <3>1. \A i \in 1 .. k : LineAt(i) \in Parts
      BY <1>4, <1>6, <2>1
    <3> QED BY <3>1
  <2>2. \E k \in Nat : (k <= n \/ k = 0) /\ 1 .. n = 1 .. k
    <3>1. CASE n >= 0
      BY <1>4, <3>1
    <3>2. CASE n < 0
      BY <1>4, <3>2
    <3> QED BY <1>4, <3>1, <3>2
  <2>3. out \in Seq(Parts)
    BY <1>5, <2>1, <2>2
  <2> QED BY <1>5, <2>3
<1>8. ASSUME NEW i \in 1 .. n
      PROVE  out[i].at = i /\ i <= first - 1 /\ i \in Nat
  <2>1. out[i] = LineAt(i)
    BY <1>5
  <2>2. i \in Nat /\ i <= first - 1
    BY <1>3, <1>4
  <2> QED BY <1>6, <2>1, <2>2
<1>9. TopDown(out)
  BY <1>7, <1>8 DEF TopDown
<1>10. \A m \in 1 .. Len(syms) : Until(out, syms[m].start)
  BY <1>2, <1>3, <1>7, <1>8 DEF Until
<1> QED BY <1>7, <1>9, <1>10 DEF Signs, out, first

\* One symbol more keeps the order.
LEMMA SignatureNext ==
    ASSUME NEW lines \in Seq(STRING), NEW syms \in Seq(Symbols),
           \A i, j \in DOMAIN syms : i < j => syms[i].start <= syms[j].start,
           NEW k \in Nat, k + 1 <= Len(syms), NEW out, Signs(out, syms, k)
    PROVE  Signs(out \o Signature(lines, syms[k + 1]), syms, k + 1)
<1> DEFINE s == syms[k + 1]
           sign == Signature(lines, s)
           new == out \o sign
<1>1. /\ Len(syms) \in Nat /\ DOMAIN syms = 1 .. Len(syms)
      /\ k + 1 \in 1 .. Len(syms) /\ \A m \in 1 .. Len(syms) : syms[m] \in Symbols
  OBVIOUS
<1>2. s \in Symbols /\ \A m \in 1 .. Len(syms) : syms[m].start \in Nat
  BY <1>1 DEF Symbols
<1>3. /\ sign \in Seq(Parts) /\ Len(sign) > 0
      /\ \A j \in DOMAIN sign : sign[j].part # "blank" /\ sign[j].at = s.start
  BY <1>2, SignatureShows
<1>4. /\ out \in Seq(Parts) /\ TopDown(out)
      /\ \A m \in k + 1 .. Len(syms) : Until(out, syms[m].start)
      /\ \A m \in 1 .. k : Shows(out, syms[m].start)
  BY DEF Signs
<1> HIDE DEF sign
<1>5. /\ new \in Seq(Parts) /\ DOMAIN out = 1 .. Len(out) /\ DOMAIN sign = 1 .. Len(sign)
      /\ Len(out) \in Nat /\ Len(sign) \in Nat /\ DOMAIN new = 1 .. Len(out) + Len(sign)
      /\ \A j \in 1 .. Len(out) : new[j] = out[j]
      /\ \A j \in Len(out) + 1 .. Len(out) + Len(sign) : new[j] = sign[j - Len(out)]
  BY <1>3, <1>4
<1> HIDE DEF new
<1>6. \A j \in Len(out) + 1 .. Len(out) + Len(sign) : new[j].part # "blank" /\ new[j].at = s.start
  <2>1. \A j \in Len(out) + 1 .. Len(out) + Len(sign) : j - Len(out) \in DOMAIN sign
    BY <1>5
  <2> QED BY <1>3, <1>5, <2>1
<1>7. \A j \in DOMAIN new : j \in 1 .. Len(out) \/ j \in Len(out) + 1 .. Len(out) + Len(sign)
  BY <1>5
<1>8. Until(out, s.start)
  BY <1>1, <1>4
<1>9. s.start \in Nat
  BY <1>1, <1>2
<1>10. \A j \in 1 .. Len(out) : out[j].at \in Nat
  <2>1. \A j \in 1 .. Len(out) : out[j] \in Parts
    BY <1>4, <1>5
  <2> QED BY <2>1 DEF Parts
<1>11. TopDown(new)
  <2> SUFFICES ASSUME NEW i \in DOMAIN new, NEW j \in DOMAIN new, i < j,
                      new[i].part # "blank", new[j].part # "blank"
               PROVE  new[i].at <= new[j].at
    BY DEF TopDown
  <2>1. CASE i \in 1 .. Len(out) /\ j \in 1 .. Len(out)
    BY <1>4, <1>5, <2>1 DEF TopDown
  <2>2. CASE i \in 1 .. Len(out) /\ j \in Len(out) + 1 .. Len(out) + Len(sign)
    BY <1>5, <1>6, <1>8, <2>2 DEF Until
  <2>3. CASE i \in Len(out) + 1 .. Len(out) + Len(sign) /\ j \in Len(out) + 1 .. Len(out) + Len(sign)
    BY <1>6, <1>9, <2>3
  <2>4. CASE i \in Len(out) + 1 .. Len(out) + Len(sign) /\ j \in 1 .. Len(out)
    BY <1>5, <2>4
  <2> QED BY <1>7, <2>1, <2>2, <2>3, <2>4
<1>12. ASSUME NEW m \in (k + 1) + 1 .. Len(syms)
       PROVE  Until(new, syms[m].start)
  <2>1. m \in k + 1 .. Len(syms) /\ m \in DOMAIN syms /\ k + 1 < m
    BY <1>1
  <2>2. s.start <= syms[m].start
    BY <1>1, <2>1
  <2>3. Until(out, syms[m].start)
    BY <1>4, <2>1
  <2> QED BY <1>5, <1>6, <1>7, <2>2, <2>3 DEF Until
<1>13. ASSUME NEW m \in 1 .. k + 1
       PROVE  Shows(new, syms[m].start)
  <2>1. CASE m \in 1 .. k
    <3>1. PICK j \in DOMAIN out : out[j].part # "blank" /\ out[j].at = syms[m].start
      BY <1>4, <2>1 DEF Shows
    <3>2. j \in DOMAIN new /\ new[j] = out[j]
      BY <1>5
    <3> QED BY <3>1, <3>2 DEF Shows
  <2>2. CASE m = k + 1
    <3>1. Len(out) + 1 \in Len(out) + 1 .. Len(out) + Len(sign) /\ Len(out) + 1 \in DOMAIN new
      BY <1>3, <1>5
    <3>2. new[Len(out) + 1].part # "blank" /\ new[Len(out) + 1].at = syms[m].start
      BY <1>6, <2>2, <3>1
    <3> QED BY <3>1, <3>2 DEF Shows
  <2> QED BY <2>1, <2>2
<1> QED BY <1>5, <1>11, <1>12, <1>13 DEF Signs, new, sign

\* The aggressive level: top to bottom, and every symbol.
LEMMA AggressiveLevel ==
    ASSUME NEW lines \in Seq(STRING), NEW syms \in Seq(Symbols), syms # <<>>,
           \A i, j \in DOMAIN syms : i < j => syms[i].start <= syms[j].start
    PROVE  Signs(keepSignatures(lines, syms), syms, Len(syms))
<1> DEFINE imports == Imports(lines, syms[1].start)
           Rec(h) == h = [k \in 0 .. Len(syms) |->
                             IF k = 0 THEN Imports(lines, syms[1].start)
                             ELSE h[k - 1] \o Signature(lines, syms[k])]
           out == CHOOSE h : Rec(h)
           S == Seq(Parts)
           Longer(k, o) == IF k \in 1 .. Len(syms) THEN o \o Signature(lines, syms[k]) ELSE o
           F == [p \in Nat \X S |-> Longer(p[1], p[2])]
<1>1. keepSignatures(lines, syms) = out[Len(syms)]
  BY DEF keepSignatures
<1>2. /\ Len(syms) \in Nat /\ DOMAIN syms = 1 .. Len(syms)
      /\ \A k \in 1 .. Len(syms) : syms[k] \in Symbols
  OBVIOUS
<1>3. Signs(imports, syms, 0)
  BY ImportsFirst
<1>4. imports \in S
  BY <1>3 DEF Signs
<1>5. ASSUME NEW k \in Nat, NEW o \in S
      PROVE  Longer(k, o) \in S
  <2>1. CASE k \in 1 .. Len(syms)
    <3>1. Signature(lines, syms[k]) \in Seq(Parts)
      BY <1>2, <2>1, SignatureShows
    <3> QED BY <2>1, <3>1
  <2>2. CASE k \notin 1 .. Len(syms)
    BY <2>2
  <2> QED BY <2>1, <2>2
<1> HIDE DEF imports
<1>6. F \in [Nat \X S -> S] /\ \A k \in Nat, o \in S : F[<<k, o>>] = Longer(k, o)
  <2> HIDE DEF S, Longer
  <2> QED BY <1>5
<1> HIDE DEF F, S
<1>7. PICK g : Recurses(g, imports, F, S)
  BY <1>4, <1>6, Recursion
<1>8. \E h : Rec(h)
  <2> DEFINE h == [k \in 0 .. Len(syms) |-> g[k]]
  <2>1. g[0] = Imports(lines, syms[1].start)
    BY <1>7 DEF Recurses, imports
  <2>2. ASSUME NEW k \in 0 .. Len(syms), k # 0
        PROVE  g[k] = h[k - 1] \o Signature(lines, syms[k])
    <3>1. k \in Nat /\ k \in 1 .. Len(syms) /\ k - 1 \in 0 .. Len(syms)
      BY <1>2, <2>2
    <3>2. g[k] = F[<<k, g[k - 1]>>] /\ g[k - 1] \in S
      BY <1>7, <2>2, <3>1 DEF Recurses
    <3>3. g[k] = Longer(k, g[k - 1])
      BY <1>6, <3>1, <3>2
    <3>4. h[k - 1] = g[k - 1]
      BY <3>1
    <3> QED BY <3>1, <3>3, <3>4
  <2>3. Rec(h)
    BY <2>1, <2>2
  <2> HIDE DEF h, Rec
  <2> QED BY <2>3
<1> HIDE DEF Rec
<1>9. Rec(out)
  BY <1>8
<1> HIDE DEF out
<1>10. /\ out[0] = imports
       /\ \A k \in 1 .. Len(syms) : out[k] = out[k - 1] \o Signature(lines, syms[k])
  BY <1>2, <1>9 DEF Rec, imports
<1> DEFINE P == {k \in Nat : k <= Len(syms) => Signs(out[k], syms, k)}
<1>11. 0 \in P
  BY <1>3, <1>10
<1>12. ASSUME NEW k \in Nat, k \in P
       PROVE  k + 1 \in P
  <2> SUFFICES ASSUME k + 1 <= Len(syms) PROVE Signs(out[k + 1], syms, k + 1)
    OBVIOUS
  <2>1. k + 1 \in 1 .. Len(syms) /\ (k + 1) - 1 = k
    BY <1>2
  <2>2. out[k + 1] = out[k] \o Signature(lines, syms[k + 1])
    BY <1>10, <2>1
  <2>3. Signs(out[k], syms, k)
    BY <1>2, <1>12
  <2>4. Signs(out[k] \o Signature(lines, syms[k + 1]), syms, k + 1)
    BY <2>3, SignatureNext
  <2> QED BY <2>2, <2>4
<1> HIDE DEF P
<1>13. Nat \subseteq P
  BY <1>11, <1>12, Numbers
<1> QED BY <1>1, <1>2, <1>13 DEF P

\* Symbols in order are those of the entry, each once.
LEMMA OrderedSymbols ==
    ASSUME NEW symbols \in Seq(Symbols), symbols # <<>>, NEW syms \in ByStart(symbols)
    PROVE  /\ syms \in Seq(Symbols) /\ syms # <<>>
           /\ \A i, j \in DOMAIN syms : i < j => syms[i].start <= syms[j].start
           /\ \A k \in DOMAIN symbols : \E m \in 1 .. Len(syms) : syms[m] = symbols[k]
<1>1. Len(symbols) \in Nat \ {0} /\ DOMAIN symbols = 1 .. Len(symbols)
  OBVIOUS
<1>2. PICK order \in Bijection(DOMAIN symbols, DOMAIN symbols) :
          syms = [k \in DOMAIN symbols |-> symbols[order[k]]]
  BY DEF ByStart
<1>3. \A i, j \in DOMAIN symbols : i < j => syms[i].start <= syms[j].start
  BY DEF ByStart
<1>4. /\ order \in [DOMAIN symbols -> DOMAIN symbols]
      /\ \A k \in DOMAIN symbols : \E m \in DOMAIN symbols : order[m] = k
  BY <1>2 DEF Bijection, Injection, Surjection, IsInjective
<1>5. \A k \in 1 .. Len(symbols) : symbols[order[k]] \in Symbols
  BY <1>1, <1>4
<1>6. syms \in Seq(Symbols) /\ Len(syms) = Len(symbols) /\ DOMAIN syms = 1 .. Len(symbols)
  BY <1>1, <1>2, <1>5
<1>7. ASSUME NEW k \in DOMAIN symbols
      PROVE  \E m \in 1 .. Len(syms) : syms[m] = symbols[k]
  <2>1. PICK m \in DOMAIN symbols : order[m] = k
    BY <1>4
  <2> QED BY <1>1, <1>2, <1>6, <2>1
<1> QED BY <1>1, <1>3, <1>6, <1>7

-----------------------------------------------------------------------------
(* Every read.                                                               *)

Entries == [lang : STRING, lineCount : Nat, symbols : Seq(Symbols)]
Reads == [place : STRING, level : STRING, workspace : Nat, parents : Seq(Nat), prose : BOOLEAN,
          entry : Entries, lines : Seq(STRING), raw : BOOLEAN, ultra : BOOLEAN, daemon : BOOLEAN,
          offset : Nat, limit : Nat]

\* What ReadsFaithfully says of one answer.
Faithful(lines, entry, level, out) ==
    /\ TopDown(out)
    /\ level = "minimal" => \A i \in DOMAIN lines :
          \/ lines[i] \in {"blank", "note"} \/ ShowsWhole(out, i)
          \/ lines[i] = "text" /\ Shows(out, i)
          \/ \E o \in 1 .. i - 1, c \in i + 1 .. Len(lines) :
                lines[o] = "open" /\ lines[c] = "close" /\ \A k \in o + 1 .. i : lines[k] # "close"
    /\ level = "aggressive" => \A k \in DOMAIN entry.symbols : Shows(out, entry.symbols[k].start)
    /\ level = "none" => out = [i \in DOMAIN lines |-> LineAt(i)]

\* A file as it is goes from top to bottom.
LEMMA WholeIsTopDown ==
    ASSUME NEW lines \in Seq(STRING)
    PROVE  TopDown([i \in DOMAIN lines |-> LineAt(i)])
<1> DEFINE out == [i \in DOMAIN lines |-> LineAt(i)]
<1>1. DOMAIN out = DOMAIN lines /\ \A i \in DOMAIN lines : out[i].at = i /\ i \in Nat
  BY DEF LineAt
<1> HIDE DEF out
<1>2. TopDown(out)
  BY <1>1 DEF TopDown
<1> QED BY <1>2 DEF out

\* Whatever filter is chosen.
LEMMA FiltersAreFaithful ==
    ASSUME NEW lines \in Seq(STRING), NEW level, NEW prose, NEW entry,
           entry.symbols \in Seq(Symbols),
           NEW f \in ApplyFilter(lines, level, prose, entry)
    PROVE  /\ Faithful(lines, entry, f.level, f.out)
           /\ f.level = "aggressive" => entry.symbols # <<>>
<1> DEFINE wanted == IF level \in {"", "auto"} THEN ResolveAuto(prose, entry) ELSE level
           whole == [i \in DOMAIN lines |-> LineAt(i)]
<1>1. CASE wanted = "minimal" \/ (wanted = "aggressive" /\ entry.symbols = <<>>)
  <2>1. f = [level |-> "minimal", out |-> stripComments(lines, entry.lang)]
    BY <1>1 DEF ApplyFilter
  <2>2. f.level = "minimal" /\ f.out = stripComments(lines, entry.lang)
    BY <2>1
  <2> QED BY <2>2, MinimalLevel, BlocksAreBetween DEF Faithful
<1>2. CASE wanted = "aggressive" /\ entry.symbols # <<>>
  <2>1. PICK syms \in ByStart(entry.symbols) :
            f = [level |-> "aggressive", out |-> keepSignatures(lines, syms)]
    BY <1>2 DEF ApplyFilter
  <2>2. f.level = "aggressive" /\ f.out = keepSignatures(lines, syms)
    BY <2>1
  <2>3. /\ syms \in Seq(Symbols) /\ syms # <<>>
        /\ \A i, j \in DOMAIN syms : i < j => syms[i].start <= syms[j].start
        /\ \A k \in DOMAIN entry.symbols : \E m \in 1 .. Len(syms) : syms[m] = entry.symbols[k]
    BY <1>2, OrderedSymbols
  <2>4. Signs(f.out, syms, Len(syms))
    BY <2>2, <2>3, AggressiveLevel
  <2> QED BY <1>2, <2>2, <2>3, <2>4 DEF Signs, Faithful
<1>3. CASE wanted # "minimal" /\ wanted # "aggressive"
  <2>1. f = [level |-> "none", out |-> whole]
    BY <1>3 DEF ApplyFilter
  <2>2. f.level = "none" /\ f.out = whole
    BY <2>1
  <2> QED BY <2>2, WholeIsTopDown DEF Faithful
<1> QED BY <1>1, <1>2, <1>3

\* A range goes from top to bottom.
LEMMA RangesAreTopDown ==
    ASSUME NEW lines \in Seq(STRING), NEW offset \in Nat, NEW limit \in Nat
    PROVE  TopDown(readRange(lines, offset, limit))
<1> DEFINE last == IF limit > 0 /\ offset + limit < Len(lines) THEN offset + limit ELSE Len(lines)
           n == IF offset > last THEN 0 ELSE last - offset
           out == [i \in 1 .. n |-> LineAt(offset + i)]
<1>1. readRange(lines, offset, limit) = out
  BY DEF readRange
<1>2. n \in Nat
  OBVIOUS
<1> HIDE DEF n
<1>3. DOMAIN out = 1 .. n /\ \A i \in 1 .. n : out[i].at = offset + i /\ i \in Nat
  BY <1>2 DEF LineAt
<1> HIDE DEF out
<1>4. TopDown(out)
  BY <1>3 DEF TopDown
<1> QED BY <1>1, <1>4

\* The answer of the daemon, and of the command without it.
LEMMA AnswersAreFaithful ==
    ASSUME NEW r \in Reads, NEW a \in browzerRead(r)
    PROVE  /\ a.saved >= 0 /\ TopDown(a.out)
           /\ a.level \in {"minimal", "aggressive"} \/ (r.offset = 0 /\ r.limit = 0)
                 => Faithful(r.lines, r.entry, a.level, a.out)
<1> DEFINE level == IF r.raw THEN "none" ELSE IF r.ultra /\ r.level = "auto" THEN "aggressive" ELSE r.level
           asked == [r EXCEPT !.level = level]
           whole == [i \in DOMAIN r.lines |-> LineAt(i)]
           entry == IF InWorkspace(asked) THEN r.entry ELSE NoEntry
<1>1. r.lines \in Seq(STRING) /\ r.offset \in Nat /\ r.limit \in Nat /\ r.entry \in Entries
  BY DEF Reads
<1>2. CASE r.offset > 0 \/ r.limit > 0
  <2>1. a = [level |-> "none", out |-> readRange(r.lines, r.offset, r.limit), saved |-> 0]
    BY <1>2 DEF browzerRead
  <2>2. a.level = "none" /\ a.out = readRange(r.lines, r.offset, r.limit) /\ a.saved = 0
    BY <2>1
  <2>3. ~(r.offset = 0 /\ r.limit = 0)
    BY <1>1, <1>2
  <2> QED BY <1>1, <2>2, <2>3, RangesAreTopDown
<1>3. CASE ~(r.offset > 0 \/ r.limit > 0)
  <2>1. PICK b \in doRead(asked) :
            a = IF r.daemon /\ ~b.failed
                THEN [level |-> b.level, out |-> b.out, saved |-> b.saved]
                ELSE [level |-> "none", out |-> whole, saved |-> 0]
    BY <1>3 DEF browzerRead
  <2> HIDE DEF level
  <2>2. asked.lines = r.lines /\ asked.entry = r.entry
    BY DEF Reads
  <2>3. CASE ~(r.daemon /\ ~b.failed)
    <3>1. a.level = "none" /\ a.out = whole /\ a.saved = 0
      BY <2>1, <2>3
    <3>2. TopDown(whole)
      BY <1>1, WholeIsTopDown
    <3> QED BY <3>1, <3>2 DEF Faithful
  <2>4. CASE r.daemon /\ ~b.failed
    <3>1. a.level = b.level /\ a.out = b.out /\ a.saved = b.saved
      BY <2>1, <2>4
    <3>2. asked.place = "workspace"
      <4> SUFFICES ASSUME asked.place # "workspace" PROVE FALSE
        OBVIOUS
      <4>1. b = [failed |-> TRUE, level |-> "", out |-> <<>>, saved |-> 0]
        BY DEF doRead
      <4> QED BY <2>4, <4>1
    <3>3. PICK f \in ApplyFilter(r.lines, asked.level, asked.prose, entry) :
              b = [failed |-> FALSE, level |-> f.level, out |-> f.out, saved |-> Saved(r.lines, f.out)]
      BY <2>2, <3>2 DEF doRead
    <3>4. b.level = f.level /\ b.out = f.out /\ b.saved = Saved(r.lines, f.out)
      BY <3>3
    <3>5. entry.symbols \in Seq(Symbols)
      <4>1. NoEntry.symbols = <<>>
        BY DEF NoEntry
      <4>2. r.entry.symbols \in Seq(Symbols)
        BY <1>1 DEF Entries
      <4>3. <<>> \in Seq(Symbols)
        OBVIOUS
      <4>4. entry = r.entry \/ entry = NoEntry
        OBVIOUS
      <4> HIDE DEF entry
      <4> QED BY <4>1, <4>2, <4>3, <4>4
    <3>6. Faithful(r.lines, entry, f.level, f.out) /\ (f.level = "aggressive" => entry.symbols # <<>>)
      BY <1>1, <3>5, FiltersAreFaithful
    <3>7. f.level = "aggressive" => entry = r.entry
      <4>1. NoEntry.symbols = <<>>
        BY DEF NoEntry
      <4> QED BY <3>6, <4>1
    <3>8. Faithful(r.lines, r.entry, f.level, f.out)
      BY <3>6, <3>7 DEF Faithful
    <3>9. Saved(r.lines, f.out) >= 0
      BY DEF Saved
    <3> QED BY <3>1, <3>4, <3>8, <3>9 DEF Faithful
  <2> QED BY <2>3, <2>4
<1> QED BY <1>2, <1>3

\* `browzer read` and the daemon's Read (read.go, filter.go): for every file,
\* every entry of the manifest, which may be of another version of it, and
\* every level, range and failure, what is shown is the file from top to
\* bottom, without anything but what its level leaves out.
THEOREM EveryReadIsFaithful == \A r \in Reads : ReadsFaithfully(r)
<1> SUFFICES ASSUME NEW r \in Reads PROVE ReadsFaithfully(r)
  OBVIOUS
<1>1. ASSUME NEW a \in browzerRead(r)
      PROVE  LET shown == {a.out[i].at : i \in {k \in DOMAIN a.out : a.out[k].part # "blank"}}
                 whole == {a.out[i].at : i \in {k \in DOMAIN a.out : a.out[k].part = "line"}}
                 Inside(i) == \E o \in 1 .. i - 1, c \in i + 1 .. Len(r.lines) :
                     r.lines[o] = "open" /\ r.lines[c] = "close" /\ \A k \in o + 1 .. i : r.lines[k] # "close"
             IN /\ \A i, j \in DOMAIN a.out :
                      i < j /\ a.out[i].part # "blank" /\ a.out[j].part # "blank" => a.out[i].at <= a.out[j].at
                /\ a.saved >= 0
                /\ a.level = "minimal" =>
                      \A i \in DOMAIN r.lines :
                          \/ r.lines[i] \in {"blank", "note"} \/ Inside(i) \/ i \in whole
                          \/ r.lines[i] = "text" /\ i \in shown
                /\ a.level = "aggressive" =>
                      {r.entry.symbols[k].start : k \in DOMAIN r.entry.symbols} \subseteq shown
                /\ a.level = "none" /\ r.offset = 0 /\ r.limit = 0 =>
                      a.out = [i \in DOMAIN r.lines |-> LineAt(i)]
  <2> DEFINE shown == {a.out[i].at : i \in {k \in DOMAIN a.out : a.out[k].part # "blank"}}
             whole == {a.out[i].at : i \in {k \in DOMAIN a.out : a.out[k].part = "line"}}
  <2>1. a.saved >= 0 /\ TopDown(a.out)
    BY AnswersAreFaithful
  <2>2. a.level \in {"minimal", "aggressive"} \/ (r.offset = 0 /\ r.limit = 0)
           => Faithful(r.lines, r.entry, a.level, a.out)
    BY AnswersAreFaithful
  <2>3. \A i : (Shows(a.out, i) => i \in shown) /\ (ShowsWhole(a.out, i) => i \in whole)
    BY DEF Shows, ShowsWhole
  <2> HIDE DEF shown, whole
  <2>4. a.level = "minimal" => \A i \in DOMAIN r.lines :
            \/ r.lines[i] \in {"blank", "note"} \/ i \in whole
            \/ r.lines[i] = "text" /\ i \in shown
            \/ \E o \in 1 .. i - 1, c \in i + 1 .. Len(r.lines) :
                  r.lines[o] = "open" /\ r.lines[c] = "close" /\ \A k \in o + 1 .. i : r.lines[k] # "close"
    BY <2>2, <2>3 DEF Faithful
  <2>5. a.level = "aggressive" =>
            {r.entry.symbols[k].start : k \in DOMAIN r.entry.symbols} \subseteq shown
    BY <2>2, <2>3 DEF Faithful
  <2>6. a.level = "none" /\ r.offset = 0 /\ r.limit = 0 => a.out = [i \in DOMAIN r.lines |-> LineAt(i)]
    BY <2>2 DEF Faithful
  <2> QED BY <2>1, <2>4, <2>5, <2>6 DEF TopDown, shown, whole
<1> QED BY <1>1 DEF ReadsFaithfully

-----------------------------------------------------------------------------
(* codereview aggregate.                                                     *)

Texts == [file : STRING, line : Nat, severity : STRING, status : STRING, domain : STRING,
          description : STRING, fix : STRING]
ReviewFiles == [ok : BOOLEAN, findings : Seq(Texts)]

Tag(dir, p) == [member |-> p[1], id |-> <<Prefix[p[1]], p[2]>>, f |-> fillFindingDefaults(Text(dir, p), p[1])]

\* Review files have findings.
LEMMA FilesType ==
    ASSUME NEW dir \in Seq(ReviewFiles)
    PROVE  /\ Len(dir) \in Nat /\ DOMAIN dir = 1 .. Len(dir)
           /\ \A m \in 1 .. Len(dir) :
                 dir[m].findings \in Seq(Texts) /\ DOMAIN dir[m].findings = 1 .. Len(dir[m].findings)
<1>1. Len(dir) \in Nat /\ DOMAIN dir = 1 .. Len(dir) /\ \A m \in 1 .. Len(dir) : dir[m] \in ReviewFiles
  OBVIOUS
<1>2. \A f \in ReviewFiles : f.findings \in Seq(Texts)
  BY DEF ReviewFiles
<1>3. \A m \in 1 .. Len(dir) : dir[m].findings \in Seq(Texts)
  BY <1>1, <1>2
<1> QED BY <1>1, <1>3

\* A finding of the directory is one of a file in it.
LEMMA FindingsType ==
    ASSUME NEW dir \in Seq(ReviewFiles), NEW p
    PROVE  p \in FindingsOf(dir) <=>
               \E m \in 1 .. Len(dir), i \in Nat :
                   p = <<m, i>> /\ dir[m].ok /\ i \in 1 .. Len(dir[m].findings)
<1>1. DOMAIN dir = 1 .. Len(dir) /\ \A m \in DOMAIN dir : DOMAIN dir[m].findings = 1 .. Len(dir[m].findings)
  BY FilesType
<1> QED BY <1>1 DEF FindingsOf

\* Defaults are filled in for neither place nor severity.
LEMMA DefaultsKeep ==
    ASSUME NEW f \in Texts, NEW m
    PROVE  LET g == fillFindingDefaults(f, m)
           IN  g.file = f.file /\ g.line = f.line /\ g.severity = f.severity
  BY DEF fillFindingDefaults, Texts

Before(dir, m) == {p \in FindingsOf(dir) : p[1] <= m}

\* The findings of the first m members are in out, each at a place of its own.
Holds(dir, m, out) ==
    \E at \in Bijection(Before(dir, m), 1 .. Len(out)) :
        \A p \in Before(dir, m) : out[at[p]] = Tag(dir, p)

\* The findings of one member more.
LEMMA MemberNext ==
    ASSUME NEW dir \in Seq(ReviewFiles), NEW m \in Nat, m + 1 <= Len(dir), NEW S,
           NEW out \in Seq(S), Holds(dir, m, out)
    PROVE  Holds(dir, m + 1, out \o (IF m + 1 \in LoadMemberFiles(dir)
                                     THEN MemberFindings(dir, m + 1) ELSE <<>>))
<1> DEFINE n == m + 1
           own == IF n \in LoadMemberFiles(dir) THEN MemberFindings(dir, n) ELSE <<>>
           k == IF n \in LoadMemberFiles(dir) THEN Len(dir[n].findings) ELSE 0
           new == out \o own
           PlaceOf(at, p) == IF p[1] <= m THEN at[p] ELSE Len(out) + p[2]
<1>1. /\ Len(dir) \in Nat /\ DOMAIN dir = 1 .. Len(dir) /\ n \in 1 .. Len(dir)
      /\ dir[n].findings \in Seq(Texts)
  BY FilesType
<1>2. k \in Nat /\ DOMAIN dir[n].findings = 1 .. Len(dir[n].findings)
  BY <1>1
<1>3. n \in LoadMemberFiles(dir) <=> dir[n].ok
  BY <1>1 DEF LoadMemberFiles
<1>4. own = [i \in 1 .. k |-> Tag(dir, <<n, i>>)]
  <2>1. CASE n \in LoadMemberFiles(dir)
    BY <1>2, <2>1 DEF MemberFindings, Tag, Text
  <2>2. CASE n \notin LoadMemberFiles(dir)
    BY <2>2
  <2> QED BY <2>1, <2>2
<1>5. ASSUME NEW p
      PROVE  p \in Before(dir, n) <=> p \in Before(dir, m) \/ \E i \in 1 .. k : p = <<n, i>>
  <2>1. ASSUME p \in Before(dir, n), p \notin Before(dir, m)
        PROVE  \E i \in 1 .. k : p = <<n, i>>
    <3>1. PICK l \in 1 .. Len(dir), i \in Nat : p = <<l, i>> /\ dir[l].ok /\ i \in 1 .. Len(dir[l].findings)
      BY <2>1, FindingsType DEF Before
    <3>2. l <= n /\ ~(l <= m)
      BY <2>1, <3>1 DEF Before
    <3>3. l = n
      BY <1>1, <3>2
    <3> QED BY <1>3, <3>1, <3>3
  <2>2. ASSUME NEW i \in 1 .. k, p = <<n, i>>
        PROVE  p \in Before(dir, n)
    <3>1. dir[n].ok /\ i \in 1 .. Len(dir[n].findings) /\ i \in Nat
      BY <1>2, <1>3
    <3>2. p \in FindingsOf(dir)
      BY <1>1, <2>2, <3>1, FindingsType
    <3> QED BY <1>1, <2>2, <3>2 DEF Before
  <2>3. p \in Before(dir, m) => p \in Before(dir, n)
    <3> SUFFICES ASSUME p \in Before(dir, m) PROVE p \in Before(dir, n)
      OBVIOUS
    <3>1. PICK l \in 1 .. Len(dir), i \in Nat : p = <<l, i>>
      BY FindingsType DEF Before
    <3>2. l <= m /\ p \in FindingsOf(dir)
      BY <3>1 DEF Before
    <3> QED BY <3>1, <3>2 DEF Before
  <2> QED BY <2>1, <2>2, <2>3
<1>6. \A p \in Before(dir, m) : p[1] <= m
  BY DEF Before
<1>7. PICK at \in Bijection(Before(dir, m), 1 .. Len(out)) :
          \A p \in Before(dir, m) : out[at[p]] = Tag(dir, p)
  BY DEF Holds
<1>8. /\ at \in [Before(dir, m) -> 1 .. Len(out)]
      /\ \A p, q \in Before(dir, m) : at[p] = at[q] => p = q
      /\ \A j \in 1 .. Len(out) : \E p \in Before(dir, m) : at[p] = j
  BY <1>7 DEF Bijection, Injection, Surjection, IsInjective
<1>9. Len(out) \in Nat /\ Len(own) = k /\ DOMAIN own = 1 .. k
  BY <1>2, <1>4
<1> HIDE DEF own, k, n
<1>10. /\ Len(new) = Len(out) + k
       /\ \A j \in 1 .. Len(out) : new[j] = out[j]
       /\ \A i \in 1 .. k : new[Len(out) + i] = Tag(dir, <<n, i>>)
  <2>1. own \in Seq({Tag(dir, <<n, i>>) : i \in 1 .. k})
    <3> DEFINE T == {Tag(dir, <<n, i>>) : i \in 1 .. k}
    <3>1. \A i \in 1 .. k : Tag(dir, <<n, i>>) \in T
      OBVIOUS
    <3> HIDE DEF T
    <3>2. own \in [1 .. k -> T]
      BY <1>4, <3>1
    <3>3. own \in Seq(T)
      BY <1>2, <3>2
    <3> QED BY <3>3 DEF T
  <2> DEFINE R == {Tag(dir, <<n, i>>) : i \in 1 .. k}
  <2>2. own \in Seq(R) /\ Len(own) = k
    BY <1>9, <2>1
  <2> HIDE DEF R
  <2>3. Len(new) = Len(out) + k /\ \A j \in 1 .. Len(out) : new[j] = out[j]
    <3>1. out \in Seq(S \cup R) /\ own \in Seq(S \cup R)
      BY <2>2
    <3> QED BY <2>2, <3>1
  <2>4. ASSUME NEW i \in 1 .. k
        PROVE  new[Len(out) + i] = Tag(dir, <<n, i>>)
    <3>1. new[Len(out) + i] = own[i]
      BY <1>2, <1>9, <2>1
    <3> QED BY <1>4, <3>1
  <2> QED BY <2>3, <2>4
<1> HIDE DEF new
<1> DEFINE to == [p \in Before(dir, n) |-> PlaceOf(at, p)]
<1>11. /\ \A p \in Before(dir, m) : to[p] = at[p] /\ at[p] \in 1 .. Len(out)
       /\ \A i \in 1 .. k : <<n, i>> \in Before(dir, n) /\ to[<<n, i>>] = Len(out) + i
  <2>1. ASSUME NEW p \in Before(dir, m)
        PROVE  to[p] = at[p] /\ at[p] \in 1 .. Len(out)
    BY <1>5, <1>6, <1>8
  <2>2. ASSUME NEW i \in 1 .. k
        PROVE  <<n, i>> \in Before(dir, n) /\ to[<<n, i>>] = Len(out) + i
    BY <1>5 DEF n
  <2> QED BY <2>1, <2>2
<1>12. DOMAIN to = Before(dir, n)
  OBVIOUS
<1>13. to = [p \in Before(dir, n) |-> to[p]]
  OBVIOUS
<1> HIDE DEF to
<1>14. ASSUME NEW p \in Before(dir, n)
       PROVE  to[p] \in 1 .. Len(new) /\ new[to[p]] = Tag(dir, p)
  <2>1. CASE p \in Before(dir, m)
    BY <1>2, <1>7, <1>9, <1>10, <1>11, <2>1
  <2>2. CASE \E i \in 1 .. k : p = <<n, i>>
    <3>1. PICK i \in 1 .. k : p = <<n, i>>
      BY <2>2
    <3>2. to[p] = Len(out) + i
      BY <1>11, <3>1
    <3> QED BY <1>2, <1>9, <1>10, <3>1, <3>2
  <2> QED BY <1>5, <2>1, <2>2
<1>15. ASSUME NEW p \in Before(dir, n), NEW q \in Before(dir, n), to[p] = to[q]
       PROVE  p = q
  <2>1. CASE p \in Before(dir, m) /\ q \in Before(dir, m)
    BY <1>8, <1>11, <1>15, <2>1
  <2>2. ASSUME NEW i \in 1 .. k, NEW j \in 1 .. k, p = <<n, i>>, q = <<n, j>>
        PROVE  p = q
    <3>1. Len(out) + i = Len(out) + j
      BY <1>11, <1>15, <2>2
    <3>2. i = j
      BY <1>2, <1>9, <3>1
    <3> QED BY <2>2, <3>2
  <2>3. ASSUME NEW a \in Before(dir, m), NEW i \in 1 .. k, to[a] = to[<<n, i>>]
        PROVE  FALSE
    BY <1>2, <1>9, <1>11, <2>3
  <2> QED BY <1>5, <1>15, <2>1, <2>2, <2>3
<1>16. ASSUME NEW j \in 1 .. Len(new)
       PROVE  \E p \in Before(dir, n) : to[p] = j
  <2>1. CASE j <= Len(out)
    <3>1. PICK p \in Before(dir, m) : at[p] = j
      BY <1>8, <1>9, <2>1
    <3> QED BY <1>5, <1>11, <3>1
  <2>2. CASE j > Len(out)
    <3>1. j - Len(out) \in 1 .. k /\ Len(out) + (j - Len(out)) = j
      BY <1>2, <1>9, <1>10, <2>2
    <3> QED BY <1>11, <3>1
  <2> QED BY <1>9, <2>1, <2>2
<1>17. to \in Bijection(Before(dir, n), 1 .. Len(new))
  <2>1. to \in [Before(dir, n) -> 1 .. Len(new)]
    BY <1>13, <1>14
  <2> QED BY <1>15, <1>16, <2>1 DEF Bijection, Injection, Surjection, IsInjective
<1>18. Holds(dir, n, new)
  BY <1>14, <1>17 DEF Holds
<1> QED BY <1>18 DEF n, new, own

\* Every finding of every readable file is tagged once.
LEMMA AllAreTagged ==
    ASSUME NEW dir \in Seq(ReviewFiles)
    PROVE  \E at \in Bijection(FindingsOf(dir), DOMAIN Tagged(dir, LoadMemberFiles(dir))) :
               \A p \in FindingsOf(dir) : Tagged(dir, LoadMemberFiles(dir))[at[p]] = Tag(dir, p)
<1> DEFINE members == LoadMemberFiles(dir)
           S == {Tag(dir, p) : p \in FindingsOf(dir)}
           T == Seq(S)
           Own(m) == IF m \in members THEN MemberFindings(dir, m) ELSE <<>>
           Longer(m, o) == IF m \in 1 .. Len(dir) THEN o \o Own(m) ELSE o
           F == [q \in Nat \X T |-> Longer(q[1], q[2])]
           Rec(h) == h = [m \in 0 .. Len(dir) |->
                             IF m = 0 THEN <<>>
                             ELSE h[m - 1] \o (IF m \in members THEN MemberFindings(dir, m) ELSE <<>>)]
           upTo == CHOOSE h : Rec(h)
<1>1. Tagged(dir, members) = upTo[Len(dir)]
  BY DEF Tagged
<1>2. Len(dir) \in Nat /\ DOMAIN dir = 1 .. Len(dir)
  BY FilesType
<1>3. \A m \in 1 .. Len(dir) : Own(m) \in T
  <2> SUFFICES ASSUME NEW m \in 1 .. Len(dir) PROVE Own(m) \in T
    OBVIOUS
  <2>1. CASE m \in members
    <3> DEFINE k == Len(dir[m].findings)
    <3>1. DOMAIN dir[m].findings = 1 .. k /\ k \in Nat /\ dir[m].ok
      BY <1>2, <2>1, FilesType DEF LoadMemberFiles
    <3>2. Own(m) = [i \in 1 .. k |-> Tag(dir, <<m, i>>)]
      BY <2>1, <3>1 DEF MemberFindings, Tag, Text
    <3>3. \A i \in 1 .. k : <<m, i>> \in FindingsOf(dir)
      BY <3>1, FindingsType
    <3>4. \A i \in 1 .. k : Tag(dir, <<m, i>>) \in S
      BY <3>3
    <3> HIDE DEF k, S, Own
    <3>5. Own(m) \in [1 .. k -> S]
      BY <3>2, <3>4
    <3> QED BY <3>1, <3>5
  <2>2. CASE m \notin members
    BY <2>2
  <2> QED BY <2>1, <2>2
<1> HIDE DEF Own, S
<1>4. ASSUME NEW m \in Nat, NEW o \in T
      PROVE  Longer(m, o) \in T
  <2>1. CASE m \in 1 .. Len(dir)
    <3>1. Own(m) \in Seq(S)
      BY <1>3, <2>1
    <3> QED BY <2>1, <3>1
  <2>2. CASE m \notin 1 .. Len(dir)
    BY <2>2
  <2> QED BY <2>1, <2>2
<1>5. <<>> \in T
  OBVIOUS
<1>6. F \in [Nat \X T -> T] /\ \A m \in Nat, o \in T : F[<<m, o>>] = Longer(m, o)
  <2> HIDE DEF T, Longer
  <2> QED BY <1>4
<1> HIDE DEF F, T
<1>7. PICK g : Recurses(g, <<>>, F, T)
  BY <1>5, <1>6, Recursion
<1>8. ASSUME NEW m \in 1 .. Len(dir)
      PROVE  g[m] = g[m - 1] \o Own(m)
  <2>1. m \in Nat /\ m # 0
    OBVIOUS
  <2>2. g[m] = F[<<m, g[m - 1]>>] /\ g[m - 1] \in T
    BY <1>7, <2>1 DEF Recurses
  <2>3. g[m] = Longer(m, g[m - 1])
    BY <1>6, <2>1, <2>2
  <2> QED BY <2>3
<1>9. \E h : Rec(h)
  <2> DEFINE h == [m \in 0 .. Len(dir) |-> g[m]]
  <2>1. g[0] = <<>>
    BY <1>7 DEF Recurses
  <2>2. ASSUME NEW m \in 0 .. Len(dir), m # 0
        PROVE  g[m] = h[m - 1] \o (IF m \in members THEN MemberFindings(dir, m) ELSE <<>>)
    <3>1. m \in 1 .. Len(dir) /\ m - 1 \in 0 .. Len(dir)
      BY <1>2, <2>2
    <3>2. h[m - 1] = g[m - 1]
      BY <3>1
    <3> QED BY <1>8, <3>1, <3>2 DEF Own
  <2>3. Rec(h)
    BY <2>1, <2>2
  <2> HIDE DEF h, Rec
  <2> QED BY <2>3
<1> HIDE DEF Rec
<1>10. Rec(upTo)
  BY <1>9
<1> HIDE DEF upTo
<1>11. /\ upTo[0] = <<>>
       /\ \A m \in 1 .. Len(dir) : upTo[m] = upTo[m - 1] \o Own(m)
  BY <1>2, <1>10 DEF Rec, Own
<1> DEFINE P == {m \in Nat : m <= Len(dir) => upTo[m] \in Seq(S) /\ Holds(dir, m, upTo[m])}
<1>12. 0 \in P
  <2>1. Before(dir, 0) = {}
    <3> SUFFICES ASSUME NEW p \in Before(dir, 0) PROVE FALSE
      OBVIOUS
    <3>1. p[1] <= 0 /\ p \in FindingsOf(dir)
      BY DEF Before
    <3>2. PICK m \in 1 .. Len(dir), i \in Nat : p = <<m, i>>
      BY <3>1, FindingsType
    <3> QED BY <1>2, <3>1, <3>2
  <2>2. 1 .. Len(<<>>) = {}
    OBVIOUS
  <2> DEFINE none == [p \in {} |-> p]
  <2>3. none \in Bijection({}, {})
    BY DEF Bijection, Injection, Surjection, IsInjective
  <2>4. Holds(dir, 0, <<>>)
    BY <2>1, <2>2, <2>3 DEF Holds
  <2>5. <<>> \in Seq(S)
    OBVIOUS
  <2>6. upTo[0] = <<>>
    BY <1>11
  <2> QED BY <2>4, <2>5, <2>6
<1>13. ASSUME NEW m \in Nat, m \in P
       PROVE  m + 1 \in P
  <2> SUFFICES ASSUME m + 1 <= Len(dir) PROVE upTo[m + 1] \in Seq(S) /\ Holds(dir, m + 1, upTo[m + 1])
    OBVIOUS
  <2>1. m + 1 \in 1 .. Len(dir) /\ (m + 1) - 1 = m /\ m <= Len(dir)
    BY <1>2
  <2>2. upTo[m + 1] = upTo[m] \o Own(m + 1) /\ upTo[m] \in Seq(S) /\ Holds(dir, m, upTo[m])
    BY <1>11, <1>13, <2>1
  <2>3. Own(m + 1) \in Seq(S)
    BY <1>3, <2>1 DEF T
  <2>4. Holds(dir, m + 1, upTo[m] \o Own(m + 1))
    BY <2>2, MemberNext DEF Own
  <2> QED BY <2>2, <2>3, <2>4
<1> HIDE DEF P
<1>14. Nat \subseteq P
  BY <1>12, <1>13, Numbers
<1>15. upTo[Len(dir)] \in Seq(S) /\ Holds(dir, Len(dir), upTo[Len(dir)])
  BY <1>2, <1>14 DEF P
<1>16. Before(dir, Len(dir)) = FindingsOf(dir)
  <2> SUFFICES ASSUME NEW p \in FindingsOf(dir) PROVE p[1] <= Len(dir)
    BY DEF Before
  <2>1. PICK m \in 1 .. Len(dir), i \in Nat : p = <<m, i>>
    BY FindingsType
  <2> QED BY <1>2, <2>1
<1>17. DOMAIN upTo[Len(dir)] = 1 .. Len(upTo[Len(dir)])
  BY <1>15
<1> QED BY <1>1, <1>15, <1>16, <1>17 DEF Holds

\* aggregate.go, "No finding is dropped": of any number of members, with any
\* findings, every finding is in the review once and counted, and findings of
\* different members name each other exactly when they are about one place.
THEOREM EveryFindingIsKept ==
    ASSUME NEW dir \in Seq(ReviewFiles), NEW strict \in BOOLEAN,
           \A m, n \in 1 .. Len(dir) : Prefix[m] = Prefix[n] => m = n
    PROVE  PreservesAll(dir, strict)
<1> DEFINE findings == FindingsOf(dir)
           out == runCodeReviewAggregate(dir, strict, TRUE)
           tagged == Tagged(dir, LoadMemberFiles(dir))
           review == Aggregate(dir, LoadMemberFiles(dir))
<1>1. out.code = 0 => out.review = review
  BY DEF runCodeReviewAggregate, ExitWith
<1>2. PICK at \in Bijection(findings, DOMAIN tagged) : \A p \in findings : tagged[at[p]] = Tag(dir, p)
  BY AllAreTagged
<1>3. DOMAIN review = DOMAIN tagged
  BY DEF Aggregate
<1>4. /\ at \in [findings -> DOMAIN tagged]
      /\ \A p, q \in findings : at[p] = at[q] => p = q
      /\ \A j \in DOMAIN tagged : \E p \in findings : at[p] = j
  BY <1>2 DEF Bijection, Injection, Surjection, IsInjective
<1>5. ASSUME NEW p \in findings
      PROVE  /\ Text(dir, p) \in Texts /\ p[1] \in 1 .. Len(dir)
             /\ \A q \in findings : p[1] = q[1] /\ p[2] = q[2] => p = q
  <2>1. PICK m \in 1 .. Len(dir), i \in Nat : p = <<m, i>> /\ i \in 1 .. Len(dir[m].findings)
    BY FindingsType
  <2>2. dir[m].findings \in Seq(Texts)
    BY FilesType
  <2>3. dir[m].findings[i] \in Texts
    BY <2>1, <2>2
  <2>4. ASSUME NEW q \in findings, p[1] = q[1], p[2] = q[2]
        PROVE  p = q
    <3>1. PICK n \in 1 .. Len(dir), j \in Nat : q = <<n, j>>
      BY FindingsType
    <3> QED BY <2>1, <2>4, <3>1
  <2> QED BY <2>1, <2>3, <2>4 DEF Text
<1> HIDE DEF findings, tagged
<1>6. \A p \in findings : /\ tagged[at[p]].member = p[1]
                          /\ tagged[at[p]].id = <<Prefix[p[1]], p[2]>>
                          /\ tagged[at[p]].f = fillFindingDefaults(Text(dir, p), p[1])
  <2>1. \A p : /\ Tag(dir, p).member = p[1]
               /\ Tag(dir, p).id = <<Prefix[p[1]], p[2]>>
               /\ Tag(dir, p).f = fillFindingDefaults(Text(dir, p), p[1])
    BY DEF Tag
  <2>2. \A p \in findings : tagged[at[p]] = Tag(dir, p)
    BY <1>2
  <2> QED BY <2>1, <2>2
<1>7. \A p \in findings : /\ tagged[at[p]].f.file = Text(dir, p).file
                          /\ tagged[at[p]].f.line = Text(dir, p).line
                          /\ tagged[at[p]].f.severity = Text(dir, p).severity
  BY <1>5, <1>6, DefaultsKeep
<1>8. \A p, q \in findings : at[q] \in Group(tagged, at[p]) <=> Together(dir, p, q)
  BY <1>4, <1>7 DEF Group, SamePlace, Together
<1>9. \A p \in findings : CrossLane(tagged, at[p]) <=> \E o \in findings : Together(dir, p, o) /\ o[1] # p[1]
  <2> SUFFICES ASSUME NEW p \in findings
               PROVE  CrossLane(tagged, at[p]) <=> \E o \in findings : Together(dir, p, o) /\ o[1] # p[1]
    OBVIOUS
  <2>1. ASSUME CrossLane(tagged, at[p])
        PROVE  \E o \in findings : Together(dir, p, o) /\ o[1] # p[1]
    <3>1. PICK j \in Group(tagged, at[p]), k \in Group(tagged, at[p]) : tagged[j].member # tagged[k].member
      BY <2>1 DEF CrossLane
    <3>2. j \in DOMAIN tagged /\ k \in DOMAIN tagged
      BY DEF Group
    <3>3. PICK q \in findings, o \in findings : at[q] = j /\ at[o] = k
      BY <1>4, <3>2
    <3>4. q[1] # o[1] /\ Together(dir, p, q) /\ Together(dir, p, o)
      BY <1>6, <1>8, <3>1, <3>3
    <3> QED BY <3>4
  <2>2. ASSUME NEW o \in findings, Together(dir, p, o), o[1] # p[1]
        PROVE  CrossLane(tagged, at[p])
    <3>1. at[p] \in Group(tagged, at[p]) /\ at[o] \in Group(tagged, at[p])
      BY <1>8, <2>2 DEF Together
    <3> QED BY <1>6, <2>2, <3>1 DEF CrossLane
  <2> QED BY <2>1, <2>2
<1>10. \A p \in findings :
           /\ review[at[p]].f = tagged[at[p]].f
           /\ review[at[p]].mergedFrom = IF CrossLane(tagged, at[p])
                                         THEN {tagged[j].id : j \in Group(tagged, at[p])} \ {tagged[at[p]].id}
                                         ELSE {}
  BY <1>4 DEF Aggregate, tagged
<1>11. \A p, q \in findings : tagged[at[p]].id = tagged[at[q]].id => p = q
  BY <1>5, <1>6
<1> DEFINE Other(p) == \E o \in findings : Together(dir, p, o) /\ o[1] # p[1]
           ids(p) == {tagged[j].id : j \in Group(tagged, at[p])}
<1>12. ASSUME NEW p \in findings, NEW q \in findings
       PROVE  <<Prefix[q[1]], q[2]>> \in review[at[p]].mergedFrom
                  <=> p # q /\ Together(dir, p, q) /\ Other(p)
  <2>1. ASSUME NEW j \in Group(tagged, at[p]), tagged[j].id = tagged[at[q]].id
        PROVE  Together(dir, p, q)
    <3>1. j \in DOMAIN tagged
      BY DEF Group
    <3>2. PICK o \in findings : at[o] = j
      BY <1>4, <3>1
    <3>3. o = q
      BY <1>11, <2>1, <3>2
    <3> QED BY <1>8, <2>1, <3>2, <3>3
  <2>2. Together(dir, p, q) => at[q] \in Group(tagged, at[p])
    BY <1>8
  <2>3. tagged[at[q]].id = <<Prefix[q[1]], q[2]>>
    BY <1>6
  <2>4. tagged[at[q]].id = tagged[at[p]].id <=> p = q
    BY <1>11
  <2>5. tagged[at[q]].id \in ids(p) <=> Together(dir, p, q)
    BY <2>1, <2>2
  <2>6. review[at[p]].mergedFrom = IF CrossLane(tagged, at[p]) THEN ids(p) \ {tagged[at[p]].id} ELSE {}
    BY <1>10
  <2>7. CrossLane(tagged, at[p]) <=> Other(p)
    BY <1>9
  <2> HIDE DEF ids, Other, review
  <2>8. ASSUME Other(p)
        PROVE  <<Prefix[q[1]], q[2]>> \in review[at[p]].mergedFrom <=> p # q /\ Together(dir, p, q)
    BY <2>3, <2>4, <2>5, <2>6, <2>7, <2>8
  <2>9. ASSUME ~Other(p)
        PROVE  <<Prefix[q[1]], q[2]>> \notin review[at[p]].mergedFrom
    BY <2>6, <2>7, <2>9
  <2> QED BY <2>8, <2>9
<1> HIDE DEF review
<1>13. ASSUME NEW s
       PROVE  SeverityCount(review, s) = Cardinality({p \in findings : Text(dir, p).severity = s})
  <2> DEFINE A == {p \in findings : Text(dir, p).severity = s}
             B == {i \in DOMAIN review : review[i].f.severity = s}
             to == [p \in A |-> at[p]]
  <2>1. to \in Bijection(A, B)
    <3>1. \A p \in A : at[p] \in B
      BY <1>3, <1>4, <1>7, <1>10
    <3>2. ASSUME NEW j \in B
          PROVE  \E p \in A : at[p] = j
      <4>1. j \in DOMAIN tagged /\ review[j].f.severity = s
        BY <1>3
      <4>2. PICK p \in findings : at[p] = j
        BY <1>4, <4>1
      <4>3. Text(dir, p).severity = s
        BY <1>7, <1>10, <4>1, <4>2
      <4> QED BY <4>2, <4>3
    <3> HIDE DEF B
    <3>3. to \in [A -> B] /\ \A p \in A : to[p] = at[p]
      BY <3>1
    <3>4. \A p, q \in A : to[p] = to[q] => p = q
      BY <1>4
    <3>5. \A j \in B : \E p \in A : to[p] = j
      BY <3>2
    <3> HIDE DEF to, A
    <3> QED BY <3>3, <3>4, <3>5 DEF Bijection, Injection, Surjection, IsInjective
  <2>2. IsFiniteSet(B)
    <3>1. PICK n \in Nat : DOMAIN review = 1 .. n
      <4>1. \E n \in Nat : DOMAIN tagged = 1 .. n
        BY AllAreTagged
      <4> QED BY <1>3, <4>1
    <3>2. IsFiniteSet(1 .. n)
      BY FS_Interval
    <3>3. B \subseteq 1 .. n
      BY <3>1
    <3> HIDE DEF B
    <3> QED BY <3>2, <3>3, FS_Subset
  <2>3. Cardinality(A) = Cardinality(B)
    <3> HIDE DEF A, B
    <3>1. ExistsBijection(A, B)
      BY <2>1 DEF ExistsBijection
    <3>2. ExistsBijection(B, A)
      BY <3>1, Fun_ExistsBijSymmetric
    <3> QED BY <2>2, <3>2, FS_Bijection
  <2> QED BY <2>3 DEF SeverityCount
<1>14. ASSUME NEW p \in findings
       PROVE  IsKept(dir, review, p, at[p])
  BY <1>6, <1>10, <1>12 DEF IsKept, findings
<1>15. at \in Bijection(findings, DOMAIN review)
  BY <1>2, <1>3
<1> HIDE DEF out
<1>16. out.code = 0 =>
           /\ \E to \in Bijection(findings, DOMAIN out.review) :
                 \A p \in findings : IsKept(dir, out.review, p, to[p])
           /\ \A s \in {"high", "medium", "low"} :
                 SeverityCount(out.review, s) = Cardinality({p \in findings : Text(dir, p).severity = s})
  BY <1>1, <1>13, <1>14, <1>15
<1> QED BY <1>16 DEF PreservesAll, findings, out

-----------------------------------------------------------------------------
(* What is left of an output.                                                *)

\* What is true of <<>> and of every sequence with one more element is true of all.
LEMMA Appending ==
    ASSUME NEW S, NEW P, <<>> \in P, \A s \in Seq(S), x \in S : s \in P => Append(s, x) \in P
    PROVE  Seq(S) \subseteq P
<1> DEFINE Q == {n \in Nat : \A s \in Seq(S) : Len(s) = n => s \in P}
<1>1. 0 \in Q
  <2>1. \A s \in Seq(S) : Len(s) = 0 => s = <<>>
    OBVIOUS
  <2> QED BY <2>1
<1>2. ASSUME NEW n \in Nat, n \in Q
      PROVE  n + 1 \in Q
  <2> SUFFICES ASSUME NEW s \in Seq(S), Len(s) = n + 1 PROVE s \in P
    OBVIOUS
  <2> DEFINE f == SubSeq(s, 1, n)
  <2>1. f \in Seq(S) /\ Len(f) = n /\ s[n + 1] \in S
    OBVIOUS
  <2>2. s = Append(f, s[n + 1])
    OBVIOUS
  <2>3. f \in P
    BY <1>2, <2>1
  <2> HIDE DEF f
  <2> QED BY <2>1, <2>2, <2>3
<1> HIDE DEF Q
<1>3. Nat \subseteq Q
  BY <1>1, <1>2, Numbers
<1> QED BY <1>3 DEF Q

\* The steps of LinesAt.
Keeps(g, s, I) ==
    /\ g[0] = <<>>
    /\ \A i \in Nat : i # 0 => g[i] = IF i \in I THEN Append(g[i - 1], s[i]) ELSE g[i - 1]

\* The recursion of LinesAt.
LEMMA KeptSteps ==
    ASSUME NEW S, NEW s \in Seq(S), NEW I
    PROVE  \E g : Keeps(g, s, I) /\ LinesAt(s, I) = g[Len(s)] /\ \A i \in 0 .. Len(s) : g[i] \in Seq(S)
<1> DEFINE T == {s[i] : i \in Nat}
           U == Seq(T)
           Longer(i, o) == IF i \in I THEN Append(o, s[i]) ELSE o
           F == [q \in Nat \X U |-> Longer(q[1], q[2])]
           Rec(h) == h = [i \in Nat |-> IF i = 0 THEN <<>>
                                        ELSE IF i \in I THEN Append(h[i - 1], s[i]) ELSE h[i - 1]]
           kept == CHOOSE h : Rec(h)
<1>1. LinesAt(s, I) = kept[Len(s)]
  BY DEF LinesAt
<1>2. \A i \in Nat, o \in U : Longer(i, o) \in U
  OBVIOUS
<1>3. <<>> \in U
  OBVIOUS
<1> HIDE DEF U
<1>4. F \in [Nat \X U -> U] /\ \A i \in Nat, o \in U : F[<<i, o>>] = Longer(i, o)
  <2> HIDE DEF Longer
  <2> QED BY <1>2
<1> HIDE DEF F
<1>5. PICK g : Recurses(g, <<>>, F, U)
  BY <1>3, <1>4, Recursion
<1>6. Rec(g)
  <2>1. ASSUME NEW i \in Nat, i # 0
        PROVE  g[i] = IF i \in I THEN Append(g[i - 1], s[i]) ELSE g[i - 1]
    <3>1. g[i] = F[<<i, g[i - 1]>>] /\ g[i - 1] \in U
      BY <1>5, <2>1 DEF Recurses
    <3> QED BY <1>4, <3>1
  <2>2. g \in [Nat -> U] /\ g[0] = <<>>
    BY <1>5 DEF Recurses
  <2> QED BY <2>1, <2>2
<1>7. Rec(kept)
  <2> HIDE DEF Rec
  <2> QED BY <1>6
<1> HIDE DEF kept
<1>8. Keeps(kept, s, I)
  BY <1>7 DEF Keeps
<1> DEFINE P == {i \in Nat : i <= Len(s) => kept[i] \in Seq(S)}
<1>9. 0 \in P
  <2>1. kept[0] = <<>> /\ <<>> \in Seq(S)
    BY <1>8 DEF Keeps
  <2> QED BY <2>1
<1>10. ASSUME NEW i \in Nat, i \in P
       PROVE  i + 1 \in P
  <2> SUFFICES ASSUME i + 1 <= Len(s) PROVE kept[i + 1] \in Seq(S)
    OBVIOUS
  <2>1. i + 1 # 0 /\ (i + 1) - 1 = i /\ s[i + 1] \in S /\ kept[i] \in Seq(S)
    BY <1>10
  <2>2. kept[i + 1] = IF i + 1 \in I THEN Append(kept[i], s[i + 1]) ELSE kept[i]
    BY <1>8, <2>1 DEF Keeps
  <2> QED BY <2>1, <2>2
<1> HIDE DEF P
<1>11. Nat \subseteq P
  BY <1>9, <1>10, Numbers
<1>12. \A i \in 0 .. Len(s) : kept[i] \in Seq(S)
  BY <1>11 DEF P
<1> QED BY <1>1, <1>8, <1>12

Alike(s, I, t, J, n) == \A i \in 1 .. n : s[i] = t[i] /\ (i \in I <=> i \in J)

\* As long as lines and places agree, so does what is kept.
LEMMA KeepsAgree ==
    ASSUME NEW s, NEW I, NEW t, NEW J, NEW n \in Nat, Alike(s, I, t, J, n),
           NEW g, NEW h, Keeps(g, s, I), Keeps(h, t, J)
    PROVE  g[n] = h[n]
<1> USE DEF Alike
<1> DEFINE P == {i \in Nat : i <= n => g[i] = h[i]}
<1>1. 0 \in P
  BY DEF Keeps
<1>2. ASSUME NEW i \in Nat, i \in P
      PROVE  i + 1 \in P
  <2> SUFFICES ASSUME i + 1 <= n PROVE g[i + 1] = h[i + 1]
    OBVIOUS
  <2>1. i + 1 # 0 /\ (i + 1) - 1 = i /\ i + 1 \in 1 .. n /\ g[i] = h[i]
    BY <1>2
  <2>2. g[i + 1] = IF i + 1 \in I THEN Append(g[i], s[i + 1]) ELSE g[i]
    BY <2>1 DEF Keeps
  <2>3. h[i + 1] = IF i + 1 \in J THEN Append(h[i], t[i + 1]) ELSE h[i]
    BY <2>1 DEF Keeps
  <2> QED BY <2>1, <2>2, <2>3
<1> HIDE DEF P
<1>3. Nat \subseteq P
  BY <1>1, <1>2, Numbers
<1> QED BY <1>3 DEF P

\* Lines of lines are lines.
LEMMA KeptType ==
    ASSUME NEW S, NEW s \in Seq(S), NEW I
    PROVE  LinesAt(s, I) \in Seq(S)
<1>1. Len(s) \in 0 .. Len(s)
  OBVIOUS
<1> QED BY <1>1, KeptSteps

\* No places, no lines.
LEMMA KeptNothing == ASSUME NEW I PROVE LinesAt(<<>>, I) = <<>>
<1>1. <<>> \in Seq({}) /\ Len(<<>>) = 0
  OBVIOUS
<1>2. PICK g : Keeps(g, <<>>, I) /\ LinesAt(<<>>, I) = g[Len(<<>>)]
  BY <1>1, KeptSteps
<1> QED BY <1>1, <1>2 DEF Keeps

\* All places, all lines.
LEMMA KeptSame ==
    ASSUME NEW S, NEW s \in Seq(S), NEW I, NEW J, \A i \in 1 .. Len(s) : i \in I <=> i \in J
    PROVE  LinesAt(s, I) = LinesAt(s, J)
<1>1. PICK g : Keeps(g, s, I) /\ LinesAt(s, I) = g[Len(s)]
  BY KeptSteps
<1>2. PICK h : Keeps(h, s, J) /\ LinesAt(s, J) = h[Len(s)]
  BY KeptSteps
<1>3. Len(s) \in Nat /\ Alike(s, I, s, J, Len(s))
  BY DEF Alike
<1>4. g[Len(s)] = h[Len(s)]
  BY <1>1, <1>2, <1>3, KeepsAgree
<1> QED BY <1>1, <1>2, <1>4

\* One line more.
LEMMA KeptAppend ==
    ASSUME NEW S, NEW s \in Seq(S), NEW x \in S, NEW I, NEW J,
           \A i \in 1 .. Len(s) : i \in I <=> i \in J
    PROVE  LinesAt(Append(s, x), J) = IF Len(s) + 1 \in J THEN Append(LinesAt(s, I), x) ELSE LinesAt(s, I)
<1> DEFINE t == Append(s, x)
           n == Len(s)
<1>1. t \in Seq(S) /\ Len(t) = n + 1 /\ n \in Nat /\ t[n + 1] = x /\ \A i \in 1 .. n : s[i] = t[i]
  OBVIOUS
<1> HIDE DEF t
<1>2. PICK g : Keeps(g, s, I) /\ LinesAt(s, I) = g[n]
  BY KeptSteps
<1>3. PICK h : Keeps(h, t, J) /\ LinesAt(t, J) = h[Len(t)]
  BY <1>1, KeptSteps
<1>4. g[n] = h[n]
  <2>1. n \in Nat /\ Alike(s, I, t, J, n)
    BY <1>1 DEF Alike
  <2>2. Keeps(g, s, I) /\ Keeps(h, t, J)
    BY <1>2, <1>3
  <2> HIDE DEF n
  <2> QED BY <2>1, <2>2, KeepsAgree
<1>5. h[n + 1] = IF n + 1 \in J THEN Append(h[n], t[n + 1]) ELSE h[n]
  <2>1. n + 1 \in Nat /\ n + 1 # 0 /\ (n + 1) - 1 = n
    BY <1>1
  <2> HIDE DEF n
  <2> QED BY <1>3, <2>1 DEF Keeps
<1> QED BY <1>1, <1>2, <1>3, <1>4, <1>5 DEF t

\* Where the kept lines were.
LEMMA KeptPlaces ==
    ASSUME NEW S, NEW s \in Seq(S), NEW I
    PROVE  LET k == LinesAt(s, I)
           IN  \E at \in [1 .. Len(k) -> 1 .. Len(s)] :
                  /\ \A j \in 1 .. Len(k) : at[j] \in I /\ k[j] = s[at[j]]
                  /\ \A i, j \in 1 .. Len(k) : i < j => at[i] < at[j]
                  /\ \A i \in 1 .. Len(s) : i \in I => \E j \in 1 .. Len(k) : at[j] = i
<1> DEFINE Places(t, at) ==
               LET k == LinesAt(t, I)
               IN  /\ at \in [1 .. Len(k) -> 1 .. Len(t)]
                   /\ \A j \in 1 .. Len(k) : at[j] \in I /\ k[j] = t[at[j]]
                   /\ \A i, j \in 1 .. Len(k) : i < j => at[i] < at[j]
                   /\ \A i \in 1 .. Len(t) : i \in I => \E j \in 1 .. Len(k) : at[j] = i
           P == {t \in Seq(S) : \E at : Places(t, at)}
<1>1. <<>> \in P
  <2> DEFINE at == [j \in 1 .. 0 |-> 0]
  <2>1. Len(<<>>) = 0 /\ <<>> \in Seq(S) /\ LinesAt(<<>>, I) = <<>>
    BY KeptNothing
  <2>2. Places(<<>>, at)
    BY <2>1
  <2> HIDE DEF Places
  <2> QED BY <2>1, <2>2
<1>2. ASSUME NEW t \in Seq(S), NEW x \in S, t \in P
      PROVE  Append(t, x) \in P
  <2> DEFINE u == Append(t, x)
             n == Len(t)
             k == LinesAt(t, I)
             m == LinesAt(u, I)
  <2>1. u \in Seq(S) /\ Len(u) = n + 1 /\ u[n + 1] = x /\ n \in Nat /\ \A i \in 1 .. n : u[i] = t[i]
    OBVIOUS
  <2>2. m = IF n + 1 \in I THEN Append(k, x) ELSE k
    BY KeptAppend
  <2>3. k \in Seq(S)
    BY KeptType
  <2>4. PICK at : Places(t, at)
    BY <1>2
  <2> HIDE DEF u, k, m, n
  <2>5. /\ at \in [1 .. Len(k) -> 1 .. n]
        /\ \A j \in 1 .. Len(k) : at[j] \in I /\ k[j] = t[at[j]]
        /\ \A i, j \in 1 .. Len(k) : i < j => at[i] < at[j]
        /\ \A i \in 1 .. n : i \in I => \E j \in 1 .. Len(k) : at[j] = i
    BY <2>4 DEF k, n
  <2>6. CASE n + 1 \notin I
    <3>1. Places(u, at)
      <4>1. m = k
        BY <2>2, <2>6
      <4>2. at \in [1 .. Len(k) -> 1 .. n + 1]
        BY <2>1, <2>5
      <4>3. \A j \in 1 .. Len(k) : at[j] \in I /\ k[j] = u[at[j]]
        BY <2>1, <2>5
      <4>4. \A i \in 1 .. n + 1 : i \in I => \E j \in 1 .. Len(k) : at[j] = i
        BY <2>1, <2>5, <2>6
      <4> QED BY <2>1, <2>5, <4>1, <4>2, <4>3, <4>4 DEF m
    <3> HIDE DEF Places
    <3> QED BY <2>1, <3>1 DEF u
  <2>7. CASE n + 1 \in I
    <3> DEFINE to == [j \in 1 .. Len(k) + 1 |-> IF j = Len(k) + 1 THEN n + 1 ELSE at[j]]
    <3>1. m = Append(k, x) /\ Len(m) = Len(k) + 1 /\ Len(k) \in Nat
          /\ m[Len(k) + 1] = x /\ \A j \in 1 .. Len(k) : m[j] = k[j]
      BY <2>2, <2>3, <2>7
    <3>2. /\ \A j \in 1 .. Len(k) : to[j] = at[j] /\ at[j] \in 1 .. n
          /\ to[Len(k) + 1] = n + 1
      <4>1. Len(k) + 1 \in 1 .. Len(k) + 1 /\ \A j \in 1 .. Len(k) : j \in 1 .. Len(k) + 1 /\ j # Len(k) + 1
        BY <3>1
      <4>2. \A j \in 1 .. Len(k) : at[j] \in 1 .. n
        BY <2>5
      <4> QED BY <4>1, <4>2
    <3>3. to \in [1 .. Len(m) -> 1 .. n + 1]
      BY <2>1, <2>5, <3>1
    <3> HIDE DEF to
    <3>4. ASSUME NEW j \in 1 .. Len(m)
          PROVE  to[j] \in I /\ m[j] = u[to[j]]
      <4>1. CASE j = Len(k) + 1
        BY <2>1, <2>7, <3>1, <3>2, <4>1
      <4>2. CASE j \in 1 .. Len(k)
        BY <2>1, <2>5, <3>1, <3>2, <4>2
      <4> QED BY <3>1, <4>1, <4>2
    <3>5. ASSUME NEW i \in 1 .. Len(m), NEW j \in 1 .. Len(m), i < j
          PROVE  to[i] < to[j]
      <4>1. i \in 1 .. Len(k)
        BY <3>1, <3>5
      <4>2. CASE j = Len(k) + 1
        BY <2>1, <3>2, <4>1, <4>2
      <4>3. CASE j \in 1 .. Len(k)
        BY <2>5, <3>2, <3>5, <4>1, <4>3
      <4> QED BY <3>1, <4>2, <4>3
    <3>6. ASSUME NEW i \in 1 .. n + 1, i \in I
          PROVE  \E j \in 1 .. Len(m) : to[j] = i
      <4>1. CASE i = n + 1
        BY <3>1, <3>2, <4>1
      <4>2. CASE i \in 1 .. n
        <5>1. PICK j \in 1 .. Len(k) : at[j] = i
          BY <2>5, <3>6, <4>2
        <5>2. j \in 1 .. Len(m) /\ to[j] = i
          BY <3>1, <3>2, <5>1
        <5> QED BY <5>2
      <4> QED BY <2>1, <4>1, <4>2
    <3>7. Places(u, to)
      BY <2>1, <3>3, <3>4, <3>5, <3>6 DEF m
    <3> HIDE DEF Places
    <3> QED BY <2>1, <3>7 DEF u
  <2> QED BY <2>6, <2>7
<1> HIDE DEF P
<1>3. Seq(S) \subseteq P
  BY <1>1, <1>2, Appending
<1> QED BY <1>3 DEF P

-----------------------------------------------------------------------------

\* One line more, of which only some are wanted.
LEMMA OnlyAppend ==
    ASSUME NEW S, NEW s \in Seq(S), NEW x \in S, NEW ks
    PROVE  Only(Append(s, x), ks) = IF x \in ks THEN Append(Only(s, ks), x) ELSE Only(s, ks)
<1> DEFINE t == Append(s, x)
           I == {i \in DOMAIN s : s[i] \in ks}
           J == {i \in DOMAIN t : t[i] \in ks}
<1>1. \A i \in 1 .. Len(s) : i \in I <=> i \in J
  OBVIOUS
<1>2. Len(s) + 1 \in J <=> x \in ks
  OBVIOUS
<1> HIDE DEF I, J
<1>3. LinesAt(t, J) = IF Len(s) + 1 \in J THEN Append(LinesAt(s, I), x) ELSE LinesAt(s, I)
  BY <1>1, KeptAppend
<1> HIDE DEF t
<1> QED BY <1>2, <1>3 DEF Only, I, J, t

\* Choosing among the chosen.
LEMMA OnlyKept ==
    ASSUME NEW S, NEW s \in Seq(S), NEW I, NEW ks
    PROVE  Only(LinesAt(s, I), ks) = LinesAt(s, {i \in I : s[i] \in ks})
<1> DEFINE P == {t \in Seq(S) : Only(LinesAt(t, I), ks) = LinesAt(t, {i \in I : t[i] \in ks})}
<1>1. <<>> \in P
  BY KeptNothing DEF Only
<1>2. ASSUME NEW t \in Seq(S), NEW x \in S, t \in P
      PROVE  Append(t, x) \in P
  <2> DEFINE u == Append(t, x)
             A == {i \in I : t[i] \in ks}
             B == {i \in I : u[i] \in ks}
  <2>1. u \in Seq(S) /\ Len(u) = Len(t) + 1 /\ u[Len(t) + 1] = x /\ \A i \in 1 .. Len(t) : u[i] = t[i]
    OBVIOUS
  <2>2. LinesAt(u, I) = IF Len(t) + 1 \in I THEN Append(LinesAt(t, I), x) ELSE LinesAt(t, I)
    BY KeptAppend
  <2>3. LinesAt(t, I) \in Seq(S)
    BY KeptType
  <2>4. (\A i \in 1 .. Len(t) : i \in A <=> i \in B) /\ (Len(t) + 1 \in B <=> Len(t) + 1 \in I /\ x \in ks)
    BY <2>1
  <2>5. Only(LinesAt(t, I), ks) = LinesAt(t, A)
    BY <1>2
  <2>6. Only(Append(LinesAt(t, I), x), ks) = IF x \in ks THEN Append(Only(LinesAt(t, I), ks), x)
                                             ELSE Only(LinesAt(t, I), ks)
    BY <2>3, OnlyAppend
  <2> HIDE DEF u, A, B
  <2>7. LinesAt(u, B) = IF Len(t) + 1 \in B THEN Append(LinesAt(t, A), x) ELSE LinesAt(t, A)
    BY <2>4, KeptAppend DEF u
  <2>8. Only(LinesAt(u, I), ks) = LinesAt(u, B)
    BY <2>2, <2>4, <2>5, <2>6, <2>7
  <2> QED BY <2>1, <2>8 DEF u, B
<1> HIDE DEF P
<1>3. Seq(S) \subseteq P
  BY <1>1, <1>2, Appending
<1> QED BY <1>3 DEF P

\* What is left is a sequence of lines.
LEMMA OnlyType ==
    ASSUME NEW S, NEW s \in Seq(S), NEW ks
    PROVE  Only(s, ks) \in Seq(S)
  BY KeptType DEF Only

\* Of one output after another, what is wanted of each.
LEMMA OnlyConcat ==
    ASSUME NEW S, NEW s \in Seq(S), NEW r \in Seq(S), NEW ks
    PROVE  Only(s \o r, ks) = Only(s, ks) \o Only(r, ks)
<1> DEFINE P == {t \in Seq(S) : Only(s \o t, ks) = Only(s, ks) \o Only(t, ks)}
<1>1. <<>> \in P
  <2>1. Only(<<>>, ks) = <<>>
    BY KeptNothing DEF Only
  <2>2. Only(s, ks) \in Seq(S)
    BY OnlyType
  <2>3. s \o <<>> = s /\ Only(s, ks) \o <<>> = Only(s, ks) /\ <<>> \in Seq(S)
    BY <2>2
  <2> QED BY <2>1, <2>3
<1>2. ASSUME NEW t \in Seq(S), NEW x \in S, t \in P
      PROVE  Append(t, x) \in P
  <2>1. s \o Append(t, x) = Append(s \o t, x) /\ s \o t \in Seq(S) /\ Append(t, x) \in Seq(S)
    OBVIOUS
  <2>2. Only(Append(s \o t, x), ks) = IF x \in ks THEN Append(Only(s \o t, ks), x) ELSE Only(s \o t, ks)
    BY <2>1, OnlyAppend
  <2>3. Only(Append(t, x), ks) = IF x \in ks THEN Append(Only(t, ks), x) ELSE Only(t, ks)
    BY OnlyAppend
  <2>4. Only(s, ks) \in Seq(S) /\ Only(t, ks) \in Seq(S)
    BY OnlyType
  <2>5. Only(s, ks) \o Append(Only(t, ks), x) = Append(Only(s, ks) \o Only(t, ks), x)
    BY <2>4
  <2>6. Only(s \o t, ks) = Only(s, ks) \o Only(t, ks)
    BY <1>2
  <2> QED BY <2>1, <2>2, <2>3, <2>5, <2>6
<1> HIDE DEF P
<1>3. Seq(S) \subseteq P
  BY <1>1, <1>2, Appending
<1> QED BY <1>3 DEF P

\* Of lines none of which is wanted, nothing.
LEMMA OnlyNone ==
    ASSUME NEW S, NEW s \in Seq(S), NEW ks, \A i \in 1 .. Len(s) : s[i] \notin ks
    PROVE  Only(s, ks) = <<>>
<1> DEFINE P == {t \in Seq(S) : (\A i \in 1 .. Len(t) : t[i] \notin ks) => Only(t, ks) = <<>>}
<1>1. <<>> \in P
  BY KeptNothing DEF Only
<1>2. ASSUME NEW t \in Seq(S), NEW x \in S, t \in P
      PROVE  Append(t, x) \in P
  <2> DEFINE u == Append(t, x)
  <2>1. u \in Seq(S) /\ Len(u) = Len(t) + 1 /\ u[Len(t) + 1] = x /\ \A i \in 1 .. Len(t) : u[i] = t[i]
    OBVIOUS
  <2> HIDE DEF u
  <2>2. ASSUME \A i \in 1 .. Len(u) : u[i] \notin ks
        PROVE  Only(u, ks) = <<>>
    <3>1. (\A i \in 1 .. Len(t) : i \in 1 .. Len(u)) /\ Len(t) + 1 \in 1 .. Len(u)
      BY <2>1
    <3>2. (\A i \in 1 .. Len(t) : t[i] \notin ks) /\ x \notin ks
      BY <2>1, <2>2, <3>1
    <3>3. Only(t, ks) = <<>>
      BY <1>2, <3>2
    <3> QED BY <3>2, <3>3, OnlyAppend DEF u
  <2>3. u \in P
    BY <2>1, <2>2
  <2> QED BY <2>3 DEF u
<1> HIDE DEF P
<1>3. Seq(S) \subseteq P
  BY <1>1, <1>2, Appending
<1> QED BY <1>3 DEF P

-----------------------------------------------------------------------------

\* Of one line.
LEMMA OnlyOne ==
    ASSUME NEW S, NEW x \in S, NEW ks
    PROVE  Only(<<x>>, ks) = IF x \in ks THEN <<x>> ELSE <<>>
<1>1. <<x>> = Append(<<>>, x) /\ <<>> \in Seq(S)
  OBVIOUS
<1>2. Only(<<>>, ks) = <<>>
  BY KeptNothing DEF Only
<1> QED BY <1>1, <1>2, OnlyAppend

\* What is kept at places that hold all of ks holds all of ks.
LEMMA KeepsOnly ==
    ASSUME NEW S, NEW s \in Seq(S), NEW I, NEW ks,
           \A i \in 1 .. Len(s) : s[i] \in ks => i \in I
    PROVE  Only(LinesAt(s, I), ks) = Only(s, ks)
<1> DEFINE A == {i \in I : s[i] \in ks}
           B == {i \in DOMAIN s : s[i] \in ks}
<1>1. \A i \in 1 .. Len(s) : i \in A <=> i \in B
  OBVIOUS
<1> HIDE DEF A, B
<1>2. LinesAt(s, A) = LinesAt(s, B)
  BY <1>1, KeptSame
<1>3. Only(LinesAt(s, I), ks) = LinesAt(s, A)
  BY OnlyKept DEF A
<1> QED BY <1>2, <1>3 DEF Only, B

\* The first place of a line.
LEMMA AtFirst ==
    ASSUME NEW S, NEW s \in Seq(S), NEW x
    PROVE  /\ At(s, x) = 0 => \A i \in 1 .. Len(s) : s[i] # x
           /\ At(s, x) # 0 => /\ At(s, x) \in 1 .. Len(s) /\ s[At(s, x)] = x
                              /\ \A i \in 1 .. Len(s) : s[i] = x => At(s, x) <= i
<1> DEFINE T == {i \in DOMAIN s : s[i] = x}
<1>1. T \in SUBSET Nat /\ DOMAIN s = 1 .. Len(s)
  OBVIOUS
<1>2. CASE T = {}
  BY <1>1, <1>2 DEF At
<1>3. CASE T # {}
  <2>1. \E i \in T : \A j \in T : i <= j
    BY <1>1, <1>3, LeastNumber
  <2>2. At(s, x) = CHOOSE i \in T : \A j \in T : i <= j
    BY <1>3 DEF At
  <2> HIDE DEF T
  <2>3. At(s, x) \in T /\ \A j \in T : At(s, x) <= j
    BY <2>1, <2>2
  <2> QED BY <1>1, <2>3 DEF T
<1> QED BY <1>2, <1>3

\* Lines before and after, none of which is wanted, change nothing.
LEMMA OnlyBetween ==
    ASSUME NEW S, NEW x \in S, NEW y \in S, NEW s \in Seq(S), NEW ks, x \notin ks, y \notin ks
    PROVE  Only(<<x>> \o s \o <<y>>, ks) = Only(s, ks)
<1> DEFINE a == <<x>>
           b == <<y>>
           c == a \o s
<1>1. a \in Seq(S) /\ b \in Seq(S) /\ c \in Seq(S)
  OBVIOUS
<1>2. Only(a, ks) = <<>> /\ Only(b, ks) = <<>> /\ Only(s, ks) \in Seq(S)
  BY OnlyOne, OnlyType
<1> HIDE DEF a, b
<1>3. Only(c, ks) = Only(a, ks) \o Only(s, ks)
  BY <1>1, OnlyConcat
<1> HIDE DEF c
<1>4. Only(c \o b, ks) = Only(c, ks) \o Only(b, ks)
  BY <1>1, OnlyConcat
<1>5. Only(c \o b, ks) = Only(s, ks)
  BY <1>2, <1>3, <1>4
<1> QED BY <1>5 DEF a, b, c

\* What filters say in words of their own.
Words == {"ok", "statusLine", "commits", "truncated", "header", "summary", "plan"}

\* A word of the filters.
LEMMA WordsType ==
    ASSUME NEW S, Words \subseteq S, NEW w \in Words
    PROVE  w \in S /\ <<w>> \in Seq(S)
<1>1. w \in S
  OBVIOUS
<1> QED BY <1>1

\* Of no places, no lines.
LEMMA KeptNone ==
    ASSUME NEW S, NEW s \in Seq(S), NEW I, \A i \in 1 .. Len(s) : i \notin I
    PROVE  LinesAt(s, I) = <<>>
<1> DEFINE J == {i \in DOMAIN s : s[i] \in {}}
<1>1. \A i \in 1 .. Len(s) : i \in I <=> i \in J
  OBVIOUS
<1> HIDE DEF J
<1>2. LinesAt(s, I) = LinesAt(s, J)
  BY <1>1, KeptSame
<1>3. Only(s, {}) = <<>>
  BY OnlyNone
<1> QED BY <1>2, <1>3 DEF Only, J

\* A line that is wanted is among them.
LEMMA OnlySome ==
    ASSUME NEW S, NEW s \in Seq(S), NEW ks, NEW i \in 1 .. Len(s), s[i] \in ks
    PROVE  Only(s, ks) # <<>>
<1> DEFINE I == {j \in DOMAIN s : s[j] \in ks}
<1>1. i \in I
  OBVIOUS
<1> HIDE DEF I
<1>2. PICK at \in [1 .. Len(LinesAt(s, I)) -> 1 .. Len(s)] :
          \A k \in 1 .. Len(s) : k \in I => \E j \in 1 .. Len(LinesAt(s, I)) : at[j] = k
  BY KeptPlaces
<1>3. PICK j \in 1 .. Len(LinesAt(s, I)) : at[j] = i
  BY <1>1, <1>2
<1>4. LinesAt(s, I) # <<>>
  BY <1>3
<1> QED BY <1>4 DEF Only, I

\* All of them are wanted.
LEMMA OnlyElements ==
    ASSUME NEW S, NEW s \in Seq(S), NEW ks
    PROVE  Only(s, ks) \in Seq(ks)
<1> DEFINE I == {j \in DOMAIN s : s[j] \in ks}
           k == LinesAt(s, I)
<1>1. k \in Seq(S)
  BY KeptType
<1>2. \A j \in I : s[j] \in ks
  OBVIOUS
<1> HIDE DEF I
<1>3. PICK at \in [1 .. Len(k) -> 1 .. Len(s)] : \A j \in 1 .. Len(k) : at[j] \in I /\ k[j] = s[at[j]]
  BY KeptPlaces
<1> HIDE DEF k
<1>4. \A j \in 1 .. Len(k) : k[j] \in ks
  BY <1>2, <1>3
<1>5. k \in Seq(ks)
  BY <1>1, <1>4
<1> QED BY <1>5 DEF Only, I, k

\* Nothing is left only of lines that are dropped.
LEMMA WithoutNone ==
    ASSUME NEW S, NEW s \in Seq(S), NEW ks, Without(s, ks) = <<>>
    PROVE  \A i \in 1 .. Len(s) : s[i] \in ks
<1> DEFINE I == {j \in DOMAIN s : s[j] \notin ks}
<1> SUFFICES ASSUME NEW i \in 1 .. Len(s), s[i] \notin ks PROVE FALSE
  OBVIOUS
<1>1. i \in I
  OBVIOUS
<1>2. LinesAt(s, I) = <<>>
  BY DEF Without
<1> HIDE DEF I
<1>3. PICK at \in [1 .. Len(LinesAt(s, I)) -> 1 .. Len(s)] :
          \A k \in 1 .. Len(s) : k \in I => \E j \in 1 .. Len(LinesAt(s, I)) : at[j] = k
  BY KeptPlaces
<1> QED BY <1>1, <1>2, <1>3

\* What a filter that keeps the lines at I shows of those that are wanted.
LEMMA KeptAndWanted ==
    ASSUME NEW S, NEW s \in Seq(S), NEW I, NEW J, NEW ks,
           \A i \in 1 .. Len(s) : i \in J <=> i \in I /\ s[i] \in ks
    PROVE  Only(LinesAt(s, I), ks) = LinesAt(s, J)
<1> DEFINE A == {i \in I : s[i] \in ks}
<1>1. \A i \in 1 .. Len(s) : i \in A <=> i \in J
  OBVIOUS
<1> HIDE DEF A
<1>2. LinesAt(s, A) = LinesAt(s, J)
  BY <1>1, KeptSame
<1>3. Only(LinesAt(s, I), ks) = LinesAt(s, A)
  BY OnlyKept DEF A
<1> QED BY <1>2, <1>3

\* The lines up to some place.
LEMMA KeptStart ==
    ASSUME NEW S, NEW s \in Seq(S), NEW I, NEW M \in Nat, M <= Len(s)
    PROVE  LinesAt(SubSeq(s, 1, M), I) = LinesAt(s, {i \in I : i <= M})
<1> DEFINE J == {i \in I : i <= M}
           P == {t \in Seq(S) : LinesAt(t, J) = IF Len(t) <= M THEN LinesAt(t, I) ELSE LinesAt(SubSeq(t, 1, M), I)}
<1>1. <<>> \in P
  BY KeptNothing
<1>2. ASSUME NEW t \in Seq(S), NEW x \in S, t \in P
      PROVE  Append(t, x) \in P
  <2> DEFINE u == Append(t, x)
             n == Len(t)
             v == SubSeq(u, 1, M)
             w == SubSeq(t, 1, M)
  <2>1. u \in Seq(S) /\ Len(u) = n + 1 /\ n \in Nat
    OBVIOUS
  <2>2. LinesAt(u, J) = IF n + 1 \in J THEN Append(LinesAt(t, J), x) ELSE LinesAt(t, J)
    BY KeptAppend
  <2>3. LinesAt(u, I) = IF n + 1 \in I THEN Append(LinesAt(t, I), x) ELSE LinesAt(t, I)
    BY KeptAppend
  <2>4. LinesAt(t, J) = IF n <= M THEN LinesAt(t, I) ELSE LinesAt(w, I)
    BY <1>2
  <2>5. n + 1 > M => v = IF n = M THEN t ELSE w
    OBVIOUS
  <2>6. n + 1 \in J <=> n + 1 \in I /\ n + 1 <= M
    BY <2>1
  <2> HIDE DEF u, n, J, v, w
  <2>7. LinesAt(u, J) = IF n + 1 <= M THEN LinesAt(u, I) ELSE LinesAt(v, I)
    <3>1. CASE n + 1 <= M
      BY <2>1, <2>2, <2>3, <2>4, <2>6, <3>1
    <3>2. CASE ~(n + 1 <= M)
      <4>1. LinesAt(u, J) = LinesAt(t, J) /\ (n <= M <=> n = M)
        BY <2>1, <2>2, <2>6, <3>2
      <4> QED BY <2>1, <2>4, <2>5, <3>2, <4>1
    <3> QED BY <3>1, <3>2
  <2>8. u \in P
    BY <2>1, <2>7 DEF v
  <2> QED BY <2>8 DEF u
<1> HIDE DEF P
<1>3. s \in P
  BY <1>1, <1>2, Appending
<1>4. LinesAt(s, J) = LinesAt(SubSeq(s, 1, M), I)
  <2>1. LinesAt(s, J) = IF Len(s) <= M THEN LinesAt(s, I) ELSE LinesAt(SubSeq(s, 1, M), I)
    BY <1>3 DEF P
  <2>2. Len(s) <= M => SubSeq(s, 1, M) = s
    OBVIOUS
  <2> HIDE DEF J
  <2> QED BY <2>1, <2>2
<1> QED BY <1>4

\* What the git filter shows are lines and words.
LEMMA GitType ==
    ASSUME NEW S, Words \subseteq S, NEW lines \in Seq(S), MaxLines \in Nat
    PROVE  filterGit(lines) \in Seq(S)
<1>1. truncateLines(lines) \in Seq(S)
  <2>1. CASE Len(lines) > MaxLines
    <3>1. SubSeq(lines, 1, MaxLines) \in Seq(S)
      BY <2>1
    <3> HIDE DEF truncateLines
    <3>2. "truncated" \in S
      BY WordsType DEF Words
    <3>3. Append(SubSeq(lines, 1, MaxLines), "truncated") \in Seq(S)
      BY <3>1, <3>2
    <3> QED BY <2>1, <3>3 DEF truncateLines
  <2>2. CASE ~(Len(lines) > MaxLines)
    BY <2>2 DEF truncateLines
  <2> QED BY <2>1, <2>2
<1>2. <<"ok">> \in Seq(S) /\ <<"statusLine">> \in Seq(S) /\ <<"commits">> \in Seq(S)
  BY WordsType DEF Words
<1> QED BY <1>1, <1>2 DEF filterGit

\* So is what the terraform filter shows.
LEMMA TerraformType ==
    ASSUME NEW S, Words \subseteq S, NEW lines \in Seq(S)
    PROVE  filterTerraform(lines) \in Seq(S)
<1> DEFINE found == Only(lines, {"resource"})
           n == IF Len(found) < 5 THEN Len(found) ELSE 5
<1>1. found \in Seq(S)
  BY OnlyType
<1> HIDE DEF found
<1>2. n \in Nat /\ n <= Len(found)
  BY <1>1
<1> HIDE DEF n
<1>3. SubSeq(found, 1, n) \in Seq(S) /\ <<"plan">> \in Seq(S)
  <2>1. SubSeq(found, 1, n) \in Seq(S)
    BY <1>1, <1>2
  <2> QED BY <2>1, WordsType DEF Words
<1>4. <<"plan">> \o SubSeq(found, 1, n) \in Seq(S)
  BY <1>3
<1> QED BY <1>4 DEF filterTerraform, found, n

Tools == {"vitest", "turbo", "biome", "tsc", "go test", "cargo test", "kubectl", "pnpm install",
          "terraform", "git"}

\* The places of the reports that are not lost.
Reported(tool, lines) == {i \in DOMAIN lines : lines[i] \in ReportsOf(tool)} \ LostReports(tool, lines)

LEMMA ReportedPlaces ==
    ASSUME NEW tool, NEW S, NEW lines \in Seq(S), NEW i \in 1 .. Len(lines)
    PROVE  i \in Reported(tool, lines) <=> lines[i] \in ReportsOf(tool) /\ i \notin LostReports(tool, lines)
  BY DEF Reported

\* The filters that keep lines of their input and add no word.
Choosers == {"vitest", "turbo", "biome", "tsc", "go test", "cargo test"}

\* What they keep.
Chosen(tool, lines) ==
    {i \in DOMAIN lines :
        CASE tool = "vitest" -> lines[i] \notin {"blank", "pass", "skipped"}
          [] tool = "turbo" -> lines[i] \notin {"blank", "pass", "scope", "bullet"}
          [] tool = "biome" -> lines[i] \in {"summary", "location", "fail"}
          [] tool = "tsc" -> lines[i] \in {"summary", IF Contains(lines, "underline") THEN "prettyError" ELSE "error"}
          [] tool = "go test" -> lines[i] \notin {"blank", "pass", "okPackage", "noTestFiles"}
          [] OTHER -> InFailures(lines, i) \/ lines[i] \in {"failures", "fail", "result"}}

LEMMA ChosenReports ==
    ASSUME NEW tool \in Choosers, NEW S, NEW lines \in Seq(S), NEW i \in 1 .. Len(lines)
    PROVE  i \in Reported(tool, lines) <=> i \in Chosen(tool, lines) /\ lines[i] \in ReportsOf(tool)
<1>1. DOMAIN lines = 1 .. Len(lines)
  OBVIOUS
<1>2. i \in Reported(tool, lines) <=> lines[i] \in ReportsOf(tool) /\ i \notin LostReports(tool, lines)
  BY ReportedPlaces
<1>3. CASE tool = "vitest"
  BY <1>1, <1>2, <1>3, Zenon DEF Chosen, ReportsOf, LostReports
<1>4. CASE tool = "turbo"
  BY <1>1, <1>2, <1>4, Zenon DEF Chosen, ReportsOf, LostReports
<1>5. CASE tool = "biome"
  BY <1>1, <1>2, <1>5, Zenon DEF Chosen, ReportsOf, LostReports
<1>6. CASE tool = "tsc"
  <2> DEFINE pretty == Contains(lines, "underline")
  <2>1. i \in LostReports(tool, lines) <=> lines[i] \in {"explanation", IF pretty THEN "error" ELSE "prettyError"}
    BY <1>1, <1>6, Zenon DEF LostReports
  <2>2. i \in Chosen(tool, lines) <=> lines[i] \in {"summary", IF pretty THEN "prettyError" ELSE "error"}
    BY <1>1, <1>6, Zenon DEF Chosen
  <2>3. ReportsOf(tool) = {"error", "prettyError", "explanation"}
    BY <1>6, Zenon DEF ReportsOf
  <2> HIDE DEF pretty
  <2> QED BY <1>2, <2>1, <2>2, <2>3
<1>7. CASE tool = "go test"
  BY <1>1, <1>2, <1>7, Zenon DEF Chosen, ReportsOf, LostReports
<1>8. CASE tool = "cargo test"
  <2>1. i \in LostReports(tool, lines) <=> lines[i] = "compileError" /\ ~InFailures(lines, i)
    BY <1>1, <1>8, Zenon DEF LostReports
  <2>2. i \in Chosen(tool, lines) <=> InFailures(lines, i) \/ lines[i] \in {"failures", "fail", "result"}
    BY <1>1, <1>8, Zenon DEF Chosen
  <2>3. ReportsOf(tool) = {"fail", "compileError"}
    BY <1>8, Zenon DEF ReportsOf
  <2> QED BY <1>2, <2>1, <2>2, <2>3
<1> QED BY <1>3, <1>4, <1>5, <1>6, <1>7, <1>8 DEF Choosers

LEMMA ChooserShows ==
    ASSUME NEW tool \in Choosers, NEW lines
    PROVE  LET out == LinesAt(lines, Chosen(tool, lines))
           IN  Filter(tool, lines) = out \/ (tool = "go test" /\ out = <<>> /\ Filter(tool, lines) = <<"ok">>)
<1>1. CASE tool = "vitest"
  BY <1>1, Zenon DEF Filter, filterVitest, Without, Chosen
<1>2. CASE tool = "turbo"
  BY <1>2, Zenon DEF Filter, filterTurbo, Without, Chosen
<1>3. CASE tool = "biome"
  BY <1>3, Zenon DEF Filter, filterBiome, Only, Chosen
<1>4. CASE tool = "tsc"
  BY <1>4, Zenon DEF Filter, filterTsc, Only, Chosen
<1>5. CASE tool = "go test"
  BY <1>5, Zenon DEF Filter, filterGoTest, Without, Chosen
<1>6. CASE tool = "cargo test"
  BY <1>6, Zenon DEF Filter, filterCargoTest, Chosen
<1> QED BY <1>1, <1>2, <1>3, <1>4, <1>5, <1>6 DEF Choosers

\* They show the reports they do not lose.
LEMMA ChoosersKeepReports ==
    ASSUME NEW tool \in Choosers, NEW S, Words \subseteq S, NEW lines \in Seq(S)
    PROVE  Only(Filter(tool, lines), ReportsOf(tool)) = LinesAt(lines, Reported(tool, lines))
<1> DEFINE ks == ReportsOf(tool)
           I == Chosen(tool, lines)
           J == Reported(tool, lines)
           out == LinesAt(lines, I)
<1>1. \A i \in 1 .. Len(lines) : i \in J <=> i \in I /\ lines[i] \in ks
  BY ChosenReports
<1>2. Filter(tool, lines) = out \/ (tool = "go test" /\ out = <<>> /\ Filter(tool, lines) = <<"ok">>)
  BY ChooserShows
<1> HIDE DEF I, J
<1>3. Only(out, ks) = LinesAt(lines, J)
  <2> HIDE DEF ks
  <2> QED BY <1>1, KeptAndWanted
<1>4. ASSUME tool = "go test"
      PROVE  Only(<<"ok">>, ks) = <<>> /\ Only(<<>>, ks) = <<>>
  <2>1. "ok" \in S
    BY WordsType DEF Words
  <2>2. "ok" \notin ks
    BY <1>4 DEF ReportsOf
  <2> HIDE DEF ks
  <2>3. Only(<<"ok">>, ks) = <<>>
    BY <2>1, <2>2, OnlyOne
  <2> QED BY <2>3, KeptNothing DEF Only
<1> HIDE DEF out
<1> QED BY <1>2, <1>3, <1>4 DEF J

\* The whole output, of which nothing is lost.
LEMMA AllReports ==
    ASSUME NEW S, NEW s \in Seq(S), NEW ks, NEW J, \A i \in 1 .. Len(s) : i \in J <=> s[i] \in ks
    PROVE  Only(s, ks) = LinesAt(s, J)
<1> DEFINE A == {i \in DOMAIN s : s[i] \in ks}
<1>1. \A i \in 1 .. Len(s) : i \in A <=> i \in J
  OBVIOUS
<1> HIDE DEF A
<1>2. LinesAt(s, A) = LinesAt(s, J)
  BY <1>1, KeptSame
<1> QED BY <1>2 DEF Only, A

\* A summary, in which no report is left.
LEMMA NoReports ==
    ASSUME NEW S, NEW s \in Seq(S), NEW r \in Seq(S), NEW ks, NEW J,
           \A i \in 1 .. Len(r) : r[i] \notin ks, \A i \in 1 .. Len(s) : i \notin J
    PROVE  Only(r, ks) = LinesAt(s, J)
<1>1. LinesAt(s, J) = <<>>
  BY KeptNone
<1>2. Only(r, ks) = <<>>
  BY OnlyNone
<1> QED BY <1>1, <1>2

\* kubectl: the table.
LEMMA KubectlKeepsReports ==
    ASSUME NEW S, Words \subseteq S, NEW lines \in Seq(S)
    PROVE  Only(Filter("kubectl", lines), ReportsOf("kubectl")) = LinesAt(lines, Reported("kubectl", lines))
<1> DEFINE ks == {"crashing", "notReady"}
           head == At(lines, "header")
           J == Reported("kubectl", lines)
           bad == {i \in DOMAIN lines : i > head /\ lines[i] \notin {"blank", "running", "notReady"}}
           shown == <<"header">> \o LinesAt(lines, bad) \o <<"summary">>
<1>1. Filter("kubectl", lines) = IF head = 0 THEN lines ELSE shown
  BY DEF Filter, filterKubectl
<1>2. ReportsOf("kubectl") = ks
  BY DEF ReportsOf
<1>3. LostReports("kubectl", lines) =
          IF head = 0 THEN {} ELSE 1 .. head \cup {i \in DOMAIN lines : lines[i] \in {"notReady"}}
  BY DEF LostReports
<1>4. \A i \in 1 .. Len(lines) : i \in J <=> lines[i] \in ks /\ i \notin LostReports("kubectl", lines)
  BY <1>2, ReportedPlaces
<1> HIDE DEF J
<1>5. CASE head = 0
  <2>1. \A i \in 1 .. Len(lines) : i \in J <=> lines[i] \in ks
    BY <1>3, <1>4, <1>5
  <2> HIDE DEF ks, head, shown
  <2>2. Only(lines, ks) = LinesAt(lines, J)
    BY <2>1, AllReports
  <2> QED BY <1>1, <1>2, <1>5, <2>2 DEF J
<1>6. CASE head # 0
  <2>1. head \in 1 .. Len(lines)
    BY <1>6, AtFirst
  <2> HIDE DEF head
  <2>2. \A i \in 1 .. Len(lines) : i \in J <=> i \in bad /\ lines[i] \in ks
    BY <1>3, <1>4, <1>6, <2>1
  <2>3. "header" \in S /\ "summary" \in S /\ "header" \notin ks /\ "summary" \notin ks
    BY WordsType DEF Words
  <2> HIDE DEF ks, bad
  <2>4. Only(LinesAt(lines, bad), ks) = LinesAt(lines, J)
    BY <2>2, KeptAndWanted
  <2>5. LinesAt(lines, bad) \in Seq(S)
    BY KeptType
  <2>6. Only(shown, ks) = Only(LinesAt(lines, bad), ks)
    BY <2>3, <2>5, OnlyBetween
  <2> HIDE DEF shown
  <2> QED BY <1>1, <1>2, <1>6, <2>4, <2>6 DEF J
<1> QED BY <1>5, <1>6

\* A filter that answers with a summary or with everything.
SummaryTools == {"pnpm install", "terraform"}

LEMMA SummaryReports ==
    ASSUME NEW tool \in SummaryTools, NEW S, NEW lines \in Seq(S), NEW i \in 1 .. Len(lines)
    PROVE  i \in Reported(tool, lines) <=> lines[i] \in ReportsOf(tool) /\ ~Summarised(tool, lines)
<1>1. DOMAIN lines = 1 .. Len(lines)
  OBVIOUS
<1>2. LostReports(tool, lines) = IF Summarised(tool, lines) THEN DOMAIN lines ELSE {}
  BY Zenon DEF LostReports, SummaryTools
<1> QED BY <1>1, <1>2, ReportedPlaces

LEMMA SummaryShows ==
    ASSUME NEW tool \in SummaryTools, NEW S, NEW lines \in Seq(S)
    PROVE  IF Summarised(tool, lines)
           THEN \A i \in 1 .. Len(Filter(tool, lines)) : Filter(tool, lines)[i] # "warning"
           ELSE Filter(tool, lines) = lines
<1> DEFINE r == Filter(tool, lines)
<1>1. CASE tool = "pnpm install"
  <2> DEFINE counted == {"added", "removed", "changed"}
             found == Only(lines, counted)
  <2>1. r = IF found = <<>> THEN lines ELSE <<"summary">>
    BY <1>1, Zenon DEF Filter, filterPnpmInstall
  <2>2. Summarised(tool, lines) <=> \E k \in counted : Contains(lines, k)
    BY <1>1, Zenon DEF Summarised
  <2> HIDE DEF counted, r, found
  <2>3. CASE Summarised(tool, lines)
    <3>1. PICK i \in 1 .. Len(lines) : lines[i] \in counted
      BY <2>2, <2>3 DEF Contains
    <3>2. found # <<>>
      BY <3>1, OnlySome DEF found
    <3>3. r = <<"summary">>
      BY <2>1, <3>2
    <3>4. \A j \in 1 .. Len(r) : r[j] # "warning"
      BY <3>3
    <3> QED BY <2>3, <3>4 DEF r
  <2>4. CASE ~Summarised(tool, lines)
    <3>1. \A i \in 1 .. Len(lines) : lines[i] \notin counted
      BY <2>2, <2>4 DEF Contains
    <3>2. found = <<>>
      BY <3>1, OnlyNone DEF found
    <3> QED BY <2>1, <2>4, <3>2 DEF r
  <2> QED BY <2>3, <2>4
<1>2. CASE tool = "terraform"
  <2> DEFINE found == Only(lines, {"resource"})
             m == IF Len(found) < 5 THEN Len(found) ELSE 5
  <2>1. Summarised(tool, lines) <=> Contains(lines, "plan")
    BY <1>2, Zenon DEF Summarised
  <2>2. r = IF ~Contains(lines, "plan") THEN lines ELSE <<"plan">> \o SubSeq(found, 1, m)
    BY <1>2, Zenon DEF Filter, filterTerraform
  <2>3. found \in Seq({"resource"})
    BY OnlyElements
  <2> HIDE DEF found
  <2>4. SubSeq(found, 1, m) \in Seq({"plan", "resource"}) /\ <<"plan">> \in Seq({"plan", "resource"})
    <3>1. m \in Nat /\ m <= Len(found)
      BY <2>3
    <3> HIDE DEF m
    <3>2. SubSeq(found, 1, m) \in Seq({"resource"})
      BY <2>3, <3>1
    <3>3. Seq({"resource"}) \subseteq Seq({"plan", "resource"})
      OBVIOUS
    <3> QED BY <3>2, <3>3
  <2> DEFINE rest == SubSeq(found, 1, m)
  <2> HIDE DEF r, rest
  <2>5. <<"plan">> \o rest \in Seq({"plan", "resource"})
    BY <2>4 DEF rest
  <2>6. ASSUME r \in Seq({"plan", "resource"})
        PROVE  \A i \in 1 .. Len(r) : r[i] # "warning"
    BY <2>6
  <2>7. r = IF ~Contains(lines, "plan") THEN lines ELSE <<"plan">> \o rest
    BY <2>2 DEF rest
  <2> QED BY <2>1, <2>5, <2>6, <2>7 DEF r
<1> QED BY <1>1, <1>2 DEF SummaryTools

\* pnpm install and terraform plan.
LEMMA SummariesOrAll ==
    ASSUME NEW tool \in SummaryTools, NEW S, Words \subseteq S, NEW lines \in Seq(S)
    PROVE  Only(Filter(tool, lines), ReportsOf(tool)) = LinesAt(lines, Reported(tool, lines))
<1> DEFINE ks == ReportsOf(tool)
           r == Filter(tool, lines)
           J == Reported(tool, lines)
<1>1. ks = {"warning"}
  BY Zenon DEF ReportsOf, SummaryTools
<1>2. \A i \in 1 .. Len(lines) : i \in J <=> lines[i] \in ks /\ ~Summarised(tool, lines)
  BY SummaryReports
<1>3. IF Summarised(tool, lines) THEN \A i \in 1 .. Len(r) : r[i] # "warning" ELSE r = lines
  BY SummaryShows
<1>4. r \in Seq(S)
  <2>1. <<"summary">> \in Seq(S)
    BY WordsType DEF Words
  <2>2. CASE tool = "pnpm install"
    <3>1. r = lines \/ r = <<"summary">>
      BY <2>2, Zenon DEF Filter, filterPnpmInstall
    <3> HIDE DEF r
    <3> QED BY <2>1, <3>1
  <2>3. CASE tool = "terraform"
    <3>1. r = filterTerraform(lines)
      BY <2>3, Zenon DEF Filter
    <3> HIDE DEF r
    <3> QED BY <3>1, TerraformType
  <2> QED BY <2>2, <2>3 DEF SummaryTools
<1> HIDE DEF ks, r, J
<1>5. CASE Summarised(tool, lines)
  <2>1. (\A i \in 1 .. Len(r) : r[i] \notin ks) /\ (\A i \in 1 .. Len(lines) : i \notin J)
    BY <1>1, <1>2, <1>3, <1>5
  <2>2. Only(r, ks) = LinesAt(lines, J)
    BY <1>4, <2>1, NoReports
  <2> QED BY <2>2 DEF r, ks, J
<1>6. CASE ~Summarised(tool, lines)
  <2>1. \A i \in 1 .. Len(lines) : i \in J <=> lines[i] \in ks
    BY <1>2, <1>6
  <2>2. Only(lines, ks) = LinesAt(lines, J)
    BY <2>1, AllReports
  <2> QED BY <1>3, <1>6, <2>2 DEF r, ks, J
<1> QED BY <1>5, <1>6

\* git: a word, or the beginning.
LEMMA GitKeepsReports ==
    ASSUME NEW S, Words \subseteq S, NEW lines \in Seq(S), MaxLines \in Nat
    PROVE  Only(Filter("git", lines), ReportsOf("git")) = LinesAt(lines, Reported("git", lines))
<1> DEFINE ks == {"remote", "warning"}
           r == Filter("git", lines)
           said == {<<"ok">>, <<"statusLine">>, <<"commits">>}
           J == Reported("git", lines)
<1>1. ReportsOf("git") = ks
  BY DEF ReportsOf
<1>2. LostReports("git", lines) =
          IF Summarised("git", lines) THEN DOMAIN lines ELSE {i \in DOMAIN lines : i > MaxLines}
  BY DEF LostReports
<1>3. \A i \in 1 .. Len(lines) : i \in J <=> lines[i] \in ks /\ ~Summarised("git", lines) /\ i <= MaxLines
  <2>1. \A i \in 1 .. Len(lines) : i \in J <=> lines[i] \in ks /\ i \notin LostReports("git", lines)
    BY <1>1, ReportedPlaces
  <2> HIDE DEF J, ks
  <2> QED BY <1>2, <2>1
<1>4. r \in Seq(S) /\ r = filterGit(lines)
  BY GitType DEF Filter
<1>5. ASSUME r \in said PROVE \A i \in 1 .. Len(r) : r[i] \notin ks
  <2> HIDE DEF r
  <2> QED BY <1>5
<1>6. CASE Summarised("git", lines)
  <2>1. r \in said
    BY <1>4, <1>6 DEF filterGit, Summarised
  <2> HIDE DEF r, J, ks, said
  <2>2. \A i \in 1 .. Len(lines) : i \notin J
    BY <1>3, <1>6
  <2>3. Only(r, ks) = LinesAt(lines, J)
    BY <1>4, <1>5, <2>1, <2>2, NoReports
  <2> QED BY <1>1, <2>3 DEF r, J
<1>7. CASE ~Summarised("git", lines) /\ Without(lines, {"blank"}) = <<>>
  <2>1. r \in said
    BY <1>4, <1>7 DEF filterGit, Summarised
  <2>2. \A i \in 1 .. Len(lines) : lines[i] \in {"blank"}
    BY <1>7, WithoutNone
  <2>3. \A i \in 1 .. Len(lines) : lines[i] \notin ks
    BY <2>2
  <2> HIDE DEF r, J, ks, said
  <2>4. \A i \in 1 .. Len(lines) : i \notin J
    BY <1>3, <2>3
  <2>5. Only(r, ks) = LinesAt(lines, J)
    BY <1>4, <1>5, <2>1, <2>4, NoReports
  <2> QED BY <1>1, <2>5 DEF r, J
<1>8. CASE ~Summarised("git", lines) /\ Without(lines, {"blank"}) # <<>>
  <2>1. r = truncateLines(lines)
    BY <1>4, <1>8 DEF filterGit, Summarised
  <2>2. CASE Len(lines) <= MaxLines
    <3>1. r = lines
      BY <2>1, <2>2 DEF truncateLines
    <3> HIDE DEF r, J, ks
    <3>2. \A i \in 1 .. Len(lines) : i \in J <=> lines[i] \in ks
      BY <1>3, <1>8, <2>2
    <3>3. Only(lines, ks) = LinesAt(lines, J)
      BY <3>2, AllReports
    <3> QED BY <1>1, <3>1, <3>3 DEF r, J
  <2>3. CASE Len(lines) > MaxLines
    <3> DEFINE start == SubSeq(lines, 1, MaxLines)
               I == {i \in DOMAIN lines : lines[i] \in ks}
               B == {i \in I : i <= MaxLines}
    <3>1. r = Append(start, "truncated")
      BY <2>1, <2>3 DEF truncateLines
    <3>2. start \in Seq(S) /\ Len(start) = MaxLines /\ \A i \in 1 .. MaxLines : start[i] = lines[i] /\ i \in DOMAIN lines
      BY <2>3
    <3>3. "truncated" \in S /\ "truncated" \notin ks
      BY WordsType DEF Words
    <3> HIDE DEF r, J, ks, start
    <3>4. \A i \in 1 .. Len(lines) : i \in B <=> i \in J
      BY <1>3, <1>8
    <3>5. \A i \in 1 .. Len(start) : i \in I <=> start[i] \in ks
      BY <3>2
    <3>6. Only(Append(start, "truncated"), ks) = Only(start, ks)
      BY <3>2, <3>3, OnlyAppend
    <3> HIDE DEF I
    <3>7. Only(start, ks) = LinesAt(start, I)
      BY <3>2, <3>5, AllReports
    <3>8. LinesAt(start, I) = LinesAt(lines, B)
      BY <2>3, KeptStart DEF start
    <3> HIDE DEF B
    <3>9. LinesAt(lines, B) = LinesAt(lines, J)
      BY <3>4, KeptSame
    <3>10. Only(r, ks) = LinesAt(lines, J)
      BY <3>1, <3>6, <3>7, <3>8, <3>9
    <3> QED BY <1>1, <3>10 DEF J, r
  <2> QED BY <2>2, <2>3
<1> QED BY <1>6, <1>7, <1>8

\* The filters lose the reports they are said to lose, and no other.
LEMMA FiltersKeepReports ==
    ASSUME NEW tool \in Tools, NEW S, Words \subseteq S, NEW lines \in Seq(S), MaxLines \in Nat
    PROVE  Only(Filter(tool, lines), ReportsOf(tool)) = LinesAt(lines, Reported(tool, lines))
<1>1. tool \in Choosers \/ tool = "kubectl" \/ tool \in SummaryTools \/ tool = "git"
  BY Zenon DEF Tools, Choosers, SummaryTools
<1>2. CASE tool \in Choosers
  BY <1>2, ChoosersKeepReports
<1>3. CASE tool = "kubectl"
  BY <1>3, KubectlKeepsReports
<1>4. CASE tool \in SummaryTools
  BY <1>4, SummariesOrAll
<1>5. CASE tool = "git"
  BY <1>5, GitKeepsReports
<1> QED BY <1>1, <1>2, <1>3, <1>4, <1>5

\* Of output of any length, a command that fails shows all, and one that
\* succeeds every report except those the property names.
LEMMA ReportsAreShown ==
    ASSUME NEW tool \in Tools, NEW T, NEW lines \in Seq(T), NEW filtering \in BOOLEAN, NEW exitCode, MaxLines \in Nat
    PROVE  KeepsFailures(tool, filtering, exitCode, lines)
<1> DEFINE S == T \cup Words
           shown == Shown(tool, filtering, exitCode, lines)
<1>0. lines \in Seq(S)
  OBVIOUS
<1>1. exitCode # 0 \/ ~filtering => shown = lines
  BY DEF Shown
<1>2. shown = lines \/ shown = Filter(tool, lines)
  BY DEF Shown
<1>3. ASSUME exitCode = 0, filtering
      PROVE  Only(shown, ReportsOf(tool)) = LinesAt(lines, Reported(tool, lines))
  <2>1. Words \subseteq S
    OBVIOUS
  <2>2. shown = Filter(tool, lines)
    BY <1>3 DEF Shown
  <2> HIDE DEF S, shown
  <2> QED BY <1>0, <2>1, <2>2, FiltersKeepReports
<1>4. ASSUME tool = "cargo test", NEW i \in DOMAIN lines, InFailures(lines, i)
      PROVE  Contains(shown, lines[i])
  <2> DEFINE I == {j \in DOMAIN lines : InFailures(lines, j) \/ lines[j] \in {"failures", "fail", "result"}}
  <2>1. DOMAIN lines = 1 .. Len(lines)
    OBVIOUS
  <2>2. CASE shown = lines
    BY <2>1, <2>2 DEF Contains
  <2>3. CASE shown = LinesAt(lines, I)
    <3>1. i \in I
      BY <1>4
    <3> HIDE DEF I, shown
    <3>2. PICK at \in [1 .. Len(LinesAt(lines, I)) -> 1 .. Len(lines)] :
              /\ \A j \in 1 .. Len(LinesAt(lines, I)) : at[j] \in I /\ LinesAt(lines, I)[j] = lines[at[j]]
              /\ \A k \in 1 .. Len(lines) : k \in I => \E j \in 1 .. Len(LinesAt(lines, I)) : at[j] = k
      BY KeptPlaces
    <3>3. PICK j \in 1 .. Len(LinesAt(lines, I)) : LinesAt(lines, I)[j] = lines[i]
      BY <2>1, <3>1, <3>2
    <3> QED BY <2>3, <3>3 DEF Contains
  <2>4. Filter(tool, lines) = LinesAt(lines, I)
    BY <1>4 DEF Filter, filterCargoTest
  <2> QED BY <1>2, <2>2, <2>3, <2>4
<1> HIDE DEF shown
<1> QED BY <1>1, <1>3, <1>4 DEF KeepsFailures, shown, Reported

-----------------------------------------------------------------------------
\* git.go: of a status of any length, each file is counted once, in its section.
THEOREM EveryFileIsCounted ==
    ASSUME NEW T, NEW lines \in Seq(T)
    PROVE  StatusCounts(lines)
<1> DEFINE Body == Indented \cup {"blank"}
           hs(i) == {j \in 1 .. i : lines[j] \notin Body}
           Top(i) == CHOOSE j \in hs(i) : \A k \in hs(i) : k <= j
           Header(i) == IF hs(i) = {} THEN "none" ELSE lines[Top(i)]
           In(s) == {i \in DOMAIN lines : lines[i] = "entry" /\ Header(i) = s}
           files == [s \in Sections |-> Cardinality(In(s))]
           got == compressGitStatus(lines)
<1>1. DOMAIN lines = 1 .. Len(lines) /\ Len(lines) \in Nat
  OBVIOUS
<1>2. ASSUME NEW i \in 1 .. Len(lines), hs(i) # {}
      PROVE  Top(i) \in hs(i) /\ \A k \in hs(i) : k <= Top(i)
  <2>1. i \in Nat /\ hs(i) \subseteq 1 .. i
    OBVIOUS
  <2>2. \E j \in hs(i) : \A k \in hs(i) : k <= j
    <3> HIDE DEF hs
    <3> QED BY <1>2, <2>1, GreatestNumber
  <2> HIDE DEF hs
  <2> QED BY <2>2
<1>3. ASSUME NEW s \in Sections, \A i, j \in 1 .. Len(lines) : lines[i] = s /\ lines[j] = s => i = j
      PROVE  countStatusSection(lines, s) = Cardinality(In(s))
  <2> DEFINE h == At(lines, s)
             listed == {i \in h + 1 .. Len(lines) : lines[i] = "entry" /\ \A j \in h + 1 .. i : lines[j] \in Body}
  <2>1. s \notin Body /\ s # "none" /\ s # "entry"
    BY DEF Sections, Indented
  <2>2. "entry" \in Body
    BY DEF Indented
  <2>3. countStatusSection(lines, s) = IF h = 0 THEN 0 ELSE Cardinality(listed)
    BY DEF countStatusSection
  <2>4. ASSUME NEW i \in In(s)
        PROVE  /\ i \in 1 .. Len(lines) /\ lines[i] = "entry" /\ hs(i) # {} /\ lines[Top(i)] = s
               /\ Top(i) \in 1 .. i /\ \A k \in hs(i) : k <= Top(i)
    <3>1. i \in 1 .. Len(lines) /\ lines[i] = "entry" /\ Header(i) = s
      BY <1>1
    <3> HIDE DEF In, hs, Top
    <3>2. hs(i) # {} /\ lines[Top(i)] = s
      BY <2>1, <3>1
    <3>3. Top(i) \in hs(i) /\ \A k \in hs(i) : k <= Top(i)
      BY <1>2, <3>1, <3>2
    <3>4. Top(i) \in 1 .. i
      BY <3>3 DEF hs
    <3> QED BY <3>1, <3>2, <3>3, <3>4
  <2>5. CASE h = 0
    <3>1. \A i \in 1 .. Len(lines) : lines[i] # s
      BY <2>5, AtFirst
    <3>2. In(s) = {}
      <4> SUFFICES ASSUME NEW i \in In(s) PROVE FALSE
        OBVIOUS
      <4> HIDE DEF In, Top, hs
      <4>1. Top(i) \in 1 .. Len(lines) /\ lines[Top(i)] = s
        BY <1>1, <2>4
      <4> QED BY <3>1, <4>1
    <3> HIDE DEF In
    <3>3. Cardinality(In(s)) = 0
      BY <3>2, FS_EmptySet
    <3> QED BY <2>3, <2>5, <3>3
  <2>6. CASE h # 0
    <3>1. h \in 1 .. Len(lines) /\ lines[h] = s
      BY <2>6, AtFirst
    <3> HIDE DEF h
    <3>2. ASSUME NEW i \in listed
          PROVE  i \in In(s)
      <4>1. /\ i \in 1 .. Len(lines) /\ lines[i] = "entry" /\ h <= i /\ h \in 1 .. i
            /\ \A j \in h + 1 .. i : lines[j] \in Body
        BY <1>1, <3>1
      <4>2. h \in hs(i)
        BY <2>1, <3>1, <4>1
      <4>3. Top(i) \in hs(i) /\ h <= Top(i)
        <5> HIDE DEF hs, Top
        <5> QED BY <1>2, <4>1, <4>2
      <4>4. Top(i) \in 1 .. i /\ lines[Top(i)] \notin Body
        <5> HIDE DEF Top
        <5> QED BY <4>3
      <4> HIDE DEF Top
      <4>5. Top(i) = h
        BY <3>1, <4>1, <4>3, <4>4
      <4>6. Header(i) = s
        <5> HIDE DEF hs
        <5> QED BY <3>1, <4>2, <4>5
      <4> HIDE DEF Header
      <4> QED BY <1>1, <4>1, <4>6
    <3>3. ASSUME NEW i \in In(s)
          PROVE  i \in listed
      <4> HIDE DEF In, Top
      <4>1. i \in 1 .. Len(lines) /\ lines[i] = "entry" /\ Top(i) \in 1 .. i /\ lines[Top(i)] = s
        BY <2>4
      <4>2. Top(i) = h
        BY <1>1, <1>3, <3>1, <4>1
      <4>3. i # h
        BY <2>1, <3>1, <4>1
      <4>4. i \in h + 1 .. Len(lines)
        <5>1. h \in Nat /\ i \in Nat /\ h <= i /\ i <= Len(lines)
          BY <1>1, <3>1, <4>1, <4>2
        <5> QED BY <1>1, <4>3, <5>1
      <4>5. \A k \in hs(i) : k <= h
        BY <2>4, <4>2
      <4>6. ASSUME NEW j \in h + 1 .. i
            PROVE  lines[j] \in Body
        <5>1. j \in 1 .. i /\ ~(j <= h)
          BY <1>1, <3>1, <4>1
        <5> HIDE DEF Body
        <5> QED BY <4>5, <5>1
      <4> QED BY <4>1, <4>4, <4>6
    <3> HIDE DEF In, listed
    <3>4. listed = In(s)
      BY <3>2, <3>3
    <3> QED BY <2>3, <2>6, <3>4
  <2> QED BY <2>5, <2>6
<1> HIDE DEF In
<1>4. ASSUME \A i, j \in DOMAIN lines : lines[i] = lines[j] /\ lines[i] \in Sections => i = j
      PROVE  got.count = files /\ (got.ok => \A s \in Sections : files[s] = 0)
  <2>1. \A s \in Sections : countStatusSection(lines, s) = Cardinality(In(s))
    <3> SUFFICES ASSUME NEW s \in Sections PROVE countStatusSection(lines, s) = Cardinality(In(s))
      OBVIOUS
    <3>1. \A i, j \in 1 .. Len(lines) : lines[i] = s /\ lines[j] = s => i = j
      BY <1>1, <1>4
    <3> QED BY <1>3, <3>1
  <2> DEFINE count == [s \in Sections |-> countStatusSection(lines, s)]
  <2>2. count = files
    BY <2>1
  <2>3. got = [count |-> count, ok |-> Contains(lines, "clean") /\ \A s \in Sections : count[s] = 0]
    BY DEF compressGitStatus
  <2> HIDE DEF count, got, files
  <2> QED BY <2>2, <2>3
<1> HIDE DEF got
<1> QED BY <1>4 DEF StatusCounts, In, got

-----------------------------------------------------------------------------
\* gotest.go, "retroactively emits them only for tests": of any stream of test
\* events, the output of each failed test is shown whole and in its order, and
\* none of a test that passed.
THEOREM EveryFailedTestIsShown ==
    ASSUME NEW T, NEW lines \in Seq(T)
    PROVE  ShowsFailedTests(lines)
<1> DEFINE first == {i \in DOMAIN lines : /\ Fails(lines, i, lines[i][2])
                                          /\ ~\E j \in 1 .. i - 1 : Fails(lines, j, lines[i][2])}
           failed == LinesAt(lines, first)
           notJson == {i \in DOMAIN lines : lines[i][1] = "notJson"}
           Verdict(k) == <<"FAIL", failed[k][2], 0>>
           Longer(k, o) == Append(o, Verdict(k)) \o OutputOf(lines, failed[k][2])
           Rec(h) == h = [k \in Nat |->
                             IF k = 0 THEN LinesAt(lines, notJson)
                             ELSE Append(h[k - 1], <<"FAIL", failed[k][2], 0>>) \o OutputOf(lines, failed[k][2])]
           shown == CHOOSE h : Rec(h)
           S == T \cup {Verdict(k) : k \in Nat}
           U == Seq(S)
           F == [q \in Nat \X U |-> Longer(q[1], q[2])]
           K(test) == {e \in S : e[1] = "output" /\ e[2] = test}
           Failed(test) == \E i \in DOMAIN lines : Fails(lines, i, test)
<1>1. DOMAIN lines = 1 .. Len(lines) /\ Len(lines) \in Nat /\ lines \in Seq(S)
  OBVIOUS
<1>2. filterGoTestNDJSON(lines) = IF failed = <<>> THEN <<<<"ok", "", 0>>>> ELSE shown[Len(failed)]
  BY DEF filterGoTestNDJSON
<1>3. \A k \in Nat : Verdict(k) \in S /\ \A test : Verdict(k) \notin K(test)
  OBVIOUS
<1>4. ASSUME NEW test, NEW s \in Seq(S)
      PROVE  OutputOf(s, test) = Only(s, K(test))
  <2> DEFINE A == {i \in DOMAIN s : s[i][1] = "output" /\ s[i][2] = test}
             B == {i \in DOMAIN s : s[i] \in K(test)}
  <2>1. \A i \in DOMAIN s : s[i] \in S
    <3> HIDE DEF S
    <3> QED OBVIOUS
  <2>2. A = B
    <3> HIDE DEF S
    <3> QED BY <2>1
  <2> HIDE DEF A, B
  <2> QED BY <2>2 DEF OutputOf, Only, A, B
<1>5. \A test, e : e \in K(test) => e[2] = test
  OBVIOUS
<1>6. \A test, e : e \in K(test) => e[1] = "output"
  OBVIOUS
<1> HIDE DEF S, K
<1>7. failed \in Seq(S) /\ LinesAt(lines, notJson) \in Seq(S)
  <2> HIDE DEF first, notJson
  <2> QED BY <1>1, KeptType
<1>8. PICK at \in [1 .. Len(failed) -> 1 .. Len(lines)] :
          /\ \A j \in 1 .. Len(failed) : at[j] \in first /\ failed[j] = lines[at[j]]
          /\ \A i, j \in 1 .. Len(failed) : i < j => at[i] < at[j]
          /\ \A i \in 1 .. Len(lines) : i \in first => \E j \in 1 .. Len(failed) : at[j] = i
  <2> HIDE DEF first
  <2> QED BY KeptPlaces
<1> HIDE DEF failed, shown
<1>9. ASSUME NEW test
      PROVE  Failed(test) <=> \E j \in 1 .. Len(failed) : failed[j][2] = test
  <2>1. ASSUME NEW j \in 1 .. Len(failed), failed[j][2] = test
        PROVE  Failed(test)
    <3>1. at[j] \in first /\ failed[j] = lines[at[j]]
      BY <1>8
    <3>2. at[j] \in DOMAIN lines /\ Fails(lines, at[j], lines[at[j]][2])
      BY <3>1
    <3> QED BY <2>1, <3>1, <3>2
  <2>2. ASSUME Failed(test)
        PROVE  \E j \in 1 .. Len(failed) : failed[j][2] = test
    <3> DEFINE Q == {i \in 1 .. Len(lines) : Fails(lines, i, test)}
    <3>1. Q # {} /\ Q \in SUBSET Nat
      BY <1>1, <2>2
    <3>2. PICK i \in Q : \A j \in Q : i <= j
      BY <3>1, LeastNumber
    <3>3. i \in 1 .. Len(lines) /\ lines[i][2] = test /\ Fails(lines, i, lines[i][2])
      BY <3>2 DEF Fails
    <3>4. ASSUME NEW j \in 1 .. i - 1, Fails(lines, j, lines[i][2])
          PROVE  FALSE
      <4>1. j \in Q
        BY <1>1, <3>3, <3>4
      <4> QED BY <1>1, <3>2, <3>3, <4>1
    <3>5. i \in first
      BY <1>1, <3>3, <3>4
    <3> HIDE DEF first, Q
    <3>6. PICK j \in 1 .. Len(failed) : at[j] = i
      BY <1>8, <3>3, <3>5
    <3> QED BY <1>8, <3>3, <3>6
  <2> HIDE DEF Failed
  <2> QED BY <2>1, <2>2
<1>10. ASSUME NEW i \in 1 .. Len(failed), NEW j \in 1 .. Len(failed), i < j
       PROVE  failed[i][2] # failed[j][2]
  <2>1. at[i] \in 1 .. Len(lines) /\ at[j] \in 1 .. Len(lines) /\ at[i] < at[j]
    BY <1>8, <1>10
  <2>2. at[i] \in 1 .. at[j] - 1
    BY <1>1, <2>1
  <2>3. Fails(lines, at[i], lines[at[i]][2]) /\ ~Fails(lines, at[i], lines[at[j]][2])
    BY <1>8, <2>2
  <2>4. failed[i] = lines[at[i]] /\ failed[j] = lines[at[j]]
    BY <1>8
  <2> HIDE DEF first
  <2> QED BY <2>3, <2>4
<1> HIDE DEF Failed
<1>11. \A k \in Nat, o \in U : Longer(k, o) \in U
  <2> SUFFICES ASSUME NEW k \in Nat, NEW o \in U PROVE Longer(k, o) \in U
    OBVIOUS
  <2>1. OutputOf(lines, failed[k][2]) \in Seq(S)
    BY <1>1, KeptType DEF OutputOf
  <2>2. Append(o, Verdict(k)) \in Seq(S)
    <3> HIDE DEF Verdict
    <3> QED BY <1>3
  <2> HIDE DEF Verdict
  <2> QED BY <2>1, <2>2
<1>12. LinesAt(lines, notJson) \in U
  BY <1>7
<1> HIDE DEF U, notJson
<1>13. F \in [Nat \X U -> U] /\ \A k \in Nat, o \in U : F[<<k, o>>] = Longer(k, o)
  <2> HIDE DEF Longer
  <2> QED BY <1>11
<1> HIDE DEF F
<1>14. PICK g : Recurses(g, LinesAt(lines, notJson), F, U)
  BY <1>12, <1>13, Recursion
<1>15. Rec(g)
  <2>1. ASSUME NEW k \in Nat, k # 0
        PROVE  g[k] = Longer(k, g[k - 1])
    <3>1. g[k] = F[<<k, g[k - 1]>>] /\ g[k - 1] \in U
      BY <1>14, <2>1 DEF Recurses
    <3> HIDE DEF Longer
    <3> QED BY <1>13, <2>1, <3>1
  <2>2. g \in [Nat -> U] /\ g[0] = LinesAt(lines, notJson)
    BY <1>14 DEF Recurses
  <2> QED BY <2>1, <2>2
<1>16. Rec(shown)
  <2> HIDE DEF Rec
  <2> QED BY <1>15 DEF shown
<1>17. /\ shown[0] = LinesAt(lines, notJson)
       /\ \A k \in Nat : k # 0 => shown[k] = Longer(k, shown[k - 1])
  BY <1>16
<1> HIDE DEF Rec, Longer
<1> DEFINE Told(k, test) == \E j \in 1 .. k : failed[j][2] = test
           P == {k \in Nat : k <= Len(failed) =>
                     /\ shown[k] \in Seq(S)
                     /\ \A test : Only(shown[k], K(test)) =
                                      IF Told(k, test) THEN Only(lines, K(test)) ELSE <<>>}
<1>18. 0 \in P
  <2> DEFINE o == LinesAt(lines, notJson)
  <2>1. ASSUME NEW test
        PROVE  Only(o, K(test)) = <<>>
    <3>1. PICK to \in [1 .. Len(o) -> 1 .. Len(lines)] :
              \A j \in 1 .. Len(o) : to[j] \in notJson /\ o[j] = lines[to[j]]
      <4> HIDE DEF notJson
      <4> QED BY <1>1, KeptPlaces
    <3> HIDE DEF o
    <3>2. ASSUME NEW j \in 1 .. Len(o)
          PROVE  o[j] \notin K(test)
      <4>1. o[j][1] = "notJson"
        BY <3>1 DEF notJson
      <4> QED BY <1>6, <4>1
    <3>3. o \in Seq(S)
      BY <1>7 DEF o
    <3> QED BY <3>2, <3>3, OnlyNone
  <2>2. \A test : ~Told(0, test)
    OBVIOUS
  <2> HIDE DEF Told
  <2> QED BY <1>7, <1>17, <2>1, <2>2
<1>19. ASSUME NEW k \in Nat, k \in P
       PROVE  k + 1 \in P
  <2> DEFINE o == shown[k]
             key == failed[k + 1][2]
             body == OutputOf(lines, key)
             head == <<"FAIL", key, 0>>
  <2> SUFFICES ASSUME k + 1 <= Len(failed)
               PROVE  /\ shown[k + 1] \in Seq(S)
                      /\ \A test : Only(shown[k + 1], K(test)) =
                                       IF Told(k + 1, test) THEN Only(lines, K(test)) ELSE <<>>
    OBVIOUS
  <2>1. k + 1 \in Nat /\ k + 1 # 0 /\ (k + 1) - 1 = k /\ k <= Len(failed) /\ k + 1 \in 1 .. Len(failed)
    BY <1>7
  <2>2. o \in Seq(S) /\ \A test : Only(o, K(test)) = IF Told(k, test) THEN Only(lines, K(test)) ELSE <<>>
    BY <1>19, <2>1
  <2>3. shown[k + 1] = Append(o, head) \o body
    BY <1>17, <2>1 DEF Longer
  <2>4. head \in S /\ \A test : head \notin K(test)
    BY <1>3, <2>1
  <2>5. body = Only(lines, K(key)) /\ body \in Seq(S)
    <3>1. body = Only(lines, K(key))
      BY <1>1, <1>4
    <3> QED BY <1>1, <3>1, OnlyType
  <2> HIDE DEF o, head, body
  <2>6. Append(o, head) \in Seq(S)
    BY <2>2, <2>4
  <2>7. ASSUME NEW test
        PROVE  Only(shown[k + 1], K(test)) = Only(o, K(test)) \o Only(body, K(test))
    <3>1. Only(Append(o, head), K(test)) = Only(o, K(test))
      BY <2>2, <2>4, OnlyAppend
    <3> DEFINE a == Append(o, head)
               ks == K(test)
    <3> HIDE DEF a, ks
    <3>2. Only(a \o body, ks) = Only(a, ks) \o Only(body, ks)
      <4>1. a \in Seq(S) /\ body \in Seq(S)
        BY <2>5, <2>6 DEF a
      <4> QED BY <4>1, OnlyConcat
    <3> QED BY <2>3, <3>1, <3>2 DEF a, ks
  <2>8. ASSUME NEW test
        PROVE  Only(body, K(test)) = IF test = key THEN Only(lines, K(test)) ELSE <<>>
    <3> DEFINE I == {i \in DOMAIN lines : lines[i] \in K(key)}
    <3>1. body = LinesAt(lines, I)
      BY <2>5 DEF Only
    <3>2. CASE test = key
      <4>1. \A i \in 1 .. Len(lines) : lines[i] \in K(test) => i \in I
        BY <1>1, <3>2
      <4> HIDE DEF I
      <4> QED BY <3>1, <3>2, <4>1, KeepsOnly
    <3>3. CASE test # key
      <4> HIDE DEF I
      <4>1. PICK to \in [1 .. Len(body) -> 1 .. Len(lines)] :
                \A j \in 1 .. Len(body) : to[j] \in I /\ body[j] = lines[to[j]]
        BY <3>1, KeptPlaces
      <4>2. \A j \in 1 .. Len(body) : body[j] \in K(key)
        BY <4>1 DEF I
      <4>3. \A j \in 1 .. Len(body) : body[j] \notin K(test)
        BY <1>5, <3>3, <4>2
      <4> QED BY <2>5, <3>3, <4>3, OnlyNone
    <3> QED BY <3>2, <3>3
  <2>9. \A test : Told(k + 1, test) <=> Told(k, test) \/ test = key
    <3> SUFFICES ASSUME NEW test PROVE Told(k + 1, test) <=> Told(k, test) \/ test = key
      OBVIOUS
    <3>1. \A j : j \in 1 .. k + 1 <=> j \in 1 .. k \/ j = k + 1
      BY <2>1
    <3> QED BY <3>1
  <2>10. ~Told(k, key)
    <3> SUFFICES ASSUME NEW j \in 1 .. k, failed[j][2] = key PROVE FALSE
      OBVIOUS
    <3>1. j \in 1 .. Len(failed) /\ j < k + 1
      BY <1>7, <2>1
    <3> QED BY <1>10, <2>1, <3>1
  <2> HIDE DEF Told, key
  <2>11. \A test : Only(lines, K(test)) \in Seq(S)
    BY <1>1, OnlyType
  <2>12. shown[k + 1] \in Seq(S)
    BY <2>3, <2>5, <2>6
  <2>13. ASSUME NEW test
         PROVE  Only(shown[k + 1], K(test)) = IF Told(k + 1, test) THEN Only(lines, K(test)) ELSE <<>>
    <3> DEFINE X == Only(lines, K(test))
    <3>1. X \o <<>> = X /\ <<>> \o X = X /\ <<>> \o <<>> = <<>>
      <4>1. X \in Seq(S)
        BY <2>11
      <4> HIDE DEF X
      <4> QED BY <4>1
    <3>2. CASE test = key
      BY <2>2, <2>7, <2>8, <2>9, <2>10, <3>1, <3>2
    <3>3. CASE test # key
      BY <2>2, <2>7, <2>8, <2>9, <3>1, <3>3
    <3> QED BY <3>2, <3>3
  <2> QED BY <2>12, <2>13
<1> HIDE DEF P
<1>20. Nat \subseteq P
  BY <1>18, <1>19, Numbers
<1>21. ASSUME NEW test0, Failed(test0), NEW test
       PROVE  OutputOf(filterGoTestNDJSON(lines), test) = IF Failed(test) THEN OutputOf(lines, test) ELSE <<>>
  <2> DEFINE n == Len(failed)
  <2>1. n \in Nat /\ n \in P /\ n <= n
    BY <1>7, <1>20
  <2>2. shown[n] \in Seq(S) /\ Only(shown[n], K(test)) = IF Told(n, test) THEN Only(lines, K(test)) ELSE <<>>
    BY <2>1 DEF P
  <2>3. failed # <<>>
    BY <1>9, <1>21
  <2>4. filterGoTestNDJSON(lines) = shown[n]
    BY <1>2, <2>3
  <2>5. Told(n, test) <=> Failed(test)
    BY <1>9
  <2> HIDE DEF n, Told
  <2>6. OutputOf(shown[n], test) = Only(shown[n], K(test)) /\ OutputOf(lines, test) = Only(lines, K(test))
    BY <1>1, <1>4, <2>2
  <2> QED BY <2>2, <2>4, <2>5, <2>6
<1> QED BY <1>21 DEF ShowsFailedTests, Failed

-----------------------------------------------------------------------------
(* Diffs.                                                                    *)

Marks == {"binary", "file", "new", "deleted", "meta", "--", "++", "@@", "+", "-", "same", "noEol", "other"}
DiffLines == Marks \X Nat
Rows == DiffLines \cup ({"further", "collapsed"} \X Nat)
DiffState ==
    [out : Seq(Rows), held : Seq(Rows), kind : {"changed", "new", "deleted"}, pending : BOOLEAN,
     inHunk : BOOLEAN, adds : Nat, dels : Nat, context : Nat, mods : Nat, told : BOOLEAN]

IsShown(out, l) == \E k \in 1 .. Len(out) : out[k] = l

\* Of the first n lines, the changes of hunk h that are not in out.
Lost(lines, n, out, h) ==
    {i \in 1 .. n : InHunk(lines, h, i) /\ IsChange(lines, i) /\ ~IsShown(out, lines[i])}

Partly(lines, n, out, h) ==
    \E i \in 1 .. n : InHunk(lines, h, i) /\ (i = h \/ IsChange(lines, i)) /\ IsShown(out, lines[i])

Hiding(lines, n, out, held) == {h \in Hunks(lines) \ held : Lost(lines, n, out, h) # {}}

\* The hunks that hide changes have their notices, but for those held back.
Accounts(lines, n, out, held, notice) ==
    /\ notice \in Bijection(Hiding(lines, n, out, held), Notices(out))
    /\ \A h \in Hiding(lines, n, out, held) :
          Partly(lines, n, out, h) \/ out[notice[h]][2] = Cardinality(CountedFor(lines, h))

\* What is shown besides notices are lines that were read.
OnlyLines(lines, n, out) ==
    \A k \in 1 .. Len(out) : k \in Notices(out) \/ \E i \in 1 .. n : out[k] = lines[i]

\* A line of a diff is no notice.
LEMMA MarksApart ==
    ASSUME NEW l \in DiffLines
    PROVE  l \in Rows /\ l[1] \in Marks /\ l[1] \notin {"further", "collapsed"}
  BY DEF DiffLines, Rows, Marks

\* One row more is shown.
LEMMA AppendOut ==
    ASSUME NEW out \in Seq(Rows), NEW x \in Rows
    PROVE  LET new == Append(out, x)
           IN  /\ new \in Seq(Rows) /\ Len(new) = Len(out) + 1 /\ Len(out) \in Nat
               /\ new[Len(out) + 1] = x /\ \A k \in 1 .. Len(out) : new[k] = out[k]
               /\ \A l : IsShown(new, l) <=> IsShown(out, l) \/ l = x
               /\ Notices(new) = IF x[1] \in {"further", "collapsed"} THEN Notices(out) \cup {Len(out) + 1}
                                 ELSE Notices(out)
               /\ Notices(out) \subseteq 1 .. Len(out)
<1> DEFINE new == Append(out, x)
           n == Len(out)
<1>1. /\ new \in Seq(Rows) /\ Len(new) = n + 1 /\ n \in Nat /\ DOMAIN new = 1 .. n + 1 /\ DOMAIN out = 1 .. n
      /\ new[n + 1] = x /\ \A k \in 1 .. n : new[k] = out[k]
  OBVIOUS
<1> HIDE DEF new, n
<1>2. ASSUME NEW l
      PROVE  IsShown(new, l) <=> IsShown(out, l) \/ l = x
  <2>1. ASSUME NEW k \in 1 .. Len(new), new[k] = l
        PROVE  IsShown(out, l) \/ l = x
    <3>1. k \in 1 .. n \/ k = n + 1
      BY <1>1
    <3> QED BY <1>1, <2>1, <3>1 DEF IsShown, n
  <2>2. ASSUME NEW k \in 1 .. Len(out), out[k] = l
        PROVE  IsShown(new, l)
    <3>1. k \in 1 .. Len(new) /\ new[k] = l
      BY <1>1, <2>2 DEF n
    <3> QED BY <3>1 DEF IsShown
  <2>3. IsShown(new, x)
    <3>1. n + 1 \in 1 .. Len(new)
      BY <1>1
    <3> QED BY <1>1, <3>1 DEF IsShown
  <2> QED BY <2>1, <2>2, <2>3 DEF IsShown
<1>3. \A k : k \in DOMAIN new <=> k \in DOMAIN out \/ k = n + 1
  BY <1>1
<1>4. n + 1 \notin DOMAIN out
  BY <1>1
<1>5. Notices(new) = IF x[1] \in {"further", "collapsed"} THEN Notices(out) \cup {n + 1} ELSE Notices(out)
  BY <1>1, <1>3, <1>4 DEF Notices
<1>6. Notices(out) \subseteq 1 .. n
  BY <1>1 DEF Notices
<1> QED BY <1>1, <1>2, <1>5, <1>6 DEF new, n

\* Nothing is hidden that was not before.
LEMMA SameAccounts ==
    ASSUME NEW lines, NEW n \in Nat, NEW m \in Nat, NEW out, NEW new, NEW A, NEW B, NEW notice,
           Accounts(lines, n, out, A, notice),
           Hiding(lines, m, new, B) = Hiding(lines, n, out, A),
           Notices(new) = Notices(out), \A k \in Notices(out) : new[k] = out[k],
           \A h \in Hiding(lines, n, out, A) : Partly(lines, n, out, h) => Partly(lines, m, new, h)
    PROVE  Accounts(lines, m, new, B, notice)
<1>1. notice \in Bijection(Hiding(lines, m, new, B), Notices(new))
  BY DEF Accounts
<1>2. ASSUME NEW h \in Hiding(lines, n, out, A)
      PROVE  notice[h] \in Notices(out)
  BY DEF Accounts, Bijection, Injection, Surjection, IsInjective
<1>3. ASSUME NEW h \in Hiding(lines, n, out, A), ~Partly(lines, m, new, h)
      PROVE  new[notice[h]][2] = Cardinality(CountedFor(lines, h))
  <2>1. ~Partly(lines, n, out, h)
    BY <1>3
  <2>2. out[notice[h]][2] = Cardinality(CountedFor(lines, h))
    BY <2>1 DEF Accounts
  <2>3. new[notice[h]] = out[notice[h]]
    BY <1>2
  <2> QED BY <2>2, <2>3
<1> QED BY <1>1, <1>3 DEF Accounts

\* One hunk more hides changes, and says so.
LEMMA OneMore ==
    ASSUME NEW lines, NEW n \in Nat, NEW m \in Nat, NEW out \in Seq(Rows), NEW x \in Rows, NEW A, NEW B,
           NEW notice, NEW c, Accounts(lines, n, out, A, notice),
           x[1] \in {"further", "collapsed"},
           Hiding(lines, m, Append(out, x), B) = Hiding(lines, n, out, A) \cup {c},
           c \notin Hiding(lines, n, out, A),
           Partly(lines, m, Append(out, x), c) \/ x[2] = Cardinality(CountedFor(lines, c)),
           \A h \in Hiding(lines, n, out, A) : Partly(lines, n, out, h) => Partly(lines, m, Append(out, x), h)
    PROVE  \E to : Accounts(lines, m, Append(out, x), B, to)
<1> DEFINE new == Append(out, x)
           H == Hiding(lines, n, out, A)
           G == Hiding(lines, m, new, B)
           top == Len(out) + 1
           to == [h \in G |-> IF h = c THEN top ELSE notice[h]]
<1>1. /\ new[top] = x /\ \A k \in 1 .. Len(out) : new[k] = out[k]
      /\ Notices(new) = Notices(out) \cup {top} /\ top \notin Notices(out) /\ Notices(out) \subseteq 1 .. Len(out)
  BY AppendOut
<1> HIDE DEF new, top, H
<1>2. G = H \cup {c} /\ c \notin H
  BY DEF H, new
<1> HIDE DEF G
<1>3. /\ notice \in [H -> Notices(out)]
      /\ \A h, g \in H : notice[h] = notice[g] => h = g
      /\ \A k \in Notices(out) : \E h \in H : notice[h] = k
      /\ \A h \in H : Partly(lines, n, out, h) \/ out[notice[h]][2] = Cardinality(CountedFor(lines, h))
  BY DEF Accounts, Bijection, Injection, Surjection, IsInjective, H
<1>4. to[c] = top /\ \A h \in H : to[h] = notice[h] /\ to[h] \in Notices(out)
  BY <1>2, <1>3
<1>5. to \in [G -> Notices(new)]
  BY <1>1, <1>2, <1>3
<1> HIDE DEF to
<1>6. to \in Bijection(G, Notices(new))
  <2>1. \A h, g \in G : to[h] = to[g] => h = g
    BY <1>1, <1>2, <1>3, <1>4
  <2>2. \A k \in Notices(new) : \E h \in G : to[h] = k
    BY <1>1, <1>2, <1>3, <1>4
  <2> QED BY <1>5, <2>1, <2>2 DEF Bijection, Injection, Surjection, IsInjective
<1>7. ASSUME NEW h \in G
      PROVE  Partly(lines, m, new, h) \/ new[to[h]][2] = Cardinality(CountedFor(lines, h))
  <2>1. CASE h = c
    BY <1>1, <1>4, <2>1 DEF new
  <2>2. CASE h \in H
    <3> SUFFICES ASSUME ~Partly(lines, m, new, h)
                 PROVE  new[to[h]][2] = Cardinality(CountedFor(lines, h))
      OBVIOUS
    <3>1. ~Partly(lines, n, out, h)
      BY <2>2 DEF H, new
    <3>2. out[notice[h]][2] = Cardinality(CountedFor(lines, h))
      BY <1>3, <2>2, <3>1
    <3>3. new[to[h]] = out[notice[h]]
      BY <1>1, <1>4, <2>2
    <3> QED BY <3>2, <3>3
  <2> QED BY <1>2, <2>1, <2>2
<1>8. Accounts(lines, m, new, B, to)
  BY <1>6, <1>7 DEF Accounts, G
<1> QED BY <1>8 DEF new

-----------------------------------------------------------------------------

\* While a hunk of a new or a deleted file is read, nothing of it is shown.
HeldBack(lines, n, st, c) ==
    /\ st.inHunk /\ c \in 1 .. n
    /\ \A k \in 1 .. Len(st.held) : \E i \in c .. n : st.held[k] = lines[i]
    /\ \A i \in c .. n : i = c \/ IsChange(lines, i) => IsShown(st.held, lines[i])
    /\ \A i \in c .. n : ~IsShown(st.out, lines[i])

\* Of any other hunk the header is shown, and it is said whether changes are hidden.
Current(lines, n, st, c) ==
    /\ c \in 1 .. n /\ IsShown(st.out, lines[c])
    /\ st.told <=> Lost(lines, n, st.out, c) # {}

StillOpen(st, c) == IF st.pending THEN {c} ELSE {}

\* What holds after n lines, the last of them in hunk c.
DiffInv(lines, n, st, c) ==
    /\ st \in DiffState
    /\ c \in Hunks(lines) /\ InHunk(lines, c, n)
    /\ OnlyLines(lines, n, st.out)
    /\ \E notice : Accounts(lines, n, st.out, StillOpen(st, c), notice)
    /\ ~st.pending => st.held = <<>>
    /\ st.pending => HeldBack(lines, n, st, c)
    /\ st.inHunk /\ ~st.pending => Current(lines, n, st, c)

Diffed(lines) == lines \in Seq(DiffLines) /\ AsDiffed(lines)

\* The lines of a diff.
LEMMA LinesType ==
    ASSUME NEW lines, Diffed(lines)
    PROVE  /\ Len(lines) \in Nat /\ DOMAIN lines = 1 .. Len(lines)
           /\ \A i \in 1 .. Len(lines) : /\ lines[i] \in DiffLines /\ lines[i] \in Rows
                                         /\ lines[i][1] \in Marks /\ lines[i][1] \notin {"further", "collapsed"}
           /\ \A i, j \in 1 .. Len(lines) : lines[i] = lines[j] => i = j
           /\ Hunks(lines) \subseteq 0 .. Len(lines)
<1>1. Len(lines) \in Nat /\ DOMAIN lines = 1 .. Len(lines) /\ \A i \in 1 .. Len(lines) : lines[i] \in DiffLines
  BY DEF Diffed
<1>2. \A i, j \in 1 .. Len(lines) : lines[i] = lines[j] => i = j
  BY <1>1 DEF Diffed, AsDiffed
<1> QED BY <1>1, <1>2, MarksApart DEF Hunks

\* A line is in one hunk.
LEMMA OneHunk ==
    ASSUME NEW lines, Diffed(lines), NEW g \in Hunks(lines), NEW h \in Hunks(lines), NEW i \in Nat,
           InHunk(lines, g, i), InHunk(lines, h, i)
    PROVE  g = h
<1>1. \A a, b \in Hunks(lines) : a < b /\ b <= i => ~InHunk(lines, a, i)
  <2> SUFFICES ASSUME NEW a \in Hunks(lines), NEW b \in Hunks(lines), a < b, b <= i, InHunk(lines, a, i)
               PROVE  FALSE
    OBVIOUS
  <2>1. a \in Nat /\ b \in Nat
    BY LinesType
  <2>2. b # 0 /\ b \in a + 1 .. i
    BY <2>1
  <2>3. lines[b][1] = "@@"
    BY <2>2 DEF Hunks
  <2> QED BY <2>2, <2>3 DEF InHunk
<1>2. g \in Nat /\ h \in Nat /\ g <= i /\ h <= i
  BY LinesType DEF InHunk
<1> QED BY <1>1, <1>2

\* So are the lines since its header.
LEMMA EarlierInHunk ==
    ASSUME NEW lines, NEW c \in Nat, NEW n \in Nat, NEW i \in c .. n, InHunk(lines, c, n)
    PROVE  InHunk(lines, c, i)
  BY DEF InHunk

\* A line that is not in hunk c is none of the lines of c.
LEMMA OtherHunk ==
    ASSUME NEW lines, Diffed(lines), NEW n \in Nat, NEW c \in Hunks(lines), InHunk(lines, c, n),
           NEW h \in Hunks(lines), h # c, NEW i \in 1 .. n, InHunk(lines, h, i)
    PROVE  i \notin c .. n
<1> SUFFICES ASSUME i \in c .. n PROVE FALSE
  OBVIOUS
<1>1. c \in Nat /\ i \in Nat
  BY LinesType
<1>2. InHunk(lines, c, i)
  BY <1>1, EarlierInHunk
<1> QED BY <1>1, <1>2, OneHunk

\* The next line is none of those that were read.
LEMMA NextIsNew ==
    ASSUME NEW lines, Diffed(lines), NEW n \in Nat, n + 1 <= Len(lines), NEW out, OnlyLines(lines, n, out)
    PROVE  /\ \A i \in 1 .. n : lines[i] # lines[n + 1]
           /\ ~IsShown(out, lines[n + 1])
           /\ lines[n + 1] \in Rows /\ lines[n + 1][1] \notin {"further", "collapsed"}
<1>1. n + 1 \in 1 .. Len(lines) /\ \A i \in 1 .. n : i \in 1 .. Len(lines) /\ i # n + 1
  BY LinesType
<1>2. \A i \in 1 .. n : lines[i] # lines[n + 1]
  BY <1>1, LinesType
<1>3. lines[n + 1] \in Rows /\ lines[n + 1][1] \notin {"further", "collapsed"}
  BY <1>1, LinesType
<1>4. ASSUME NEW k \in 1 .. Len(out), out[k] = lines[n + 1]
      PROVE  FALSE
  <2>1. k \notin Notices(out)
    BY <1>3, <1>4 DEF Notices
  <2> QED BY <1>2, <1>4, <2>1 DEF OnlyLines
<1> QED BY <1>2, <1>3, <1>4 DEF IsShown

\* Any line but a header stays in the hunk.
LEMMA NextInHunk ==
    ASSUME NEW lines, NEW n \in Nat, NEW c \in Nat, InHunk(lines, c, n), lines[n + 1][1] # "@@"
    PROVE  InHunk(lines, c, n + 1)
<1>1. \A j \in c + 1 .. n + 1 : j \in c + 1 .. n \/ j = n + 1
  OBVIOUS
<1> QED BY <1>1 DEF InHunk

\* What one line more loses.
LEMMA LostNext ==
    ASSUME NEW lines, NEW n \in Nat, NEW out, NEW h
    PROVE  IF InHunk(lines, h, n + 1) /\ IsChange(lines, n + 1) /\ ~IsShown(out, lines[n + 1])
           THEN Lost(lines, n + 1, out, h) = Lost(lines, n, out, h) \cup {n + 1}
           ELSE Lost(lines, n + 1, out, h) = Lost(lines, n, out, h)
<1>1. \A i : i \in 1 .. n + 1 <=> i \in 1 .. n \/ i = n + 1
  OBVIOUS
<1> QED BY <1>1 DEF Lost

\* What is shown of a hunk stays.
LEMMA PartlyNext ==
    ASSUME NEW lines, NEW n \in Nat, NEW out, NEW new, NEW h, Partly(lines, n, out, h),
           \A i \in 1 .. n : IsShown(out, lines[i]) => IsShown(new, lines[i])
    PROVE  Partly(lines, n, new, h) /\ Partly(lines, n + 1, new, h)
<1>1. \A i \in 1 .. n : i \in 1 .. n + 1
  OBVIOUS
<1> QED BY <1>1 DEF Partly

\* The next line is shown.
LEMMA NextInOut ==
    ASSUME NEW lines, Diffed(lines), NEW n \in Nat, n + 1 <= Len(lines), NEW out \in Seq(Rows),
           OnlyLines(lines, n, out)
    PROVE  LET new == Append(out, lines[n + 1])
           IN  /\ OnlyLines(lines, n + 1, new)
               /\ \A h : Lost(lines, n + 1, new, h) = Lost(lines, n, out, h)
               /\ Notices(new) = Notices(out) /\ \A k \in Notices(out) : new[k] = out[k]
               /\ \A i \in 1 .. n : IsShown(new, lines[i]) <=> IsShown(out, lines[i])
               /\ IsShown(new, lines[n + 1])
<1> DEFINE l == lines[n + 1]
           new == Append(out, l)
<1>1. /\ \A i \in 1 .. n : lines[i] # l
      /\ ~IsShown(out, l) /\ l \in Rows /\ l[1] \notin {"further", "collapsed"}
  BY NextIsNew
<1> HIDE DEF l
<1>2. /\ Len(new) = Len(out) + 1 /\ Len(out) \in Nat
      /\ new[Len(out) + 1] = l /\ \A k \in 1 .. Len(out) : new[k] = out[k]
      /\ \A x : IsShown(new, x) <=> IsShown(out, x) \/ x = l
      /\ Notices(new) = Notices(out) /\ Notices(out) \subseteq 1 .. Len(out)
  BY <1>1, AppendOut
<1> HIDE DEF new
<1>3. \A i \in 1 .. n : IsShown(new, lines[i]) <=> IsShown(out, lines[i])
  BY <1>1, <1>2
<1>4. IsShown(new, l)
  BY <1>2
<1>5. ASSUME NEW h
      PROVE  Lost(lines, n + 1, new, h) = Lost(lines, n, out, h)
  <2>1. IsShown(new, lines[n + 1])
    BY <1>4 DEF l
  <2>3. Lost(lines, n + 1, new, h) = Lost(lines, n, new, h)
    BY <2>1, LostNext
  <2>2. Lost(lines, n, new, h) = Lost(lines, n, out, h)
    BY <1>3 DEF Lost
  <2> QED BY <2>2, <2>3
<1>6. ASSUME NEW k \in 1 .. Len(new)
      PROVE  k \in Notices(new) \/ \E i \in 1 .. n + 1 : new[k] = lines[i]
  <2>1. CASE k = Len(out) + 1
    <3>1. new[k] = lines[n + 1] /\ n + 1 \in 1 .. n + 1
      BY <1>2, <2>1 DEF l
    <3> QED BY <3>1
  <2>2. CASE k \in 1 .. Len(out)
    <3>1. k \in Notices(out) \/ \E i \in 1 .. n : out[k] = lines[i]
      BY <2>2 DEF OnlyLines
    <3>2. \A i \in 1 .. n : i \in 1 .. n + 1
      OBVIOUS
    <3> QED BY <1>2, <2>2, <3>1, <3>2
  <2> QED BY <1>2, <2>1, <2>2
<1>7. OnlyLines(lines, n + 1, new)
  BY <1>6 DEF OnlyLines
<1> QED BY <1>2, <1>3, <1>4, <1>5, <1>7 DEF new, l

\* Rows of earlier lines are rows of the lines so far.
LEMMA OnlyLinesNext ==
    ASSUME NEW lines, NEW n \in Nat, NEW out, OnlyLines(lines, n, out)
    PROVE  OnlyLines(lines, n + 1, out)
<1>1. \A i \in 1 .. n : i \in 1 .. n + 1
  OBVIOUS
<1> QED BY <1>1 DEF OnlyLines

\* A hunk that hides nothing can be set aside.
LEMMA SetAside ==
    ASSUME NEW lines, NEW n, NEW out, NEW c, NEW notice,
           Accounts(lines, n, out, {}, notice), Lost(lines, n, out, c) = {}
    PROVE  Accounts(lines, n, out, {c}, notice)
<1>1. Hiding(lines, n, out, {c}) = Hiding(lines, n, out, {})
  BY DEF Hiding
<1> QED BY <1>1 DEF Accounts

\* A line that is shown hides nothing.
LEMMA LineShown ==
    ASSUME NEW lines, Diffed(lines), NEW n \in Nat, n + 1 <= Len(lines), NEW out \in Seq(Rows),
           OnlyLines(lines, n, out), NEW A, NEW notice, Accounts(lines, n, out, A, notice)
    PROVE  Accounts(lines, n + 1, Append(out, lines[n + 1]), A, notice)
<1> DEFINE new == Append(out, lines[n + 1])
<1>1. /\ \A h : Lost(lines, n + 1, new, h) = Lost(lines, n, out, h)
      /\ Notices(new) = Notices(out) /\ \A k \in Notices(out) : new[k] = out[k]
      /\ \A i \in 1 .. n : IsShown(new, lines[i]) <=> IsShown(out, lines[i])
  BY NextInOut
<1> HIDE DEF new
<1>2. Hiding(lines, n + 1, new, A) = Hiding(lines, n, out, A)
  BY <1>1 DEF Hiding
<1>3. \A h : Partly(lines, n, out, h) => Partly(lines, n + 1, new, h)
  BY <1>1, PartlyNext
<1>4. n + 1 \in Nat
  OBVIOUS
<1>5. Accounts(lines, n + 1, new, A, notice)
  BY <1>1, <1>2, <1>3, <1>4, SameAccounts
<1> QED BY <1>5 DEF new

\* Nor does a line that is no change, or one of a hunk that is set aside.
LEMMA LineUnseen ==
    ASSUME NEW lines, NEW n \in Nat, NEW out, NEW A, NEW notice, Accounts(lines, n, out, A, notice),
           \A h \in Hunks(lines) \ A : ~(InHunk(lines, h, n + 1) /\ IsChange(lines, n + 1))
    PROVE  Accounts(lines, n + 1, out, A, notice)
<1>1. \A h \in Hunks(lines) \ A : Lost(lines, n + 1, out, h) = Lost(lines, n, out, h)
  BY LostNext
<1>2. Hiding(lines, n + 1, out, A) = Hiding(lines, n, out, A)
  BY <1>1 DEF Hiding
<1>3. \A h : Partly(lines, n, out, h) => Partly(lines, n + 1, out, h)
  BY PartlyNext
<1>4. n + 1 \in Nat
  OBVIOUS
<1> QED BY <1>2, <1>3, <1>4, SameAccounts

\* One more change of a hunk that already said that it hides some.
LEMMA LineHidden ==
    ASSUME NEW lines, Diffed(lines), NEW n \in Nat, NEW out, NEW c \in Hunks(lines), NEW notice,
           Accounts(lines, n, out, {}, notice), InHunk(lines, c, n + 1),
           Lost(lines, n, out, c) # {}, Partly(lines, n, out, c)
    PROVE  Accounts(lines, n + 1, out, {}, notice)
<1>1. \A h \in Hunks(lines) \ {c} : Lost(lines, n + 1, out, h) = Lost(lines, n, out, h)
  <2> SUFFICES ASSUME NEW h \in Hunks(lines), h # c
               PROVE  Lost(lines, n + 1, out, h) = Lost(lines, n, out, h)
    OBVIOUS
  <2>1. n + 1 \in Nat
    OBVIOUS
  <2>2. ~InHunk(lines, h, n + 1)
    BY <2>1, OneHunk
  <2> QED BY <2>2, LostNext
<1>2. Lost(lines, n + 1, out, c) # {}
  BY LostNext
<1>3. Hiding(lines, n + 1, out, {}) = Hiding(lines, n, out, {})
  BY <1>1, <1>2 DEF Hiding
<1>4. \A h : Partly(lines, n, out, h) => Partly(lines, n + 1, out, h)
  BY PartlyNext
<1>5. n + 1 \in Nat
  OBVIOUS
<1> QED BY <1>3, <1>4, <1>5, SameAccounts

\* A notice is no line.
LEMMA NoticeInOut ==
    ASSUME NEW lines, Diffed(lines), NEW n \in Nat, n <= Len(lines), NEW out \in Seq(Rows), NEW x \in Rows,
           x[1] \in {"further", "collapsed"}
    PROVE  LET new == Append(out, x)
           IN  /\ new \in Seq(Rows)
               /\ OnlyLines(lines, n, out) => OnlyLines(lines, n, new)
               /\ \A h : Lost(lines, n, new, h) = Lost(lines, n, out, h)
               /\ \A i \in 1 .. n : IsShown(new, lines[i]) <=> IsShown(out, lines[i])
               /\ \A h : Partly(lines, n, new, h) <=> Partly(lines, n, out, h)
<1> DEFINE new == Append(out, x)
<1>1. \A i \in 1 .. n : lines[i] # x
  <2>1. \A i \in 1 .. n : i \in 1 .. Len(lines)
    BY LinesType
  <2> QED BY <2>1, LinesType
<1>2. /\ Len(new) = Len(out) + 1 /\ Len(out) \in Nat /\ new \in Seq(Rows)
      /\ \A k \in 1 .. Len(out) : new[k] = out[k]
      /\ \A l : IsShown(new, l) <=> IsShown(out, l) \/ l = x
      /\ Notices(new) = Notices(out) \cup {Len(out) + 1}
  BY AppendOut
<1> HIDE DEF new
<1>3. \A i \in 1 .. n : IsShown(new, lines[i]) <=> IsShown(out, lines[i])
  BY <1>1, <1>2
<1>4. \A h : Lost(lines, n, new, h) = Lost(lines, n, out, h)
  BY <1>3 DEF Lost
<1>5. \A h : Partly(lines, n, new, h) <=> Partly(lines, n, out, h)
  BY <1>3 DEF Partly
<1>6. ASSUME OnlyLines(lines, n, out)
      PROVE  OnlyLines(lines, n, new)
  <2> SUFFICES ASSUME NEW k \in 1 .. Len(new)
               PROVE  k \in Notices(new) \/ \E i \in 1 .. n : new[k] = lines[i]
    BY DEF OnlyLines
  <2>1. k = Len(out) + 1 \/ k \in 1 .. Len(out)
    BY <1>2
  <2> QED BY <1>2, <1>6, <2>1 DEF OnlyLines
<1> QED BY <1>2, <1>3, <1>4, <1>5, <1>6 DEF new

\* The first change that a hunk hides comes with a notice.
LEMMA LineHiddenFirst ==
    ASSUME NEW lines, Diffed(lines), NEW n \in Nat, n + 1 <= Len(lines), NEW out \in Seq(Rows),
           OnlyLines(lines, n, out), NEW c \in Hunks(lines), NEW notice,
           Accounts(lines, n, out, {}, notice), InHunk(lines, c, n + 1), IsChange(lines, n + 1),
           Lost(lines, n, out, c) = {}, Partly(lines, n, out, c)
    PROVE  LET new == Append(out, <<"further", 0>>)
           IN  /\ \E to : Accounts(lines, n + 1, new, {}, to)
               /\ OnlyLines(lines, n + 1, new)
               /\ Lost(lines, n + 1, new, c) # {}
               /\ \A i \in 1 .. n : IsShown(new, lines[i]) <=> IsShown(out, lines[i])
<1> DEFINE x == <<"further", 0>>
           new == Append(out, x)
<1>1. x \in Rows /\ x[1] \in {"further", "collapsed"} /\ n <= Len(lines) /\ n + 1 \in Nat
  BY LinesType DEF Rows
<1> HIDE DEF x
<1>2. /\ OnlyLines(lines, n, new)
      /\ \A h : Lost(lines, n + 1, new, h) = Lost(lines, n + 1, out, h)
      /\ \A i \in 1 .. n : IsShown(new, lines[i]) <=> IsShown(out, lines[i])
      /\ \A h : Partly(lines, n + 1, new, h) <=> Partly(lines, n + 1, out, h)
  BY <1>1, NoticeInOut
<1> HIDE DEF new
<1>3. ~IsShown(out, lines[n + 1])
  BY NextIsNew
<1>4. \A h \in Hunks(lines) \ {c} : Lost(lines, n + 1, new, h) = Lost(lines, n, out, h)
  <2> SUFFICES ASSUME NEW h \in Hunks(lines), h # c
               PROVE  Lost(lines, n + 1, new, h) = Lost(lines, n, out, h)
    OBVIOUS
  <2>1. ~InHunk(lines, h, n + 1)
    BY <1>1, OneHunk
  <2> QED BY <1>2, <2>1, LostNext
<1>5. n + 1 \in Lost(lines, n + 1, new, c)
  BY <1>2, <1>3, LostNext
<1>6. Hiding(lines, n + 1, new, {}) = Hiding(lines, n, out, {}) \cup {c} /\ c \notin Hiding(lines, n, out, {})
  BY <1>4, <1>5 DEF Hiding
<1>7. \A h : Partly(lines, n, out, h) => Partly(lines, n + 1, new, h)
  BY <1>2, PartlyNext
<1>8. \E to : Accounts(lines, n + 1, new, {}, to)
  BY <1>1, <1>6, <1>7, OneMore DEF new
<1> QED BY <1>2, <1>5, <1>8, OnlyLinesNext DEF new, x

\* One sequence of lines after another.
LEMMA ConcatOut ==
    ASSUME NEW out \in Seq(Rows), NEW held \in Seq(Rows)
    PROVE  LET new == out \o held
           IN  /\ new \in Seq(Rows) /\ Len(new) = Len(out) + Len(held) /\ Len(out) \in Nat /\ Len(held) \in Nat
               /\ \A k \in 1 .. Len(out) : new[k] = out[k]
               /\ \A k \in 1 .. Len(held) : new[Len(out) + k] = held[k]
               /\ \A k \in 1 .. Len(new) : k \in 1 .. Len(out) \/ k - Len(out) \in 1 .. Len(held)
               /\ \A l : IsShown(new, l) <=> IsShown(out, l) \/ IsShown(held, l)
<1> DEFINE new == out \o held
           n == Len(out)
           m == Len(held)
<1>1. /\ new \in Seq(Rows) /\ Len(new) = n + m /\ n \in Nat /\ m \in Nat
      /\ \A k \in 1 .. n : new[k] = out[k]
      /\ \A k \in 1 .. m : new[n + k] = held[k]
  OBVIOUS
<1> HIDE DEF new, n, m
<1>2. \A k \in 1 .. Len(new) : k \in 1 .. n \/ k - n \in 1 .. m
  BY <1>1
<1>3. ASSUME NEW l
      PROVE  IsShown(new, l) <=> IsShown(out, l) \/ IsShown(held, l)
  <2>1. ASSUME NEW k \in 1 .. Len(new), new[k] = l
        PROVE  IsShown(out, l) \/ IsShown(held, l)
    <3>1. CASE k \in 1 .. n
      BY <1>1, <2>1, <3>1 DEF IsShown, n
    <3>2. CASE k - n \in 1 .. m
      <4>1. new[n + (k - n)] = held[k - n] /\ n + (k - n) = k
        BY <1>1, <3>2
      <4> QED BY <2>1, <3>2, <4>1 DEF IsShown, m
    <3> QED BY <1>2, <2>1, <3>1, <3>2
  <2>2. ASSUME NEW k \in 1 .. Len(out), out[k] = l
        PROVE  IsShown(new, l)
    <3>1. k \in 1 .. Len(new) /\ new[k] = l
      BY <1>1, <2>2 DEF n
    <3> QED BY <3>1 DEF IsShown
  <2>3. ASSUME NEW k \in 1 .. Len(held), held[k] = l
        PROVE  IsShown(new, l)
    <3>1. n + k \in 1 .. Len(new) /\ new[n + k] = l
      BY <1>1, <2>3 DEF m
    <3> QED BY <3>1 DEF IsShown
  <2> QED BY <2>1, <2>2, <2>3 DEF IsShown
<1> QED BY <1>1, <1>2, <1>3 DEF new, n, m

\* A hunk that was held back and is shown after all hides nothing.
LEMMA HeldShown ==
    ASSUME NEW lines, Diffed(lines), NEW n \in Nat, n <= Len(lines), NEW c \in Hunks(lines),
           NEW st \in DiffState, InHunk(lines, c, n), OnlyLines(lines, n, st.out), HeldBack(lines, n, st, c),
           NEW notice, Accounts(lines, n, st.out, {c}, notice)
    PROVE  /\ Accounts(lines, n, st.out \o st.held, {}, notice)
           /\ OnlyLines(lines, n, st.out \o st.held)
<1> DEFINE out == st.out
           held == st.held
           new == out \o held
<1>1. out \in Seq(Rows) /\ held \in Seq(Rows) /\ c \in 1 .. n
  BY DEF DiffState, HeldBack
<1> HIDE DEF out, held
<1>2. /\ Len(new) = Len(out) + Len(held) /\ Len(out) \in Nat /\ Len(held) \in Nat
      /\ DOMAIN new = 1 .. Len(new) /\ DOMAIN out = 1 .. Len(out)
      /\ \A k \in 1 .. Len(out) : new[k] = out[k]
      /\ \A k \in 1 .. Len(held) : new[Len(out) + k] = held[k]
      /\ \A k \in 1 .. Len(new) : k \in 1 .. Len(out) \/ k - Len(out) \in 1 .. Len(held)
      /\ \A l : IsShown(new, l) <=> IsShown(out, l) \/ IsShown(held, l)
  <2>1. DOMAIN new = 1 .. Len(new) /\ DOMAIN out = 1 .. Len(out)
    BY <1>1
  <2> QED BY <1>1, <2>1, ConcatOut
<1> HIDE DEF new
<1>3. \A k \in 1 .. Len(held) : \E i \in c .. n : held[k] = lines[i] /\ i \in 1 .. n /\ i \in 1 .. Len(lines)
  <2>1. \A i \in c .. n : i \in 1 .. n /\ i \in 1 .. Len(lines)
    BY <1>1, LinesType
  <2> QED BY <2>1 DEF HeldBack, held
<1>4. \A k \in 1 .. Len(new) :
          \/ k \in 1 .. Len(out) /\ new[k] = out[k]
          \/ k \notin 1 .. Len(out) /\ \E i \in c .. n : new[k] = lines[i] /\ i \in 1 .. n /\ i \in 1 .. Len(lines)
  <2> SUFFICES ASSUME NEW k \in 1 .. Len(new), k \notin 1 .. Len(out)
               PROVE  \E i \in c .. n : new[k] = lines[i] /\ i \in 1 .. n /\ i \in 1 .. Len(lines)
    BY <1>2
  <2>1. k - Len(out) \in 1 .. Len(held) /\ Len(out) + (k - Len(out)) = k
    BY <1>2
  <2>2. new[k] = held[k - Len(out)]
    BY <1>2, <2>1
  <2> QED BY <1>3, <2>1, <2>2
<1>5. Notices(new) = Notices(out) /\ \A k \in Notices(out) : new[k] = out[k]
  <2>1. \A k \in 1 .. Len(out) : k \in 1 .. Len(new)
    BY <1>2
  <2>2. ASSUME NEW k \in Notices(new) PROVE k \in Notices(out)
    <3>1. k \in 1 .. Len(new) /\ new[k][1] \in {"further", "collapsed"}
      BY <1>2, <2>2 DEF Notices
    <3>2. CASE k \in 1 .. Len(out) /\ new[k] = out[k]
      BY <1>2, <3>1, <3>2 DEF Notices
    <3>3. CASE \E i \in c .. n : new[k] = lines[i] /\ i \in 1 .. n /\ i \in 1 .. Len(lines)
      BY <3>1, <3>3, LinesType
    <3> QED BY <1>4, <3>1, <3>2, <3>3
  <2>3. ASSUME NEW k \in Notices(out) PROVE k \in Notices(new) /\ new[k] = out[k]
    <3>1. k \in 1 .. Len(out) /\ out[k][1] \in {"further", "collapsed"}
      BY <1>2, <2>3 DEF Notices
    <3> QED BY <1>2, <2>1, <3>1 DEF Notices
  <2> QED BY <2>2, <2>3
<1>6. OnlyLines(lines, n, new)
  <2> SUFFICES ASSUME NEW k \in 1 .. Len(new), k \notin Notices(out)
               PROVE  \E i \in 1 .. n : new[k] = lines[i]
    BY <1>5 DEF OnlyLines
  <2>1. CASE k \in 1 .. Len(out) /\ new[k] = out[k]
    <3>1. \E i \in 1 .. n : out[k] = lines[i]
      BY <2>1 DEF OnlyLines, out
    <3> QED BY <2>1, <3>1
  <2> QED BY <1>4, <2>1
<1>7. ASSUME NEW i \in 1 .. n, i \notin c .. n
      PROVE  IsShown(new, lines[i]) <=> IsShown(out, lines[i])
  <2>1. ASSUME IsShown(held, lines[i]) PROVE FALSE
    <3>1. PICK k \in 1 .. Len(held) : held[k] = lines[i]
      BY <2>1 DEF IsShown
    <3>2. PICK j \in c .. n : held[k] = lines[j] /\ j \in 1 .. Len(lines)
      BY <1>3
    <3>3. i \in 1 .. Len(lines)
      BY LinesType
    <3> QED BY <1>7, <3>1, <3>2, <3>3, LinesType
  <2> QED BY <1>2, <2>1
<1>8. \A h \in Hunks(lines) \ {c} : Lost(lines, n, new, h) = Lost(lines, n, out, h)
  <2> SUFFICES ASSUME NEW h \in Hunks(lines), h # c, NEW i \in 1 .. n, InHunk(lines, h, i)
               PROVE  IsShown(new, lines[i]) <=> IsShown(out, lines[i])
    BY DEF Lost
  <2>1. i \notin c .. n
    BY OtherHunk
  <2> QED BY <1>7, <2>1
<1>9. Lost(lines, n, new, c) = {}
  <2> SUFFICES ASSUME NEW i \in 1 .. n, InHunk(lines, c, i), IsChange(lines, i)
               PROVE  IsShown(new, lines[i])
    BY DEF Lost
  <2>1. i \in c .. n
    BY <1>1 DEF InHunk
  <2>2. IsShown(held, lines[i])
    BY <2>1 DEF HeldBack, held
  <2> QED BY <1>2, <2>2
<1>10. Hiding(lines, n, new, {}) = Hiding(lines, n, out, {c})
  BY <1>8, <1>9 DEF Hiding
<1>11. \A h : Partly(lines, n, out, h) => Partly(lines, n, new, h)
  BY <1>2 DEF Partly
<1>12. Accounts(lines, n, new, {}, notice)
  <2>1. Accounts(lines, n, out, {c}, notice)
    BY DEF out
  <2> QED BY <1>5, <1>10, <1>11, <2>1, SameAccounts
<1> QED BY <1>6, <1>12 DEF new, out, held

\* One that is collapsed says how many changes were counted.
LEMMA HeldCollapsed ==
    ASSUME NEW lines, Diffed(lines), NEW n \in Nat, n <= Len(lines), NEW c \in Hunks(lines),
           NEW st \in DiffState, InHunk(lines, c, n), OnlyLines(lines, n, st.out), HeldBack(lines, n, st, c),
           \E i \in c .. n : IsChange(lines, i),
           NEW count \in Nat, count = Cardinality(CountedFor(lines, c)),
           NEW notice, Accounts(lines, n, st.out, {c}, notice)
    PROVE  /\ \E to : Accounts(lines, n, Append(st.out, <<"collapsed", count>>), {}, to)
           /\ OnlyLines(lines, n, Append(st.out, <<"collapsed", count>>))
<1> DEFINE out == st.out
           x == <<"collapsed", count>>
           new == Append(out, x)
<1>1. out \in Seq(Rows) /\ c \in 1 .. n /\ x \in Rows /\ x[1] \in {"further", "collapsed"} /\ x[2] = count
  BY DEF DiffState, HeldBack, Rows
<1> HIDE DEF out, x
<1>2. /\ OnlyLines(lines, n, new)
      /\ \A h : Lost(lines, n, new, h) = Lost(lines, n, out, h)
      /\ \A h : Partly(lines, n, new, h) <=> Partly(lines, n, out, h)
  <2>1. OnlyLines(lines, n, out)
    BY DEF out
  <2> QED BY <1>1, <2>1, NoticeInOut
<1> HIDE DEF new
<1>3. Lost(lines, n, new, c) # {}
  <2>1. PICK i \in c .. n : IsChange(lines, i)
    OBVIOUS
  <2>2. i \in 1 .. n /\ InHunk(lines, c, i) /\ ~IsShown(out, lines[i])
    BY <1>1, <2>1, EarlierInHunk DEF HeldBack, out
  <2>3. i \in Lost(lines, n, out, c)
    BY <2>1, <2>2 DEF Lost
  <2> QED BY <1>2, <2>3
<1>4. Hiding(lines, n, new, {}) = Hiding(lines, n, out, {c}) \cup {c} /\ c \notin Hiding(lines, n, out, {c})
  BY <1>2, <1>3 DEF Hiding
<1>5. \E to : Accounts(lines, n, new, {}, to)
  <2>1. Accounts(lines, n, out, {c}, notice)
    BY DEF out
  <2>2. \A h \in Hiding(lines, n, out, {c}) : Partly(lines, n, out, h) => Partly(lines, n, new, h)
    BY <1>2
  <2> QED BY <1>1, <1>4, <2>1, <2>2, OneMore DEF new
<1> QED BY <1>2, <1>5 DEF new, x, out

\* At the end of a hunk nothing is held back any more.
LEMMA Flushed ==
    ASSUME NEW lines, Diffed(lines), NEW n \in Nat, n <= Len(lines), NEW st, NEW c,
           DiffInv(lines, n, st, c),
           st.pending => /\ \E i \in c .. n : IsChange(lines, i)
                         /\ st.adds + st.dels = Cardinality(CountedFor(lines, c))
    PROVE  DiffInv(lines, n, flushHunk(st), c) /\ ~flushHunk(st).pending
<1>1. CASE ~st.pending
  BY <1>1 DEF flushHunk
<1>2. CASE st.pending
  <2> DEFINE f == flushHunk(st)
             out == f.out
  <2>1. /\ st \in DiffState /\ c \in Hunks(lines) /\ InHunk(lines, c, n)
        /\ OnlyLines(lines, n, st.out) /\ HeldBack(lines, n, st, c)
    BY <1>2 DEF DiffInv
  <2>2. PICK notice : Accounts(lines, n, st.out, {c}, notice)
    BY <1>2 DEF DiffInv, StillOpen
  <2>3. st.adds \in Nat /\ st.dels \in Nat /\ st.out \in Seq(Rows) /\ st.held \in Seq(Rows)
    BY <2>1 DEF DiffState
  <2>4. \/ st.kind = "new" /\ st.dels = 0 /\ out = Append(st.out, <<"collapsed", st.adds>>)
        \/ st.kind = "deleted" /\ st.adds = 0 /\ out = Append(st.out, <<"collapsed", st.dels>>)
        \/ out = st.out \o st.held
    <3> DEFINE shown == CASE st.kind = "new" /\ st.dels = 0 /\ st.adds > 0 -> <<<<"collapsed", st.adds>>>>
                          [] st.kind = "deleted" /\ st.adds = 0 /\ st.dels > 0 -> <<<<"collapsed", st.dels>>>>
                          [] OTHER -> st.held
    <3>1. out = st.out \o shown
      BY <1>2, <2>1 DEF flushHunk, DiffState
    <3>2. \A x : x \in Rows => st.out \o <<x>> = Append(st.out, x)
      BY <2>3
    <3>3. <<"collapsed", st.adds>> \in Rows /\ <<"collapsed", st.dels>> \in Rows
      BY <2>3 DEF Rows
    <3>4. \/ st.kind = "new" /\ st.dels = 0 /\ shown = <<<<"collapsed", st.adds>>>>
          \/ st.kind = "deleted" /\ st.adds = 0 /\ shown = <<<<"collapsed", st.dels>>>>
          \/ shown = st.held
      OBVIOUS
    <3> HIDE DEF shown
    <3> QED BY <3>1, <3>2, <3>3, <3>4
  <2>5. /\ ~f.pending /\ ~f.inHunk /\ f.held = <<>> /\ f.kind = st.kind /\ f.adds = 0 /\ f.dels = 0
        /\ f.context = 0 /\ f.mods = st.mods /\ f.told = st.told
        /\ f = [out |-> out, held |-> <<>>, kind |-> st.kind, pending |-> FALSE, inHunk |-> FALSE,
                adds |-> 0, dels |-> 0, context |-> 0, mods |-> st.mods, told |-> st.told]
    BY <1>2, <2>1 DEF flushHunk, DiffState
  <2> HIDE DEF f, out
  <2>6. /\ OnlyLines(lines, n, out) /\ \E to : Accounts(lines, n, out, {}, to)
        /\ out \in Seq(Rows)
    <3>0. \E i \in c .. n : IsChange(lines, i)
      BY <1>2
    <3>1. ASSUME NEW count \in {st.adds, st.dels}, count = st.adds + st.dels,
                 out = Append(st.out, <<"collapsed", count>>)
          PROVE  /\ OnlyLines(lines, n, out) /\ \E to : Accounts(lines, n, out, {}, to)
                 /\ out \in Seq(Rows)
      <4>1. count \in Nat /\ count = Cardinality(CountedFor(lines, c))
        BY <1>2, <2>3, <3>1
      <4>2. <<"collapsed", count>> \in Rows
        BY <4>1 DEF Rows
      <4>3. out \in Seq(Rows)
        BY <2>3, <3>1, <4>2, AppendOut
      <4> QED BY <2>1, <2>2, <3>0, <3>1, <4>1, <4>3, HeldCollapsed
    <3>2. CASE \E count \in {st.adds, st.dels} :
                   count = st.adds + st.dels /\ out = Append(st.out, <<"collapsed", count>>)
      BY <3>1, <3>2
    <3>3. CASE out = st.out \o st.held
      <4>1. out \in Seq(Rows)
        BY <2>3, <3>3
      <4> QED BY <2>1, <2>2, <3>3, <4>1, HeldShown
    <3>4. st.dels = 0 => st.adds = st.adds + st.dels
      BY <2>3
    <3>5. st.adds = 0 => st.dels = st.adds + st.dels
      BY <2>3
    <3> QED BY <2>4, <3>2, <3>3, <3>4, <3>5
  <2>7. f \in DiffState /\ f.out = out
    <3>1. st.kind \in {"changed", "new", "deleted"} /\ st.mods \in Nat /\ st.told \in BOOLEAN
      BY <2>1 DEF DiffState
    <3> HIDE DEF out
    <3> QED BY <2>5, <2>6, <3>1 DEF DiffState
  <2> QED BY <2>1, <2>5, <2>6, <2>7 DEF DiffInv, StillOpen, f
<1>3. st.pending \in BOOLEAN
  BY DEF DiffInv, DiffState
<1> QED BY <1>1, <1>2

\* By then a hunk has changed something.
LEMMA HasChange ==
    ASSUME NEW lines, Diffed(lines), NEW n \in Nat, n <= Len(lines), NEW st, NEW c,
           DiffInv(lines, n, st, c), st.pending,
           n < Len(lines) => lines[n + 1][1] \notin HunkLines
    PROVE  \E i \in c .. n : IsChange(lines, i)
<1>1. c \in Hunks(lines) /\ c \in 1 .. n
  BY DEF DiffInv, HeldBack
<1>2. PICK i \in DOMAIN lines : c < i /\ IsChange(lines, i) /\ \A j \in c + 1 .. i - 1 : lines[j][1] \in HunkLines
  BY <1>1 DEF Diffed, AsDiffed
<1>3. i \in 1 .. Len(lines) /\ Len(lines) \in Nat
  BY LinesType
<1>4. CASE i <= n
  BY <1>1, <1>2, <1>3, <1>4
<1>5. CASE i = n + 1
  BY <1>2, <1>3, <1>5 DEF IsChange, HunkLines
<1>6. CASE i > n + 1
  <2>1. n + 1 \in c + 1 .. i - 1 /\ n < Len(lines)
    BY <1>1, <1>3, <1>6
  <2> QED BY <1>2, <2>1
<1> QED BY <1>3, <1>4, <1>5, <1>6

-----------------------------------------------------------------------------
(* What "(N lines)" counts.                                                  *)

\* A new or a deleted file was announced, and no file since.
FileIsNew(lines, n) ==
    \E k \in 1 .. n : lines[k][1] \in {"new", "deleted"} /\ \A j \in k + 1 .. n : lines[j][1] # "file"

\* Of the first n lines, the changes of the hunks since the last one up to m
\* that can be collapsed.
Kept(lines, n, m) ==
    {i \in 1 .. n : /\ IsChange(lines, i)
                    /\ \E g \in Hunks(lines) : /\ InHunk(lines, g, i)
                                               /\ \A k \in g .. m : k # 0 => ~Collapsible(lines, k)}

\* The counters after n lines, the last of them in hunk c.
CountInv(lines, n, st, c) ==
    /\ c \in Hunks(lines) /\ InHunk(lines, c, n)
    /\ st.kind \in {"new", "deleted"} <=> FileIsNew(lines, n)
    /\ n >= 1 /\ lines[n][1] \in HunkLines \cup {"@@"} => st.inHunk
    /\ st.inHunk => c # 0 /\ (st.pending <=> Collapsible(lines, c))
    /\ st.pending => st.inHunk
    /\ st.adds + st.dels = Cardinality(Kept(lines, n, IF st.pending THEN c - 1 ELSE c))

\* What is shown and what is counted.
DiffBoth(lines, n, st, c) == DiffInv(lines, n, st, c) /\ CountInv(lines, n, st, c)

\* The changes counted are finitely many.
LEMMA KeptFinite ==
    ASSUME NEW lines, NEW n \in Nat, NEW m
    PROVE  IsFiniteSet(Kept(lines, n, m)) /\ Cardinality(Kept(lines, n, m)) \in Nat
<1>1. IsFiniteSet(1 .. n)
  BY FS_Interval
<1>2. Kept(lines, n, m) \subseteq 1 .. n
  BY DEF Kept
<1>3. IsFiniteSet(Kept(lines, n, m))
  BY <1>1, <1>2, FS_Subset
<1> QED BY <1>3, FS_CardinalityType

\* A change is counted if its hunk is none that was collapsed.
LEMMA KeptNext ==
    ASSUME NEW lines, Diffed(lines), NEW n \in Nat, NEW c \in Hunks(lines), InHunk(lines, c, n + 1), NEW m
    PROVE  IF IsChange(lines, n + 1) /\ \A k \in c .. m : k # 0 => ~Collapsible(lines, k)
           THEN Cardinality(Kept(lines, n + 1, m)) = Cardinality(Kept(lines, n, m)) + 1
           ELSE Kept(lines, n + 1, m) = Kept(lines, n, m)
<1> DEFINE Free(g) == \A k \in g .. m : k # 0 => ~Collapsible(lines, k)
<1>1. \A i : i \in 1 .. n + 1 <=> i \in 1 .. n \/ i = n + 1
  OBVIOUS
<1>2. n + 1 \in Nat /\ n + 1 \notin 1 .. n
  OBVIOUS
<1>3. \A g \in Hunks(lines) : InHunk(lines, g, n + 1) => g = c
  BY <1>2, OneHunk
<1> HIDE DEF Free
<1>4. /\ Kept(lines, n, m) = {i \in 1 .. n : IsChange(lines, i) /\ \E g \in Hunks(lines) : InHunk(lines, g, i) /\ Free(g)}
      /\ Kept(lines, n + 1, m) =
            {i \in 1 .. n + 1 : IsChange(lines, i) /\ \E g \in Hunks(lines) : InHunk(lines, g, i) /\ Free(g)}
  BY DEF Kept, Free
<1>5. CASE IsChange(lines, n + 1) /\ Free(c)
  <2>1. Kept(lines, n + 1, m) = Kept(lines, n, m) \cup {n + 1} /\ n + 1 \notin Kept(lines, n, m)
    BY <1>1, <1>2, <1>4, <1>5
  <2>2. Cardinality(Kept(lines, n + 1, m)) = Cardinality(Kept(lines, n, m)) + 1
    BY <2>1, KeptFinite, FS_AddElement
  <2> QED BY <1>5, <2>2 DEF Free
<1>6. CASE ~(IsChange(lines, n + 1) /\ Free(c))
  <2>1. Kept(lines, n + 1, m) = Kept(lines, n, m)
    BY <1>1, <1>3, <1>4, <1>6
  <2> QED BY <1>6, <2>1 DEF Free
<1> QED BY <1>5, <1>6

\* Whether the file is new, one line on.
LEMMA FileIsNewNext ==
    ASSUME NEW lines, NEW n \in Nat
    PROVE  FileIsNew(lines, n + 1) <=> \/ lines[n + 1][1] \in {"new", "deleted"}
                                       \/ lines[n + 1][1] # "file" /\ FileIsNew(lines, n)
<1>1. ASSUME NEW k \in 1 .. n + 1, lines[k][1] \in {"new", "deleted"},
             \A j \in k + 1 .. n + 1 : lines[j][1] # "file", lines[n + 1][1] \notin {"new", "deleted"}
      PROVE  lines[n + 1][1] # "file" /\ FileIsNew(lines, n)
  <2>1. k # n + 1
    BY <1>1
  <2>2. k \in 1 .. n /\ n + 1 \in k + 1 .. n + 1 /\ \A j \in k + 1 .. n : j \in k + 1 .. n + 1
    BY <2>1
  <2> QED BY <1>1, <2>2 DEF FileIsNew
<1>2. ASSUME lines[n + 1][1] \in {"new", "deleted"}
      PROVE  FileIsNew(lines, n + 1)
  <2>1. n + 1 \in 1 .. n + 1 /\ (n + 1) + 1 .. n + 1 = {}
    OBVIOUS
  <2> QED BY <1>2, <2>1 DEF FileIsNew
<1>3. ASSUME lines[n + 1][1] # "file", NEW k \in 1 .. n, lines[k][1] \in {"new", "deleted"},
             \A j \in k + 1 .. n : lines[j][1] # "file"
      PROVE  FileIsNew(lines, n + 1)
  <2>1. k \in 1 .. n + 1 /\ \A j \in k + 1 .. n + 1 : j \in k + 1 .. n \/ j = n + 1
    OBVIOUS
  <2> QED BY <1>3, <2>1 DEF FileIsNew
<1> QED BY <1>1, <1>2, <1>3 DEF FileIsNew

\* The same counters.
SameCounters(r, s) ==
    r.kind = s.kind /\ (r.inHunk <=> s.inHunk) /\ (r.pending <=> s.pending) /\ r.adds = s.adds /\ r.dels = s.dels

\* What flushing changes of the counters.
LEMMA FlushState ==
    ASSUME NEW st \in DiffState
    PROVE  LET f == flushHunk(st)
           IN  /\ f \in DiffState /\ f.kind = st.kind /\ ~f.pending
               /\ f.inHunk <=> st.inHunk /\ ~st.pending
               /\ f.adds = (IF st.pending THEN 0 ELSE st.adds) /\ f.dels = (IF st.pending THEN 0 ELSE st.dels)
<1> DEFINE shown == CASE st.kind = "new" /\ st.dels = 0 /\ st.adds > 0 -> <<<<"collapsed", st.adds>>>>
                      [] st.kind = "deleted" /\ st.adds = 0 /\ st.dels > 0 -> <<<<"collapsed", st.dels>>>>
                      [] OTHER -> st.held
           out == st.out \o shown
<1>1. flushHunk(st) = IF ~st.pending THEN st
                      ELSE [st EXCEPT !.out = out, !.held = <<>>, !.adds = 0, !.dels = 0,
                                      !.context = 0, !.inHunk = FALSE, !.pending = FALSE]
  BY DEF flushHunk, DiffState
<1>2. out \in Seq(Rows) /\ <<>> \in Seq(Rows)
  <2>1. st.out \in Seq(Rows) /\ st.held \in Seq(Rows) /\ st.adds \in Nat /\ st.dels \in Nat
    BY DEF DiffState
  <2>2. <<"collapsed", st.adds>> \in Rows /\ <<"collapsed", st.dels>> \in Rows
    BY <2>1 DEF Rows
  <2>3. shown \in Seq(Rows)
    BY <2>1, <2>2
  <2> HIDE DEF shown
  <2> QED BY <2>1, <2>3
<1> HIDE DEF out
<1>3. CASE st.pending
  <2> DEFINE f == flushHunk(st)
  <2>1. f = [out |-> out, held |-> <<>>, kind |-> st.kind, pending |-> FALSE, inHunk |-> FALSE,
             adds |-> 0, dels |-> 0, context |-> 0, mods |-> st.mods, told |-> st.told]
    BY <1>1, <1>3 DEF DiffState
  <2>2. st.kind \in {"changed", "new", "deleted"} /\ st.mods \in Nat /\ st.told \in BOOLEAN
    BY DEF DiffState
  <2> HIDE DEF f
  <2>3. f \in DiffState /\ f.kind = st.kind /\ ~f.pending /\ ~f.inHunk /\ f.adds = 0 /\ f.dels = 0
    BY <1>2, <2>1, <2>2 DEF DiffState
  <2> QED BY <1>3, <2>3 DEF f
<1>4. CASE ~st.pending
  BY <1>1, <1>4 DEF DiffState
<1> QED BY <1>3, <1>4

\* No line so far is in a later hunk.
LEMMA HunksSoFar ==
    ASSUME NEW lines, Diffed(lines), NEW n \in Nat, NEW c \in Hunks(lines), InHunk(lines, c, n),
           NEW i \in 1 .. n, NEW g \in Hunks(lines), InHunk(lines, g, i)
    PROVE  g <= c
<1> SUFFICES ASSUME g > c PROVE FALSE
  BY LinesType
<1>1. c \in Nat /\ g \in Nat /\ g <= i
  BY LinesType DEF InHunk
<1>2. g \in c + 1 .. n /\ g # 0
  BY <1>1
<1>3. lines[g][1] = "@@"
  BY <1>2 DEF Hunks
<1> QED BY <1>2, <1>3 DEF InHunk

\* What the counters stand at once the hunk is flushed.
LEMMA CountFlushed ==
    ASSUME NEW lines, Diffed(lines), NEW n \in Nat, NEW st, NEW c, CountInv(lines, n, st, c)
    PROVE  Cardinality(Kept(lines, n, c)) = IF st.pending THEN 0 ELSE st.adds + st.dels
<1>1. CASE st.pending
  <2>1. c \in Hunks(lines) /\ c \in Nat /\ c # 0 /\ InHunk(lines, c, n) /\ Collapsible(lines, c)
    BY <1>1, LinesType DEF CountInv
  <2>2. ASSUME NEW i \in Kept(lines, n, c) PROVE FALSE
    <3>1. PICK g \in Hunks(lines) : i \in 1 .. n /\ InHunk(lines, g, i) /\ \A k \in g .. c : k # 0 => ~Collapsible(lines, k)
      BY <2>2 DEF Kept
    <3>2. g <= c /\ g \in Nat
      BY <2>1, <3>1, HunksSoFar, LinesType
    <3>3. c \in g .. c
      BY <2>1, <3>2
    <3> QED BY <2>1, <3>1, <3>3
  <2>3. Kept(lines, n, c) = {}
    BY <2>2
  <2> QED BY <1>1, <2>3, FS_EmptySet
<1>2. CASE ~st.pending
  BY <1>2 DEF CountInv
<1> QED BY <1>1, <1>2

\* When a hunk is over, all that its notice counts was counted.
LEMMA CountedWhole ==
    ASSUME NEW lines, Diffed(lines), NEW n \in Nat, n <= Len(lines), NEW st, NEW c,
           CountInv(lines, n, st, c), st.pending, n < Len(lines) => lines[n + 1][1] \notin HunkLines
    PROVE  st.adds + st.dels = Cardinality(CountedFor(lines, c))
<1>1. c \in Hunks(lines) /\ c \in Nat /\ c # 0 /\ InHunk(lines, c, n) /\ c <= n /\ lines[c][1] = "@@"
  <2>1. c \in Hunks(lines) /\ c # 0 /\ InHunk(lines, c, n)
    BY DEF CountInv
  <2> QED BY <2>1, LinesType DEF Hunks, InHunk
<1>2. DOMAIN lines = 1 .. Len(lines) /\ Len(lines) \in Nat /\ \A i \in 1 .. n : i \in 1 .. Len(lines)
  BY LinesType
<1>3. ASSUME NEW i \in 1 .. Len(lines), IsChange(lines, i), NEW g \in Hunks(lines), g <= c, InHunk(lines, g, i)
      PROVE  i \in 1 .. n
  <2> SUFFICES ASSUME i > n PROVE FALSE
    OBVIOUS
  <2>1. g \in Nat
    BY LinesType
  <2>2. g = c
    <3>1. g < c => c \in g + 1 .. i
      BY <1>1, <2>1
    <3>2. ~(g < c)
      BY <1>1, <3>1, <1>3 DEF InHunk
    <3> QED BY <1>1, <1>3, <2>1, <3>2
  <2>3. PICK d \in 1 .. i - 1 : lines[d][1] = "@@" /\ \A j \in d + 1 .. i : lines[j][1] \in HunkLines
    <3>1. lines[i][1] \in HunkLines
      BY <1>3 DEF IsChange, HunkLines
    <3> QED BY <1>2, <3>1 DEF Diffed, AsDiffed
  <2>4. d <= c
    <3>1. d > c => d \in c + 1 .. i
      BY <1>1
    <3> QED BY <1>1, <1>3, <2>2, <2>3, <3>1 DEF InHunk
  <2>5. n + 1 \in d + 1 .. i /\ n < Len(lines)
    BY <1>1, <1>2, <2>4
  <2> QED BY <2>3, <2>5
<1>4. \A i \in 1 .. n, g \in Hunks(lines) : InHunk(lines, g, i) => g <= c
  BY <1>1, HunksSoFar
<1>5. CountedFor(lines, c) = Kept(lines, n, c - 1)
  <2>1. \A i \in CountedFor(lines, c) : i \in Kept(lines, n, c - 1)
    BY <1>2, <1>3 DEF CountedFor, Kept
  <2>2. \A i \in Kept(lines, n, c - 1) : i \in CountedFor(lines, c)
    BY <1>2, <1>4 DEF CountedFor, Kept
  <2>3. CountedFor(lines, c) \subseteq DOMAIN lines /\ Kept(lines, n, c - 1) \subseteq 1 .. n
    BY DEF CountedFor, Kept
  <2> QED BY <2>1, <2>2, <2>3
<1> QED BY <1>5 DEF CountInv

-----------------------------------------------------------------------------
(* The next line, by what is done with it.                                   *)

\* A line that is shown.
LEMMA ShowNext ==
    ASSUME NEW lines, Diffed(lines), NEW n \in Nat, n + 1 <= Len(lines), NEW st, NEW c,
           DiffInv(lines, n, st, c), ~st.pending, lines[n + 1][1] # "@@",
           NEW t \in DiffState, t.out = Append(st.out, lines[n + 1]), t.held = <<>>, ~t.pending,
           t.inHunk => st.inHunk, (t.told <=> st.told)
    PROVE  DiffInv(lines, n + 1, t, c)
<1> DEFINE out == st.out
           new == Append(out, lines[n + 1])
<1>1. /\ out \in Seq(Rows) /\ c \in Hunks(lines) /\ c \in Nat /\ InHunk(lines, c, n) /\ OnlyLines(lines, n, out)
  BY LinesType DEF DiffInv, DiffState
<1>2. PICK notice : Accounts(lines, n, out, {}, notice)
  BY DEF DiffInv, StillOpen
<1> HIDE DEF out
<1>3. /\ OnlyLines(lines, n + 1, new)
      /\ Lost(lines, n + 1, new, c) = Lost(lines, n, out, c)
      /\ \A i \in 1 .. n : IsShown(new, lines[i]) <=> IsShown(out, lines[i])
  BY <1>1, NextInOut
<1>4. Accounts(lines, n + 1, new, {}, notice)
  BY <1>1, <1>2, LineShown
<1> HIDE DEF new
<1>5. InHunk(lines, c, n + 1)
  BY <1>1, NextInHunk
<1>6. t.inHunk => Current(lines, n + 1, t, c)
  <2> SUFFICES ASSUME t.inHunk PROVE Current(lines, n + 1, t, c)
    OBVIOUS
  <2>1. Current(lines, n, st, c)
    BY DEF DiffInv
  <2>2. c \in 1 .. n /\ c \in 1 .. n + 1
    BY <2>1 DEF Current
  <2>3. t.out = new
    BY DEF new, out
  <2> QED BY <1>3, <2>1, <2>2, <2>3 DEF Current, out
<1>7. t.out = new
  BY DEF new, out
<1> QED BY <1>1, <1>3, <1>4, <1>5, <1>6, <1>7 DEF DiffInv, StillOpen

\* A line that is no change and is not shown.
LEMMA SkipNext ==
    ASSUME NEW lines, Diffed(lines), NEW n \in Nat, n + 1 <= Len(lines), NEW st, NEW c,
           DiffInv(lines, n, st, c), ~st.pending, lines[n + 1][1] # "@@", ~IsChange(lines, n + 1),
           NEW t \in DiffState, t.out = st.out, t.held = <<>>, ~t.pending,
           t.inHunk => st.inHunk, (t.told <=> st.told)
    PROVE  DiffInv(lines, n + 1, t, c)
<1>1. /\ c \in Hunks(lines) /\ c \in Nat /\ InHunk(lines, c, n) /\ OnlyLines(lines, n, st.out)
  BY LinesType DEF DiffInv
<1>2. PICK notice : Accounts(lines, n, st.out, {}, notice)
  BY DEF DiffInv, StillOpen
<1>3. Accounts(lines, n + 1, st.out, {}, notice)
  BY <1>2, LineUnseen
<1>4. InHunk(lines, c, n + 1) /\ OnlyLines(lines, n + 1, st.out)
  BY <1>1, NextInHunk, OnlyLinesNext
<1>5. t.inHunk => Current(lines, n + 1, t, c)
  <2> SUFFICES ASSUME t.inHunk PROVE Current(lines, n + 1, t, c)
    OBVIOUS
  <2>1. Current(lines, n, st, c)
    BY DEF DiffInv
  <2>2. c \in 1 .. n + 1
    BY <2>1 DEF Current
  <2>3. Lost(lines, n + 1, st.out, c) = Lost(lines, n, st.out, c)
    BY LostNext
  <2> QED BY <2>1, <2>2, <2>3 DEF Current
<1> QED BY <1>1, <1>3, <1>4, <1>5 DEF DiffInv, StillOpen

\* A change that is not shown.
LEMMA HideNext ==
    ASSUME NEW lines, Diffed(lines), NEW n \in Nat, n + 1 <= Len(lines), NEW st, NEW c,
           DiffInv(lines, n, st, c), ~st.pending, st.inHunk, IsChange(lines, n + 1),
           NEW t \in DiffState, t.held = <<>>, ~t.pending, t.told,
           \/ st.told /\ t.out = st.out
           \/ ~st.told /\ t.out = Append(st.out, <<"further", 0>>)
    PROVE  DiffInv(lines, n + 1, t, c)
<1>1. /\ st.out \in Seq(Rows) /\ c \in Hunks(lines) /\ c \in 1 .. n /\ c \in Nat /\ c \in 1 .. n + 1
      /\ InHunk(lines, c, n) /\ OnlyLines(lines, n, st.out)
      /\ IsShown(st.out, lines[c]) /\ (st.told <=> Lost(lines, n, st.out, c) # {})
  BY LinesType DEF DiffInv, DiffState, Current
<1>2. PICK notice : Accounts(lines, n, st.out, {}, notice)
  BY DEF DiffInv, StillOpen
<1>3. InHunk(lines, c, n + 1)
  BY <1>1, NextInHunk DEF IsChange
<1>4. Partly(lines, n, st.out, c)
  <2>1. InHunk(lines, c, c)
    BY <1>1, EarlierInHunk
  <2> QED BY <1>1, <2>1 DEF Partly
<1>5. CASE st.told /\ t.out = st.out
  <2>1. Accounts(lines, n + 1, st.out, {}, notice)
    BY <1>1, <1>2, <1>3, <1>4, <1>5, LineHidden
  <2>2. Lost(lines, n + 1, st.out, c) # {}
    BY <1>1, <1>5, LostNext
  <2> QED BY <1>1, <1>3, <1>5, <2>1, <2>2, OnlyLinesNext DEF DiffInv, StillOpen, Current
<1>6. CASE ~st.told /\ t.out = Append(st.out, <<"further", 0>>)
  <2>1. /\ \E to : Accounts(lines, n + 1, t.out, {}, to)
        /\ OnlyLines(lines, n + 1, t.out)
        /\ Lost(lines, n + 1, t.out, c) # {}
        /\ \A i \in 1 .. n : IsShown(t.out, lines[i]) <=> IsShown(st.out, lines[i])
    BY <1>1, <1>2, <1>3, <1>4, <1>6, LineHiddenFirst
  <2> QED BY <1>1, <1>3, <1>6, <2>1 DEF DiffInv, StillOpen, Current
<1> QED BY <1>5, <1>6

\* While a hunk is held back, none of its lines is shown.
LEMMA HoldNext ==
    ASSUME NEW lines, Diffed(lines), NEW n \in Nat, n + 1 <= Len(lines), NEW st, NEW c,
           DiffInv(lines, n, st, c), st.pending, lines[n + 1][1] # "@@",
           NEW t \in DiffState, t.out = st.out, t.pending, t.inHunk,
           t.held = Append(st.held, lines[n + 1]) \/ (t.held = st.held /\ ~IsChange(lines, n + 1))
    PROVE  DiffInv(lines, n + 1, t, c)
<1> DEFINE l == lines[n + 1]
<1>1. /\ st.held \in Seq(Rows)
      /\ c \in Hunks(lines) /\ InHunk(lines, c, n) /\ OnlyLines(lines, n, st.out) /\ HeldBack(lines, n, st, c)
  BY DEF DiffInv, DiffState
<1>2. c \in 1 .. n /\ c \in Nat /\ c <= n /\ c \in 1 .. n + 1 /\ \A i \in c .. n + 1 : i \in c .. n \/ i = n + 1
  BY <1>1 DEF HeldBack
<1>3. PICK notice : Accounts(lines, n, st.out, {c}, notice)
  BY DEF DiffInv, StillOpen
<1>4. InHunk(lines, c, n + 1) /\ OnlyLines(lines, n + 1, st.out)
  BY <1>1, <1>2, NextInHunk, OnlyLinesNext
<1>5. Accounts(lines, n + 1, st.out, {c}, notice)
  <2>1. \A h \in Hunks(lines) \ {c} : ~InHunk(lines, h, n + 1)
    <3>1. n + 1 \in Nat
      OBVIOUS
    <3> QED BY <1>1, <1>4, <3>1, OneHunk
  <2> QED BY <1>3, <2>1, LineUnseen
<1>6. ~IsShown(st.out, l) /\ l \in Rows
  BY <1>1, NextIsNew
<1> HIDE DEF l
<1>7. /\ \A k \in 1 .. Len(t.held) : \E i \in c .. n + 1 : t.held[k] = lines[i]
      /\ \A i \in c .. n + 1 : i = c \/ IsChange(lines, i) => IsShown(t.held, lines[i])
  <2>1. /\ \A k \in 1 .. Len(st.held) : \E i \in c .. n + 1 : st.held[k] = lines[i]
        /\ \A i \in c .. n : i = c \/ IsChange(lines, i) => IsShown(st.held, lines[i])
    <3>1. \A i \in c .. n : i \in c .. n + 1
      OBVIOUS
    <3> QED BY <1>1, <3>1 DEF HeldBack
  <2>2. CASE t.held = Append(st.held, lines[n + 1])
    <3>1. /\ Len(t.held) = Len(st.held) + 1 /\ Len(st.held) \in Nat /\ t.held[Len(st.held) + 1] = lines[n + 1]
          /\ \A k \in 1 .. Len(st.held) : t.held[k] = st.held[k]
          /\ \A x : IsShown(t.held, x) <=> IsShown(st.held, x) \/ x = lines[n + 1]
      BY <1>1, <1>6, <2>2, AppendOut DEF l
    <3>2. \A k \in 1 .. Len(t.held) : k \in 1 .. Len(st.held) \/ k = Len(st.held) + 1
      BY <3>1
    <3>3. n + 1 \in c .. n + 1
      BY <1>2
    <3>4. \A k \in 1 .. Len(t.held) : \E i \in c .. n + 1 : t.held[k] = lines[i]
      BY <2>1, <3>1, <3>2, <3>3
    <3>5. \A i \in c .. n + 1 : i = c \/ IsChange(lines, i) => IsShown(t.held, lines[i])
      BY <1>2, <2>1, <3>1
    <3> QED BY <3>4, <3>5
  <2>3. CASE t.held = st.held /\ ~IsChange(lines, n + 1)
    <3>1. n + 1 # c
      BY <1>2
    <3> QED BY <1>2, <2>1, <2>3, <3>1
  <2> QED BY <2>2, <2>3
<1>8. \A i \in c .. n + 1 : ~IsShown(t.out, lines[i])
  BY <1>1, <1>2, <1>6 DEF HeldBack, l
<1>9. HeldBack(lines, n + 1, t, c)
  BY <1>2, <1>7, <1>8 DEF HeldBack
<1> QED BY <1>1, <1>4, <1>5, <1>9 DEF DiffInv, StillOpen

\* A header opens the next hunk.
LEMMA OpenNext ==
    ASSUME NEW lines, Diffed(lines), NEW n \in Nat, n + 1 <= Len(lines), NEW st, NEW c,
           DiffInv(lines, n, st, c), ~st.pending, lines[n + 1][1] = "@@", NEW t \in DiffState, t.inHunk,
           \/ t.pending /\ t.out = st.out /\ t.held = <<lines[n + 1]>>
           \/ ~t.pending /\ t.out = Append(st.out, lines[n + 1]) /\ t.held = <<>> /\ ~t.told
    PROVE  DiffInv(lines, n + 1, t, n + 1)
<1> DEFINE l == lines[n + 1]
           g == n + 1
<1>1. /\ st.out \in Seq(Rows) /\ OnlyLines(lines, n, st.out)
  BY DEF DiffInv, DiffState
<1>2. PICK notice : Accounts(lines, n, st.out, {}, notice)
  BY DEF DiffInv, StillOpen
<1>3. g \in Nat /\ g \in 1 .. g /\ g \in DOMAIN lines /\ g \in Hunks(lines) /\ InHunk(lines, g, g)
  BY LinesType DEF Hunks, InHunk
<1>4. ~IsChange(lines, g)
  BY DEF IsChange
<1>5. ~IsShown(st.out, l) /\ l \in Rows
  BY <1>1, NextIsNew
<1>6. \A out : Lost(lines, g, out, g) = {}
  <2> SUFFICES ASSUME NEW out, NEW i \in 1 .. g, InHunk(lines, g, i), IsChange(lines, i)
               PROVE  FALSE
    BY DEF Lost
  <2>1. i = g
    BY DEF InHunk
  <2> QED BY <1>4, <2>1
<1> HIDE DEF l
<1>7. CASE t.pending /\ t.out = st.out /\ t.held = <<lines[n + 1]>>
  <2>1. Accounts(lines, g, st.out, {}, notice)
    BY <1>2, <1>4, LineUnseen
  <2>2. Accounts(lines, g, st.out, {g}, notice)
    BY <1>6, <2>1, SetAside
  <2>3. Len(t.held) = 1 /\ t.held[1] = lines[g]
    BY <1>7
  <2>4. \A i \in g .. g : i = g
    OBVIOUS
  <2>5. IsShown(t.held, lines[g])
    <3>1. 1 \in 1 .. Len(t.held)
      BY <2>3
    <3> QED BY <2>3, <3>1 DEF IsShown
  <2>6. \A k \in 1 .. Len(t.held) : \E i \in g .. g : t.held[k] = lines[i]
    BY <2>3
  <2>7. \A i \in g .. g : ~IsShown(t.out, lines[i])
    BY <1>5, <1>7, <2>4 DEF l
  <2>8. HeldBack(lines, g, t, g)
    BY <1>3, <2>4, <2>5, <2>6, <2>7 DEF HeldBack
  <2>9. OnlyLines(lines, g, st.out)
    BY <1>1, OnlyLinesNext
  <2> QED BY <1>3, <1>7, <2>2, <2>8, <2>9 DEF DiffInv, StillOpen
<1>8. CASE ~t.pending /\ t.out = Append(st.out, lines[n + 1]) /\ t.held = <<>> /\ ~t.told
  <2>1. Accounts(lines, g, t.out, {}, notice)
    BY <1>1, <1>2, <1>8, LineShown
  <2>2. OnlyLines(lines, g, t.out) /\ IsShown(t.out, lines[g])
    BY <1>1, <1>8, NextInOut
  <2>3. Current(lines, g, t, g)
    BY <1>3, <1>6, <1>8, <2>2 DEF Current
  <2> QED BY <1>3, <1>8, <2>1, <2>2, <2>3 DEF DiffInv, StillOpen
<1> QED BY <1>7, <1>8

-----------------------------------------------------------------------------

\* What a line that is shown, or held back, changes of the state.
LEMMA OutState ==
    ASSUME NEW s \in DiffState, NEW x \in Rows
    PROVE  LET t == Out(s, x)
           IN  /\ t \in DiffState /\ t.out = Append(s.out, x) /\ t.held = s.held /\ (t.pending <=> s.pending)
               /\ (t.inHunk <=> s.inHunk) /\ (t.told <=> s.told) /\ SameCounters(t, s)
<1>1. s.out \in Seq(Rows)
  BY DEF DiffState
<1>2. Append(s.out, x) \in Seq(Rows)
  BY <1>1, AppendOut
<1> DEFINE new == Append(s.out, x)
<1> HIDE DEF new
<1>3. Out(s, x) = [s EXCEPT !.out = new]
  BY DEF Out, new
<1>4. new \in Seq(Rows)
  BY <1>2 DEF new
<1>5. LET t == Out(s, x)
      IN  /\ t \in DiffState /\ t.out = new /\ t.held = s.held /\ (t.pending <=> s.pending)
          /\ (t.inHunk <=> s.inHunk) /\ (t.told <=> s.told) /\ SameCounters(t, s)
  BY <1>3, <1>4 DEF DiffState, SameCounters
<1> QED BY <1>5 DEF new

\* The same for a line that is held back.
LEMMA HeldState ==
    ASSUME NEW s \in DiffState, NEW x \in Rows
    PROVE  LET t == [s EXCEPT !.held = Append(s.held, x)]
           IN  /\ t \in DiffState /\ t.out = s.out /\ t.held = Append(s.held, x) /\ (t.pending <=> s.pending)
               /\ (t.inHunk <=> s.inHunk) /\ (t.told <=> s.told) /\ SameCounters(t, s)
<1>1. s.held \in Seq(Rows)
  BY DEF DiffState
<1>2. Append(s.held, x) \in Seq(Rows)
  BY <1>1, AppendOut
<1> DEFINE new == Append(s.held, x)
<1> HIDE DEF new
<1>3. new \in Seq(Rows)
  BY <1>2 DEF new
<1>4. LET t == [s EXCEPT !.held = new]
      IN  /\ t \in DiffState /\ t.out = s.out /\ t.held = new /\ (t.pending <=> s.pending)
          /\ (t.inHunk <=> s.inHunk) /\ (t.told <=> s.told) /\ SameCounters(t, s)
  BY <1>3 DEF DiffState, SameCounters
<1> QED BY <1>4 DEF new

\* What counting changes of the state.
LEMMA CountState ==
    ASSUME NEW s \in DiffState, NEW k \in Nat
    PROVE  /\ LET t == [s EXCEPT !.adds = k]
              IN  /\ t \in DiffState /\ t.out = s.out /\ t.held = s.held
                     /\ (t.pending <=> s.pending) /\ t.mods = s.mods
                  /\ (t.inHunk <=> s.inHunk) /\ (t.told <=> s.told) /\ t.kind = s.kind /\ t.adds = k /\ t.dels = s.dels
           /\ LET t == [s EXCEPT !.dels = k]
              IN  /\ t \in DiffState /\ t.out = s.out /\ t.held = s.held
                     /\ (t.pending <=> s.pending) /\ t.mods = s.mods
                  /\ (t.inHunk <=> s.inHunk) /\ (t.told <=> s.told) /\ t.kind = s.kind /\ t.adds = s.adds /\ t.dels = k
           /\ LET t == [s EXCEPT !.mods = k]
              IN  /\ t \in DiffState /\ t.out = s.out /\ t.held = s.held /\ (t.pending <=> s.pending)
                  /\ (t.inHunk <=> s.inHunk) /\ (t.told <=> s.told) /\ SameCounters(t, s)
           /\ LET t == [s EXCEPT !.context = k]
              IN  /\ t \in DiffState /\ t.out = s.out /\ t.held = s.held /\ (t.pending <=> s.pending)
                  /\ (t.inHunk <=> s.inHunk) /\ (t.told <=> s.told) /\ SameCounters(t, s)
           /\ LET t == [s EXCEPT !.told = TRUE]
              IN  /\ t \in DiffState /\ t.out = s.out /\ t.held = s.held /\ (t.pending <=> s.pending)
                  /\ (t.inHunk <=> s.inHunk) /\ t.told /\ SameCounters(t, s)
  BY DEF DiffState, SameCounters

\* A change is shown, held back or left out, and its counters stay.
LEMMA EmitState ==
    ASSUME NEW s \in DiffState, NEW x \in Rows, MaxMods \in Nat
    PROVE  SameCounters(emitMod(s, x), s)
<1> DEFINE more == s.mods + 1
           row == <<"further", 0>>
<1>1. s.mods \in Nat /\ more \in Nat /\ row \in Rows
  BY DEF DiffState, Rows
<1>2. SameCounters([s EXCEPT !.held = Append(s.held, x)], s)
  BY HeldState
<1>3. SameCounters(Out([s EXCEPT !.mods = more], x), s)
  <2>1. [s EXCEPT !.mods = more] \in DiffState /\ SameCounters([s EXCEPT !.mods = more], s)
    BY <1>1, CountState
  <2>2. SameCounters(Out([s EXCEPT !.mods = more], x), [s EXCEPT !.mods = more])
    BY <2>1, OutState
  <2> QED BY <2>1, <2>2 DEF SameCounters
<1>4. SameCounters(Out([s EXCEPT !.told = TRUE], row), s)
  <2>1. [s EXCEPT !.told = TRUE] \in DiffState /\ SameCounters([s EXCEPT !.told = TRUE], s)
    BY <1>1, CountState
  <2>2. SameCounters(Out([s EXCEPT !.told = TRUE], row), [s EXCEPT !.told = TRUE])
    BY <1>1, <2>1, OutState
  <2> QED BY <2>1, <2>2 DEF SameCounters
<1>5. SameCounters(s, s)
  BY DEF SameCounters
<1>6. \/ emitMod(s, x) = [s EXCEPT !.held = Append(@, x)]
      \/ emitMod(s, x) = Out([s EXCEPT !.mods = @ + 1], x)
      \/ emitMod(s, x) = Out([s EXCEPT !.told = TRUE], row)
      \/ emitMod(s, x) = s
  BY <1>1 DEF emitMod
<1>7. /\ [s EXCEPT !.held = Append(@, x)] = [s EXCEPT !.held = Append(s.held, x)]
      /\ [s EXCEPT !.mods = @ + 1] = [s EXCEPT !.mods = more]
  BY DEF DiffState
<1> QED BY <1>2, <1>3, <1>4, <1>5, <1>6, <1>7

\* What a line changes of the counters.
LEMMA Counters ==
    ASSUME NEW st \in DiffState, NEW l \in DiffLines, MaxMods \in Nat
    PROVE  LET t == DiffLine(st, l)
           IN  /\ t.kind = (IF l[1] = "file" THEN "changed" ELSE IF l[1] \in {"new", "deleted"} THEN l[1] ELSE st.kind)
               /\ t.inHunk <=> \/ l[1] = "@@"
                               \/ l[1] = "binary" /\ st.inHunk /\ ~st.pending
                               \/ l[1] \notin {"file", "binary", "@@"} /\ st.inHunk
               /\ t.pending <=> \/ l[1] = "@@" /\ st.kind \in {"new", "deleted"}
                                \/ l[1] \notin {"file", "binary", "@@"} /\ st.pending
               /\ t.adds + t.dels = IF l[1] \in {"file", "binary", "@@"} /\ st.pending THEN 0
                                    ELSE IF l[1] \in {"+", "-"} /\ st.inHunk THEN st.adds + st.dels + 1
                                    ELSE st.adds + st.dels
<1> DEFINE t == DiffLine(st, l)
           f == flushHunk(st)
<1>1. st.adds \in Nat /\ st.dels \in Nat /\ l[1] \in Marks /\ l \in Rows
  BY MarksApart DEF DiffState
<1>2. /\ f \in DiffState /\ f.kind = st.kind /\ ~f.pending
      /\ f.inHunk <=> st.inHunk /\ ~st.pending
      /\ f.adds = (IF st.pending THEN 0 ELSE st.adds) /\ f.dels = (IF st.pending THEN 0 ELSE st.dels)
  BY FlushState
<1> HIDE DEF f
<1>3. CASE l[1] = "binary"
  <2>1. t = Out(f, l)
    BY <1>3 DEF DiffLine, f
  <2> HIDE DEF t
  <2>2. SameCounters(t, f)
    BY <1>1, <1>2, <2>1, OutState
  <2> QED BY <1>1, <1>2, <1>3, <2>2 DEF SameCounters, t
<1>4. CASE l[1] = "file"
  <2> DEFINE s == [f EXCEPT !.kind = "changed", !.inHunk = FALSE]
  <2>1. t = Out(s, l)
    BY <1>4 DEF DiffLine, f
  <2>2. s \in DiffState /\ s.kind = "changed" /\ ~s.inHunk /\ ~s.pending /\ s.adds = f.adds /\ s.dels = f.dels
    BY <1>2 DEF DiffState
  <2> HIDE DEF t, s
  <2>3. SameCounters(t, s)
    BY <1>1, <2>1, <2>2, OutState
  <2> QED BY <1>1, <1>2, <1>4, <2>2, <2>3 DEF SameCounters, t
<1>5. CASE l[1] = "@@"
  <2> DEFINE new == st.kind \in {"new", "deleted"}
             on == [f EXCEPT !.inHunk = TRUE, !.context = 0, !.mods = 0, !.told = FALSE, !.pending = new]
  <2>1. t = HunkHeader(st, l)
    BY <1>5 DEF DiffLine
  <2>2. t = IF on.pending THEN [on EXCEPT !.held = Append(on.held, l)] ELSE Out(on, l)
    BY <2>1 DEF HunkHeader, f
  <2>3. new \in BOOLEAN
    OBVIOUS
  <2> HIDE DEF new
  <2>4. on \in DiffState /\ on.inHunk /\ (on.pending <=> new) /\ on.kind = f.kind /\ on.adds = f.adds /\ on.dels = f.dels
    BY <1>2, <2>3 DEF DiffState
  <2> HIDE DEF on, t
  <2>5. SameCounters(t, on)
    BY <1>1, <2>2, <2>4, OutState, HeldState
  <2> QED BY <1>1, <1>2, <1>5, <2>4, <2>5 DEF SameCounters, t, new
<1>6. CASE l[1] \in {"new", "deleted"}
  <2>1. t = [st EXCEPT !.kind = l[1]]
    <3>1. l[1] # "binary" /\ l[1] # "file"
      BY <1>6
    <3> QED BY <1>6, <3>1 DEF DiffLine
  <2>2. t.kind = l[1] /\ (t.inHunk <=> st.inHunk) /\ (t.pending <=> st.pending) /\ t.adds = st.adds /\ t.dels = st.dels
    BY <2>1 DEF DiffState
  <2> HIDE DEF t
  <2> QED BY <1>1, <1>6, <2>2 DEF t
<1>7. CASE l[1] \in {"+", "-"} /\ st.inHunk
  <2>1. t = emitMod([st EXCEPT !.adds = @ + 1], l) \/ t = emitMod([st EXCEPT !.dels = @ + 1], l)
    BY <1>7 DEF DiffLine
  <2> HIDE DEF t
  <2>2. /\ [st EXCEPT !.adds = @ + 1] = [st EXCEPT !.adds = st.adds + 1] /\ st.adds + 1 \in Nat
        /\ [st EXCEPT !.dels = @ + 1] = [st EXCEPT !.dels = st.dels + 1] /\ st.dels + 1 \in Nat
    BY <1>1 DEF DiffState
  <2>3. PICK s \in DiffState : /\ t = emitMod(s, l) /\ s.kind = st.kind
                              /\ (s.inHunk <=> st.inHunk) /\ (s.pending <=> st.pending)
                              /\ \/ s.adds = st.adds + 1 /\ s.dels = st.dels
                                 \/ s.adds = st.adds /\ s.dels = st.dels + 1
    <3> DEFINE a == st.adds + 1
               b == st.dels + 1
               p == [st EXCEPT !.adds = a]
               q == [st EXCEPT !.dels = b]
    <3>1. (t = emitMod(p, l) \/ t = emitMod(q, l)) /\ a \in Nat /\ b \in Nat
      BY <2>1, <2>2
    <3> HIDE DEF a, b
    <3>2. /\ p \in DiffState /\ p.kind = st.kind /\ (p.inHunk <=> st.inHunk) /\ (p.pending <=> st.pending)
          /\ p.adds = a /\ p.dels = st.dels
      BY <3>1, CountState
    <3>3. /\ q \in DiffState /\ q.kind = st.kind /\ (q.inHunk <=> st.inHunk) /\ (q.pending <=> st.pending)
          /\ q.adds = st.adds /\ q.dels = b
      BY <3>1, CountState
    <3> HIDE DEF p, q
    <3> QED BY <3>1, <3>2, <3>3 DEF a, b
  <2>4. SameCounters(t, s)
    BY <1>1, <2>3, EmitState
  <2>5. t.kind = st.kind /\ (t.inHunk <=> st.inHunk) /\ (t.pending <=> st.pending)
        /\ t.adds + t.dels = st.adds + st.dels + 1
    BY <1>1, <2>3, <2>4 DEF SameCounters
  <2>6. l[1] \notin {"file", "new", "deleted", "binary", "@@"}
    BY <1>7
  <2> QED BY <1>7, <2>5, <2>6 DEF t
<1>8. CASE \/ l[1] \in {"meta", "--", "++", "same", "noEol", "other"}
           \/ l[1] \in {"+", "-"} /\ ~st.inHunk
  <2>1. \/ t = st \/ t = Out(st, l) \/ t = [st EXCEPT !.held = Append(st.held, l)]
        \/ t = Out([st EXCEPT !.context = st.context + 1], l)
    <3>1. [st EXCEPT !.held = Append(@, l)] = [st EXCEPT !.held = Append(st.held, l)]
          /\ [st EXCEPT !.context = @ + 1] = [st EXCEPT !.context = st.context + 1]
      BY DEF DiffState
    <3>2. l[1] \notin {"file", "new", "deleted", "binary", "@@"}
      BY <1>8
    <3>3. CASE l[1] \in {"meta", "--", "++"}
      BY <3>2, <3>3 DEF DiffLine
    <3>4. CASE l[1] \in {"same", "noEol", "other", "+", "-"} /\ ~st.inHunk
      BY <3>2, <3>4 DEF DiffLine
    <3>5. CASE l[1] \in {"noEol", "other"} /\ st.inHunk
      BY <3>1, <3>2, <3>5 DEF DiffLine
    <3>6. CASE l[1] = "same" /\ st.inHunk
      BY <3>1, <3>2, <3>6 DEF DiffLine
    <3> QED BY <1>8, <3>3, <3>4, <3>5, <3>6
  <2> HIDE DEF t
  <2>2. SameCounters(st, st)
    BY DEF SameCounters
  <2>3. SameCounters(Out([st EXCEPT !.context = st.context + 1], l), st)
    <3>1. st.context + 1 \in Nat
      BY DEF DiffState
    <3>2. /\ [st EXCEPT !.context = st.context + 1] \in DiffState
          /\ SameCounters([st EXCEPT !.context = st.context + 1], st)
      BY <3>1, CountState
    <3>3. SameCounters(Out([st EXCEPT !.context = st.context + 1], l), [st EXCEPT !.context = st.context + 1])
      BY <1>1, <3>2, OutState
    <3> QED BY <3>2, <3>3 DEF SameCounters
  <2>4. SameCounters(t, st)
    BY <1>1, <2>1, <2>2, <2>3, OutState, HeldState
  <2>5. l[1] \notin {"file", "new", "deleted", "binary", "@@"}
    BY <1>8
  <2> QED BY <1>1, <1>8, <2>4, <2>5 DEF SameCounters, t
<1>9. \/ l[1] \in {"binary", "file", "@@"} \/ l[1] \in {"new", "deleted"} \/ l[1] \in {"+", "-"}
      \/ l[1] \in {"meta", "--", "++", "same", "noEol", "other"}
  BY <1>1 DEF Marks
<1> QED BY <1>3, <1>4, <1>5, <1>6, <1>7, <1>8, <1>9

\* Every line keeps the counts.
LEMMA CountStep ==
    ASSUME NEW lines, Diffed(lines), NEW n \in Nat, n + 1 <= Len(lines), MaxMods \in Nat,
           NEW st \in DiffState, NEW c, CountInv(lines, n, st, c)
    PROVE  CountInv(lines, n + 1, DiffLine(st, lines[n + 1]), IF lines[n + 1][1] = "@@" THEN n + 1 ELSE c)
<1> DEFINE l == lines[n + 1]
           mark == l[1]
           t == DiffLine(st, l)
           d == IF mark = "@@" THEN n + 1 ELSE c
<1>1. n + 1 \in 1 .. Len(lines) /\ l \in DiffLines /\ n + 1 \in Nat /\ (n + 1) - 1 = n
      /\ mark \in Marks
  BY LinesType DEF DiffLines
<1>2. /\ t.kind = (IF mark = "file" THEN "changed" ELSE IF mark \in {"new", "deleted"} THEN mark ELSE st.kind)
      /\ t.inHunk <=> \/ mark = "@@"
                      \/ mark = "binary" /\ st.inHunk /\ ~st.pending
                      \/ mark \notin {"file", "binary", "@@"} /\ st.inHunk
      /\ t.pending <=> \/ mark = "@@" /\ st.kind \in {"new", "deleted"}
                       \/ mark \notin {"file", "binary", "@@"} /\ st.pending
      /\ t.adds + t.dels = IF mark \in {"file", "binary", "@@"} /\ st.pending THEN 0
                           ELSE IF mark \in {"+", "-"} /\ st.inHunk THEN st.adds + st.dels + 1
                           ELSE st.adds + st.dels
  BY <1>1, Counters
<1>3. /\ c \in Hunks(lines) /\ c \in Nat /\ InHunk(lines, c, n) /\ c <= n
      /\ st.kind \in {"new", "deleted"} <=> FileIsNew(lines, n)
      /\ n >= 1 /\ lines[n][1] \in HunkLines \cup {"@@"} => st.inHunk
      /\ st.inHunk => c # 0 /\ (st.pending <=> Collapsible(lines, c))
      /\ st.pending => st.inHunk
      /\ st.adds + st.dels = Cardinality(Kept(lines, n, IF st.pending THEN c - 1 ELSE c))
  BY LinesType DEF CountInv, InHunk
<1>4. IsChange(lines, n + 1) <=> mark \in {"+", "-"}
  BY DEF IsChange
<1> HIDE DEF t
<1>5. d \in Hunks(lines) /\ d \in Nat /\ InHunk(lines, d, n + 1)
  <2>1. CASE mark = "@@"
    BY <1>1, <2>1, LinesType DEF Hunks, InHunk
  <2>2. CASE mark # "@@"
    BY <1>3, <2>2, NextInHunk
  <2> QED BY <2>1, <2>2
<1>6. mark \in HunkLines => st.inHunk
  <2> SUFFICES ASSUME mark \in HunkLines PROVE st.inHunk
    OBVIOUS
  <2>1. PICK g \in 1 .. n : lines[g][1] = "@@" /\ \A j \in g + 1 .. n + 1 : lines[j][1] \in HunkLines
    BY <1>1, LinesType DEF Diffed, AsDiffed
  <2>2. n >= 1 /\ (n = g \/ n \in g + 1 .. n + 1)
    BY <2>1
  <2>3. lines[n][1] \in HunkLines \cup {"@@"}
    BY <2>1, <2>2
  <2> QED BY <1>3, <2>2, <2>3
<1>7. FileIsNew(lines, n + 1) <=> mark \in {"new", "deleted"} \/ (mark # "file" /\ FileIsNew(lines, n))
  BY FileIsNewNext
<1>8. t.kind \in {"new", "deleted"} <=> FileIsNew(lines, n + 1)
  BY <1>2, <1>3, <1>7
<1>9. mark \in HunkLines \cup {"@@"} => t.inHunk
  BY <1>2, <1>6 DEF HunkLines
<1>10. Collapsible(lines, n + 1) <=> mark = "@@" /\ FileIsNew(lines, n)
  BY <1>1 DEF Collapsible, FileIsNew
<1>11. t.inHunk => d # 0 /\ (t.pending <=> Collapsible(lines, d))
  <2>1. CASE mark = "@@"
    BY <1>1, <1>2, <1>3, <1>10, <2>1
  <2>2. CASE mark # "@@"
    BY <1>2, <1>3, <2>2
  <2> QED BY <2>1, <2>2
<1>12. t.pending => t.inHunk
  BY <1>2, <1>3
<1> HIDE DEF l
<1> DEFINE m == IF st.pending THEN c - 1 ELSE c
           after == IF t.pending THEN d - 1 ELSE d
<1>13. CASE mark \in {"+", "-"}
  <2>1. st.inHunk /\ d = c /\ after = m /\ t.adds + t.dels = st.adds + st.dels + 1
    BY <1>2, <1>6, <1>13 DEF HunkLines
  <2>2. \A k \in c .. m : k # 0 => ~Collapsible(lines, k)
    BY <1>3, <2>1
  <2> HIDE DEF m, after, d
  <2>3. Cardinality(Kept(lines, n + 1, m)) = Cardinality(Kept(lines, n, m)) + 1
    BY <1>3, <1>4, <1>5, <1>13, <2>1, <2>2, KeptNext DEF l
  <2>4. t.adds + t.dels = Cardinality(Kept(lines, n + 1, after))
    BY <1>3, <2>1, <2>3 DEF m
  <2> QED BY <1>5, <1>8, <1>9, <1>11, <1>12, <2>4 DEF CountInv, after, t, l, d
<1>14. CASE mark \notin {"+", "-"}
  <2>1. \A x : Kept(lines, n + 1, x) = Kept(lines, n, x)
    <3> SUFFICES ASSUME NEW x PROVE Kept(lines, n + 1, x) = Kept(lines, n, x)
      OBVIOUS
    <3>1. ~IsChange(lines, n + 1)
      BY <1>4, <1>14 DEF l
    <3> HIDE DEF d
    <3> QED BY <1>5, <3>1, KeptNext
  <2>2. Cardinality(Kept(lines, n, after)) = t.adds + t.dels
    <3>1. CASE mark \notin {"file", "binary", "@@"}
      <4>1. d = c /\ after = m /\ t.adds + t.dels = st.adds + st.dels
        BY <1>2, <1>14, <3>1
      <4> QED BY <1>3, <4>1 DEF m
    <3>2. CASE mark \in {"file", "binary"}
      <4>1. after = c /\ t.adds + t.dels = IF st.pending THEN 0 ELSE st.adds + st.dels
        BY <1>2, <1>14, <3>2
      <4> QED BY <4>1, CountFlushed
    <3>3. CASE mark = "@@"
      <4>1. t.adds + t.dels = (IF st.pending THEN 0 ELSE st.adds + st.dels) /\ d = n + 1 /\ t.inHunk
        BY <1>2, <1>14, <3>3
      <4>2. after \in Nat /\ c <= after /\ after <= n + 1 /\ (after = n + 1 => ~Collapsible(lines, n + 1))
        BY <1>3, <1>11, <4>1
      <4> HIDE DEF after, d
      <4>3. \A k \in c + 1 .. after : ~Collapsible(lines, k)
        <5>1. \A k \in c + 1 .. n : ~Collapsible(lines, k)
          BY <1>3 DEF InHunk, Collapsible
        <5>2. \A k \in c + 1 .. after : k \in c + 1 .. n \/ (k = n + 1 /\ after = n + 1)
          BY <1>3, <4>2
        <5> QED BY <4>2, <5>1, <5>2
      <4>4. ASSUME NEW i \in 1 .. n, NEW g \in Hunks(lines), InHunk(lines, g, i)
            PROVE  (\A k \in g .. after : k # 0 => ~Collapsible(lines, k))
                       <=> (\A k \in g .. c : k # 0 => ~Collapsible(lines, k))
        <5>1. g <= c /\ g \in Nat
          BY <1>3, <4>4, HunksSoFar, LinesType
        <5>2. \A k \in g .. after : k \in g .. c \/ k \in c + 1 .. after
          BY <1>3, <4>2, <5>1
        <5>3. \A k \in g .. c : k \in g .. after
          BY <1>3, <4>2, <5>1
        <5> QED BY <4>3, <5>2, <5>3
      <4>5. Kept(lines, n, after) = Kept(lines, n, c)
        BY <4>4 DEF Kept
      <4> QED BY <4>1, <4>5, CountFlushed
    <3> QED BY <3>1, <3>2, <3>3
  <2>3. t.adds + t.dels = Cardinality(Kept(lines, n + 1, after))
    BY <2>1, <2>2
  <2> HIDE DEF d
  <2> QED BY <1>5, <1>8, <1>9, <1>11, <1>12, <2>3 DEF CountInv, after, t, l, d
<1> QED BY <1>13, <1>14

\* Every line keeps the account of what is shown.
LEMMA ShownStep ==
    ASSUME NEW lines, Diffed(lines), NEW n \in Nat, n + 1 <= Len(lines), MaxMods \in Nat, NEW st, NEW c,
           DiffInv(lines, n, st, c), CountInv(lines, n, st, c)
    PROVE  \E d : DiffInv(lines, n + 1, DiffLine(st, lines[n + 1]), d)
<1> DEFINE l == lines[n + 1]
           t == DiffLine(st, l)
<1>1. /\ st \in DiffState /\ l[1] \in Marks /\ l \in Rows /\ n <= Len(lines)
      /\ ~st.pending => st.held = <<>>
      /\ st.pending => st.inHunk
  BY LinesType DEF DiffInv, HeldBack
<1>2. /\ st.out \in Seq(Rows) /\ st.held \in Seq(Rows) /\ st.adds \in Nat /\ st.dels \in Nat /\ st.mods \in Nat
      /\ st.context \in Nat /\ st.pending \in BOOLEAN /\ st.told \in BOOLEAN /\ st.inHunk \in BOOLEAN
      /\ st.kind \in {"changed", "new", "deleted"}
  BY <1>1 DEF DiffState
<1>3. /\ Append(st.out, l) \in Seq(Rows) /\ Append(st.held, l) \in Seq(Rows)
      /\ Append(st.out, <<"further", 0>>) \in Seq(Rows)
  <2>1. <<"further", 0>> \in Rows
    BY DEF Rows
  <2> QED BY <1>1, <1>2, <2>1, AppendOut
<1>4. IsChange(lines, n + 1) <=> l[1] \in {"+", "-"}
  BY DEF IsChange
<1>5. CASE l[1] \in {"binary", "file", "@@"}
  <2> DEFINE f == flushHunk(st)
  <2>0. n < Len(lines) => lines[n + 1][1] \notin HunkLines
    BY <1>5 DEF HunkLines
  <2>1. st.pending => /\ \E i \in c .. n : IsChange(lines, i)
                      /\ st.adds + st.dels = Cardinality(CountedFor(lines, c))
    BY <1>1, <2>0, HasChange, CountedWhole
  <2>2. DiffInv(lines, n, f, c) /\ ~f.pending
    BY <1>1, <2>1, Flushed
  <2> HIDE DEF f
  <2>3. /\ f \in DiffState /\ f.out \in Seq(Rows) /\ f.held = <<>> /\ Append(f.out, l) \in Seq(Rows)
    <3>1. f \in DiffState /\ f.held = <<>>
      BY <2>2 DEF DiffInv
    <3>2. f.out \in Seq(Rows)
      BY <3>1 DEF DiffState
    <3> QED BY <1>1, <3>1, <3>2, AppendOut
  <2> HIDE DEF l
  <2>4. CASE l[1] = "binary"
    <3>1. t = [f EXCEPT !.out = Append(f.out, l)]
      BY <2>4 DEF DiffLine, Out, f
    <3>2. t \in DiffState /\ t.out = Append(f.out, l) /\ t.held = <<>>
          /\ ~t.pending /\ (t.inHunk <=> f.inHunk) /\ (t.told <=> f.told)
      BY <2>2, <2>3, <3>1 DEF DiffState
    <3> HIDE DEF t
    <3>3. DiffInv(lines, n + 1, t, c)
      BY <2>2, <2>4, <3>2, ShowNext DEF l
    <3> QED BY <3>3 DEF t, l
  <2>5. CASE l[1] = "file"
    <3>1. t = [f EXCEPT !.kind = "changed", !.inHunk = FALSE, !.out = Append(f.out, l)]
      BY <2>3, <2>5 DEF DiffLine, Out, f, DiffState
    <3>2. t \in DiffState /\ t.out = Append(f.out, l) /\ t.held = <<>>
          /\ ~t.pending /\ ~t.inHunk /\ (t.told <=> f.told)
      BY <2>2, <2>3, <3>1 DEF DiffState
    <3> HIDE DEF t
    <3>3. DiffInv(lines, n + 1, t, c)
      BY <2>2, <2>5, <3>2, ShowNext DEF l
    <3> QED BY <3>3 DEF t, l
  <2>6. CASE l[1] = "@@"
    <3> DEFINE held == st.kind \in {"new", "deleted"}
               on == [f EXCEPT !.inHunk = TRUE, !.context = 0, !.mods = 0, !.told = FALSE, !.pending = held]
    <3>0. held \in BOOLEAN
      OBVIOUS
    <3>1. t = HunkHeader(st, l)
      BY <2>6 DEF DiffLine
    <3>2. t = IF on.pending THEN [on EXCEPT !.held = Append(on.held, l)] ELSE Out(on, l)
      BY <3>1 DEF HunkHeader, f
    <3> HIDE DEF held
    <3>3. on \in DiffState /\ on.inHunk /\ on.out = f.out /\ on.held = <<>> /\ ~on.told
      BY <2>3, <3>0 DEF DiffState
    <3> HIDE DEF on, t
    <3>4. /\ t \in DiffState /\ t.inHunk
          /\ \/ t.pending /\ t.out = f.out /\ t.held = <<l>>
             \/ ~t.pending /\ t.out = Append(f.out, l) /\ t.held = <<>> /\ ~t.told
      <4>1. CASE on.pending
        <5>1. Append(<<>>, l) = <<l>>
          OBVIOUS
        <5>2. t = [on EXCEPT !.held = Append(on.held, l)]
          BY <3>2, <4>1
        <5>3. t \in DiffState /\ t.out = on.out /\ t.held = Append(on.held, l) /\ t.pending /\ t.inHunk
          BY <1>1, <3>3, <4>1, <5>2, HeldState
        <5> QED BY <3>3, <5>1, <5>3
      <4>2. CASE ~on.pending
        <5>1. t = Out(on, l)
          BY <3>2, <4>2
        <5>2. /\ Out(on, l) \in DiffState /\ Out(on, l).out = Append(on.out, l)
              /\ Out(on, l).held = on.held /\ (Out(on, l).pending <=> on.pending)
              /\ (Out(on, l).inHunk <=> on.inHunk) /\ (Out(on, l).told <=> on.told)
          BY <1>1, <3>3, OutState, Zenon
        <5>3. t.out = Append(f.out, l) /\ t.held = <<>>
          BY <3>3, <5>1, <5>2
        <5>4. t \in DiffState /\ t.inHunk /\ ~t.pending /\ ~t.told
          BY <3>3, <4>2, <5>1, <5>2, Zenon
        <5> QED BY <5>3, <5>4
      <4> QED BY <4>1, <4>2
    <3>5. DiffInv(lines, n + 1, t, n + 1)
      BY <2>2, <2>6, <3>4, OpenNext DEF l
    <3> QED BY <3>5 DEF t, l
  <2> QED BY <1>5, <2>4, <2>5, <2>6
<1>6. CASE l[1] \in {"new", "deleted", "meta", "--", "++"}
  <2> HIDE DEF l
  <2>1. t = st \/ (t = [st EXCEPT !.kind = l[1]] /\ l[1] \in {"new", "deleted"})
    <3>1. CASE l[1] \in {"new", "deleted"}
      <4>1. l[1] # "binary" /\ l[1] # "file"
        BY <3>1
      <4> QED BY <3>1, <4>1 DEF DiffLine
    <3>2. CASE l[1] \in {"meta", "--", "++"}
      <4>1. l[1] # "binary" /\ l[1] # "file" /\ l[1] \notin {"new", "deleted", "+", "-", "same"} /\ l[1] # "@@"
        BY <3>2
      <4>2. DiffLine(st, l) = st
        BY <3>2, <4>1 DEF DiffLine
      <4> QED BY <4>2
    <3> QED BY <1>6, <3>1, <3>2
  <2>2. /\ t \in DiffState /\ t.out = st.out /\ t.held = st.held /\ (t.pending <=> st.pending)
        /\ (t.inHunk <=> st.inHunk) /\ (t.told <=> st.told)
    BY <1>1, <2>1 DEF DiffState
  <2>3. ~IsChange(lines, n + 1) /\ l[1] # "@@"
    BY <1>4, <1>6 DEF l
  <2> HIDE DEF t
  <2>4. CASE st.pending
    <3>1. t.pending /\ t.inHunk
      BY <1>1, <2>2, <2>4
    <3>2. DiffInv(lines, n + 1, t, c)
      BY <2>2, <2>3, <2>4, <3>1, HoldNext DEF l
    <3> QED BY <3>2 DEF t, l
  <2>5. CASE ~st.pending
    <3>1. DiffInv(lines, n + 1, t, c)
      BY <1>1, <2>2, <2>3, <2>5, SkipNext DEF l
    <3> QED BY <3>1 DEF t, l
  <2> QED BY <2>4, <2>5
<1>7. CASE l[1] \in {"+", "-", "same", "noEol", "other"} /\ ~st.inHunk
  <2> HIDE DEF l
  <2>1. t = [st EXCEPT !.out = Append(st.out, l)]
    BY <1>7 DEF DiffLine, Out
  <2>2. t \in DiffState /\ t.out = Append(st.out, l) /\ t.held = <<>>
        /\ ~t.pending /\ ~t.inHunk /\ (t.told <=> st.told) /\ ~st.pending
    BY <1>1, <1>3, <1>7, <2>1 DEF DiffState
  <2>3. l[1] # "@@"
    BY <1>7
  <2> HIDE DEF t
  <2>4. DiffInv(lines, n + 1, t, c)
    BY <2>2, <2>3, ShowNext DEF l
  <2> QED BY <2>4 DEF t, l
<1>8. CASE l[1] \in {"+", "-"} /\ st.inHunk
  <2> HIDE DEF l
  <2>1. PICK s \in DiffState : /\ t = emitMod(s, l)
                              /\ s.out = st.out /\ s.held = st.held /\ (s.pending <=> st.pending)
                              /\ (s.inHunk <=> st.inHunk) /\ (s.told <=> st.told) /\ s.mods = st.mods
    <3>1. t = emitMod([st EXCEPT !.adds = @ + 1], l) \/ t = emitMod([st EXCEPT !.dels = @ + 1], l)
      BY <1>8 DEF DiffLine
    <3> HIDE DEF t
    <3>2. [st EXCEPT !.adds = @ + 1] = [st EXCEPT !.adds = st.adds + 1] /\ st.adds + 1 \in Nat
      BY <1>2
    <3>3. [st EXCEPT !.dels = @ + 1] = [st EXCEPT !.dels = st.dels + 1] /\ st.dels + 1 \in Nat
      BY <1>2
    <3> DEFINE a == st.adds + 1
               b == st.dels + 1
               p == [st EXCEPT !.adds = a]
               q == [st EXCEPT !.dels = b]
    <3>4. (t = emitMod(p, l) \/ t = emitMod(q, l)) /\ a \in Nat /\ b \in Nat
      BY <3>1, <3>2, <3>3
    <3> HIDE DEF a, b
    <3>5. /\ p \in DiffState /\ p.out = st.out /\ p.held = st.held /\ (p.pending <=> st.pending)
          /\ (p.inHunk <=> st.inHunk) /\ (p.told <=> st.told) /\ p.mods = st.mods
      BY <1>1, <3>4, CountState
    <3>6. /\ q \in DiffState /\ q.out = st.out /\ q.held = st.held /\ (q.pending <=> st.pending)
          /\ (q.inHunk <=> st.inHunk) /\ (q.told <=> st.told) /\ q.mods = st.mods
      BY <1>1, <3>4, CountState
    <3> HIDE DEF p, q
    <3> QED BY <3>4, <3>5, <3>6
  <2>2. IsChange(lines, n + 1) /\ l[1] # "@@"
    BY <1>4, <1>8 DEF l
  <2> HIDE DEF t
  <2>9. (s.pending <=> st.pending) /\ (s.told <=> st.told) /\ s.inHunk
    BY <1>8, <2>1
  <2>3. CASE s.pending
    <3>1. t = [s EXCEPT !.held = Append(s.held, l)]
      BY <2>1, <2>3 DEF emitMod
    <3>2. t \in DiffState /\ t.out = st.out /\ t.held = Append(st.held, l) /\ t.pending /\ t.inHunk
      <4>1. /\ t \in DiffState /\ t.out = s.out /\ t.held = Append(s.held, l)
            /\ (t.pending <=> s.pending) /\ (t.inHunk <=> s.inHunk)
        BY <1>1, <3>1, HeldState
      <4> QED BY <2>1, <2>3, <2>9, <4>1
    <3>3. st.pending
      BY <2>3, <2>9
    <3>4. DiffInv(lines, n + 1, t, c)
      BY <2>2, <3>2, <3>3, HoldNext DEF l
    <3> QED BY <3>4 DEF t, l
  <2>4. CASE ~s.pending /\ s.mods < MaxMods
    <3> DEFINE k == s.mods + 1
               r == [s EXCEPT !.mods = k]
    <3>0. k \in Nat
      BY <1>2, <2>1
    <3>1. t = Out(r, l)
      <4>1. ~(s.mods >= MaxMods)
        BY <1>2, <2>1, <2>4
      <4>2. emitMod(s, l) = Out([s EXCEPT !.mods = @ + 1], l)
        BY <2>4, <4>1 DEF emitMod
      <4> QED BY <2>1, <4>2
    <3> HIDE DEF k
    <3>2. /\ r \in DiffState /\ r.out = st.out /\ r.held = <<>> /\ ~r.pending /\ r.inHunk /\ (r.told <=> st.told)
          /\ ~st.pending
      BY <1>1, <2>1, <2>4, <2>9, <3>0 DEF DiffState
    <3> HIDE DEF r
    <3>4. t \in DiffState /\ t.out = Append(st.out, l) /\ t.held = <<>>
          /\ ~t.pending /\ t.inHunk /\ (t.told <=> st.told)
      <4>1. /\ t \in DiffState /\ t.out = Append(r.out, l) /\ t.held = r.held
            /\ (t.pending <=> r.pending) /\ (t.inHunk <=> r.inHunk) /\ (t.told <=> r.told)
        BY <1>1, <3>1, <3>2, OutState
      <4> QED BY <3>2, <4>1
    <3>3. DiffInv(lines, n + 1, t, c)
      BY <1>8, <2>2, <3>2, <3>4, ShowNext DEF l
    <3> QED BY <3>3 DEF t, l
  <2>5. CASE ~s.pending /\ s.mods >= MaxMods
    <3> DEFINE r == [s EXCEPT !.told = TRUE]
    <3>1. ~(s.mods < MaxMods) /\ ~st.pending /\ st.held = <<>>
      BY <1>1, <1>2, <2>1, <2>5, <2>9
    <3>2. /\ t \in DiffState /\ t.held = <<>> /\ ~t.pending /\ t.told
          /\ \/ st.told /\ t.out = st.out
             \/ ~st.told /\ t.out = Append(st.out, <<"further", 0>>)
      <4>1. CASE ~s.told
        <5>1. t = Out(r, <<"further", 0>>)
          BY <2>1, <2>5, <3>1, <4>1 DEF emitMod
        <5>2. r \in DiffState /\ r.out = st.out /\ r.held = <<>> /\ ~r.pending /\ r.told /\ ~st.told
          BY <2>1, <2>5, <2>9, <3>1, <4>1, CountState
        <5>3. <<"further", 0>> \in Rows
          BY DEF Rows
        <5> HIDE DEF r
        <5>4. t \in DiffState /\ t.out = Append(r.out, <<"further", 0>>)
              /\ t.held = r.held /\ ~t.pending /\ t.told
          BY <5>1, <5>2, <5>3, OutState
        <5> QED BY <5>2, <5>4
      <4>2. CASE s.told
        <5>1. t = s
          BY <2>1, <2>5, <3>1, <4>2 DEF emitMod
        <5> QED BY <2>1, <2>5, <2>9, <3>1, <4>2, <5>1
      <4> QED BY <4>1, <4>2
    <3>3. DiffInv(lines, n + 1, t, c)
      BY <1>8, <2>2, <3>1, <3>2, HideNext DEF l
    <3> QED BY <3>3 DEF t, l
  <2>6. s.mods < MaxMods \/ s.mods >= MaxMods
    BY <1>2, <2>1
  <2> QED BY <2>3, <2>4, <2>5, <2>6
<1>9. CASE l[1] = "same" /\ st.inHunk
  <2> HIDE DEF l
  <2>1. ~IsChange(lines, n + 1) /\ l[1] # "@@"
    BY <1>4, <1>9 DEF l
  <2>2. CASE st.pending
    <3>1. t = [st EXCEPT !.held = Append(st.held, l)]
      BY <1>9, <2>2 DEF DiffLine
    <3> HIDE DEF t
    <3>2. t \in DiffState /\ t.out = st.out /\ t.held = Append(st.held, l) /\ t.pending /\ t.inHunk
      BY <1>1, <1>9, <2>2, <3>1, HeldState
    <3>3. DiffInv(lines, n + 1, t, c)
      BY <2>1, <2>2, <3>2, HoldNext DEF l
    <3> QED BY <3>3 DEF t, l
  <2>3. CASE ~st.pending /\ st.context < 3
    <3> DEFINE k == st.context + 1
               r == [st EXCEPT !.context = k]
    <3>0. k \in Nat
      BY <1>2
    <3>1. t = Out(r, l)
      BY <1>1, <1>9, <2>3 DEF DiffLine
    <3> HIDE DEF k
    <3>4. r \in DiffState /\ r.out = st.out /\ r.held = <<>>
          /\ ~r.pending /\ (r.inHunk <=> st.inHunk) /\ (r.told <=> st.told)
      BY <1>1, <2>3, <3>0 DEF DiffState
    <3> HIDE DEF r, t
    <3>2. t \in DiffState /\ t.out = Append(st.out, l) /\ t.held = <<>>
          /\ ~t.pending /\ (t.inHunk <=> st.inHunk) /\ (t.told <=> st.told)
      <4>1. /\ t \in DiffState /\ t.out = Append(r.out, l) /\ t.held = r.held
            /\ (t.pending <=> r.pending) /\ (t.inHunk <=> r.inHunk) /\ (t.told <=> r.told)
        BY <1>1, <3>1, <3>4, OutState
      <4> QED BY <3>4, <4>1
    <3>3. DiffInv(lines, n + 1, t, c)
      BY <2>1, <2>3, <3>2, ShowNext DEF l
    <3> QED BY <3>3 DEF t, l
  <2>4. CASE ~st.pending /\ ~(st.context < 3)
    <3>1. t = st
      BY <1>9, <2>4 DEF DiffLine
    <3> HIDE DEF t
    <3>2. DiffInv(lines, n + 1, t, c)
      BY <1>1, <2>1, <2>4, <3>1, SkipNext DEF l
    <3> QED BY <3>2 DEF t, l
  <2> QED BY <2>2, <2>3, <2>4
<1>10. CASE l[1] \in {"noEol", "other"} /\ st.inHunk
  <2> HIDE DEF l
  <2>1. ~IsChange(lines, n + 1) /\ l[1] # "@@"
    BY <1>4, <1>10 DEF l
  <2>2. CASE st.pending
    <3>1. t = [st EXCEPT !.held = Append(st.held, l)]
      BY <1>10, <2>2 DEF DiffLine
    <3> HIDE DEF t
    <3>2. t \in DiffState /\ t.out = st.out /\ t.held = Append(st.held, l) /\ t.pending /\ t.inHunk
      BY <1>1, <1>10, <2>2, <3>1, HeldState
    <3>3. DiffInv(lines, n + 1, t, c)
      BY <2>1, <2>2, <3>2, HoldNext DEF l
    <3> QED BY <3>3 DEF t, l
  <2>3. CASE ~st.pending
    <3>1. t = Out(st, l)
      BY <1>10, <2>3 DEF DiffLine
    <3> HIDE DEF t
    <3>2. t \in DiffState /\ t.out = Append(st.out, l) /\ t.held = <<>>
          /\ ~t.pending /\ (t.inHunk <=> st.inHunk) /\ (t.told <=> st.told)
      BY <1>1, <2>3, <3>1, OutState
    <3>3. DiffInv(lines, n + 1, t, c)
      BY <2>1, <2>3, <3>2, ShowNext DEF l
    <3> QED BY <3>3 DEF t, l
  <2> QED BY <2>2, <2>3
<1>11. \/ l[1] \in {"binary", "file", "@@"} \/ l[1] \in {"new", "deleted", "meta", "--", "++"}
       \/ l[1] \in {"+", "-"} \/ l[1] = "same" \/ l[1] \in {"noEol", "other"}
  BY <1>1 DEF Marks
<1> QED BY <1>2, <1>5, <1>6, <1>7, <1>8, <1>9, <1>10, <1>11

\* Every line keeps both accounts.
LEMMA DiffStep ==
    ASSUME NEW lines, Diffed(lines), NEW n \in Nat, n + 1 <= Len(lines), MaxMods \in Nat, NEW st, NEW c,
           DiffBoth(lines, n, st, c)
    PROVE  \E d : DiffBoth(lines, n + 1, DiffLine(st, lines[n + 1]), d)
<1> DEFINE t == DiffLine(st, lines[n + 1])
           e == IF lines[n + 1][1] = "@@" THEN n + 1 ELSE c
<1>1. PICK d : DiffInv(lines, n + 1, t, d)
  BY ShownStep DEF DiffBoth
<1>2. st \in DiffState /\ t \in DiffState /\ d \in Hunks(lines) /\ InHunk(lines, d, n + 1)
  BY <1>1 DEF DiffBoth, DiffInv
<1> HIDE DEF e
<1>3. CountInv(lines, n + 1, t, e)
  BY <1>2, CountStep DEF DiffBoth, e
<1>4. e \in Hunks(lines) /\ InHunk(lines, e, n + 1) /\ n + 1 \in Nat
  BY <1>3 DEF CountInv
<1>5. d = e
  BY <1>2, <1>4, OneHunk
<1> QED BY <1>1, <1>3, <1>5 DEF DiffBoth

DiffStart == [out |-> <<>>, held |-> <<>>, kind |-> "changed", pending |-> FALSE, inHunk |-> FALSE,
              adds |-> 0, dels |-> 0, context |-> 0, mods |-> 0, told |-> FALSE]

\* Before the first line nothing is hidden.
LEMMA StartAccounts ==
    ASSUME NEW lines
    PROVE  DiffBoth(lines, 0, DiffStart, 0)
<1>1. DiffStart \in DiffState
  BY DEF DiffStart, DiffState
<1>2. /\ DiffStart.out = <<>> /\ DiffStart.held = <<>> /\ ~DiffStart.pending /\ ~DiffStart.inHunk
      /\ Len(<<>>) = 0 /\ DOMAIN <<>> = {} /\ 1 .. 0 = {}
  BY DEF DiffStart
<1>3. 0 \in Hunks(lines) /\ InHunk(lines, 0, 0)
  BY DEF Hunks, InHunk
<1>4. OnlyLines(lines, 0, <<>>)
  BY <1>2 DEF OnlyLines
<1>5. Hiding(lines, 0, <<>>, {}) = {} /\ Notices(<<>>) = {}
  BY <1>2 DEF Hiding, Lost, Notices
<1> DEFINE none == [h \in {} |-> h]
<1>6. none \in Bijection({}, {})
  BY DEF Bijection, Injection, Surjection, IsInjective
<1>7. Accounts(lines, 0, <<>>, {}, none)
  BY <1>5, <1>6 DEF Accounts
<1> HIDE DEF none
<1>8. DiffInv(lines, 0, DiffStart, 0)
  BY <1>1, <1>2, <1>3, <1>4, <1>7 DEF DiffInv, StillOpen
<1>9. Kept(lines, 0, 0) = {} /\ ~FileIsNew(lines, 0)
  BY <1>2 DEF Kept, FileIsNew
<1>10. DiffStart.kind = "changed" /\ DiffStart.adds + DiffStart.dels = 0
  BY DEF DiffStart
<1>11. CountInv(lines, 0, DiffStart, 0)
  <2>1. DiffStart.kind \notin {"new", "deleted"} /\ ~(0 >= 1)
    BY <1>10
  <2>2. Cardinality(Kept(lines, 0, IF DiffStart.pending THEN 0 - 1 ELSE 0)) = 0
    BY <1>2, <1>9, FS_EmptySet
  <2> QED BY <1>2, <1>3, <1>9, <1>10, <2>1, <2>2 DEF CountInv
<1> QED BY <1>8, <1>11 DEF DiffBoth

\* So every state between two lines does.
LEMMA DiffRun ==
    ASSUME NEW lines, Diffed(lines), MaxMods \in Nat, NEW h, h[0] = DiffStart,
           \A i \in 1 .. Len(lines) : \A c :
               DiffBoth(lines, i - 1, h[i - 1], c) => h[i] = DiffLine(h[i - 1], lines[i])
    PROVE  \A i \in 0 .. Len(lines) : \E c : DiffBoth(lines, i, h[i], c)
<1> DEFINE P == {i \in Nat : i <= Len(lines) => \E c : DiffBoth(lines, i, h[i], c)}
<1>1. 0 \in P
  BY StartAccounts
<1>2. ASSUME NEW i \in Nat, i \in P
      PROVE  i + 1 \in P
  <2> SUFFICES ASSUME i + 1 <= Len(lines)
               PROVE  \E d : DiffBoth(lines, i + 1, h[i + 1], d)
    OBVIOUS
  <2>1. i <= Len(lines) /\ i + 1 \in 1 .. Len(lines) /\ (i + 1) - 1 = i
    BY LinesType
  <2>2. PICK c : DiffBoth(lines, i, h[i], c)
    BY <1>2, <2>1
  <2>3. h[i + 1] = DiffLine(h[i], lines[i + 1])
    BY <2>1, <2>2
  <2>4. \E d : DiffBoth(lines, i + 1, DiffLine(h[i], lines[i + 1]), d)
    BY <2>2, DiffStep
  <2> QED BY <2>3, <2>4
<1> HIDE DEF P
<1>3. Nat \subseteq P
  BY <1>1, <1>2, Numbers
<1>4. \A i \in 0 .. Len(lines) : i \in Nat /\ i <= Len(lines)
  BY LinesType
<1> QED BY <1>3, <1>4 DEF P

\* The states between the lines exist.
LEMMA DiffAfter ==
    ASSUME NEW lines, Diffed(lines), MaxMods \in Nat
    PROVE  \E g : g = [i \in Nat |-> IF i \in DOMAIN lines THEN DiffLine(g[i - 1], lines[i]) ELSE DiffStart]
<1> DEFINE S == DiffState
           Following(i, s) == IF i \in DOMAIN lines /\ DiffLine(s, lines[i]) \in S
                              THEN DiffLine(s, lines[i]) ELSE DiffStart
           F == [q \in Nat \X S |-> Following(q[1], q[2])]
<1>1. DiffStart \in S
  BY DEF DiffStart, DiffState
<1>2. \A i \in Nat, s \in S : Following(i, s) \in S
  BY <1>1
<1> HIDE DEF S
<1>3. F \in [Nat \X S -> S] /\ \A i \in Nat, s \in S : F[<<i, s>>] = Following(i, s)
  <2> HIDE DEF Following
  <2> QED BY <1>2
<1> HIDE DEF F
<1>4. PICK g : Recurses(g, DiffStart, F, S)
  BY <1>1, <1>3, Recursion
<1>5. ASSUME NEW i \in Nat, i # 0
      PROVE  g[i] = Following(i, g[i - 1])
  <2>1. g[i] = F[<<i, g[i - 1]>>] /\ g[i - 1] \in S
    BY <1>4, <1>5 DEF Recurses
  <2> HIDE DEF Following
  <2> QED BY <1>3, <2>1
<1>6. g \in [Nat -> S] /\ g[0] = DiffStart
  BY <1>4 DEF Recurses
<1>7. DOMAIN lines = 1 .. Len(lines) /\ \A i \in 1 .. Len(lines) : i \in Nat /\ i # 0 /\ i - 1 \in Nat /\ (i - 1) + 1 = i
  BY LinesType
<1>8. ASSUME NEW i \in 1 .. Len(lines), NEW c, DiffBoth(lines, i - 1, g[i - 1], c)
      PROVE  g[i] = DiffLine(g[i - 1], lines[i])
  <2>1. i - 1 \in Nat /\ (i - 1) + 1 <= Len(lines) /\ (i - 1) + 1 = i
    BY <1>7
  <2>2. PICK d : DiffBoth(lines, i, DiffLine(g[i - 1], lines[i]), d)
    BY <1>8, <2>1, DiffStep
  <2>3. DiffLine(g[i - 1], lines[i]) \in S
    BY <2>2 DEF DiffBoth, DiffInv, S
  <2> QED BY <1>5, <1>7, <2>3
<1> HIDE DEF Following
<1>9. \A i \in 0 .. Len(lines) : \E c : DiffBoth(lines, i, g[i], c)
  BY <1>6, <1>8, DiffRun
<1>10. ASSUME NEW i \in Nat
       PROVE  g[i] = IF i \in DOMAIN lines THEN DiffLine(g[i - 1], lines[i]) ELSE DiffStart
  <2>1. CASE i \in 1 .. Len(lines)
    <3>1. i - 1 \in 0 .. Len(lines)
      BY <2>1, LinesType
    <3>2. PICK c : DiffBoth(lines, i - 1, g[i - 1], c)
      BY <1>9, <3>1
    <3> QED BY <1>7, <1>8, <2>1, <3>2
  <2>2. CASE i \notin 1 .. Len(lines) /\ i # 0
    BY <1>5, <1>7, <2>2 DEF Following
  <2>3. CASE i \notin 1 .. Len(lines) /\ i = 0
    BY <1>6, <1>7, <2>3
  <2>4. i # 0 \/ i \notin 1 .. Len(lines)
    OBVIOUS
  <2> QED BY <2>1, <2>2, <2>3
<1> QED BY <1>6, <1>10

\* So of a diff of any length each hunk that hides changes has its own notice,
\* and where nothing of the hunk is shown its number is exactly CountedFor: the
\* counters of compressGitDiff, which an ordinary hunk leaves standing.
THEOREM EveryChangeIsAccountedFor ==
    ASSUME MaxMods \in Nat, Verbatim \in Nat, NEW lines \in Seq(DiffLines)
    PROVE  DiffAccounts(lines)
<1> DEFINE shown == compressGitDiff(lines)
           hiding == {h \in Hunks(lines) : HiddenChanges(lines, shown, h) # {}}
           n == Len(lines)
<1> SUFFICES ASSUME AsDiffed(lines)
             PROVE  \E notice \in Bijection(hiding, Notices(shown)) : \A h \in hiding :
                        Vanished(lines, shown, h) => shown[notice[h]][2] = Cardinality(CountedFor(lines, h))
  BY Zenon DEF DiffAccounts
<1>0. Diffed(lines)
  BY DEF Diffed
<1>1. /\ Diffed(lines) /\ n \in Nat /\ DOMAIN lines = 1 .. n
      /\ \A i \in 1 .. n : lines[i] \in Rows /\ lines[i][1] \notin {"further", "collapsed"}
  BY <1>0, LinesType
<1>2. ASSUME NEW out
      PROVE  /\ \A h : HiddenChanges(lines, out, h) = Lost(lines, n, out, h)
             /\ \A h : Vanished(lines, out, h) <=> ~Partly(lines, n, out, h)
             /\ {h \in Hunks(lines) : HiddenChanges(lines, out, h) # {}} = Hiding(lines, n, out, {})
  <2>1. \A l : Contains(out, l) <=> IsShown(out, l)
    BY DEF Contains, IsShown
  <2>2. \A h : HiddenChanges(lines, out, h) = Lost(lines, n, out, h)
    BY <1>1, <2>1 DEF HiddenChanges, Lost
  <2>3. \A h : Vanished(lines, out, h) <=> ~Partly(lines, n, out, h)
    BY <1>1, <2>1 DEF Vanished, Partly
  <2> QED BY <2>2, <2>3 DEF Hiding
<1>3. CASE n <= Verbatim
  <2>1. shown = lines
    BY <1>3 DEF compressGitDiff
  <2> HIDE DEF shown
  <2>2. \A h \in Hunks(lines) : Lost(lines, n, lines, h) = {}
    <3>1. \A i \in 1 .. n : IsShown(lines, lines[i])
      BY <1>1 DEF IsShown
    <3> QED BY <3>1 DEF Lost
  <2>3. hiding = {}
    BY <1>2, <2>1, <2>2 DEF Hiding
  <2>4. Notices(shown) = {}
    BY <1>1, <2>1 DEF Notices
  <2> DEFINE none == [h \in {} |-> h]
  <2>5. none \in Bijection({}, {})
    BY DEF Bijection, Injection, Surjection, IsInjective
  <2> HIDE DEF none, hiding
  <2> QED BY <2>3, <2>4, <2>5
<1>4. CASE ~(n <= Verbatim)
  <2> DEFINE Rec(g) == g = [i \in Nat |-> IF i \in DOMAIN lines THEN DiffLine(g[i - 1], lines[i]) ELSE DiffStart]
             after == CHOOSE g : Rec(g)
  <2>1. shown = flushHunk(after[n]).out
    BY <1>4 DEF compressGitDiff, DiffStart
  <2> HIDE DEF shown
  <2>2. Rec(after)
    <3>1. \E g : Rec(g)
      BY <1>1, DiffAfter
    <3> HIDE DEF Rec
    <3> QED BY <3>1
  <2> HIDE DEF after
  <2>3. /\ after[0] = DiffStart
        /\ \A i \in 1 .. n : after[i] = DiffLine(after[i - 1], lines[i])
    BY <1>1, <2>2
  <2> HIDE DEF Rec
  <2>4. \A i \in 0 .. n : \E c : DiffBoth(lines, i, after[i], c)
    BY <1>1, <2>3, DiffRun
  <2>5. PICK c : DiffInv(lines, n, after[n], c) /\ CountInv(lines, n, after[n], c)
    BY <1>1, <2>4 DEF DiffBoth
  <2>6. after[n].pending => /\ \E i \in c .. n : IsChange(lines, i)
                            /\ after[n].adds + after[n].dels = Cardinality(CountedFor(lines, c))
    <3>1. n <= Len(lines) /\ ~(n < Len(lines))
      BY <1>1
    <3> QED BY <1>1, <2>5, <3>1, HasChange, CountedWhole
  <2> DEFINE last == flushHunk(after[n])
  <2>7. DiffInv(lines, n, last, c) /\ ~last.pending
    <3>1. n <= Len(lines)
      BY <1>1
    <3> QED BY <1>1, <2>5, <2>6, <3>1, Flushed
  <2>8. shown = last.out
    BY <2>1
  <2> HIDE DEF last
  <2>9. PICK notice : Accounts(lines, n, shown, {}, notice)
    BY <2>7, <2>8 DEF DiffInv, StillOpen
  <2>10. hiding = Hiding(lines, n, shown, {})
    BY <1>2
  <2> HIDE DEF hiding
  <2>11. notice \in Bijection(hiding, Notices(shown))
    BY <2>9, <2>10 DEF Accounts
  <2>12. ASSUME NEW h \in hiding, Vanished(lines, shown, h)
         PROVE  shown[notice[h]][2] = Cardinality(CountedFor(lines, h))
    <3>1. ~Partly(lines, n, shown, h)
      BY <1>2, <2>12
    <3> QED BY <2>9, <2>10, <2>12, <3>1 DEF Accounts
  <2> QED BY <2>11, <2>12
<1> QED BY <1>3, <1>4

-----------------------------------------------------------------------------
(* What Decisions asks of these parts, for every question.                   *)

\* What a question about what is shown may be: the output of any tool, the events
\* of any tests, any diff, status, file or directory of reviews whose members'
\* prefixes differ.
AskedWhatIsShown(Lines) ==
    /\ case[1] = "output" => case[2] \in Tools /\ case[3] \in BOOLEAN /\ case[5] \in Seq(Lines)
    /\ case[1] \in {"tests", "status"} => case[2] \in Seq(Lines)
    /\ case[1] = "diff" => case[2] \in Seq(DiffLines)
    /\ case[1] = "read" => case[2] \in Reads
    /\ case[1] = "review" => /\ case[2] \in Seq(ReviewFiles) /\ case[3] \in BOOLEAN
                             /\ \A m, n \in 1 .. Len(case[2]) : Prefix[m] = Prefix[n] => m = n

\* `browzer run`, `browzer read` and codereview aggregate hide exactly what
\* NothingHidden names, of any input of any length: of a command's reports those
\* of LostReports, of a diff what each notice stands for and counts (CountedFor),
\* of a status the files outside its three sections.
THEOREM NothingIsHidden ==
    ASSUME NEW Lines, AskedWhatIsShown(Lines)
    PROVE  NothingHidden
<1>1. case[1] = "output" => KeepsFailures(case[2], case[3], case[4], case[5])
  BY ReportsAreShown, OutputFiltersAssumption DEF AskedWhatIsShown
<1>2. case[1] = "tests" => ShowsFailedTests(case[2])
  BY EveryFailedTestIsShown DEF AskedWhatIsShown
<1>3. case[1] = "diff" => DiffAccounts(case[2])
  BY EveryChangeIsAccountedFor, OutputFiltersAssumption DEF AskedWhatIsShown
<1>4. case[1] = "status" => StatusCounts(case[2])
  BY EveryFileIsCounted DEF AskedWhatIsShown
<1>5. case[1] = "read" => ReadsFaithfully(case[2])
  BY EveryReadIsFaithful DEF AskedWhatIsShown
<1>6. case[1] = "review" => PreservesAll(case[2], case[3])
  BY EveryFindingIsKept DEF AskedWhatIsShown
<1> QED BY <1>1, <1>2, <1>3, <1>4, <1>5, <1>6 DEF NothingHidden
=============================================================================
