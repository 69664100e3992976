---------------------------- MODULE ManifestCache ----------------------------
(***************************************************************************)
(* The manifest of one workspace: the server's, the copy on disk that      *)
(* `browzer sync` and the daemon both write, and the daemon's copy in      *)
(* memory, which Read requests share.  A copy is <<version, writer>>; a    *)
(* version is its indexedAt.                                               *)
(***************************************************************************)
EXTENDS Naturals, FiniteSets, SharedTmp

CONSTANTS Syncs,       \* runs of `browzer sync`
          Requests,    \* Read requests being served at a time
          MaxVersion,  \* re-indexings of the workspace
          MaxKicks,    \* recovery goroutines that wait for their turn
          MaxCrashes

ASSUME ManifestCacheAssumption ==
    /\ IsFiniteSet(Syncs) /\ "daemon" \notin Syncs
    /\ MaxVersion \in Nat \ {0} /\ MaxKicks \in Nat \ {0} /\ MaxCrashes \in Nat

VARIABLES server,   \* version of the manifest the API serves
          disk,     \* ~/.browzer/workspaces/<id>/: manifest.json and its .tmp
          memory,   \* ManifestCache.cache[id]
          request,  \* one Get for each request
          kicked,   \* kickRefetch goroutines that have not reached sf.Do
          refetch,  \* the single flight
          sync,     \* pullAndSaveManifest of each sync
          crashes,
          wentBack, \* observation: a copy on disk was once replaced by an older one
          inPlace   \* observation: a sync wrote to manifest.json since the comparison

vars == <<server, disk, memory, request, kicked, refetch, sync, crashes, wentBack, inPlace>>

NoCopy == <<0, "nobody">>
Versions == 1 .. MaxVersion
Copies == Versions \X (Syncs \cup {"daemon"})
Inodes == 1 .. Cardinality(Syncs) + 3
Idle == [pc |-> "idle", version |-> 0, inode |-> None]

IsWhole(c) == c \notin {Empty, Torn}
Held == {sync[s].inode : s \in Syncs} \cup {refetch.inode}
Locked == refetch.pc = "compared"     \* c.mu is held

Directories == [tmp : Inodes \cup {None}, final : Inodes \cup {None},
                data : [Inodes -> Copies \cup {Empty, Torn}]]
Gets == [pc : {"idle", "missed", "loaded"}, saw : Copies \cup {NoCopy}]
Refetches == [pc : {"idle", "fetching", "fetched", "opened", "written", "compared"},
              version : Versions \cup {0}, inode : Inodes \cup {None}]
Pulls == [pc : {"idle", "fetched", "opened", "written", "done", "failed", "killed"},
          version : Versions \cup {0}, inode : Inodes \cup {None}]

TypeOK ==
    /\ server \in Versions
    /\ disk \in Directories
    /\ memory \in Copies \cup {NoCopy}
    /\ request \in [Requests -> Gets]
    /\ kicked \in 0 .. MaxKicks
    /\ refetch \in Refetches /\ (refetch.pc = "opened" <=> refetch.inode # None)
    /\ sync \in [Syncs -> Pulls] /\ \A s \in Syncs : sync[s].pc = "opened" <=> sync[s].inode # None
    /\ crashes \in 0 .. MaxCrashes
    /\ wentBack \in BOOLEAN /\ inPlace \in BOOLEAN

Init ==
    /\ server = 1
    /\ disk = Directory(Inodes, Empty)
    /\ memory = NoCopy
    /\ request = [r \in Requests |-> [pc |-> "idle", saw |-> NoCopy]]
    /\ kicked = 0
    /\ refetch = Idle
    /\ sync = [s \in Syncs |-> Idle]
    /\ crashes = 0
    /\ wentBack = FALSE /\ inPlace = FALSE

\* What becomes of manifest.json, and whether that is an older copy or none.
Publish(d) ==
    /\ disk' = d
    /\ wentBack' = (wentBack \/ LET was == Content(disk) is == Content(d)
                                IN  IsWhole(was) /\ (~IsWhole(is) \/ is[1] < was[1]))

Reindex ==
    /\ server < MaxVersion
    /\ server' = server + 1
    /\ UNCHANGED <<disk, memory, request, kicked, refetch, sync, crashes, wentBack, inPlace>>

-----------------------------------------------------------------------------
(* ManifestCache.Get, for one Read request.  A hit changes nothing.          *)

Request(r, pc, saw) == request' = [request EXCEPT ![r] = [pc |-> pc, saw |-> saw]]

GetMisses(r) ==
    /\ request[r].pc = "idle" /\ ~Locked /\ memory = NoCopy
    /\ Request(r, "missed", NoCopy)
    /\ UNCHANGED <<server, disk, memory, kicked, refetch, sync, crashes, wentBack, inPlace>>

\* Slip: the missing file is not told from other errors.
FailsToRead(r) ==
    /\ request[r].pc = "missed" /\ disk.final = None
    /\ Request(r, "idle", NoCopy)
    /\ UNCHANGED <<server, disk, memory, kicked, refetch, sync, crashes, wentBack, inPlace>>

\* No file: the request is served without a manifest and a fetch is started.
ReadNothing(r) ==
    /\ request[r].pc = "missed" /\ disk.final = None /\ kicked < MaxKicks
    /\ kicked' = kicked + 1
    /\ Request(r, "idle", NoCopy)
    /\ UNCHANGED <<server, disk, memory, refetch, sync, crashes, wentBack, inPlace>>

\* A file that does not parse is an error too, and starts no fetch.
ReadFile(r) ==
    /\ request[r].pc = "missed" /\ disk.final # None
    /\ IF IsWhole(Content(disk)) THEN Request(r, "loaded", Content(disk)) ELSE Request(r, "idle", NoCopy)
    /\ UNCHANGED <<server, disk, memory, kicked, refetch, sync, crashes, wentBack, inPlace>>

\* Slip: the entry is installed without looking whether there is one.
InstallAnyway(r) ==
    /\ request[r].pc = "loaded" /\ ~Locked
    /\ memory' = request[r].saw
    /\ Request(r, "idle", NoCopy)
    /\ UNCHANGED <<server, disk, kicked, refetch, sync, crashes, wentBack, inPlace>>

Install(r) ==
    /\ request[r].pc = "loaded" /\ ~Locked
    /\ memory' = IF memory = NoCopy THEN request[r].saw ELSE memory
    /\ Request(r, "idle", NoCopy)
    /\ UNCHANGED <<server, disk, kicked, refetch, sync, crashes, wentBack, inPlace>>

-----------------------------------------------------------------------------
(* kickRefetch, deduplicated by singleflight.                                *)

StartRefetch ==
    /\ kicked > 0 /\ refetch.pc = "idle"
    /\ kicked' = kicked - 1
    /\ refetch' = [refetch EXCEPT !.pc = "fetching"]
    /\ UNCHANGED <<server, disk, memory, request, sync, crashes, wentBack, inPlace>>

JoinRefetch ==
    /\ kicked > 0 /\ refetch.pc # "idle"
    /\ kicked' = kicked - 1
    /\ UNCHANGED <<server, disk, memory, request, refetch, sync, crashes, wentBack, inPlace>>

\* No credentials, an API error, or five seconds have passed.
FetchFails ==
    /\ refetch.pc = "fetching"
    /\ refetch' = Idle
    /\ UNCHANGED <<server, disk, memory, request, kicked, sync, crashes, wentBack, inPlace>>

Fetch ==
    /\ refetch.pc = "fetching"
    /\ refetch' = [refetch EXCEPT !.pc = "fetched", !.version = server]
    /\ UNCHANGED <<server, disk, memory, request, kicked, sync, crashes, wentBack, inPlace>>

RefetchOpens ==
    /\ refetch.pc = "fetched"
    /\ LET ino == Opened(disk, Held) IN
        /\ Publish(Open(disk, ino))
        /\ refetch' = [refetch EXCEPT !.pc = "opened", !.inode = ino]
    /\ UNCHANGED <<server, memory, request, kicked, sync, crashes, inPlace>>

\* Slip: the file is not closed.
WritesOnly ==
    /\ refetch.pc = "opened"
    /\ \E d \in Written(disk, refetch.inode, <<refetch.version, "daemon">>) : Publish(d)
    /\ refetch' = [refetch EXCEPT !.pc = "written"]
    /\ UNCHANGED <<server, memory, request, kicked, sync, crashes, inPlace>>

RefetchWrites ==
    /\ refetch.pc = "opened"
    /\ \E d \in Written(disk, refetch.inode, <<refetch.version, "daemon">>) : Publish(d)
    /\ refetch' = [refetch EXCEPT !.pc = "written", !.inode = None]
    /\ UNCHANGED <<server, memory, request, kicked, sync, crashes, inPlace>>

\* Slip: the copy that was fetched is taken for the newer one.
ComparesNot ==
    /\ refetch.pc = "written"
    /\ refetch' = [refetch EXCEPT !.pc = "compared"]
    /\ UNCHANGED <<server, disk, memory, request, kicked, sync, crashes, wentBack, inPlace>>

\* Under c.mu: a newer copy on disk makes the daemon drop its own.
Compare ==
    /\ refetch.pc = "written"
    /\ IF IsWhole(Content(disk)) /\ Content(disk)[1] > refetch.version
       THEN refetch' = Idle /\ disk' = RemoveTmp(disk)
       ELSE refetch' = [refetch EXCEPT !.pc = "compared"] /\ UNCHANGED disk
    /\ inPlace' = FALSE
    /\ UNCHANGED <<server, memory, request, kicked, sync, crashes, wentBack>>

\* Whatever .tmp is by now is renamed; when it is gone nothing is installed.
RefetchRenames ==
    /\ refetch.pc = "compared"
    /\ IF disk.tmp = None
       THEN UNCHANGED <<disk, memory, wentBack>>
       ELSE Publish(Rename(disk)) /\ memory' = <<refetch.version, "daemon">>
    /\ refetch' = Idle
    /\ UNCHANGED <<server, request, kicked, sync, crashes, inPlace>>

-----------------------------------------------------------------------------
(* pullAndSaveManifest, and what ends a process half-way.                    *)

SyncFetches(s) ==
    /\ sync[s].pc = "idle"
    /\ sync' = [sync EXCEPT ![s].pc = "fetched", ![s].version = server]
    /\ UNCHANGED <<server, disk, memory, request, kicked, refetch, crashes, wentBack, inPlace>>

SyncOpens(s) ==
    /\ sync[s].pc = "fetched"
    /\ LET ino == Opened(disk, Held) IN
        /\ Publish(Open(disk, ino))
        /\ sync' = [sync EXCEPT ![s].pc = "opened", ![s].inode = ino]
    /\ UNCHANGED <<server, memory, request, kicked, refetch, crashes, inPlace>>

SyncWrites(s) ==
    /\ sync[s].pc = "opened"
    /\ \E d \in Written(disk, sync[s].inode, <<sync[s].version, s>>) : Publish(d)
    /\ sync' = [sync EXCEPT ![s].pc = "written", ![s].inode = None]
    /\ inPlace' = (inPlace \/ sync[s].inode = disk.final)
    /\ UNCHANGED <<server, memory, request, kicked, refetch, crashes>>

SyncRenames(s) ==
    /\ sync[s].pc = "written"
    /\ IF disk.tmp = None
       THEN UNCHANGED <<disk, wentBack>> /\ sync' = [sync EXCEPT ![s].pc = "failed"]
       ELSE Publish(Rename(disk)) /\ sync' = [sync EXCEPT ![s].pc = "done"]
    /\ UNCHANGED <<server, memory, request, kicked, refetch, crashes, inPlace>>

KillSync(s) ==
    /\ sync[s].pc \in {"opened", "written"} /\ crashes < MaxCrashes
    /\ sync' = [sync EXCEPT ![s].pc = "killed", ![s].inode = None]
    /\ crashes' = crashes + 1
    /\ UNCHANGED <<server, disk, memory, request, kicked, refetch, wentBack, inPlace>>

\* The daemon ends, in whatever it is doing, and the next one starts empty.
RestartDaemon ==
    /\ crashes < MaxCrashes
    /\ crashes' = crashes + 1
    /\ memory' = NoCopy /\ kicked' = 0 /\ refetch' = Idle
    /\ request' = [r \in Requests |-> [pc |-> "idle", saw |-> NoCopy]]
    /\ UNCHANGED <<server, disk, sync, wentBack, inPlace>>

Kick == StartRefetch \/ JoinRefetch
Flight == FetchFails \/ Fetch \/ RefetchOpens \/ RefetchWrites \/ Compare \/ RefetchRenames
Get(r) == GetMisses(r) \/ ReadNothing(r) \/ ReadFile(r) \/ Install(r)
Sync(s) == SyncFetches(s) \/ SyncOpens(s) \/ SyncWrites(s) \/ SyncRenames(s) \/ KillSync(s)

Next ==
    \/ Reindex \/ Kick \/ Flight \/ RestartDaemon
    \/ \E r \in Requests : Get(r)
    \/ \E s \in Syncs : Sync(s)

\* Reads keep coming, the daemon runs, and the API does not fail for ever.
Fairness ==
    /\ \A r \in Requests : WF_vars(Get(r))
    /\ WF_vars(Kick) /\ WF_vars(Flight) /\ SF_vars(Fetch)

Spec == Init /\ [][Next]_vars
FairSpec == Spec /\ Fairness

-----------------------------------------------------------------------------

\* manifest_cache.go, "A slow daemon refetch must NOT land after a fresher
\* foreground sync": the daemon's copy never replaces a newer one on disk.
NoStaleRefetch ==
    [][LET was == Content(disk) is == Content(disk')
       IN  IsWhole(was) /\ IsWhole(is) /\ is[1] < was[1] => is[2] # "daemon"]_vars

\* As long as the file on disk has only moved forward, so has the copy that
\* Read requests share, whichever of them read it when and installs it last.
MemoryForward == [][~wentBack' /\ memory' # NoCopy => memory'[1] >= memory[1]]_vars

\* The comparison under c.mu does hold the daemon's own rename back: when syncs
\* rename in between, they take .tmp away from it, and it never lands the copy
\* it fetched over a newer one.  (The exception takes two syncs: one renames
\* the .tmp that the other has open, whose write then goes to manifest.json.)
LandsForward ==
    [][/\ RefetchRenames /\ ~inPlace
       /\ IsWhole(Content(disk)) /\ IsWhole(Content(disk')) /\ Content(disk')[2] = "daemon"
       => Content(disk')[1] >= Content(disk)[1]]_vars

\* manifest_cache.go, "a missing manifest must not be a permanent regression":
\* while requests keep coming the daemon gets the manifest, unless a damaged
\* file takes the place of the missing one or the daemon ends.
MissingRecovers ==
    (disk.final = None) ~> (memory # NoCopy \/ (disk.final # None /\ ~IsWhole(Content(disk))))
=============================================================================
