------------------------------ MODULE DocSync -------------------------------
(***************************************************************************)
(* The document half of `browzer workspace sync` and of `workspace docs`:  *)
(* list the server's documents, walk the local ones, compare their hashes  *)
(* with the cache of the last sync (.browzer/.cache/docs.json), upload in  *)
(* batches, delete, save the cache.  The server never returns a hash, so   *)
(* the cache stands for what it holds.                                     *)
(*                                                                         *)
(* Files change under a running sync, batches are ingested after they were *)
(* acknowledged, requests fail, replies get lost and the process may die.  *)
(* The runs of the command follow one another; a walk is one step.  A      *)
(* content stands for its hash.                                            *)
(***************************************************************************)
EXTENDS Naturals, FiniteSets

CONSTANTS Paths,            \* documents, numbered in the order of their names
          Contents,         \* what a document may contain
          Missing,          \* no such document
          UploadBatchSize,
          WaitModes,        \* {TRUE}, or BOOLEAN when --no-wait is used
          MaxRuns,          \* bound: runs of the command
          MaxEdits,         \* bound: edits of local files
          MaxFaults         \* bound: failed requests, lost replies, crashes

ASSUME DocSyncAssumption ==
    /\ Paths \subseteq Nat /\ IsFiniteSet(Paths)
    /\ Missing \notin Contents
    /\ UploadBatchSize \in Nat \ {0}
    /\ WaitModes \subseteq BOOLEAN
    /\ MaxRuns \in Nat /\ MaxEdits \in Nat /\ MaxFaults \in Nat

VARIABLES
    local,      \* the working tree
    server,     \* the documents indexed in the workspace
    queue,      \* acknowledged jobs the server has not ingested yet
    broken,     \* jobs whose ingestion failed
    cacheFile,  \* docs.json: the hash last recorded for each path
    pc,         \* where the command is
    opts,       \* wait for ingestion?  all documents, or a selection?
    seen,       \* the hashes the walk found
    listed,     \* the documents the server listed
    toUpload,   \* paths not sent yet
    toDelete,   \* documents not deleted yet
    batch,      \* the content read for each upload of the current batch
    acked,      \* the uploads of it that got a job
    newCache,   \* the cache to be saved
    failed,     \* has anything failed that the exit status tells?
    posted,     \* observation: paths sent successfully in this run
    untracked,  \* observation: paths something unrecorded happened to
    runs, edits, faults

worldVars == <<local, server, queue, broken>>
planVars == <<opts, seen, listed>>
workVars == <<toUpload, toDelete, batch, acked, newCache, failed>>
obsVars == <<posted, untracked>>
boundVars == <<runs, edits, faults>>
vars == <<worldVars, cacheFile, pc, planVars, workVars, obsVars, boundVars>>

Versions == Contents \cup {Missing}
Jobs == [path : Paths, content : Contents]
Exits == {"upToDate", "synced", "incomplete"}
Pcs == {"off", "load", "list", "walk", "plan", "read", "post", "poll", "delete"} \cup Exits

TypeOK ==
    /\ local \in [Paths -> Versions] /\ server \in [Paths -> Versions]
    /\ queue \subseteq Jobs /\ broken \subseteq Jobs
    /\ cacheFile \in [Paths -> Versions]
    /\ pc \in Pcs
    /\ opts \in [wait : BOOLEAN, all : BOOLEAN]
    /\ seen \in [Paths -> Versions]
    /\ listed \in SUBSET Paths
    /\ toUpload \in SUBSET Paths /\ toDelete \in SUBSET Paths
    /\ batch \in UNION {[S -> Contents] : S \in SUBSET Paths}
    /\ acked \in SUBSET Paths
    /\ newCache \in [Paths -> Versions]
    /\ failed \in BOOLEAN
    /\ posted \in SUBSET Paths /\ untracked \subseteq Paths
    /\ runs \in 0 .. MaxRuns /\ edits \in 0 .. MaxEdits /\ faults \in 0 .. MaxFaults

Nothing == [p \in Paths |-> Missing]
NoBatch == [p \in {} |-> Missing]

Init ==
    /\ local \in [Paths -> Versions]
    /\ server = Nothing /\ cacheFile = Nothing
    /\ queue = {} /\ broken = {}
    /\ pc = "off"
    /\ opts = [wait |-> TRUE, all |-> TRUE]
    /\ seen = Nothing /\ newCache = Nothing
    /\ listed = {}
    /\ toUpload = {} /\ toDelete = {}
    /\ batch = NoBatch /\ acked = {}
    /\ failed = FALSE
    /\ posted = {} /\ untracked = {}
    /\ runs = 0 /\ edits = 0 /\ faults = 0

Goto(label) == pc' = label
Fault == faults < MaxFaults /\ faults' = faults + 1 /\ UNCHANGED <<runs, edits>>

\* The documents of a tree.
Present(tree) == {p \in Paths : tree[p] # Missing}

-----------------------------------------------------------------------------
(* The user and the server *)

\* A document is written, rewritten or removed.
Edit ==
    /\ edits < MaxEdits /\ edits' = edits + 1
    /\ \E p \in Paths, v \in Versions : v # local[p] /\ local' = [local EXCEPT ![p] = v]
    /\ UNCHANGED <<server, queue, broken, cacheFile, pc, planVars, workVars, obsVars, runs, faults>>

\* A job is ingested ...
Ingest ==
    /\ \E j \in queue :
         /\ queue' = queue \ {j}
         /\ server' = [server EXCEPT ![j.path] = j.content]
    /\ UNCHANGED <<local, broken, cacheFile, pc, planVars, workVars, obsVars, boundVars>>

\* ... or fails, and leaves what was there.
IngestFails ==
    /\ Fault
    /\ \E j \in queue :
         /\ queue' = queue \ {j}
         /\ broken' = broken \cup {j}
         /\ untracked' = untracked \cup {j.path}
    /\ UNCHANGED <<local, server, cacheFile, pc, planVars, workVars, posted>>

-----------------------------------------------------------------------------
(* Load and plan *)

\* `sync` takes every document, `docs --add/--remove/--replace` a selection.
Start ==
    /\ pc = "off" /\ runs < MaxRuns /\ runs' = runs + 1
    /\ Goto("load")
    /\ \E wait \in WaitModes, all \in BOOLEAN : opts' = [wait |-> wait, all |-> all]
    /\ UNCHANGED <<worldVars, cacheFile, seen, listed, workVars, posted, untracked, edits, faults>>

\* The list and the walk run side by side.
List ==
    /\ \/ pc = "load" /\ Goto("walk")
       \/ pc = "list" /\ Goto("plan")
    /\ listed' = Present(server)
    /\ UNCHANGED <<worldVars, cacheFile, opts, seen, workVars, obsVars, boundVars>>

\* A file or directory that cannot be read is passed over in silence.
Walk ==
    /\ \/ pc = "load" /\ Goto("list")
       \/ pc = "walk" /\ Goto("plan")
    /\ \/ seen' = local /\ UNCHANGED boundVars
       \/ Fault /\ \E p \in Present(local) : seen' = [local EXCEPT ![p] = Missing]
    /\ UNCHANGED <<worldVars, cacheFile, opts, listed, workVars, obsVars>>

\* Slip: the cache is asked for the path, not for the hash.
KnownPath(p) == cacheFile[p] # Missing

Unchanged(p) == cacheFile[p] = seen[p]

\* computeDocDelta on the merged list: selected documents the server does not
\* have, or has with another hash than the cache's, are uploaded; documents
\* it has that are not selected are deleted; the rest is kept.
Delta(selected) ==
    /\ toUpload' = {p \in selected \cap Present(seen) : p \in listed => ~Unchanged(p)}
    /\ toDelete' = listed \ selected

\* applySyncSelection, or the selection the user's specs resolve to.
Selections ==
    IF opts.all THEN {Present(seen)} ELSE SUBSET (listed \cup Present(seen))

NextUpload(remaining) == IF remaining = {} THEN "delete" ELSE "read"

Plan ==
    /\ pc = "plan"
    /\ \E selected \in Selections : Delta(selected)
    /\ newCache' = cacheFile
    /\ Goto(IF toUpload' \cup toDelete' = {} THEN "upToDate" ELSE NextUpload(toUpload'))
    /\ UNCHANGED <<worldVars, cacheFile, planVars, batch, acked, failed, obsVars, boundVars>>

-----------------------------------------------------------------------------
(* UploadInBatches *)

\* Inserts come before re-uploads, each in the order of the names.
Precedes(p, q) ==
    \/ p \notin listed /\ q \in listed
    \/ (p \in listed <=> q \in listed) /\ p < q

\* The first n of a set of uploads.
FirstUploads(S, n) == {p \in S : Cardinality({q \in S : Precedes(q, p)}) < n}

\* Slip: a file that went away is sent as it is.
AnyFile(p) == TRUE

Readable(p) == local[p] # Missing

\* A failed upload; with --no-wait the exit status does not tell.
CountFailed(any) == failed' = (failed \/ (any /\ opts.wait))

\* The next batch is read from disk; files that cannot be read are skipped
\* and counted as failed.
ReadBatch ==
    /\ pc = "read"
    /\ LET chunk == FirstUploads(toUpload, UploadBatchSize)
           good == {p \in chunk : Readable(p)}
           rest == toUpload \ chunk
       IN  /\ batch' = [p \in good |-> local[p]]
           /\ toUpload' = rest
           /\ CountFailed(good # chunk)
           /\ Goto(IF good = {} THEN NextUpload(rest) ELSE "post")
           /\ untracked' = untracked \cup {p \in good : local[p] # seen[p]}
    /\ UNCHANGED <<worldVars, cacheFile, planVars, toDelete, acked, newCache, posted, boundVars>>

Uploads == DOMAIN batch
JobsOf(S) == {[path |-> p, content |-> batch[p]] : p \in S}

\* 202: jobs for the accepted files, failures for the others, of which
\* DocumentDuplicateError does not count as failed.  Without jobs, or with
\* --no-wait, nothing is polled and nothing recorded.
Post ==
    /\ pc = "post"
    /\ \E accepted \in SUBSET Uploads :
         /\ IF accepted = Uploads
            THEN UNCHANGED <<failed, boundVars>>
            ELSE Fault /\ \E dup \in BOOLEAN : CountFailed(~dup)
         /\ queue' = queue \cup JobsOf(accepted)
         /\ broken' = broken \ JobsOf(Uploads)
         /\ acked' = accepted
         /\ posted' = posted \cup accepted
         /\ untracked' = untracked \cup
                IF accepted = Uploads /\ opts.wait THEN {} ELSE Uploads
         /\ Goto(IF opts.wait /\ accepted # {} THEN "poll" ELSE NextUpload(toUpload))
    /\ UNCHANGED <<local, server, cacheFile, planVars, toUpload, toDelete, batch, newCache>>

\* The request fails, before or after the server has taken the batch.
PostFails ==
    /\ pc = "post" /\ Fault
    /\ CountFailed(TRUE)
    /\ \/ UNCHANGED <<queue, untracked>>
       \/ /\ queue' = queue \cup JobsOf(Uploads)
          /\ untracked' = untracked \cup Uploads
    /\ Goto(NextUpload(toUpload))
    /\ UNCHANGED <<local, server, broken, cacheFile, planVars, toUpload, toDelete, batch, acked,
                   newCache, posted>>

\* Slip: the hash is taken again when the upload is over.
HashNow(p) == local[p]

RecordedHash(p) == seen[p]

\* The cache gets the hash of the walk.
Record(S) ==
    newCache' = [p \in Paths |-> IF p \in S THEN RecordedHash(p) ELSE newCache[p]]

\* A server that answers 200 with what it has indexed, by name.
PostInline ==
    /\ pc = "post"
    /\ \E accepted \in SUBSET Uploads :
         /\ IF accepted = Uploads THEN UNCHANGED <<failed, boundVars>>
            ELSE Fault /\ CountFailed(TRUE)
         /\ server' = [p \in Paths |-> IF p \in accepted THEN batch[p] ELSE server[p]]
         /\ posted' = posted \cup accepted
         /\ Record(accepted)
    /\ Goto(NextUpload(toUpload))
    /\ UNCHANGED <<local, queue, broken, cacheFile, planVars, toUpload, toDelete, batch, acked,
                   untracked>>

\* PollBatchStatus returns a terminal state.  The acknowledged jobs are
\* matched with the uploads by position, whatever became of them.
Poll ==
    /\ pc = "poll" /\ queue \cap JobsOf(acked) = {}
    /\ Record(FirstUploads(Uploads, Cardinality(acked)))
    /\ CountFailed(broken \cap JobsOf(acked) # {})
    /\ Goto(NextUpload(toUpload))
    /\ UNCHANGED <<worldVars, cacheFile, planVars, toUpload, toDelete, batch, acked, obsVars, boundVars>>

\* ... or gives up: an error of the request, or the 30 minutes are over.
PollFails ==
    /\ pc = "poll" /\ Fault
    /\ CountFailed(TRUE)
    /\ untracked' = untracked \cup acked
    /\ Goto(NextUpload(toUpload))
    /\ UNCHANGED <<worldVars, cacheFile, planVars, toUpload, toDelete, batch, acked, newCache,
                   posted>>

-----------------------------------------------------------------------------
(* Deletes, the cache, and the end *)

\* One DELETE per document; its reply may be lost.
Delete ==
    /\ pc = "delete"
    /\ \E p \in toDelete :
         /\ \A q \in toDelete : p <= q
         /\ toDelete' = toDelete \ {p}
         /\ \/ /\ server' = [server EXCEPT ![p] = Missing]
               /\ newCache' = [newCache EXCEPT ![p] = Missing]
               /\ UNCHANGED <<failed, boundVars>>
            \/ /\ Fault
               /\ server' \in {server, [server EXCEPT ![p] = Missing]}
               /\ failed' = TRUE
               /\ UNCHANGED newCache
    /\ UNCHANGED <<local, queue, broken, cacheFile, pc, planVars, toUpload, batch, acked, obsVars>>

Exit == Goto(IF failed THEN "incomplete" ELSE "synced")

\* cache.Save renames a complete file to docs.json.
Save ==
    /\ pc = "delete" /\ toDelete = {}
    /\ cacheFile' = newCache
    /\ Exit
    /\ UNCHANGED <<worldVars, planVars, workVars, obsVars, boundVars>>

\* A failed save is a warning of `sync` and an error of `docs`.
SaveFails ==
    /\ pc = "delete" /\ toDelete = {} /\ Fault
    /\ untracked' = untracked \cup posted
    /\ IF opts.all THEN Exit ELSE Goto("incomplete")
    /\ UNCHANGED <<worldVars, cacheFile, planVars, workVars, posted>>

\* The process ends and its memory goes.
Forget ==
    /\ Goto("off")
    /\ opts' = [wait |-> TRUE, all |-> TRUE]
    /\ seen' = Nothing /\ newCache' = Nothing
    /\ listed' = {}
    /\ toUpload' = {} /\ toDelete' = {}
    /\ batch' = NoBatch /\ acked' = {}
    /\ failed' = FALSE
    /\ posted' = {}

Return ==
    /\ pc \in Exits
    /\ Forget
    /\ UNCHANGED <<worldVars, cacheFile, untracked, boundVars>>

\* An error before the first request that changes something, a threshold, a
\* dry run, a refused preflight or confirmation; or an interrupt anywhere.
Abandon ==
    /\ pc \notin Exits \cup {"off"} /\ Fault
    /\ untracked' = untracked \cup posted
    /\ Forget
    /\ UNCHANGED <<worldVars, cacheFile>>

-----------------------------------------------------------------------------
SyncStep ==
    \/ List \/ Walk \/ Plan
    \/ ReadBatch \/ Post \/ PostInline \/ PostFails \/ Poll \/ PollFails
    \/ Delete \/ Save \/ SaveFails \/ Return

Next ==
    \/ Edit \/ Ingest \/ IngestFails
    \/ Start \/ SyncStep \/ Abandon

Spec == Init /\ [][Next]_vars

-----------------------------------------------------------------------------
(* Properties *)

\* computeDocDelta: the cache is "a proxy for last known server hash".  Once
\* the command and the ingestion have come to rest it is exact, for every
\* document that was never part of something the code does not record: an
\* edit between walk and read, a batch with rejections, a failed ingestion, a
\* reply, a poll or a save that failed, an interrupt, --no-wait.  Edits at
\* any other time, refused requests, selections and failed deletes do not
\* spoil it.
CacheKnowsServer ==
    queue = {} /\ pc = "off" =>
        \A p \in Paths \ untracked : server[p] # Missing => cacheFile[p] = server[p]

\* A sync that waited and reports success, or that found nothing to do,
\* leaves the server with the documents its walk found (runSyncFlow, "Sync
\* complete" and "already in sync"), with the same exceptions.
SuccessMeansSynced ==
    opts.all /\ (pc = "upToDate" \/ (pc = "synced" /\ opts.wait)) =>
        \A p \in Paths \ untracked : server[p] = seen[p]

\* UploadInBatches: "every successful upload writes" its hash into the cache;
\* a rejected one does not.
SuccessfulUploadsRecorded ==
    [][Poll => \A p \in Uploads :
                 newCache'[p] = IF p \in acked THEN seen[p] ELSE newCache[p]]_vars
=============================================================================
