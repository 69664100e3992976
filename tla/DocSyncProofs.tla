--------------------------- MODULE DocSyncProofs ---------------------------
(***************************************************************************)
(* For any documents, contents, batch size and number of edits, faults and *)
(* runs: the cache of hashes tells what the server holds, and a sync that  *)
(* reports success has made the server equal to what its walk found, but   *)
(* for the documents something happened to that the code does not record.  *)
(*                                                                         *)
(* The argument: while a document is tracked, a job of it exists only when *)
(* the command polls for it (JobInv), so that an ingestion nobody waits    *)
(* for cannot change it.  The cache is then exact but for what this run    *)
(* has sent (CacheInv), and the cache being built is exact but for what is *)
(* being polled (NewCacheInv), which the job brings about (IngestInv).  A  *)
(* document the walk and the server disagree on is still in the plan       *)
(* (PlanInv).  At the end, what the plan is made from and the requests     *)
(* that carry it out.                                                      *)
(***************************************************************************)
EXTENDS DocSync, Sequences, Decisions, FiniteSetTheorems, WellFoundedInduction, TLAPS

Working == {"read", "post", "poll", "delete"}
Tracked == Paths \ untracked
JobOf(p) == [path |-> p, content |-> batch[p]]

\* What the phases of a run know of their batch.
ProgressInv ==
    /\ pc \in {"post", "poll"} =>
         \A p \in Uploads \ untracked : batch[p] = seen[p] /\ (pc = "poll" => acked = Uploads)
    /\ pc = "poll" => opts.wait /\ acked \subseteq Uploads /\ acked \subseteq posted
    /\ pc = "delete" => toUpload = {}

\* A job nobody waits for is of an untracked document.
JobInv ==
    \A j \in queue : j.path \in untracked \/ (pc = "poll" /\ j.path \in acked /\ j = JobOf(j.path))

\* The job that is waited for is not ingested yet, or the server has its content.
IngestInv ==
    pc = "poll" => \A p \in acked \ untracked : JobOf(p) \in queue \/ server[p] = batch[p]

\* The cache on disk, but for what this run has sent.
CacheInv ==
    \A p \in Tracked :
        \/ pc \in Working /\ p \in posted
        \/ server[p] # Missing => cacheFile[p] = server[p]

\* The cache being built, but for what is polled.
NewCacheInv ==
    pc \in Working =>
        \A p \in Tracked :
            \/ pc = "poll" /\ p \in acked
            \/ server[p] # Missing => newCache[p] = server[p]

\* The list is of the documents the server has.
ListedInv ==
    pc \in {"walk", "plan"} => \A p \in Tracked : p \in listed <=> server[p] # Missing

\* A document that differs from the walk's is planned for, or being sent.
PlanInv ==
    opts.all /\ pc \in Working =>
        /\ toDelete \cap Present(seen) = {}
        /\ opts.wait /\ ~failed =>
              \A p \in Tracked :
                  \/ p \in toUpload \cup toDelete
                  \/ pc \in {"post", "poll"} /\ p \in Uploads
                  \/ server[p] = seen[p]

IInv ==
    /\ TypeOK /\ ProgressInv /\ JobInv /\ IngestInv
    /\ CacheInv /\ NewCacheInv /\ ListedInv /\ PlanInv /\ SuccessMeansSynced

-----------------------------------------------------------------------------
(* The batch *)

\* The content read for a batch is a function on the documents of it.
LEMMA BatchType ==
    ASSUME TypeOK
    PROVE  /\ Uploads \subseteq Paths
           /\ \A p \in Uploads : batch[p] \in Contents
           /\ \A S : S \subseteq Uploads => JobsOf(S) \subseteq Jobs
<1>1. PICK S \in SUBSET Paths : batch \in [S -> Contents]
  BY DEF TypeOK
<1> QED BY <1>1 DEF Uploads, JobsOf, Jobs

\* Taking as many uploads as there are takes them all: no upload precedes
\* itself.
LEMMA FirstUploadsAll ==
    ASSUME NEW S \in SUBSET Paths
    PROVE  FirstUploads(S, Cardinality(S)) = S
<1> SUFFICES ASSUME NEW p \in S
             PROVE  Cardinality({q \in S : Precedes(q, p)}) < Cardinality(S)
  BY DEF FirstUploads
<1> DEFINE Before == {q \in S : Precedes(q, p)}
<1>1. IsFiniteSet(S)
  BY DocSyncAssumption, FS_Subset
<1>2. Before \in SUBSET S /\ Before # S
  BY DocSyncAssumption DEF Precedes
<1>3. /\ IsFiniteSet(Before) /\ Cardinality(Before) <= Cardinality(S)
      /\ Cardinality(Before) # Cardinality(S)
  BY <1>1, <1>2, FS_Subset
<1>4. Cardinality(S) \in Nat /\ Cardinality(Before) \in Nat
  BY <1>1, <1>3, FS_CardinalityType
<1> QED BY <1>3, <1>4

\* The poll's result is written for the uploads, and for all of them when all
\* got a job.
LEMMA PollRecords ==
    ASSUME TypeOK, NEW recorded, recorded = FirstUploads(Uploads, Cardinality(acked))
    PROVE  recorded \subseteq Uploads /\ (acked = Uploads => recorded = Uploads)
<1>1. acked = Uploads => recorded = Uploads
  BY BatchType, FirstUploadsAll
<1> QED BY <1>1 DEF FirstUploads

-----------------------------------------------------------------------------
LEMMA InitIInv == Init => IInv
<1> SUFFICES ASSUME Init PROVE IInv
  OBVIOUS
<1> USE DocSyncAssumption DEF Init, Nothing
<1>1. TypeOK
  <2>1. batch \in [{} -> Contents]
    BY DEF NoBatch
  <2>2. batch \in UNION {[S -> Contents] : S \in SUBSET Paths}
    BY <2>1
  <2>3. /\ server \in [Paths -> Versions] /\ cacheFile \in [Paths -> Versions]
        /\ seen \in [Paths -> Versions] /\ newCache \in [Paths -> Versions]
    BY DEF Versions
  <2>4. /\ pc \in Pcs /\ opts \in [wait : BOOLEAN, all : BOOLEAN]
        /\ queue = {} /\ broken = {} /\ listed = {} /\ toUpload = {} /\ toDelete = {} /\ acked = {}
        /\ posted = {} /\ untracked = {}
        /\ runs \in 0 .. MaxRuns /\ edits \in 0 .. MaxEdits /\ faults \in 0 .. MaxFaults
    BY DEF Pcs
  <2>5. local \in [Paths -> Versions] /\ failed \in BOOLEAN
    BY DEF Versions
  <2> HIDE DEF Init, Nothing
  <2> QED BY <2>2, <2>3, <2>4, <2>5 DEF TypeOK
<1> QED BY <1>1 DEF IInv, ProgressInv, JobInv, IngestInv, CacheInv, NewCacheInv, ListedInv,
                    PlanInv, SuccessMeansSynced, Working, Tracked

\* Every step preserves the types.
LEMMA TypeStep == TypeOK /\ [Next]_vars => TypeOK'
<1> SUFFICES ASSUME TypeOK, [Next]_vars PROVE TypeOK'
  OBVIOUS
<1> USE DocSyncAssumption DEF TypeOK, worldVars, planVars, workVars, obsVars, boundVars, Goto, Fault
<1>0. /\ Nothing \in [Paths -> Versions]
      /\ NoBatch \in UNION {[S -> Contents] : S \in SUBSET Paths}
      /\ Exits \subseteq Pcs
      /\ \A S : NextUpload(S) \in Pcs
  <2>1. NoBatch \in [{} -> Contents]
    BY DEF NoBatch
  <2> QED BY <2>1 DEF Nothing, Versions, Exits, Pcs, NextUpload
<1>1. CASE UNCHANGED vars
  BY <1>1 DEF vars
<1>2. CASE Edit
  BY <1>2 DEF Edit, Versions
<1>3. CASE Ingest
  BY <1>3 DEF Ingest, Versions, Jobs
<1>4. CASE IngestFails
  <2>1. /\ queue' \subseteq Jobs /\ broken' \subseteq Jobs /\ untracked' \subseteq Paths
    BY <1>4 DEF IngestFails, Jobs
  <2>2. runs' = runs /\ edits' = edits /\ faults' \in 0 .. MaxFaults
    BY <1>4 DEF IngestFails
  <2> QED BY <1>4, <2>1, <2>2 DEF IngestFails
<1>5. CASE Start
  BY <1>5 DEF Start, Pcs
<1>6. CASE List
  BY <1>6 DEF List, Pcs, Present
<1>7. CASE Walk
  BY <1>7 DEF Walk, Pcs, Versions
<1>8. CASE Plan
  <2>1. toUpload' \in SUBSET Paths /\ toDelete' \in SUBSET Paths
    BY <1>8 DEF Plan, Delta, Present
  <2> QED BY <1>0, <1>8, <2>1 DEF Plan, Pcs, Exits
<1>9. CASE ReadBatch
  <2> DEFINE good == {p \in FirstUploads(toUpload, UploadBatchSize) : Readable(p)}
  <2>1. good \in SUBSET Paths
    BY DEF FirstUploads
  <2>2. batch' = [p \in good |-> local[p]]
    BY <1>9 DEF ReadBatch
  <2>3. batch' \in [good -> Contents]
    BY <2>1, <2>2 DEF Readable, Versions
  <2>4. batch' \in UNION {[S -> Contents] : S \in SUBSET Paths}
    BY <2>1, <2>3
  <2>5. /\ toUpload' \in SUBSET Paths /\ untracked' \subseteq Paths /\ failed' \in BOOLEAN
        /\ pc' \in Pcs
    BY <1>0, <1>9, <2>1 DEF ReadBatch, CountFailed, Pcs
  <2> QED BY <1>9, <2>4, <2>5 DEF ReadBatch
<1>10. CASE Post
  <2>1. PICK accepted \in SUBSET Uploads :
          /\ IF accepted = Uploads
             THEN UNCHANGED <<failed, boundVars>>
             ELSE Fault /\ \E dup \in BOOLEAN : CountFailed(~dup)
          /\ queue' = queue \cup JobsOf(accepted)
          /\ broken' = broken \ JobsOf(Uploads)
          /\ acked' = accepted
          /\ posted' = posted \cup accepted
          /\ untracked' = untracked \cup
                 IF accepted = Uploads /\ opts.wait THEN {} ELSE Uploads
          /\ Goto(IF opts.wait /\ accepted # {} THEN "poll" ELSE NextUpload(toUpload))
    BY <1>10 DEF Post
  <2>2. Uploads \subseteq Paths /\ JobsOf(accepted) \subseteq Jobs
    BY BatchType
  <2>3. /\ queue' \subseteq Jobs /\ broken' \subseteq Jobs
        /\ acked' \in SUBSET Paths /\ posted' \in SUBSET Paths /\ untracked' \subseteq Paths
        /\ pc' \in Pcs
    BY <1>0, <2>1, <2>2 DEF Pcs
  <2>4. failed' \in BOOLEAN /\ edits' = edits /\ runs' = runs /\ faults' \in 0 .. MaxFaults
    BY <2>1 DEF CountFailed
  <2> QED BY <1>10, <2>3, <2>4 DEF Post
<1>11. CASE PostInline
  <2>1. PICK accepted \in SUBSET Uploads :
          /\ IF accepted = Uploads THEN UNCHANGED <<failed, boundVars>>
             ELSE Fault /\ CountFailed(TRUE)
          /\ server' = [p \in Paths |-> IF p \in accepted THEN batch[p] ELSE server[p]]
          /\ posted' = posted \cup accepted
          /\ Record(accepted)
    BY <1>11 DEF PostInline
  <2>2. Uploads \subseteq Paths /\ \A p \in Uploads : batch[p] \in Contents
    BY BatchType
  <2>3. /\ server' \in [Paths -> Versions] /\ newCache' \in [Paths -> Versions]
        /\ posted' \in SUBSET Paths
    BY <2>1, <2>2 DEF Record, RecordedHash, Versions
  <2>4. failed' \in BOOLEAN /\ edits' = edits /\ runs' = runs /\ faults' \in 0 .. MaxFaults
    BY <2>1 DEF CountFailed
  <2> QED BY <1>0, <1>11, <2>3, <2>4 DEF PostInline
<1>12. CASE PostFails
  <2>1. Uploads \subseteq Paths /\ JobsOf(Uploads) \subseteq Jobs
    BY BatchType
  <2>2. queue' \subseteq Jobs /\ untracked' \subseteq Paths
    BY <1>12, <2>1 DEF PostFails
  <2> QED BY <1>0, <1>12, <2>2 DEF PostFails, CountFailed
<1>13. CASE Poll
  BY <1>0, <1>13 DEF Poll, CountFailed, Record, RecordedHash
<1>14. CASE PollFails
  <2>1. untracked' \subseteq Paths /\ failed' \in BOOLEAN
    BY <1>14 DEF PollFails, CountFailed
  <2>2. pc' \in Pcs /\ runs' = runs /\ edits' = edits /\ faults' \in 0 .. MaxFaults
    BY <1>0, <1>14 DEF PollFails
  <2> QED BY <1>14, <2>1, <2>2 DEF PollFails
<1>15. CASE Delete
  <2>1. PICK p \in toDelete :
          /\ toDelete' = toDelete \ {p}
          /\ \/ /\ server' = [server EXCEPT ![p] = Missing]
                /\ newCache' = [newCache EXCEPT ![p] = Missing]
                /\ UNCHANGED <<failed, boundVars>>
             \/ /\ Fault
                /\ server' \in {server, [server EXCEPT ![p] = Missing]}
                /\ failed' = TRUE
                /\ UNCHANGED newCache
    BY <1>15 DEF Delete
  <2>2. /\ server' \in [Paths -> Versions] /\ newCache' \in [Paths -> Versions]
        /\ toDelete' \in SUBSET Paths
    BY <2>1 DEF Versions
  <2>3. \/ UNCHANGED <<failed, boundVars>>
        \/ failed' = TRUE /\ Fault
    BY <2>1
  <2>4. failed' \in BOOLEAN
    BY <2>3
  <2>5. runs' = runs /\ edits' = edits /\ faults' \in 0 .. MaxFaults
    BY <2>3
  <2> QED BY <1>15, <2>2, <2>4, <2>5 DEF Delete
<1>16. CASE Save
  BY <1>16 DEF Save, Exit, Pcs, Exits
<1>17. CASE SaveFails
  BY <1>17 DEF SaveFails, Exit, Pcs, Exits
<1>18. CASE Return
  BY <1>0, <1>18 DEF Return, Forget, Pcs
<1>19. CASE Abandon
  <2>1. /\ untracked' \subseteq Paths
        /\ runs' = runs /\ edits' = edits /\ faults' \in 0 .. MaxFaults
    BY <1>19 DEF Abandon
  <2> QED BY <1>0, <1>19, <2>1 DEF Abandon, Forget, Pcs
<1> QED BY <1>1, <1>2, <1>3, <1>4, <1>5, <1>6, <1>7, <1>8, <1>9, <1>10, <1>11, <1>12, <1>13,
           <1>14, <1>15, <1>16, <1>17, <1>18, <1>19 DEF Next, SyncStep

-----------------------------------------------------------------------------
(* The steps that are used more than once *)

\* A batch that is not taken whole, and waited for, is untracked from then on.
LEMMA PostCases ==
    ASSUME TypeOK, Post
    PROVE  \E accepted \in SUBSET Uploads :
             /\ queue' = queue \cup JobsOf(accepted)
             /\ acked' = accepted /\ posted' = posted \cup accepted
             /\ \/ /\ accepted = Uploads /\ opts.wait
                   /\ untracked' = untracked /\ failed' = failed
                   /\ pc' = IF Uploads # {} THEN "poll" ELSE NextUpload(toUpload)
                \/ /\ untracked' = untracked \cup Uploads
                   /\ failed => failed'
                   /\ \/ pc' = "poll" /\ opts.wait
                      \/ pc' = NextUpload(toUpload)
  BY DEF Post, CountFailed, Goto, TypeOK

LEMMA InlineCases ==
    ASSUME TypeOK, PostInline
    PROVE  \E accepted \in SUBSET Uploads :
             /\ server' = [p \in Paths |-> IF p \in accepted THEN batch[p] ELSE server[p]]
             /\ newCache' = [p \in Paths |-> IF p \in accepted THEN seen[p] ELSE newCache[p]]
             /\ posted' = posted \cup accepted
             /\ pc' = NextUpload(toUpload)
             /\ failed => failed'
             /\ accepted = Uploads \/ (opts.wait => failed')
  BY DEF PostInline, CountFailed, Goto, Record, RecordedHash, TypeOK

\* What is tracked after a step was tracked before it.
LEMMA UntrackedGrows == [Next]_vars => untracked \subseteq untracked'
<1> USE DEF obsVars, Next, SyncStep
<1> QED BY DEF vars, Edit, Ingest, IngestFails, Start, List, Walk, Plan, ReadBatch, Post, PostInline,
               PostFails, Poll, PollFails, Delete, Save, SaveFails, Return, Abandon

-----------------------------------------------------------------------------
LEMMA ProgressStep == TypeOK /\ ProgressInv /\ [Next]_vars => ProgressInv'
<1> SUFFICES ASSUME TypeOK, ProgressInv, [Next]_vars PROVE ProgressInv'
  OBVIOUS
<1> USE DEF ProgressInv, worldVars, planVars, workVars, obsVars, boundVars, Goto, Uploads
<1>1. CASE UNCHANGED vars
  BY <1>1 DEF vars
<1>2. CASE Edit \/ Ingest \/ Save
  BY <1>2 DEF Edit, Ingest, Save, Exit
<1>3. CASE IngestFails
  BY <1>3 DEF IngestFails
<1>4. CASE Start \/ List \/ Walk
  BY <1>4 DEF Start, List, Walk
<1>5. CASE Plan
  BY <1>5 DEF Plan, NextUpload
<1>6. CASE ReadBatch
  BY <1>6 DEF ReadBatch, NextUpload
<1>7. CASE Post
  BY <1>7, PostCases DEF Post, NextUpload
<1>8. CASE PostInline
  BY <1>8, InlineCases DEF PostInline, NextUpload
<1>9. CASE PostFails \/ Poll \/ PollFails
  BY <1>9 DEF PostFails, Poll, PollFails, NextUpload
<1>10. CASE Delete
  BY <1>10 DEF Delete
<1>11. CASE SaveFails
  BY <1>11 DEF SaveFails, Exit
<1>12. CASE Return \/ Abandon
  BY <1>12 DEF Return, Abandon, Forget
<1> QED BY <1>1, <1>2, <1>3, <1>4, <1>5, <1>6, <1>7, <1>8, <1>9, <1>10, <1>11, <1>12 DEF Next, SyncStep

LEMMA JobStep == TypeOK /\ ProgressInv /\ JobInv /\ [Next]_vars => JobInv'
<1> SUFFICES ASSUME TypeOK, ProgressInv, JobInv, [Next]_vars PROVE JobInv'
  OBVIOUS
<1> USE DEF JobInv, JobOf, worldVars, planVars, workVars, obsVars, boundVars, Goto
<1>1. CASE UNCHANGED vars
  BY <1>1 DEF vars
<1>2. CASE Edit \/ Ingest \/ IngestFails
  BY <1>2 DEF Edit, Ingest, IngestFails
<1>3. CASE Start \/ List \/ Walk \/ Plan
  BY <1>3 DEF Start, List, Walk, Plan
<1>4. CASE ReadBatch
  BY <1>4 DEF ReadBatch
<1>5. CASE Post
  <2>1. PICK accepted \in SUBSET Uploads :
          /\ queue' = queue \cup JobsOf(accepted) /\ acked' = accepted
          /\ untracked \subseteq untracked'
          /\ accepted \subseteq untracked' \/ (accepted # {} => pc' = "poll")
    BY <1>5, PostCases
  <2>2. \A j \in queue : j.path \in untracked'
    BY <1>5, <2>1 DEF Post
  <2>3. \A j \in JobsOf(accepted) : j.path \in accepted /\ j = JobOf(j.path)
    BY DEF JobsOf
  <2> QED BY <1>5, <2>1, <2>2, <2>3 DEF Post
<1>6. CASE PostInline
  BY <1>6 DEF PostInline
<1>7. CASE PostFails
  <2>1. \A j \in JobsOf(Uploads) : j.path \in Uploads
    BY DEF JobsOf
  <2> QED BY <1>7, <2>1 DEF PostFails
<1>8. CASE Poll
  BY <1>8 DEF Poll, JobsOf
<1>9. CASE PollFails
  BY <1>9 DEF PollFails
<1>10. CASE Delete \/ Save \/ SaveFails \/ Return
  BY <1>10 DEF Delete, Save, SaveFails, Return, Exits
<1>11. CASE Abandon
  BY <1>11 DEF Abandon, ProgressInv
<1> QED BY <1>1, <1>2, <1>3, <1>4, <1>5, <1>6, <1>7, <1>8, <1>9, <1>10, <1>11 DEF Next, SyncStep

LEMMA IngestStep == TypeOK /\ ProgressInv /\ JobInv /\ IngestInv /\ [Next]_vars => IngestInv'
<1> SUFFICES ASSUME TypeOK, ProgressInv, JobInv, IngestInv, [Next]_vars PROVE IngestInv'
  OBVIOUS
<1> USE DEF IngestInv, JobOf, worldVars, planVars, workVars, obsVars, boundVars, Goto
<1>1. CASE UNCHANGED vars
  BY <1>1 DEF vars
<1>2. CASE Edit
  BY <1>2 DEF Edit
<1>3. CASE Ingest
  <2>1. PICK j \in queue : queue' = queue \ {j} /\ server' = [server EXCEPT ![j.path] = j.content]
    BY <1>3 DEF Ingest
  <2>2. pc' = pc /\ acked' = acked /\ batch' = batch /\ untracked' = untracked
    BY <1>3 DEF Ingest
  <2>3. ASSUME NEW p \in acked \ untracked, pc = "poll"
        PROVE  JobOf(p) \in queue' \/ server'[p] = batch[p]
    <3>1. CASE j.path = p
      <4>1. j = JobOf(p)
        BY <2>3, <3>1 DEF JobInv
      <4> QED BY <2>1, <2>3, <4>1 DEF TypeOK
    <3>2. CASE j.path # p
      <4>1. JobOf(p) # j
        BY <3>2
      <4> QED BY <2>1, <2>3, <3>2, <4>1 DEF TypeOK
    <3> QED BY <3>1, <3>2
  <2> QED BY <2>2, <2>3
<1>4. CASE IngestFails
  BY <1>4 DEF IngestFails
<1>5. CASE Post
  <2>1. PICK accepted \in SUBSET Uploads :
          queue' = queue \cup JobsOf(accepted) /\ acked' = accepted
    BY <1>5, PostCases
  <2> QED BY <1>5, <2>1 DEF Post, JobsOf
<1>6. CASE Start \/ List \/ Walk \/ Plan \/ ReadBatch
  BY <1>6 DEF Start, List, Walk, Plan, ReadBatch, NextUpload
<1>7. CASE PostInline \/ PostFails \/ Poll \/ PollFails
  BY <1>7 DEF PostInline, PostFails, Poll, PollFails, NextUpload
<1>8. CASE Delete \/ Save \/ SaveFails \/ Return \/ Abandon
  BY <1>8 DEF Delete, Save, SaveFails, Return, Abandon, Exit, Forget
<1> QED BY <1>1, <1>2, <1>3, <1>4, <1>5, <1>6, <1>7, <1>8 DEF Next, SyncStep

\* What an ingestion changes of a tracked document, a poll is waiting for.
LEMMA IngestsPolled ==
    ASSUME TypeOK, JobInv, Ingest, NEW p \in Tracked, server'[p] # server[p]
    PROVE  pc = "poll" /\ p \in acked
<1>1. PICK j \in queue : server' = [server EXCEPT ![j.path] = j.content]
  BY DEF Ingest
<1>2. p \in Paths /\ p \notin untracked
  BY DEF Tracked
<1>3. j.path = p
  BY <1>1, <1>2 DEF TypeOK
<1> QED BY <1>2, <1>3 DEF JobInv

LEMMA CacheStep ==
    TypeOK /\ ProgressInv /\ JobInv /\ CacheInv /\ NewCacheInv /\ [Next]_vars => CacheInv'
<1> SUFFICES ASSUME TypeOK, ProgressInv, JobInv, CacheInv, NewCacheInv, [Next]_vars PROVE CacheInv'
  OBVIOUS
<1> USE DEF CacheInv, Working, worldVars, planVars, workVars, obsVars, boundVars, Goto
<1>0. \A p \in Tracked' : p \in Tracked
  BY UntrackedGrows DEF Tracked
<1>1. CASE UNCHANGED vars
  BY <1>0, <1>1 DEF vars
<1>2. CASE Edit \/ IngestFails
  BY <1>0, <1>2 DEF Edit, IngestFails
<1>3. CASE Ingest
  <2>1. pc' = pc /\ posted' = posted /\ cacheFile' = cacheFile
    BY <1>3 DEF Ingest
  <2>2. \A p \in Tracked : server'[p] # server[p] => pc = "poll" /\ p \in posted
    BY <1>3, IngestsPolled DEF ProgressInv
  <2> QED BY <1>0, <2>1, <2>2
<1>4. CASE Start \/ List \/ Walk \/ Plan
  BY <1>0, <1>4 DEF Start, List, Walk, Plan
<1>5. CASE ReadBatch
  BY <1>0, <1>5 DEF ReadBatch, NextUpload
<1>6. CASE Post
  <2>1. posted \subseteq posted' /\ pc' \in Working
    BY <1>6, PostCases DEF NextUpload
  <2> QED BY <1>0, <1>6, <2>1 DEF Post
<1>7. CASE PostInline
  <2>1. PICK accepted \in SUBSET Uploads :
          /\ server' = [p \in Paths |-> IF p \in accepted THEN batch[p] ELSE server[p]]
          /\ posted' = posted \cup accepted
          /\ pc' = NextUpload(toUpload)
    BY <1>7, InlineCases
  <2> QED BY <1>0, <1>7, <2>1 DEF PostInline, NextUpload, Tracked
<1>8. CASE PostFails \/ Poll \/ PollFails
  BY <1>0, <1>8 DEF PostFails, Poll, PollFails, NextUpload
<1>9. CASE Delete
  <2>1. pc' = pc /\ posted' = posted /\ cacheFile' = cacheFile
    BY <1>9 DEF Delete
  <2>2. \A p \in Tracked : server'[p] \in {server[p], Missing}
    BY <1>9 DEF Delete, TypeOK, Tracked
  <2> QED BY <1>0, <2>1, <2>2
<1>10. CASE Save
  BY <1>0, <1>10 DEF Save, NewCacheInv
<1>11. CASE SaveFails
  BY <1>0, <1>11 DEF SaveFails, Tracked
<1>12. CASE Return
  BY <1>0, <1>12 DEF Return, Exits
<1>13. CASE Abandon
  BY <1>0, <1>13 DEF Abandon, Tracked
<1> QED BY <1>1, <1>2, <1>3, <1>4, <1>5, <1>6, <1>7, <1>8, <1>9, <1>10, <1>11, <1>12, <1>13
        DEF Next, SyncStep

LEMMA NewCacheStep ==
    TypeOK /\ ProgressInv /\ JobInv /\ IngestInv /\ CacheInv /\ NewCacheInv /\ [Next]_vars
        => NewCacheInv'
<1> SUFFICES ASSUME TypeOK, ProgressInv, JobInv, IngestInv, CacheInv, NewCacheInv, [Next]_vars
             PROVE  NewCacheInv'
  OBVIOUS
<1> USE DEF NewCacheInv, Working, worldVars, planVars, workVars, obsVars, boundVars, Goto
<1>0. \A p \in Tracked' : p \in Tracked
  BY UntrackedGrows DEF Tracked
<1>1. CASE UNCHANGED vars
  BY <1>0, <1>1 DEF vars
<1>2. CASE Edit \/ IngestFails
  BY <1>0, <1>2 DEF Edit, IngestFails
<1>3. CASE Ingest
  <2>1. pc' = pc /\ acked' = acked /\ newCache' = newCache
    BY <1>3 DEF Ingest
  <2>2. \A p \in Tracked : server'[p] # server[p] => pc = "poll" /\ p \in acked
    BY <1>3, IngestsPolled
  <2> QED BY <1>0, <2>1, <2>2
<1>4. CASE Start \/ List \/ Walk
  BY <1>0, <1>4 DEF Start, List, Walk
<1>5. CASE Plan
  BY <1>0, <1>5 DEF Plan, CacheInv
<1>6. CASE ReadBatch
  BY <1>0, <1>6 DEF ReadBatch
<1>7. CASE Post
  BY <1>0, <1>7 DEF Post
<1>8. CASE PostInline
  <2>1. PICK accepted \in SUBSET Uploads :
          /\ server' = [p \in Paths |-> IF p \in accepted THEN batch[p] ELSE server[p]]
          /\ newCache' = [p \in Paths |-> IF p \in accepted THEN seen[p] ELSE newCache[p]]
    BY <1>8, InlineCases
  <2>2. \A p \in Tracked : p \in accepted => batch[p] = seen[p]
    BY <1>8 DEF PostInline, ProgressInv, Tracked
  <2>3. pc = "post"
    BY <1>8 DEF PostInline
  <2> QED BY <1>0, <2>1, <2>2, <2>3 DEF Tracked
<1>9. CASE PostFails
  BY <1>0, <1>9 DEF PostFails
<1>10. CASE Poll
  <2>1. PICK recorded :
          /\ recorded = FirstUploads(Uploads, Cardinality(acked))
          /\ newCache' = [p \in Paths |-> IF p \in recorded THEN seen[p] ELSE newCache[p]]
    BY <1>10 DEF Poll, Record, RecordedHash
  <2>2. recorded \subseteq Uploads /\ (acked = Uploads => recorded = Uploads)
    BY <2>1, PollRecords
  <2>3. pc = "poll" /\ server' = server /\ pc' # "poll" /\ queue \cap JobsOf(acked) = {}
    BY <1>10 DEF Poll, NextUpload
  <2>4. ASSUME NEW p \in Tracked, server[p] # Missing PROVE newCache'[p] = server[p]
    <3>1. CASE p \in Uploads
      <4>1. acked = Uploads /\ p \in recorded /\ batch[p] = seen[p]
        BY <2>2, <2>3, <3>1 DEF ProgressInv, Tracked
      <4>2. server[p] = batch[p]
        BY <2>3, <3>1, <4>1 DEF IngestInv, JobsOf, JobOf, Tracked
      <4> QED BY <2>1, <4>1, <4>2 DEF Tracked
    <3>2. CASE p \notin Uploads
      BY <2>1, <2>2, <2>3, <2>4, <3>2 DEF ProgressInv, Tracked
    <3> QED BY <3>1, <3>2
  <2> QED BY <1>0, <2>3, <2>4
<1>11. CASE PollFails
  BY <1>0, <1>11 DEF PollFails, Tracked
<1>12. CASE Delete
  <2>1. pc' = pc /\ pc = "delete"
    BY <1>12 DEF Delete
  <2>2. PICK p \in toDelete :
          /\ server' \in {server, [server EXCEPT ![p] = Missing]}
          /\ newCache' \in {newCache, [newCache EXCEPT ![p] = Missing]}
          /\ newCache' # newCache => server' = [server EXCEPT ![p] = Missing]
    BY <1>12 DEF Delete
  <2> QED BY <1>0, <2>1, <2>2 DEF TypeOK, Tracked
<1>13. CASE Save \/ SaveFails \/ Return \/ Abandon
  BY <1>13 DEF Save, SaveFails, Return, Abandon, Exit, Exits, Forget
<1> QED BY <1>1, <1>2, <1>3, <1>4, <1>5, <1>6, <1>7, <1>8, <1>9, <1>10, <1>11, <1>12, <1>13
        DEF Next, SyncStep

LEMMA ListedStep == TypeOK /\ JobInv /\ ListedInv /\ [Next]_vars => ListedInv'
<1> SUFFICES ASSUME TypeOK, JobInv, ListedInv, [Next]_vars PROVE ListedInv'
  OBVIOUS
<1> USE DEF ListedInv, worldVars, planVars, workVars, obsVars, boundVars, Goto, NextUpload
<1>0. \A p \in Tracked' : p \in Tracked
  BY UntrackedGrows DEF Tracked
<1>1. CASE UNCHANGED vars
  BY <1>0, <1>1 DEF vars
<1>2. CASE Edit \/ IngestFails \/ Walk
  BY <1>0, <1>2 DEF Edit, IngestFails, Walk
<1>3. CASE Ingest
  BY <1>0, <1>3, IngestsPolled DEF Ingest
<1>4. CASE List
  BY <1>0, <1>4 DEF List, Present, Tracked
<1>5. CASE Start \/ Plan \/ ReadBatch
  BY <1>5 DEF Start, Plan, ReadBatch
<1>6. CASE Post
  BY <1>6 DEF Post
<1>7. CASE PostInline \/ PostFails \/ Poll \/ PollFails
  BY <1>7 DEF PostInline, PostFails, Poll, PollFails
<1>8. CASE Delete \/ Save \/ SaveFails \/ Return \/ Abandon
  BY <1>8 DEF Delete, Save, SaveFails, Return, Abandon, Exit, Forget
<1> QED BY <1>1, <1>2, <1>3, <1>4, <1>5, <1>6, <1>7, <1>8 DEF Next, SyncStep

\* The plan of a run of all documents names every tracked document that the
\* server and the walk disagree on.
LEMMA PlanIsComplete ==
    ASSUME TypeOK, CacheInv, ListedInv, Plan, opts.all
    PROVE  /\ toDelete' \cap Present(seen) = {}
           /\ \A p \in Tracked : p \in toUpload' \cup toDelete' \/ server[p] = seen[p]
<1>1. /\ toUpload' = {p \in Present(seen) \cap Present(seen) : p \in listed => ~Unchanged(p)}
      /\ toDelete' = listed \ Present(seen)
      /\ pc = "plan"
  BY DEF Plan, Delta, Selections
<1>2. ASSUME NEW p \in Tracked, p \notin toUpload' \cup toDelete' PROVE server[p] = seen[p]
  <2>1. p \in Paths /\ (p \in listed <=> server[p] # Missing)
    BY <1>1 DEF ListedInv, Tracked
  <2>2. CASE p \in Present(seen)
    <3>1. p \in listed /\ cacheFile[p] = seen[p]
      BY <1>1, <1>2, <2>2 DEF Unchanged
    <3> QED BY <1>1, <2>1, <3>1 DEF CacheInv, Working
  <2>3. CASE p \notin Present(seen)
    BY <1>1, <1>2, <2>1, <2>3 DEF Present
  <2> QED BY <2>2, <2>3
<1> QED BY <1>1, <1>2

LEMMA PlanStep ==
    /\ TypeOK /\ ProgressInv /\ JobInv /\ IngestInv /\ CacheInv /\ ListedInv /\ PlanInv
    /\ [Next]_vars
    => PlanInv'
<1> SUFFICES ASSUME TypeOK, ProgressInv, JobInv, IngestInv, CacheInv, ListedInv, PlanInv, [Next]_vars
             PROVE  PlanInv'
  OBVIOUS
<1> USE DEF PlanInv, Working, worldVars, planVars, workVars, obsVars, boundVars, Goto
<1>0. \A p \in Tracked' : p \in Tracked
  BY UntrackedGrows DEF Tracked
<1>1. CASE UNCHANGED vars
  BY <1>0, <1>1 DEF vars, Present, Uploads
<1>2. CASE Edit \/ IngestFails
  BY <1>0, <1>2 DEF Edit, IngestFails, Present, Uploads
<1>3. CASE Ingest
  <2>1. /\ pc' = pc /\ opts' = opts /\ seen' = seen /\ failed' = failed
        /\ toUpload' = toUpload /\ toDelete' = toDelete /\ batch' = batch
    BY <1>3 DEF Ingest
  <2>2. \A p \in Tracked : server'[p] # server[p] => pc = "poll" /\ p \in Uploads
    BY <1>3, IngestsPolled DEF ProgressInv
  <2> QED BY <1>0, <2>1, <2>2 DEF Present, Uploads
<1>4. CASE Start \/ List \/ Walk
  BY <1>4 DEF Start, List, Walk
<1>5. CASE Plan
  BY <1>0, <1>5, PlanIsComplete DEF Plan, Present
<1>6. CASE ReadBatch
  <2> DEFINE chunk == FirstUploads(toUpload, UploadBatchSize)
             good == {p \in chunk : Readable(p)}
  <2>1. /\ batch' = [p \in good |-> local[p]] /\ toUpload' = toUpload \ chunk
        /\ failed' = (failed \/ (good # chunk /\ opts.wait))
        /\ pc' = (IF good = {} THEN NextUpload(toUpload \ chunk) ELSE "post")
        /\ UNCHANGED <<server, opts, seen, toDelete>>
    BY <1>6 DEF ReadBatch, CountFailed
  <2>2. Uploads' = good
    BY <2>1 DEF Uploads
  <2>3. pc \in Working /\ pc \notin {"post", "poll"}
    BY <1>6 DEF ReadBatch
  <2>4. good = chunk /\ chunk # {} => pc' = "post"
    BY <2>1
  <2> HIDE DEF chunk, good
  <2> QED BY <1>0, <2>1, <2>2, <2>3, <2>4 DEF Present, TypeOK
<1>7. CASE Post
  <2>1. PICK accepted \in SUBSET Uploads :
           \/ /\ accepted = Uploads /\ failed' = failed
              /\ pc' = IF Uploads # {} THEN "poll" ELSE NextUpload(toUpload)
           \/ /\ untracked' = untracked \cup Uploads
              /\ failed => failed'
    BY <1>7, PostCases
  <2>2. UNCHANGED <<server, opts, seen, toUpload, toDelete, batch>> /\ pc = "post"
    BY <1>7 DEF Post
  <2> QED BY <1>0, <2>1, <2>2 DEF Present, Uploads, Tracked
<1>8. CASE PostInline
  <2>1. PICK accepted \in SUBSET Uploads :
          /\ server' = [p \in Paths |-> IF p \in accepted THEN batch[p] ELSE server[p]]
          /\ failed => failed'
          /\ accepted = Uploads \/ (opts.wait => failed')
    BY <1>8, InlineCases
  <2>2. UNCHANGED <<opts, seen, toUpload, toDelete, batch, untracked>> /\ pc = "post"
    BY <1>8 DEF PostInline
  <2>3. \A p \in Tracked : p \in accepted => batch[p] = seen[p]
    BY <2>2 DEF ProgressInv, Tracked
  <2> QED BY <1>0, <2>1, <2>2, <2>3 DEF Present, Tracked
<1>9. CASE PostFails
  BY <1>9 DEF PostFails, CountFailed, Present
<1>10. CASE Poll
  <2>1. \A p \in Tracked : p \in Uploads => server[p] = seen[p]
    BY <1>10 DEF Poll, ProgressInv, IngestInv, JobsOf, JobOf, Tracked
  <2>2. failed => failed'
    BY <1>10 DEF Poll, CountFailed
  <2> QED BY <1>0, <1>10, <2>1, <2>2 DEF Poll, Present
<1>11. CASE PollFails
  BY <1>11 DEF PollFails, CountFailed, Present, ProgressInv
<1>12. CASE Delete
  <2>1. pc = "delete" /\ UNCHANGED <<pc, opts, seen, toUpload, untracked>>
    BY <1>12 DEF Delete
  <2>2. PICK p \in toDelete :
          /\ toDelete' = toDelete \ {p}
          /\ \/ server' = [server EXCEPT ![p] = Missing] /\ failed' = failed
             \/ failed' = TRUE
    BY <1>12 DEF Delete
  <2>3. opts.all => seen[p] = Missing
    BY <2>1, <2>2 DEF Present, TypeOK
  <2> QED BY <1>0, <2>1, <2>2, <2>3 DEF Present, TypeOK, Tracked
<1>13. CASE Save \/ SaveFails \/ Return \/ Abandon
  BY <1>13 DEF Save, SaveFails, Return, Abandon, Exit, Exits, Forget
<1> QED BY <1>1, <1>2, <1>3, <1>4, <1>5, <1>6, <1>7, <1>8, <1>9, <1>10, <1>11, <1>12, <1>13
        DEF Next, SyncStep

\* Success is reported where the plan has been carried out, or was empty.
LEMMA SuccessStep ==
    /\ TypeOK /\ ProgressInv /\ JobInv /\ CacheInv /\ ListedInv /\ PlanInv /\ SuccessMeansSynced
    /\ [Next]_vars
    => SuccessMeansSynced'
<1> SUFFICES ASSUME TypeOK, ProgressInv, JobInv, CacheInv, ListedInv, PlanInv, SuccessMeansSynced,
                    [Next]_vars
             PROVE  SuccessMeansSynced'
  OBVIOUS
<1> USE DEF SuccessMeansSynced, worldVars, planVars, workVars, obsVars, boundVars, Goto
<1>0. \A p \in Paths \ untracked' : p \in Tracked
  BY UntrackedGrows DEF Tracked
<1>1. CASE UNCHANGED vars
  BY <1>1 DEF vars
<1>2. CASE Edit \/ IngestFails
  BY <1>2 DEF Edit, IngestFails
<1>3. CASE Ingest
  <2>1. UNCHANGED <<pc, opts, seen, untracked>>
    BY <1>3 DEF Ingest
  <2>2. \A p \in Tracked : server'[p] # server[p] => pc = "poll"
    BY <1>3, IngestsPolled
  <2> QED BY <2>1, <2>2 DEF Tracked
<1>4. CASE Plan
  <2>1. pc' = "synced" => FALSE
    BY <1>4 DEF Plan, NextUpload
  <2>2. pc' = "upToDate" => toUpload' \cup toDelete' = {}
    BY <1>4 DEF Plan, NextUpload
  <2> QED BY <1>0, <1>4, <2>1, <2>2, PlanIsComplete DEF Plan
<1>5. CASE Start \/ List \/ Walk \/ ReadBatch
  BY <1>5 DEF Start, List, Walk, ReadBatch, NextUpload
<1>6. CASE Post
  BY <1>6 DEF Post, NextUpload
<1>7. CASE PostInline \/ PostFails \/ Poll \/ PollFails
  BY <1>7 DEF PostInline, PostFails, Poll, PollFails, NextUpload
<1>8. CASE Delete
  BY <1>8 DEF Delete
<1>9. CASE Save
  <2>1. pc' = "synced" => ~failed
    BY <1>9 DEF Save, Exit
  <2>2. pc' # "upToDate"
    BY <1>9 DEF Save, Exit
  <2> QED BY <1>0, <1>9, <2>1, <2>2 DEF Save, PlanInv, ProgressInv, Working
<1>10. CASE SaveFails
  <2>1. pc' = "synced" => ~failed
    BY <1>10 DEF SaveFails, Exit
  <2>2. pc' # "upToDate"
    BY <1>10 DEF SaveFails, Exit
  <2> QED BY <1>0, <1>10, <2>1, <2>2 DEF SaveFails, PlanInv, ProgressInv, Working
<1>11. CASE Return \/ Abandon
  BY <1>11 DEF Return, Abandon, Forget
<1> QED BY <1>1, <1>2, <1>3, <1>4, <1>5, <1>6, <1>7, <1>8, <1>9, <1>10, <1>11 DEF Next, SyncStep

-----------------------------------------------------------------------------
\* The strengthened invariant holds in every reachable state.
THEOREM Inductive == Spec => []IInv
<1>1. IInv /\ [Next]_vars => IInv'
  BY TypeStep, ProgressStep, JobStep, IngestStep, CacheStep, NewCacheStep, ListedStep, PlanStep,
     SuccessStep DEF IInv
<1> QED BY InitIInv, <1>1, PTL DEF Spec

\* The variables keep their types.
THEOREM TypeCorrect == Spec => []TypeOK
<1>1. IInv => TypeOK
  BY DEF IInv
<1> QED BY <1>1, Inductive, PTL

\* computeDocDelta may take docs.json for the server: once command and
\* ingestion have come to rest, it is exact for every tracked document.
THEOREM CacheIsExact == Spec => []CacheKnowsServer
<1>1. IInv => CacheKnowsServer
  BY DEF IInv, CacheInv, CacheKnowsServer, Working, Tracked
<1> QED BY <1>1, Inductive, PTL

\* "Sync complete" and "already in sync" are true of every tracked document,
\* however large the tree and the batches and whatever failed.
THEOREM SuccessIsTrue == Spec => []SuccessMeansSynced
<1>1. IInv => SuccessMeansSynced
  BY DEF IInv
<1> QED BY <1>1, Inductive, PTL

\* A batch the server took whole is recorded whole: what
\* SuccessfulUploadsRecorded is violated by is a batch taken in part.
WholeBatchRecorded ==
    [][Poll /\ acked = Uploads =>
         \A p \in Paths : newCache'[p] = IF p \in Uploads THEN seen[p] ELSE newCache[p]]_vars

\* UploadInBatches writes the hashes of the walk, for batches of any size.
THEOREM WholeBatchesAreRecorded == Spec => WholeBatchRecorded
<1>1. TypeOK /\ Poll /\ acked = Uploads =>
         \A p \in Paths : newCache'[p] = IF p \in Uploads THEN seen[p] ELSE newCache[p]
  BY PollRecords DEF Poll, Record, RecordedHash
<1>2. TypeOK /\ [Next]_vars =>
         [Poll /\ acked = Uploads =>
            \A p \in Paths : newCache'[p] = IF p \in Uploads THEN seen[p] ELSE newCache[p]]_vars
  BY <1>1
<1> QED BY <1>2, TypeCorrect, PTL DEF Spec, WholeBatchRecorded

-----------------------------------------------------------------------------
(* What the user asked for.  DocSpec decides which documents a run of      *)
(* `workspace docs` or `sync` is about; the plan of DocSync carries that   *)
(* out.                                                                    *)

Item == [local : BOOLEAN, indexed : BOOLEAN, changed : BOOLEAN]
Given == [form : {"list", "glob", "new", "all", "none", "malformed"}, paths : SUBSET Paths]
FlagSets == [add : Given \cup {Docs!Absent}, remove : Given \cup {Docs!Absent},
             replace : Given \cup {Docs!Absent}, yes : BOOLEAN, iKnow : BOOLEAN, dryRun : BOOLEAN]

\* workspace docs, for any documents and any combination of flags: a document
\* is deleted only if --remove names it or --replace leaves it out, never many
\* without the extra flag; what is uploaded is local and was asked for.
THEOREM DocsAsAsked ==
    ASSUME NEW S \in SUBSET Paths, NEW items \in [S -> Item], NEW f \in FlagSets
    PROVE  Docs!SelectsAsAsked(items, f)
<1> SUFFICES ASSUME Docs!workspaceDocs(items, f).verdict = "done"
             PROVE  Docs!SelectsAsAsked(items, f)
  BY DEF Docs!SelectsAsAsked
<1> DEFINE selected == Docs!applySpecsToItems(items, f)
           d == Docs!computeDocDelta(items, selected)
           w == Docs!workspaceDocs(items, f)
\* What is carried out was not refused.
<1>1. /\ w.delta = d /\ DOMAIN items # {}
      /\ \A g \in {"add", "remove", "replace"} : Docs!Parses(g, f[g])
      /\ Docs!Unresolved(items, f.add) = {}
      /\ Docs!Cardinality(d.delete) >= LargeDelete => f.iKnow
      /\ Docs!Mutates(d) => f.yes
  <2> DEFINE refusals == \/ Docs!Given(f.replace) /\ (Docs!Given(f.add) \/ Docs!Given(f.remove))
                         \/ \E g \in {"add", "remove", "replace"} : ~Docs!Parses(g, f[g])
             unknown == Docs!Unresolved(items, f.add) \cup Docs!Unresolved(items, f.replace) # {}
             tooMuch == Docs!Cardinality(d.delete) >= LargeDelete /\ ~f.iKnow
             unconfirmed == ~f.yes /\ ~f.dryRun /\ Docs!Mutates(d)
             answer == [verdict |-> IF f.dryRun THEN "shown" ELSE "done", delta |-> d]
             nothing == [verdict |-> "nothing", delta |-> Docs!NoDelta]
  <2>1. w = CASE refusals -> Docs!Refused
              [] ~refusals /\ DOMAIN items = {} -> nothing
              [] ~refusals /\ DOMAIN items # {} /\ (unknown \/ tooMuch \/ unconfirmed) -> Docs!Refused
              [] OTHER -> answer
    BY DEF Docs!workspaceDocs
  <2>2. w.verdict = "done" /\ Docs!Refused.verdict # "done" /\ nothing.verdict # "done"
    BY DEF Docs!Refused
  <2>3. f.dryRun \in BOOLEAN
    BY DEF FlagSets
  <2> HIDE DEF refusals, unknown, tooMuch, unconfirmed, nothing, w
  <2>4. w = answer /\ ~refusals /\ DOMAIN items # {} /\ ~unknown /\ ~tooMuch /\ ~unconfirmed
    BY <2>1, <2>2
  <2> HIDE DEF d
  <2>5. w.delta = d /\ ~f.dryRun
    BY <2>2, <2>3, <2>4
  <2> QED BY <2>4, <2>5 DEF refusals, unknown, tooMuch, unconfirmed
\* What is carried out, in terms of what the flags match.
<1>2. /\ d.insert = (selected \cap Docs!Locals(items)) \ Docs!Indexed(items)
      /\ d.reUpload \subseteq Docs!Locals(items) \cap selected
      /\ d.delete = Docs!Indexed(items) \ selected
  BY DEF Docs!computeDocDelta
<1>3. /\ Docs!Given(f.replace) => selected = Docs!Matched(items, f.replace)
      /\ ~Docs!Given(f.replace) =>
            selected = (Docs!Indexed(items) \cup Docs!Matched(items, f.add))
                       \ (Docs!Matched(items, f.remove) \cap Docs!Indexed(items))
  BY DEF Docs!applySpecsToItems
<1> HIDE DEF selected
<1>4. d.delete = IF Docs!Given(f.replace) THEN Docs!Indexed(items) \ Docs!Matched(items, f.replace)
                 ELSE f.remove.paths \cap Docs!Indexed(items)
  <2>1. f.remove.form \in {"absent", "list", "glob"}
    BY <1>1 DEF Docs!Parses, Docs!Allowed
  <2>2. f.remove.form = "absent" => f.remove.paths = {}
    BY DEF FlagSets, Given, Docs!Absent
  <2>3. Docs!Matched(items, f.remove) = f.remove.paths \cap DOMAIN items
    BY <2>1, <2>2 DEF Docs!Matched
  <2>4. Docs!Indexed(items) \subseteq DOMAIN items
    BY DEF Docs!Indexed
  <2> QED BY <1>2, <1>3, <2>3, <2>4
<1>5. d.insert \subseteq Docs!Matched(items, f.add) \cup Docs!Matched(items, f.replace)
  BY <1>2, <1>3
<1>6. /\ d.insert \cup d.reUpload \subseteq Docs!Locals(items)
      /\ (d.insert \cup d.reUpload) \cap d.delete = {}
  BY <1>2
<1>7. f.replace.form = "all" => d = Docs!computeDocDelta(items, Docs!applySyncSelection(items))
  <2>1. f.replace.form = "all" => Docs!Given(f.replace)
    BY DEF Docs!Given, Docs!Absent
  <2>2. f.replace.form = "all" => Docs!Matched(items, f.replace) = Docs!applySyncSelection(items)
    BY DEF Docs!Matched, Docs!Locals, Docs!applySyncSelection
  <2> QED BY <1>3, <2>1, <2>2
<1>8. f.add.form = "list" => f.add.paths \subseteq DOMAIN items
  BY <1>1 DEF Docs!Unresolved
<1> HIDE DEF d, w
<1>9. w.verdict = "done" /\ w.delta = d
  BY <1>1 DEF w
<1> QED BY <1>1, <1>4, <1>5, <1>6, <1>7, <1>8, <1>9 DEF Docs!SelectsAsAsked, w

\* What mergeDocItems makes of the walk, the list and the cache.
Merged == [p \in listed \cup Present(seen) |->
              [local |-> p \in Present(seen), indexed |-> p \in listed, changed |-> ~Unchanged(p)]]

CarriesOut(selected) ==
    LET d == Docs!computeDocDelta(Merged, selected)
    IN toUpload' = d.insert \cup d.reUpload /\ toDelete' = d.delete

\* The plan of a run is the delta of the items and of a selection of them:
\* for `sync`, of the one DocSpec says.
PlansTheDelta ==
    [][Plan => \E selected \in SUBSET DOMAIN Merged :
           /\ CarriesOut(selected)
           /\ opts.all => selected = Docs!applySyncSelection(Merged)]_vars

LEMMA DeltaOfMerged ==
    ASSUME NEW selected \in SUBSET (listed \cup Present(seen)), Delta(selected)
    PROVE  CarriesOut(selected)
<1>1. /\ DOMAIN Merged = listed \cup Present(seen)
      /\ \A p \in DOMAIN Merged : /\ Merged[p].local <=> p \in Present(seen)
                                  /\ Merged[p].indexed <=> p \in listed
                                  /\ Merged[p].changed <=> ~Unchanged(p)
  BY DEF Merged
<1> HIDE DEF Merged
<1>2. Docs!Locals(Merged) = Present(seen) /\ Docs!Indexed(Merged) = listed
  BY <1>1 DEF Docs!Locals, Docs!Indexed
<1>3. toDelete' = listed \ selected
      /\ toUpload' = {p \in selected \cap Present(seen) : p \in listed => ~Unchanged(p)}
  BY DEF Delta
<1> QED BY <1>1, <1>2, <1>3 DEF CarriesOut, Docs!computeDocDelta

\* Plan, of the commands `sync` and `workspace docs`.
THEOREM PlansAreDeltas == Spec => PlansTheDelta
<1>1. ASSUME Plan
      PROVE  \E selected \in SUBSET DOMAIN Merged :
                /\ CarriesOut(selected)
                /\ opts.all => selected = Docs!applySyncSelection(Merged)
  <2>1. DOMAIN Merged = listed \cup Present(seen)
    BY DEF Merged
  <2>2. Docs!applySyncSelection(Merged) = Present(seen)
    BY DEF Merged, Docs!applySyncSelection
  <2>3. PICK selected \in Selections : Delta(selected)
    BY <1>1 DEF Plan
  <2>4. selected \in SUBSET DOMAIN Merged /\ (opts.all => selected = Present(seen))
    BY <2>1, <2>3 DEF Selections
  <2> QED BY <2>1, <2>2, <2>3, <2>4, DeltaOfMerged
<1>2. [Next]_vars =>
         [Plan => \E selected \in SUBSET DOMAIN Merged :
             /\ CarriesOut(selected)
             /\ opts.all => selected = Docs!applySyncSelection(Merged)]_vars
  BY <1>1
<1> QED BY <1>2, PTL DEF Spec, PlansTheDelta

\* Whatever is asked for with flags is a selection of the items, so that
\* DocSync's runs of `workspace docs` are about all of them.
LEMMA FlagsSelectItems ==
    ASSUME NEW f \in FlagSets
    PROVE  Docs!applySpecsToItems(Merged, f) \in SUBSET DOMAIN Merged
<1> HIDE DEF Merged
<1>1. /\ Docs!Locals(Merged) \subseteq DOMAIN Merged
      /\ Docs!Indexed(Merged) \subseteq DOMAIN Merged
  BY DEF Docs!Locals, Docs!Indexed
<1>2. \A g \in {f.add, f.remove, f.replace} : Docs!Matched(Merged, g) \subseteq DOMAIN Merged
  BY <1>1 DEF Docs!Matched
<1> QED BY <1>1, <1>2 DEF Docs!applySpecsToItems

-----------------------------------------------------------------------------
(* The list of workspaces, which both commands bring up to date before     *)
(* anything else.  An entry that waits to be deleted is marked as changed. *)

Entries(names) == [name : names, modified : BOOLEAN, deleted : BOOLEAN]
Lists(known, remote) == [local |-> known, server |-> remote]
Dropped(known, ws) == {w \in ws : known[w].deleted}

\* What a push of ws makes of the lists, gone being the deletions in it.
AfterPush(t, names, known, remote, ws, gone) ==
    /\ t = [local |-> t.local, server |-> t.server]
    /\ t.local \in [DOMAIN known \ gone -> Entries(names)]
    /\ \A w \in DOMAIN known \ gone :
         t.local[w] = IF w \in ws THEN Workspaces!Entry(known[w].name) ELSE known[w]
    /\ t.server \in [DOMAIN remote \ gone -> names]
    /\ \A w \in DOMAIN remote \ gone : t.server[w] = IF w \in ws THEN known[w].name ELSE remote[w]

\* Both sides are the server's list.
Settled(once, remote) ==
    /\ once.ok /\ once.state.server = remote
    /\ once.state.local = [v \in DOMAIN remote |-> Workspaces!Entry(remote[v])]

\* What is sent is on the server, and no longer marked; the rest is left alone.
LEMMA PushedEffect ==
    ASSUME NEW names, NEW W, NEW known \in [W -> Entries(names)], NEW V, NEW remote \in [V -> names],
           NEW ws \in SUBSET (Workspaces!Modified(known) \cap V),
           NEW t, t = Workspaces!Pushed(Lists(known, remote), ws)
    PROVE  AfterPush(t, names, known, remote, ws, Dropped(known, ws))
<1>0. PICK gone : gone = Dropped(known, ws)
  OBVIOUS
<1>1. ws \cap Workspaces!Deletions(known) = gone
  BY <1>0 DEF Workspaces!Deletions, Dropped
<1>2. ws \subseteq W /\ ws \subseteq V /\ gone \subseteq ws
  BY <1>0 DEF Workspaces!Modified, Dropped
<1>3. /\ t = [local |-> t.local, server |-> t.server]
      /\ t.local = [w \in W \ gone |-> IF w \in ws \ gone THEN Workspaces!Entry(known[w].name) ELSE known[w]]
      /\ t.server = [w \in V \ gone |-> IF w \in ws \ gone THEN known[w].name ELSE remote[w]]
  BY <1>1 DEF Workspaces!Pushed, Lists
<1>4. \A w \in W : Workspaces!Entry(known[w].name) \in Entries(names) /\ known[w].name \in names
                   /\ known[w] \in Entries(names)
  BY DEF Workspaces!Entry, Entries
<1>5. /\ t.local \in [W \ gone -> Entries(names)]
      /\ \A w \in W \ gone : t.local[w] = IF w \in ws THEN Workspaces!Entry(known[w].name) ELSE known[w]
  BY <1>3, <1>4
<1>6. /\ t.server \in [V \ gone -> names]
      /\ \A w \in V \ gone : t.server[w] = IF w \in ws THEN known[w].name ELSE remote[w]
  BY <1>2, <1>3, <1>4
<1>7. DOMAIN known = W /\ DOMAIN remote = V
  OBVIOUS
<1> QED BY <1>0, <1>3, <1>5, <1>6, <1>7 DEF AfterPush

\* Where nothing is left to push, a pull leaves the server's list.
LEMMA PullSettles ==
    ASSUME NEW W, NEW known, known = [w \in W |-> Workspaces!Entry(known[w].name)],
           NEW V, NEW remote, remote = [v \in V |-> remote[v]],
           NEW once \in Workspaces!ReconcileWorkspaceManifest(Lists(known, remote), remote)
    PROVE  Settled(once, remote)
<1> DEFINE s == Lists(known, remote)
<1>1. /\ DOMAIN known = W /\ DOMAIN remote = V
      /\ \A w \in W : known[w] = Workspaces!Entry(known[w].name)
  OBVIOUS
<1>2. Workspaces!Modified(known) = {}
  BY <1>1 DEF Workspaces!Modified, Workspaces!Entry
<1>3. Workspaces!Refused(s) = {}
  BY <1>2 DEF Workspaces!Refused, Lists
<1>4. Workspaces!Pushed(s, {}) = s
  <2>1. [w \in W |-> known[w]] = known
    BY <1>1
  <2>2. Workspaces!Pushed(s, {}) = [local |-> [w \in W |-> known[w]], server |-> [v \in V |-> remote[v]]]
    <3>1. {} \cap Workspaces!Deletions(known) = {} /\ W \ {} = W /\ V \ {} = V /\ {} \ {} = {}
      OBVIOUS
    <3>2. [w \in W |-> IF w \in {} THEN Workspaces!Entry(known[w].name) ELSE known[w]] = [w \in W |-> known[w]]
      OBVIOUS
    <3>3. [v \in V |-> IF v \in {} THEN known[v].name ELSE remote[v]] = [v \in V |-> remote[v]]
      OBVIOUS
    <3> QED BY <1>1, <3>1, <3>2, <3>3, Zenon DEF Workspaces!Pushed, Lists
  <2> QED BY <2>1, <2>2 DEF Lists
<1>5. Workspaces!Pulled(s, remote) = Lists([v \in V |-> Workspaces!Entry(remote[v])], remote)
  <2>1. \A v \in V : (IF v \in W /\ known[v].name = remote[v] THEN known[v] ELSE Workspaces!Entry(remote[v]))
                     = Workspaces!Entry(remote[v])
    BY <1>1
  <2>2. [v \in V |-> IF v \in W /\ known[v].name = remote[v] THEN known[v] ELSE Workspaces!Entry(remote[v])]
        = [v \in V |-> Workspaces!Entry(remote[v])]
    BY <2>1
  <2>3. Workspaces!Pulled(s, remote) =
           [s EXCEPT !.local = [v \in V |-> IF v \in W /\ known[v].name = remote[v] THEN known[v]
                                            ELSE Workspaces!Entry(remote[v])]]
    BY <1>1 DEF Workspaces!Pulled, Lists
  <2>4. \A k : [s EXCEPT !.local = k] = Lists(k, remote)
    BY DEF Lists
  <2> QED BY <2>2, <2>3, <2>4
<1>6. Workspaces!Reconciled(s, remote) = Workspaces!Pulled(s, remote)
  BY <1>2, <1>4 DEF Workspaces!Reconciled, Lists
<1>7. once = [ok |-> TRUE, state |-> Workspaces!Pulled(s, remote)]
  BY <1>3, <1>6 DEF Workspaces!ReconcileWorkspaceManifest
<1> QED BY <1>1, <1>5, <1>7 DEF Lists, Settled

\* ReconcileWorkspaceManifest, for any lists.
THEOREM ListsConverge ==
    ASSUME NEW names, NEW W, NEW known \in [W -> Entries(names)],
           \A w \in W : known[w].deleted => known[w].modified,
           NEW file \in {Workspaces!Missing, Workspaces!Corrupt, Workspaces!Stored(known)},
           NEW V, NEW remote \in [V -> names]
    PROVE  Workspaces!Converges(file, remote)
<1> DEFINE mine == Workspaces!LoadWorkspaceManifest(file)
           start == Lists(mine, remote)
<1>1. PICK L : mine \in [L -> Entries(names)] /\ \A w \in L : mine[w].deleted => mine[w].modified
  <2>1. CASE file = Workspaces!Stored(known)
    BY <2>1 DEF Workspaces!LoadWorkspaceManifest, Workspaces!Stored
  <2>2. CASE file # Workspaces!Stored(known)
    <3>1. mine = <<>>
      BY <2>2 DEF Workspaces!LoadWorkspaceManifest, Workspaces!Missing, Workspaces!Corrupt
    <3>2. <<>> \in [{} -> Entries(names)]
      OBVIOUS
    <3> QED BY <3>1, <3>2
  <2> QED BY <2>1, <2>2
<1> HIDE DEF mine
<1> DEFINE M == Workspaces!Modified(mine)
           has(s, w) == IF mine[w].deleted THEN w \notin DOMAIN s.server
                        ELSE w \in DOMAIN s.server /\ s.server[w] = mine[w].name
<1>2. Workspaces!Refused(start) = M \ V /\ M \subseteq L
  BY <1>1 DEF Workspaces!Refused, Workspaces!Modified, Lists
\* What any number of calls bring about.
<1>3. ASSUME NEW ws \in SUBSET (M \cap V), NEW t, t = Workspaces!Pushed(start, ws)
      PROVE  /\ \A w \in ws : has(t, w)
             /\ \A w \in M \ ws : w \in Workspaces!Modified(t.local)
  <2>1. PICK gone : gone = Dropped(mine, ws)
    OBVIOUS
  <2>2. /\ t.local \in [L \ gone -> Entries(names)]
        /\ \A w \in L \ gone : t.local[w] = IF w \in ws THEN Workspaces!Entry(mine[w].name) ELSE mine[w]
        /\ t.server \in [V \ gone -> names]
        /\ \A w \in V \ gone : t.server[w] = IF w \in ws THEN mine[w].name ELSE remote[w]
    <3>1. /\ remote \in [V -> names] /\ mine \in [L -> Entries(names)]
          /\ ws \in SUBSET (Workspaces!Modified(mine) \cap V)
          /\ t = Workspaces!Pushed(Lists(mine, remote), ws)
      BY <1>1, <1>3
    <3> HIDE DEF M, start
    <3>2. AfterPush(t, names, mine, remote, ws, Dropped(mine, ws))
      BY <3>1, PushedEffect
    <3> QED BY <2>1, <3>1, <3>2 DEF AfterPush
  <2>3. \A w \in ws : has(t, w)
    BY <2>1, <2>2 DEF Dropped
  <2>4. \A w \in M \ ws : w \in Workspaces!Modified(t.local)
    <3>1. \A w \in M \ ws : w \in L \ gone /\ mine[w].modified
      BY <1>2, <2>1 DEF Workspaces!Modified, Dropped
    <3>2. DOMAIN t.local = L \ gone
      BY <2>2
    <3>3. \A w \in M \ ws : t.local[w] = mine[w]
      BY <2>2, <3>1
    <3> QED BY <3>1, <3>2, <3>3 DEF Workspaces!Modified
  <2> QED BY <2>3, <2>4
<1>4. ASSUME M \ V # {}, NEW once \in Workspaces!ReconcileWorkspaceManifest(start, remote)
      PROVE  ~once.ok /\ \A w \in M : has(once.state, w) \/ w \in Workspaces!Modified(once.state.local)
  <2>1. Workspaces!Refused(start) # {} /\ M \ Workspaces!Refused(start) = M \cap V
    BY <1>2, <1>4
  <2>2. Workspaces!Modified(start.local) = M
    BY DEF Lists
  <2>3. \E ws \in SUBSET (M \cap V) : once = [ok |-> FALSE, state |-> Workspaces!Pushed(start, ws)]
    BY <2>1, <2>2 DEF Workspaces!ReconcileWorkspaceManifest
  <2>4. PICK ws \in SUBSET (M \cap V) : ~once.ok /\ once.state = Workspaces!Pushed(start, ws)
    BY <2>3
  <2>5. /\ \A w \in ws : has(once.state, w)
        /\ \A w \in M \ ws : w \in Workspaces!Modified(once.state.local)
    BY <1>3, <2>4
  <2> QED BY <2>4, <2>5
<1>5. ASSUME M \ V = {}, NEW once \in Workspaces!ReconcileWorkspaceManifest(start, remote)
      PROVE  /\ once.ok /\ \A w \in M : has(once.state, w)
             /\ \A twice \in Workspaces!ReconcileWorkspaceManifest(once.state, once.state.server) :
                  /\ twice.ok /\ twice.state.server = once.state.server
                  /\ twice.state.local =
                        [v \in DOMAIN twice.state.server |-> Workspaces!Entry(twice.state.server[v])]
  <2>1. PICK t : t = Workspaces!Pushed(start, M)
    OBVIOUS
  <2>2. PICK gone : gone = Dropped(mine, M)
    OBVIOUS
  <2>3. M \in SUBSET (M \cap V)
    BY <1>5
  <2>4. /\ t = [local |-> t.local, server |-> t.server]
        /\ t.local \in [L \ gone -> Entries(names)]
        /\ \A w \in L \ gone : t.local[w] = IF w \in M THEN Workspaces!Entry(mine[w].name) ELSE mine[w]
        /\ t.server \in [V \ gone -> names]
    <3>1. /\ remote \in [V -> names] /\ mine \in [L -> Entries(names)]
          /\ M \in SUBSET (Workspaces!Modified(mine) \cap V)
          /\ t = Workspaces!Pushed(Lists(mine, remote), M)
      BY <1>1, <2>1, <2>3
    <3> HIDE DEF M, start
    <3>2. AfterPush(t, names, mine, remote, M, Dropped(mine, M))
      BY <3>1, PushedEffect
    <3> QED BY <2>2, <3>1, <3>2 DEF AfterPush
  <2>5. \A w \in M : has(t, w)
    BY <1>3, <2>1, <2>3
  <2>6. once = [ok |-> TRUE, state |-> Workspaces!Pulled(t, remote)]
    <3>1. Workspaces!Refused(start) = {} /\ Workspaces!Modified(start.local) = M
      BY <1>2, <1>5 DEF Lists
    <3> QED BY <2>1, <3>1 DEF Workspaces!ReconcileWorkspaceManifest, Workspaces!Reconciled
  <2>7. \A w \in L \ gone : t.local[w] = Workspaces!Entry(t.local[w].name)
    <3> SUFFICES ASSUME NEW w \in L \ gone
                 PROVE  t.local[w] = Workspaces!Entry(t.local[w].name)
      OBVIOUS
    <3>1. CASE w \in M
      <4>1. t.local[w] = Workspaces!Entry(mine[w].name)
        BY <2>4, <3>1
      <4> QED BY <4>1 DEF Workspaces!Entry
    <3>2. CASE w \notin M
      <4>1. t.local[w] = mine[w] /\ mine[w] \in Entries(names)
        BY <1>1, <2>4, <3>2
      <4>2. mine[w].modified = FALSE /\ mine[w].deleted = FALSE
        BY <1>1, <3>2, <4>1 DEF Workspaces!Modified, Entries
      <4> QED BY <4>1, <4>2 DEF Entries, Workspaces!Entry
    <3> QED BY <3>1, <3>2
  <2>8. PICK k : k = [v \in V |-> Workspaces!Entry(remote[v])]
    OBVIOUS
  <2>9. Workspaces!Pulled(t, remote) = Lists(k, t.server)
    <3>1. DOMAIN remote = V /\ DOMAIN t.local = L \ gone
      BY <2>4
    <3>2. \A v \in V : (IF v \in DOMAIN t.local /\ t.local[v].name = remote[v] THEN t.local[v]
                        ELSE Workspaces!Entry(remote[v])) = Workspaces!Entry(remote[v])
      BY <2>7, <3>1
    <3>3. Workspaces!Pulled(t, remote).local = k
      BY <2>4, <2>8, <3>1, <3>2 DEF Workspaces!Pulled
    <3>4. Workspaces!Pulled(t, remote) = [t EXCEPT !.local = Workspaces!Pulled(t, remote).local]
      BY <2>4 DEF Workspaces!Pulled
    <3> QED BY <2>4, <3>3, <3>4 DEF Lists
  <2>10. once.ok /\ once.state = Lists(k, t.server) /\ once.state.server = t.server
    BY <2>6, <2>9 DEF Lists
  <2>11. \A v \in V : k[v].name = remote[v]
    BY <2>8 DEF Workspaces!Entry
  <2>12. k = [v \in V |-> Workspaces!Entry(k[v].name)]
    BY <2>8, <2>11
  <2>13. t.server = [v \in V \ gone |-> t.server[v]] /\ DOMAIN t.server = V \ gone
    BY <2>4
  <2>14. ASSUME NEW twice \in Workspaces!ReconcileWorkspaceManifest(once.state, once.state.server)
         PROVE  /\ twice.ok /\ twice.state.server = t.server
                /\ twice.state.local = [v \in V \ gone |-> Workspaces!Entry(t.server[v])]
    <3>1. twice \in Workspaces!ReconcileWorkspaceManifest(Lists(k, t.server), t.server)
      BY <2>10
    <3>2. t.server = [v \in V \ gone |-> t.server[v]]
      BY <2>13
    <3>3. Settled(twice, t.server)
      BY <2>12, <3>1, <3>2, PullSettles
    <3> QED BY <2>13, <3>3 DEF Settled
  <2> QED BY <2>5, <2>10, <2>13, <2>14
<1>6. start.local = mine /\ start.server = remote
  BY DEF Lists
<1> QED BY <1>4, <1>5, <1>6 DEF Workspaces!Converges, Lists, mine

-----------------------------------------------------------------------------
(* The requests all this is done with, and the polling of the jobs.        *)

\* doWithHeaders, whatever becomes of each attempt: a request that is not
\* idempotent is sent once, any other four times at most, nothing after a
\* definite answer, and the exit code tells a success from a failure.
THEOREM RequestsOnce ==
    ASSUME NEW m \in Api!Methods, NEW Outcome, NEW outcomes \in [1 .. 4 -> Outcome], NEW cancelled
    PROVE  Api!RequestsBounded(m, outcomes, cancelled)
<1> DEFINE ends == {k \in 1 .. 4 : k = 4 \/ k = cancelled \/ ~Api!TryAgain(m, outcomes[k])}
           k == Api!Attempts(m, outcomes, cancelled)
\* The request ends with the first attempt after which it is not tried again.
<1>1. k \in ends /\ \A j \in ends : k <= j
  <2>1. \E e \in ends : \A j \in ends : e <= j
    <3> DEFINE first(e) == \A j \in ends : e <= j
    <3>1. ends \subseteq 1 .. 4 /\ 4 \in ends
      OBVIOUS
    <3> HIDE DEF ends
    <3>2. CASE 1 \in ends
      BY <3>1, <3>2
    <3>3. CASE 1 \notin ends /\ 2 \in ends
      BY <3>1, <3>3
    <3>4. CASE 1 \notin ends /\ 2 \notin ends /\ 3 \in ends
      BY <3>1, <3>4
    <3>5. CASE 1 \notin ends /\ 2 \notin ends /\ 3 \notin ends
      BY <3>1, <3>5
    <3> QED BY <3>2, <3>3, <3>4, <3>5
  <2>2. k = CHOOSE e \in ends : \A j \in ends : e <= j
    BY DEF Api!Attempts, Api!maxAttempts
  <2> HIDE DEF ends, k
  <2> QED BY <2>1, <2>2
<1> HIDE DEF k
<1>2. k \in 1 .. 4 /\ \A j \in 1 .. 4 : j < k => j # cancelled /\ Api!TryAgain(m, outcomes[j])
  BY <1>1
<1>3. k = 4 \/ k = cancelled \/ ~Api!TryAgain(m, outcomes[k])
  BY <1>1
<1> HIDE DEF ends
<1>4. m \in {"POST", "PATCH"} => k = 1
  BY <1>2 DEF Api!TryAgain, Api!isRetryableMethod
<1>5. \A j \in 1 .. k : outcomes[j] \notin Api!NetworkErrors /\ ~Api!isRetryableStatus(outcomes[j]) => j = k
  BY <1>2 DEF Api!TryAgain
<1> DEFINE last == outcomes[k]
           exit == Api!CallExit(m, outcomes, cancelled)
<1>6. Api!Success(last) => ~Api!isRetryableStatus(last) /\ last \notin Api!NetworkErrors
  BY DEF Api!Success, Api!isRetryableStatus, Api!NetworkErrors
<1>7. CASE k = cancelled /\ Api!TryAgain(m, last)
  <2>1. Api!Do(m, outcomes, cancelled) = [error |-> "context", status |-> "none", body |-> FALSE]
    BY <1>7 DEF Api!Do, k
  <2>2. exit = 1
    BY <2>1 DEF Api!CallExit
  <2>3. ~Api!Success(last)
    BY <1>6, <1>7 DEF Api!TryAgain
  <2> QED BY <1>2, <1>4, <1>5, <2>2, <2>3 DEF Api!RequestsBounded, Api!maxAttempts, k
<1>8. CASE ~(k = cancelled /\ Api!TryAgain(m, last)) /\ k # cancelled /\ last \in Api!NetworkErrors
  <2>1. Api!Do(m, outcomes, cancelled) = [error |-> last, status |-> "none", body |-> FALSE]
    BY <1>8 DEF Api!Do, k
  <2>2. exit = 1
    BY <1>8, <2>1 DEF Api!CallExit, Api!NetworkErrors
  <2>3. ~Api!Success(last)
    BY <1>6, <1>8
  <2> QED BY <1>2, <1>4, <1>5, <2>2, <2>3 DEF Api!RequestsBounded, Api!maxAttempts, k
<1>9. CASE ~(k = cancelled /\ Api!TryAgain(m, last)) /\ ~(k # cancelled /\ last \in Api!NetworkErrors)
  <2>1. Api!Do(m, outcomes, cancelled).error = "none" /\ Api!Do(m, outcomes, cancelled).status = last
    BY <1>9 DEF Api!Do, k
  <2>2. exit = Api!ExitCode(last)
    BY <2>1 DEF Api!CallExit
  <2>3. exit = 0 <=> Api!Success(last)
    <3>1. CASE Api!Success(last)
      <4>1. last \notin {"401", "423", "404", "402", "413", "429"}
        BY <3>1 DEF Api!Success
      <4> QED BY <2>2, <3>1, <4>1 DEF Api!ExitCode
    <3>2. CASE ~Api!Success(last)
      BY <2>2, <3>2 DEF Api!ExitCode
    <3> QED BY <3>1, <3>2
  <2>4. Api!Success(last) => last # "lost"
    BY DEF Api!Success
  <2>5. Api!Attempts(m, outcomes, cancelled) = k
    BY DEF k
  <2> HIDE DEF exit, last
  <2>6. exit = Api!CallExit(m, outcomes, cancelled) /\ last = outcomes[k]
    BY DEF exit, last
  <2>7. k \in 1 .. k
    BY <1>2
  <2> QED BY <1>2, <1>4, <1>5, <2>3, <2>4, <2>5, <2>6, <2>7 DEF Api!RequestsBounded, Api!maxAttempts
<1> QED BY <1>7, <1>8, <1>9

\* A set of numbers that is not empty has a least one.
LEMMA LeastNumber ==
    ASSUME NEW T \in SUBSET Nat, T # {}
    PROVE  \E x \in T : \A y \in T : x <= y
<1> DEFINE R == {ss \in Nat \X Nat : ss[1] < ss[2]}
<1>1. IsWellFoundedOn(R, Nat)
  BY NatLessThanWellFounded DEF OpToRel
<1>2. \A x, y \in Nat : <<y, x>> \in R <=> y < x
  OBVIOUS
<1> HIDE DEF R
<1>3. PICK x \in T : \A y \in T : <<y, x>> \notin R
  BY <1>1, WFMin
<1>4. \A y \in T : y \in Nat /\ x \in Nat /\ ~(y < x)
  BY <1>2, <1>3
<1>5. \A y \in T : x <= y
  BY <1>4
<1> QED BY <1>5

\* backoffSchedule, and its last delay from then on.
LEMMA Delays == \A k \in Nat : k >= 1 => Api!Delay(k) \in 1 .. 5
<1> SUFFICES ASSUME NEW k \in Nat, k >= 1
             PROVE  Api!Delay(k) \in 1 .. 5
  OBVIOUS
<1>1. CASE k \in 1 .. 4
  BY <1>1 DEF Api!Delay, Api!backoffSchedule
<1>2. CASE k > 4
  BY <1>2 DEF Api!Delay, Api!backoffSchedule
<1> QED BY <1>1, <1>2

\* PolledAt is what its definition says, as there is such a function.
LEMMA PolledAtSums ==
    Api!PolledAt = [k \in Nat |-> IF k <= 1 THEN 0 ELSE Api!PolledAt[k - 1] + Api!Delay(k - 1)]
<1> DEFINE Sums(f) == f = [k \in Nat |-> IF k <= 1 THEN 0 ELSE f[k - 1] + Api!Delay(k - 1)]
           g == [k \in Nat |-> CASE k <= 1 -> 0 [] k = 2 -> 1 [] k = 3 -> 3 [] OTHER -> 5 * k - 14]
<1>1. Sums(g)
  <2>1. ASSUME NEW k \in Nat
        PROVE  g[k] = IF k <= 1 THEN 0 ELSE g[k - 1] + Api!Delay(k - 1)
    <3>1. CASE k <= 1
      BY <3>1
    <3>2. CASE k \in {2, 3, 4}
      <4>1. Api!Delay(1) = 1 /\ Api!Delay(2) = 2 /\ Api!Delay(3) = 3
        BY DEF Api!Delay, Api!backoffSchedule
      <4> QED BY <3>2, <4>1
    <3>3. CASE k > 4
      <4>1. Api!Delay(k - 1) = 5
        <5>1. CASE k = 5
          BY <5>1 DEF Api!Delay, Api!backoffSchedule
        <5>2. CASE k > 5
          BY <5>2 DEF Api!Delay, Api!backoffSchedule
        <5> QED BY <3>3, <5>1, <5>2
      <4>2. g[k] = 5 * k - 14 /\ g[k - 1] = 5 * (k - 1) - 14
        BY <3>3
      <4> QED BY <3>3, <4>1, <4>2
    <3> QED BY <3>1, <3>2, <3>3
  <2> HIDE DEF g
  <2>2. g = [k \in Nat |-> g[k]]
    BY DEF g
  <2> QED BY <2>1, <2>2
<1>2. Api!PolledAt = CHOOSE f : Sums(f)
  BY DEF Api!PolledAt
<1> HIDE DEF Sums, g
<1>3. Sums(Api!PolledAt)
  BY <1>1, <1>2
<1> QED BY <1>3 DEF Sums

\* Each poll is at least a second after the one before.
LEMMA PollsAdvance ==
    \A k \in Nat : Api!PolledAt[k] \in Nat /\ (k >= 1 => Api!PolledAt[k] >= k - 1)
<1> DEFINE Good(k) == Api!PolledAt[k] \in Nat /\ (k >= 1 => Api!PolledAt[k] >= k - 1)
           bad == {k \in Nat : ~Good(k)}
<1>1. \A k \in Nat : k <= 1 => Good(k)
  <2>1. \A k \in Nat : k <= 1 => Api!PolledAt[k] = 0
    BY PolledAtSums
  <2> QED BY <2>1
<1>2. ASSUME NEW k \in Nat, k > 1, Good(k - 1)
      PROVE  Good(k)
  <2>1. Api!PolledAt[k] = Api!PolledAt[k - 1] + Api!Delay(k - 1)
    BY <1>2, PolledAtSums
  <2>2. Api!Delay(k - 1) \in 1 .. 5
    BY <1>2, Delays
  <2> QED BY <1>2, <2>1, <2>2
<1>3. CASE bad # {}
  <2>1. PICK k \in bad : \A j \in bad : k <= j
    BY <1>3, LeastNumber
  <2>2. k \in Nat /\ ~Good(k)
    BY <2>1
  <2> HIDE DEF Good
  <2>3. k > 1
    BY <1>1, <2>2
  <2>4. k - 1 \in Nat /\ k - 1 \notin bad
    BY <2>1, <2>2, <2>3
  <2>5. Good(k - 1)
    BY <2>4
  <2> QED BY <1>2, <2>2, <2>3, <2>5
<1> QED BY <1>3

\* PollBatchStatus, for any timeout and any answers that last until it: it ends
\* with the first answer that is not a wait or with the timeout, and has polled
\* once a second at most.
THEOREM PollingEnds ==
    ASSUME NEW timeout \in Nat \ {0}, NEW Answer, NEW answers \in Seq(Answer),
           Api!PolledAt[Len(answers) + 1] >= timeout
    PROVE  Api!PollsEnd(answers, timeout) /\ Api!PollBatchStatus(answers, timeout).polls <= timeout
<1> DEFINE n == Len(answers)
           ends == {k \in 1 .. n : answers[k] \notin Api!KeepPolling}
                   \cup {k \in 1 .. n : Api!PolledAt[k + 1] >= timeout}
           k == CHOOSE e \in ends : \A f \in ends : e <= f
           got == Api!PollBatchStatus(answers, timeout)
<1>1. n \in Nat /\ ends \in SUBSET Nat
  OBVIOUS
<1>2. n \in ends
  <2>1. n # 0
    <3>1. Api!PolledAt[1] = 0
      BY PolledAtSums
    <3> QED BY <3>1
  <2> QED BY <1>1, <2>1
<1> HIDE DEF ends
<1>3. \E e \in ends : \A f \in ends : e <= f
  BY <1>1, <1>2, LeastNumber
<1>4. k \in ends /\ \A f \in ends : k <= f
  BY <1>3
<1>5. got.polls = k /\ got.result = IF answers[k] \in Api!KeepPolling THEN "timeout" ELSE answers[k]
  BY DEF Api!PollBatchStatus, ends
<1> HIDE DEF k, got
<1>6. k \in 1 .. n
  BY <1>4 DEF ends
<1>7. \A j \in 1 .. k - 1 : answers[j] \in Api!KeepPolling /\ ~(Api!PolledAt[j + 1] >= timeout)
  <2> SUFFICES ASSUME NEW j \in 1 .. k - 1
               PROVE  answers[j] \in Api!KeepPolling /\ ~(Api!PolledAt[j + 1] >= timeout)
    OBVIOUS
  <2>1. j \in 1 .. n /\ j \notin ends
    BY <1>4, <1>6
  <2> QED BY <2>1 DEF ends
<1>8. Api!PolledAt[k] < timeout
  <2>1. CASE k = 1
    <3>1. Api!PolledAt[1] = 0
      BY PolledAtSums
    <3> QED BY <2>1, <3>1
  <2>2. CASE k > 1
    <3>1. k - 1 \in 1 .. k - 1 /\ (k - 1) + 1 = k /\ k \in Nat
      BY <1>6, <2>2
    <3>2. ~(Api!PolledAt[k] >= timeout)
      BY <1>7, <3>1
    <3>3. Api!PolledAt[k] \in Nat
      BY <3>1, PollsAdvance
    <3> QED BY <3>2, <3>3
  <2> QED BY <1>6, <2>1, <2>2
<1>9. got.result \notin Api!KeepPolling
  BY <1>5 DEF Api!KeepPolling
<1>10. \A j \in 1 .. k - 1 : answers[j] \in Api!KeepPolling
  BY <1>7
<1>11. k <= timeout
  <2>1. k \in Nat /\ k >= 1
    BY <1>6
  <2>2. Api!PolledAt[k] \in Nat /\ Api!PolledAt[k] >= k - 1
    BY <2>1, PollsAdvance
  <2> QED BY <1>8, <2>1, <2>2
<1> QED BY <1>5, <1>8, <1>9, <1>10, <1>11 DEF Api!PollsEnd, got

-----------------------------------------------------------------------------
(* What Decisions asks of these parts, for every question.                 *)

\* A request by any method and with any outcomes, given up at any attempt or
\* never, is sent and answered as RequestsBounded says, and so is a poll of any
\* batch whose answers last until the timeout.
THEOREM EveryRequestIsBounded ==
    ASSUME NEW Outcome, NEW Answer,
           case[1] = "request" => case[2] \in Api!Methods /\ case[3] \in [1 .. 4 -> Outcome],
           case[1] = "poll" => /\ case[2] \in Seq(Answer) /\ case[3] \in Nat \ {0}
                               /\ Api!PolledAt[Len(case[2]) + 1] >= case[3]
    PROVE  RequestsBounded
<1>1. case[1] = "request" => Api!RequestsBounded(case[2], case[3], case[4])
  BY RequestsOnce
<1>2. case[1] = "poll" => Api!PollsEnd(case[2], case[3])
  BY PollingEnds
<1> QED BY <1>1, <1>2 DEF RequestsBounded

\* The lists of workspaces before a command: what is on disk, whether it can be
\* read or not, and what the server has.
ListsOf(names, file, remote) ==
    /\ file \in {Workspaces!Missing, Workspaces!Corrupt}
       \/ \E W : \E known \in [W -> Entries(names)] :
             /\ \A w \in W : known[w].deleted => known[w].modified
             /\ file = Workspaces!Stored(known)
    /\ \E V : remote \in [V -> names]

\* Any flags over any documents select what they ask for, and any two lists of
\* workspaces are brought together, as ChangesAsAsked says.
THEOREM EveryChangeIsAsAsked ==
    ASSUME NEW names,
           case[1] = "docs" => /\ case[2] \in UNION {[S -> Item] : S \in SUBSET Paths}
                               /\ case[3] \in FlagSets,
           case[1] = "manifest" => ListsOf(names, case[2], case[3])
    PROVE  ChangesAsAsked
<1>1. case[1] = "docs" => Docs!SelectsAsAsked(case[2], case[3])
  BY DocsAsAsked
<1>2. ASSUME case[1] = "manifest"
      PROVE  Workspaces!Converges(case[2], case[3])
  <2>1. PICK V : case[3] \in [V -> names]
    BY <1>2 DEF ListsOf
  <2>2. CASE case[2] \in {Workspaces!Missing, Workspaces!Corrupt}
    <3>1. <<>> \in [{} -> Entries(names)]
      OBVIOUS
    <3> QED BY <2>1, <2>2, <3>1, ListsConverge
  <2>3. CASE case[2] \notin {Workspaces!Missing, Workspaces!Corrupt}
    <3>1. PICK W : \E known \in [W -> Entries(names)] :
                      /\ \A w \in W : known[w].deleted => known[w].modified
                      /\ case[2] = Workspaces!Stored(known)
      BY <1>2, <2>3 DEF ListsOf
    <3> QED BY <2>1, <3>1, ListsConverge
  <2> QED BY <2>2, <2>3
<1> QED BY <1>1, <1>2 DEF ChangesAsAsked
=============================================================================
