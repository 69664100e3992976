# A verification project for browzer-cli

TLA+ models of `browzer`: of the parts in which several processes, goroutines or
machines meet, as state machines, and of the parts that only decide something, as
functions. TLC configurations check them on small instances, and TLAPS proofs
establish what matters most for instances of every size. Paths below are
relative to the repository root.

## 1. The system

`browzer` is one Go binary that runs in three roles, without any central
coordinator:

* **command**: a short-lived process (`workspace sync`, `login`, `init`, `search` ...);
* **hook**: a short-lived process the coding agent starts around each of its tool
  calls; it must never delay or fail the call;
* **daemon**: `browzer daemon start`, one long-running process per user behind a Unix
  socket, with a SQLite tracker, a telemetry batcher and two caches.

The processes share files under `~/.browzer` (PID file, socket, lock files, the
pending-events queue, credentials, manifests, `history.db`) and the remote API. There is no
file locking except one `O_EXCL` lock, and each file operation is a system call
that others can come between.

### Inventory

| Component | State | Operations | What is hard |
|---|---|---|---|
| Pending-events queue (`internal/hooks/pending_events.go`, `daemon_call.go`; `drainPendingEvents`) | `pending-events.jsonl`, its `.1` backup, `.drain-*` and overflow files | Track with a deadline, append, rotate, drain at boot | appenders, rotators and drains run at once and share no lock; daemons die while draining |
| Spawn lock (`internal/hooks/acquire_lock.go`, `EnsureDaemon`) | `daemon-spawn` lock file with a PID | acquire, classify, reclaim, release | file created before its PID is written; unlinks by path |
| Daemon lifecycle (`daemonStartCmd`, `internal/daemon/server.go`) | PID file, socket, `lastReqAt`, `queueLen` | start, serve, idle exit, Shutdown, signal | check-then-act on two names; `Stop` races with the main goroutine |
| JSON-RPC methods (`internal/daemon/methods.go`, `client.go`) | connections | Track, Read, Health, SessionRegister, Shutdown | late answers |
| Daemon caches (`manifest_cache.go`, `session_cache.go`) | in-memory map, `manifests/*.json` | get, background refetch, foreground pull | two writers of one temporary name; compare, then rename |
| Telemetry (`internal/telemetry`, `consentGatedSend`) and tracker (`internal/tracker`) | `events` table, consent timestamp | record, snapshot, post, mark, clean up | lost replies, partial marks, consent withdrawn meanwhile |
| Device flow (`internal/auth/device_flow.go`) | polling loop | poll, wait, slow down | timers, a window, an arbitrary server |
| Credentials (`internal/auth/credentials.go`, `login`, `logout`) | `credentials` and its `.tmp` | save, load, clear, revoke | shared temporary name, which every load cleans up |
| Workspace commands (`init`, `workspace relink/unlink/delete`) | project config and its `.tmp`, the caller's workspaces | create or reuse, bind, unbind, delete | two at once; failure after creation |
| Document sync (`internal/upload`, `workspace docs`, `workspace sync`) | docs cache, server documents | merge, delta, upload, acknowledge, delete | files change between walk and read; partial batches |
| `workspace docs` flags (`workspace_docs_spec.go`) | none | parse, resolve, apply, confirm | combinations of add, remove and replace |
| Manifest reconciliation (`ReconcileWorkspaceManifest`, `internal/cache/manifest.go`) | local and server workspaces | push, pull | pull from a list older than the push |
| API client (`internal/api`) | none | retry with back-off, batch polling | requests repeated after a lost reply; deadlines |
| Hook guards (`internal/commands/hooks`, `internal/hooks`) | sentinel files | verdicts, rewrites, recorded savings | quoting, repeated rewriting, once per session |
| Filters (`runfilters`, `daemon/filter.go`), walker, code-review aggregation, gain reports | none | pure decisions | boundary cases |
| Read-only commands, upgrade check, configuration, presentation | none | one request, a rendering | none that a model would reach |

The components meet in files and in the daemon: hooks call Track and fall back to the
queue, which the next daemon drains into the tracker's table, from which its batcher sends
(`EventQueue`, then `Telemetry`); hooks start the daemon behind the spawn lock (`SpawnLock`,
then `DaemonLifecycle`); `browzer sync` writes the manifest that the daemon's Read serves
(`ManifestCache`, then `ReadFilter`); any command cleans up the `.tmp` a login is saving
(`UserCommands`); every guard claims its sentinel (`HookLedger`) and records rows that
`gain` adds up (`HookSavings`, then `GainReport`).

### What makes each component correct

* Queue: a queued event is replayed at most once, and disappears only in the steps that
  are known to drop it; a hook always returns.
* Spawn lock: somebody forks a daemon; no lock file is left behind.
* Lifecycle: one daemon serves and the PID file names it; the idle watcher's counter is
  exact; a daemon nobody can reach goes away.
* Telemetry: only what was sent or skipped is marked; duplicates only after a fault; consent
  withdrawn stops delivery; nothing stays unsent for ever.
* Device flow: never faster than asked; an approval within the window is seen; bounded
  whatever the server says.
* Manifest cache: the copy in memory does not go back while the one on disk does not; the
  daemon's rename does not replace a newer one; a missing manifest is fetched.
* Commands on one checkout: files are whole; a directory gets one workspace; a reported
  success is on disk.
* Document sync: a success leaves the server with the documents the walk found; the cache of
  hashes, which stands for a server that returns none, is exact.
* Decisions: a rewrite keeps the command; guards speak once and only when they should;
  requests are not repeated that may not be; no finding, failure or changed line is lost, but for
  those the properties name; nothing private is listed; savings add up; what is changed is what was
  asked for.

## 2. The modules

State machines:

| Module | Models | Abstract specification | Proofs |
|---|---|---|---|
| `EventQueue` | hooks, queue files and daemons' drain | `QueueContract` | `EventQueueProofs` |
| `SpawnLock` | `AcquireLock` and the fork in `EnsureDaemon` | | `SpawnLockProofs` |
| `DaemonLifecycle` | start-up, service, idle exit and stop of daemon processes | | `DaemonLifecycleProofs` |
| `Telemetry` | batchers, consent gate, marking, clean-up, panic and restart | | `TelemetryProofs` |
| `DeviceFlow` | `PollForToken`, token endpoint, user, time | | `DeviceFlowProofs` |
| `DocSync` | `runSyncFlow` (documents), `workspace docs`, `UploadInBatches`, docs cache, ingestion | | `DocSyncProofs` |
| `ManifestCache` | the daemon's manifest cache and its refetch beside `browzer sync` | | `ManifestCacheProofs` |
| `UserCommands` | login, logout, init, relink, unlink, delete, sync and any command that loads the session | `AtomicFile` | `UserCommandsProofs` |
| `SharedTmp` | the way both save files: write `<path>.tmp`, rename | | |

Decisions, each an operator from inputs to what the code answers, with its properties at
the end of the module:

| Module | Models | Proofs |
|---|---|---|
| `CommandGuards` | `rewrite-bash`, the arguments of `browzer run`, what the contract and track guards make of a command | |
| `ShellSkeleton` | `StripQuoted` | |
| `PromptGuard` | `prompt-guard` | |
| `HookLedger` | session sentinels and the guards that speak once | `EventQueueProofs` |
| `HookGuards` | `GateAllowed`, workspace detection, the guards on writes, dispatches, pushes and sessions | `EventQueueProofs` |
| `HookSavings` | `rewrite-read`, `block-glob`, the `postuse` guards, `TrackRun` | `TelemetryProofs` |
| `GainReport` | `QueryAggregated`, `gain`, the session summary, `UnsentBuckets` | `TelemetryProofs` |
| `ReadFilter` | `browzer read`, the daemon's Read, the levels of filtering | `ManifestCacheProofs` |
| `OutputFilters` | the filters of `browzer run` | `ManifestCacheProofs` |
| `ApiClient` | one request with retries and exit code, `PollBatchStatus` | `DocSyncProofs` |
| `Walker` | `WalkRepo`, `WalkDocs`, ignore files | |
| `CodeReview` | `codereview aggregate` | `ManifestCacheProofs` |
| `DocSpec` | `workspace docs --add/--remove/--replace`, delta, confirmation | `DocSyncProofs` |
| `ManifestReconcile` | loading and reconciling the workspace manifest | `DocSyncProofs` |

`MCx` gives module `x` its TLC instance. `Decisions` composes the decision modules that can be
proved about and states what they promise together; the proof modules extend it, and so does
`MCDecisions`, which adds the questions of a small instance and the promises of the recursive
modules (`CommandsKept`, `WalksStayInBounds`).
Each definition is named for the function it translates, or its comment names the call.
Definitions marked "Slip" are plausible bugs next to
the definition they would replace: putting one in its place makes a property fail, which
shows the property depends on that piece of code.

**EventQueue.** A hook is the event it tracks; a daemon is one process, so a restart is
another member of `Daemons`. Files are inodes because an appender keeps the inode it
opened: `pending` and `backup` are names, `drain[d]` is the inode daemon `d` renamed. `Send`,
`Reply`, `Timeout` are `invokeDaemon` under `daemonCallTimeout`; `StatPending`,
`RotatePending`, `OpenPending`, `WritePending` are the system calls of
`AppendPendingEvent`; `DrainRename`, `DrainLine`, `DrainDone` those of
`drainPendingEvents`. The conversion from the queued envelope to a row is
`UnmarshalTrackParams`, by field name as `encoding/json` does it. `Exit` is any
end of a daemon. An oversized event goes to its own overflow file, which nothing drains.

**SpawnLock.** `lockFile` is the file the path names, identified by its creator;
`written` are the files that hold their PID. `Reclaim` and `Release` unlink the path
whatever it names.

**DaemonLifecycle.** One action per system call of `checkStaleDaemon`, `writePID`, `Serve`
and `Stop`; `stop[d]` is the goroutine in `Stop`, `pc[d]` the main one. The two reads
of `idleWatcher` are two actions. `LoseRequest` is what a client sees when the
process or the listener goes. `overlap` only observes whether two processes were in start-up at
once.

**Telemetry.** A row is `absent`, `unsent`, `flushed` or `deleted`; the rows of `Blank` have no
timestamp. `Snapshot`, `Gate`,
`Delivered`/`ReplyLost`/`PostFails`, `MarkChunk`, `MarkDone` are `tryFlush`; `Panic` is the
slice of a blank timestamp in `UnsentBuckets`, which ends the process, and `Restart` the next
start with its `Cleanup`;
`received`, `skipped` and `late` observe the server and the gate. The batcher flushes on
its ticker only: the `Threshold` option is read nowhere in the code.

**DeviceFlow.** Half seconds, because the code truncates elapsed time to seconds. A phase
(`sent`, `wait`) ends at the latest at `due`. `offer` is what the server sent and whether
it follows RFC 8628.

**DocSync.** A document is its content, and a content stands for its hash. `local`, `server`
and `cacheFile` are the three views the command reconciles, `seen` and `listed` what it took
of the first two; `newCache` is saved at the end. `Delta` is `mergeDocItems`
and `computeDocDelta`; `ReadBatch`, `Post`, `Poll` are one round of `UploadInBatches`, and
`FirstUploads` its matching by position. `Ingest` is the server's asynchronous work
(external). `untracked` observes the documents something happened to that the
code does not record, so that the properties say exactly which cases are excepted:
an edit between walk and read, a rejection in the batch, a failed ingestion, a lost reply, a
poll or save that failed, an interrupt after uploads, and `--no-wait`. A walk is one step, an
oversized file counts as an unreadable one, and two runs of the command at once are left out.

**SharedTmp.** A directory is two names, `.tmp` and the file itself, and the inodes they
denote. `os.WriteFile` is an open that truncates and a write to the inode it opened,
whatever that is called by then; a second body over a longer one may leave a torn file.

**ManifestCache.** A copy is its version (`indexedAt`) and its writer. `GetMisses`,
`ReadFile`, `Install` are `Get`, which reads outside the lock; `kicked` counts goroutines before
`singleflight`, `refetch` is the flight; `Compare` holds `c.mu` until `RefetchRenames`. A sync
writes the same `.tmp` without that lock. `wentBack` observes whether the file on disk was
replaced by an older or damaged one, `inPlace` whether the file the daemon compared with was
written to since. The latter is an exception of `LandsForward`
that only two syncs show and that the proof asked for: a rename by one sync can put the file
another has open under the final name, and that one's write then makes `manifest.json` newer with the lock held.

**UserCommands.** One process per command; `creds` and `project` are directories of `SharedTmp`.
`Clean` and `ReadCredentials` are `LoadCredentials`, which every command that needs a session
goes through. The workspaces on the server are a set, because the order in which the API lists
them is not the code's; one is whether its root is this directory, and a name, and `init` reuses
any of those its rule prefers. Creation may succeed and lose its reply. `overlapped` is the set of files of which two saves
were under way at once, and `raced` observes an init that created while unable to see another's.
`AtomicFile` is what a save is meant to be: the file changes at one instant, to what some running
command asks for.

**The decision modules.** What a property can tell apart remains: a command is a sequence of
words, a line of output the class its filter puts it in, a path a sequence of names, a prompt a
sequence of atoms, a directory its depth. Vocabulary, tool lists, thresholds and caps are
CONSTANTS or bounds of the run. Several of them use RECURSIVE operators and are for TLC only.

## 3. The runs

| Run | Instance | States | Shows |
|---|---|---|---|
| `event_queue` | 3 hooks (one oversized), 2 daemons, rotation at more than 0 lines | 0.19 M | `RefinesQueueContract`, `LossOnlyInKnownSteps` |
| `event_queue_live` | 3 hooks (one oversized), 1 daemon | | `HookReturns` |
| `daemon_lifecycle` | 2 daemons, 1 client | 60 k | `OneDaemonUnlessOverlap`, `QueueLenCountsRequests`, `OrphanRetires` |
| `spawn_lock` | 4 processes, 3 attempts | 0.11 M | `YieldsToASpawner`, `FreeWhenAllReturned` |
| `telemetry` | 3 events (one blank), 2 daemons, chunk of 1 | 0.51 M | `MarkedWasInBatch`, `DuplicatesNeedFaults`, `RevocationStopsDelivery`, `NothingStaysUnsent` |
| `device_flow` | intervals 1..3 s, window 3..6 s, 8 attempts | 1.2 M | `NeverPollsEarly`, `ApprovalIsSeen`, `ReturnsInTime`, `WindowClosesBeforeCap` |
| `doc_sync` | 2 documents, 2 contents, batches of 2, 3 runs of the command | 4.1 M | `CacheKnowsServer`, `SuccessMeansSynced` |
| `manifest_cache` | 2 syncs, 1 request, 2 versions, 1 crash | 0.50 M | `MemoryForward`, `LandsForward`, `MissingRecovers` |
| `user_commands` | 3 processes, 1 kill, 3 workspace ids | 0.86 M | `NoDamage`, `NoDuplicates`, `ReportsHonest`, `RefinesAtomicFile` |
| `decisions` | 21 kinds of question | 0.13 M | the seven properties below |
| `doc_sync_rejected`, `manifest_stale` | as above | | the disagreements of section 6 |

`decisions` has one state per question, and each property answers several kinds of question:
`CommandsKept` commands, shell pieces and prompts; `GuardsSpeakInTurn` sessions of guard calls and
guards in environments; `RequestsBounded` four attempts and five polls; `WalksStayInBounds` ignore
files over one tree, in which directory names repeat; `NothingHidden` outputs of the filters, test events, diffs, statuses, reads and
reviews; `SavingsHonest` large reads, searches, runs, results and tables of recorded savings;
`ChangesAsAsked` flags over items, and manifests over servers.

Why the bounds are enough:

* *event_queue*: the races are between an appender, a rotator and a drain, and a
  second drain; three hooks and two daemons give each a process and one to spare.
  `RotateAt = 0` lets every file that holds a line be rotated, which stands for the 10 MB
  cap. `MaxInode = 3` is one file per hook, the most three hooks can create. Runs with
  safety properties use symmetry of the ordinary hooks and of daemons; runs with liveness do not.
* *daemon_lifecycle*: every conflict is between two processes on one name. Each starts at
  most once; a restart is the other one starting. One client gives a request in flight; the
  theorems about the counter are for any number of them.
* *spawn_lock*: a file can be unlinked by the reader of an older one; four processes give a
  holder, a reclaimer of the leftover, one that acquires in between and one that
  reads the result.
* *telemetry*: `MaxFaults = 1` and `MaxToggles = 1` bound failures and consent changes; one of
  each meets every step of both batchers, and a chunk of one row leaves batches half marked.
  One blank row ends each daemon that snapshots it.
* *device_flow*: the code's constants scaled down in the same order (the interval below its
  ceiling, the window below the cap); offers below, inside and above the clamps.
* *doc_sync*: a batch of two is the smallest in which one file can be rejected and the other
  not; the order of a batch (inserts, then re-uploads) and two edits (one can undo the
  other) make the cache meet every older and newer content; three runs are one to fill the cache, one to go
  wrong and one to be misled. `MaxFaults = 1` puts one failed request, lost
  reply, failed ingestion or interrupt at any step.
* *manifest_cache*: the conflicts are between the flight and the writers of the same name, of
  which two can help each other; two versions give an older copy and a newer one, and a daemon
  that dies leaves a `.tmp` behind. Several Reads that install at once, and a goroutine that joins a
  flight, are in the theorems, which hold for any number of requests, versions and kicks.
* *user_commands*: the conflicts are between two writers of a file, or a writer and a cleaner;
  the third process cleans up or deletes under the other two. `MaxIds = 3` is one workspace
  that exists and one for each init.
* *decisions*: commands include every chain and pipe operator and each of the verbs that show a
  file; shell pieces include those `strip_quoted.go` misreads, and those nobody closes; outputs, diffs
  and statuses include the classes no filter keeps. Sequences of up to three or four elements of each
  class put every pair of
  classes side by side and one between them; caps (4 attempts, 20 lines of a hunk, 5 deletes,
  30 lines verbatim, 8 levels, 40 KB) are scaled down so that inputs lie below, at and above them.

Deadlock checking is off everywhere but in `decisions`: hooks, clients, logins and commands
end, and a state in which all have ended has no successor.

**Fairness.** `EventQueue`: each hook is a running process whose system calls return and whose
deadline fires; nothing is assumed of daemons. `DaemonLifecycle`: a live daemon's
goroutines are scheduled, handlers return and time passes; nobody has to start a
daemon, call one or crash. `Telemetry`: the ticker of a batcher fires and its calls return (the
HTTP client has a timeout), and a daemon that died of a panic is started again, as any hook
does; users, clocks and the server owe nothing. `ManifestCache`: Read requests keep coming,
the daemon's goroutines run, and the API does not fail for ever (strong fairness of `Fetch`);
syncs owe nothing. The other modules state safety only.

`NothingStaysUnsent` presumes that blank rows stop arriving, because `Events` is finite: a
daemon cleans up only at its start, so a blank row recorded between that and its first tick,
75 seconds later, costs each daemon in turn.

## 4. The proofs

All are for every value of the constants under the named assumptions of the modules, by the same
argument: an inductive invariant `IInv`, proved to hold initially and to be preserved by each action
(one step per action), implies the property.

* **EventQueueProofs** (any finite set of hooks, any daemons, rotation threshold and number of
  files). `RefinesQueueContract` is not inductive: that a replayed line never comes back to the
  queue depends on where its bytes are. `NamesInv` says that the names lines are drained from
  (`pending`, `backup`, each daemon's drain file) denote different files, `LineInv` that a line is
  in at most one file and is written once, `ReplayInv` that a replayed line is in none that will
  still be read. `QueueStep` classifies every step as one that shrinks the queue, adds one line or
  replays one line; `StepRefines` maps each class to the contract. `LossOnlyInKnownSteps` needs
  `AnswerInv` as well: an "ok" from a daemon with a tracker means that the row is in the table.
* **TelemetryProofs** (any finite sets of events and daemons, any chunk size and bounds).
  `DeliveryInv` accounts for each delivery: of an unsent event, by a daemon that is about to mark it
  or by a fault; of a marked one, deliveries and daemons that still hold the event (`Holding`)
  together do not exceed daemons plus faults. `ConsentInv` does the same for the batches past the
  gate, and `BatchInv` says that a batch holds recorded rows and is marked only when received or
  skipped. A panic drops a snapshot that was never sent, and a restart begins without one, so
  neither adds a delivery.
* **SpawnLockProofs** (any set of processes, `MaxAttempts > 1`). `IInv` adds to `TypeOK` what a
  program counter says of the files a process has written and the daemons it forked (`ProcInv`),
  whom the path can name (`FileInv`), and that a process in its second round met a file somebody
  created (`RoundInv`). `YieldsToASpawner` alone is not inductive: a process may give up after
  unlinking a stale file, and only `RoundInv` knows that its creator tried. `MaxAttempts > 1` is
  needed: with one attempt a lone process would remove the leftover and give up.
* **DaemonLifecycleProofs** (any daemons, any finite set of clients). `IInv` relates the PID file to
  the program counters as long as start-ups have not overlapped (whoever is past its PID write and
  has not removed it is the one named), and counts the requests in `handling`.
* **DeviceFlowProofs** (any intervals, windows, lateness and head start). `IInv` ties `due` and
  `now` to the phase, the last arrival to the interval, and the number of attempts to the time
  passed. `CapIsNeverReached` uses `SafetyCapAssumption`, `(maxPollCount - 1) * minInterval >
  maxExpires`, true of the code's 720, 5 and 1800.
* **DocSyncProofs** (any finite set of documents, numbered in the order of their paths, any
  contents, batch size, edits, faults and runs). The two properties speak of moments of rest; in
  between, `CacheInv` and `NewCacheInv` hold for the documents that are not `untracked`: the cache
  on disk is exact but for what the run has sent, and the one being built is exact but for what is
  being polled. That rests on `JobInv` (a job of such a document exists only while it is polled) and
  `IngestInv` (when the job is gone, the server has its content). `PlanInv` says that a document on
  which walk and server disagree is still in the plan or being sent. `WholeBatchesAreRecorded` is
  the other side of finding `doc_sync_rejected`: a batch taken whole is recorded right, whatever its
  size.
* **ManifestCacheProofs** (any requests, versions, kicks and crashes, any finite set of syncs that
  the daemon is not one of). What memory holds is not newer than `manifest.json` or than what the
  daemon renames next (`MemoryInv`); for the rename, a copy of the daemon's in `.tmp` is the one of
  the flight (`TmpInv`), and between comparison and rename it is not older than `manifest.json`
  unless a write came in place (`GapInv`). The finite set of syncs is needed so that an open finds a
  file nobody holds (`FreshInode`).
* **UserCommandsProofs** (any finite set of processes, each a positive number, any workspaces and
  kills). `.tmp` and the file never have the same inode (`NamesInv`). While saves do not overlap,
  whoever is between open and write has `.tmp` or a removed file open (`SavesInv`), so a cleaner can
  make a save fail but not damage it; `SessionInv` and `BindingInv` say the same of a command that
  writes a file alone, and what it leaves there. `WorkspaceInv`: an `init` is about to create only
  if there was no workspace here, or it could not see. `SavesAreAtomic` maps both files to
  `AtomicFile` step by step: beginning a command asks, a rename or a removal of the file commits,
  a failure or a kill abandons, everything else stutters, and from the moment two saves of a file
  overlap (`Contend`) nothing is claimed of it.

The decision modules whose definitions are not RECURSIVE operators are proved about beside a state
machine, as lemmas about their operators, and for every input. Five theorems put them together to the
properties of `Decisions`, so that what the run checks of a few questions is proved of all:

* **`EveryChangeIsAsAsked`** (`DocSyncProofs`). `workspace docs` carries out what its flags ask for
  (`DocsAsAsked`), and the plan of `DocSync` is the delta `DocSpec` computes from the walk, the list
  and the cache (`PlansAreDeltas`), so the two models agree where they meet. `ListsConverge` proves
  `ManifestReconcile`'s `Converges` for lists of any size, provided that an entry marked for
  deletion is marked as modified, which is how `manifest.go` describes the two flags.
* **`EveryRequestIsBounded`** (`DocSyncProofs`). `RequestsOnce` and `PollingEnds`, the latter for any
  timeout and any answers, one per second of it.
* **`GuardsKeepTheirTurn`** (`EventQueueProofs`). `HookGuards` for directories of any depth
  (`GuardsStayOut`; the two walks to the root, which are separate code, agree), and `HookLedger` for
  sessions of any length (`GuardsSpeakOnce`).
* **`EverySavingIsHonest`** (`TelemetryProofs`). The savings of `HookSavings` for every size, the
  best of the results for every order of equal scores, and the reports of `GainReport` for any table:
  its sums do not depend on the order in which the rows are added, and the groups of a report, or
  the daemon's buckets, partition the rows, so they add up to the total, losses included.
* **`NothingIsHidden`** (`ManifestCacheProofs`). Of six parts, each for inputs of any length:
  * *Reads* (`EveryReadIsFaithful`): any lines under any entry, older ones and ones without symbols
    included. An invariant over the lines says that what is shown so far is in order, lacks
    only what stands inside a comment, and is whole but for lines with a comment's sign in a string; sorted symbols are in order whatever `sort.Slice` does with
    equal ones.
  * *Reviews* (`EveryFindingIsKept`): any directory whose members' prefixes differ, by induction on
    the members (`Holds`: the findings so far, each at a place of its own).
  * *Filters* (the lemma `ReportsAreShown`) and *tests* (`EveryFailedTestIsShown`). `ReportsOf` says what
    a tool reports without regard to the filter, and `LostReports` which of these reports are lost:
    the lemma is that the loss is exactly that. Because the filters choose lines by their class, it
    says little that the definitions do not, and is no theorem of its own; what it establishes beyond
    them is that the order and the number of the reports survive. The events of a test are collected
    by induction on the failed tests.
  * *Statuses* (`EveryFileIsCounted`): an entry counted under a header has that header above it and
    no other in between.
  * *Diffs* (`EveryChangeIsAccountedFor`): `DiffInv` holds between any two lines. Each closed
    hunk that hides changes has a notice of its own; the open one either shows as it goes, or is held
    back and then nothing of it is shown yet. `CountInv` says what the two counters hold: the changes
    of the open hunk and those of the hunks before it, of whatever file, since the last of
    a new or deleted file (`Kept`), because nothing else resets them; `CountedWhole` makes that `CountedFor` when the
    notice is written. It needs what the property presumes (`AsDiffed`): lines that differ, hunks
    that change something, and lines of hunks that follow a header.

Two things these need are not in reach of the library as it is. Its induction theorems take an operator
as a parameter, so inductions are made from `WFMin` and `NatLessThanWellFounded` instead:
`LeastNumber` gives a set of numbers its least element, and a set of counterexamples has none; over
finite sets the same is done with their size. And a recursive function is what its definition says
only if such a function exists. Where a closed form is at hand it is exhibited (`PolledAtSums`,
`SentinelsLeft`); otherwise it is put together from its finite traces (`TracesAgree`, `TracesExist`,
`Recursion`), and the sums of `GainReport` by the size of the set.

Only model-checked: `CommandsKept` (`CommandGuards`, `ShellSkeleton`, `PromptGuard`) and
`WalksStayInBounds` (`Walker`), whose modules use RECURSIVE operators, which rule out theorems, and all
liveness (`HookReturns`, `OrphanRetires`, `NothingStaysUnsent`, `MissingRecovers`), because TLAPS
does not reason about fairness and ENABLED. Of the walks nothing is claimed beyond the run's
directories, with every ignore file the run combines.

## 5. The plan

1. *Done*: the modules of section 2, their runs, the proofs of all safety invariants and of the
   safety action properties of the state machines, `AtomicFile` and `QueueContract` shown to be
   implemented, and the proofs of all decision modules without RECURSIVE operators.
2. The remaining ones (`ShellSkeleton` first) restated with recursive functions, and proved.
3. An abstract specification of the sync ("an undisturbed run makes the server equal to the tree")
   and `DocSync` shown to implement it; two runs at once, which share `docs.json.tmp`.
4. A composition of `SpawnLock` and `DaemonLifecycle` (how many daemons start after a crash).

## 6. Where the code and its texts disagree

Two are the subject of a run that shows them:

* **Hash of a rejected file** (`doc_sync_rejected`): acknowledged jobs are matched with uploads by
  position, so a rejected file gets the hash and id of the next one, although
  "every successful upload writes" its own (`pipeline.go:66-67`). A re-upload recorded this way is
  never sent again while the file stays as it is.
* **Older manifest over a newer one** (`manifest_stale`): daemon and sync share `manifest.json.tmp`; when
  the sync renames the file the daemon has open, the daemon's write goes into `manifest.json`, although
  "A slow daemon refetch must NOT land after a fresher foreground sync"
  (`manifest_cache.go:202-204`). `workspace_manifest.go:40` calls the write atomic for the same reason.

The models contain the following too, and the properties are stated around them:

* *Queue.* A hook that opened the queue before the drain's rename writes into the file the drain
  unlinks (`daemon_cmd.go:587-589` says such writes go to a fresh file). Hooks queue an envelope and
  the drain decodes a `TrackParams`, so the recorded row is blank (`daemon_cmd.go:566`,
  `contract.md:261`). Overflow files are never drained. `contract.md` 262-277 describes a rotation
  lock, `flock`, `Truncate` and "leave the file as-is" on errors, while the code rotates without a
  lock, renames, skips failing lines and unlinks; its line 151 lets Shutdown flush telemetry.
* *Spawn lock.* The empty lock file between creation and PID write is taken for stale, so two
  processes can hold the lock (`daemon_call.go:267`, `acquire_lock_test.go:195`).
* *Telemetry.* A batch dropped for lack of consent is marked as sent (`tracker.go:288`). A row without
  a timestamp ends the daemon at its next tick. The sender keeps the bearer it read at start.
* *Manifest cache.* A damaged file never triggers the refetch, only a missing one does;
  `Invalidate` has no caller, so a running daemon does not see a sync.
* *Commands.* A sync saves the config it loaded before the parse, undoing a relink or unlink made
  meanwhile. `workspace rename` does not refresh the local manifest entry its help mentions.
* *Reconciliation.* The pull uses the list from before the push and undoes it locally until the
  next run; a 404 for a locally changed workspace stops every reconciliation, although "server delete
  wins"; a corrupt manifest counts as empty.
* *API client.* Expired credentials exit with 1 (`errors.go:61` says 2); the body of the last retryable
  answer is drained before the error is built; one 5xx ends the polling, and an unknown terminal
  status is polled for 30 minutes.
* *Reads.* `--offset` is documented as 1-indexed and is 0-indexed; the aggressive level's `inSymbol` is
  never read; `/*` inside a string or line comment opens a block, and `//` (in Python `#`) inside a string
  takes away the rest of the line (`filter.go:64-65`).
* *Savings.* `rewrite-read` and `postuse-read` both count one read, the latter a range as the whole
  file; the saving of a blocked Glob is a flat 10,240 tokens. Rows of unclassified sources are in
  the adoption report's total but in neither of its two named parts.
* *Guards.* `incremental-sync` passes a flag `--paths` that `sync` does not have, and records the
  event all the same. `BROWZER_HOOK=off` is said to silence every hook, but six never ask.
  `sync-on-push` matches quoted text. The sentinel is claimed before the answer is written.
  The prompt guard's branch that strips scopes is never reached.
* *Rewriting.* The comment at `rewrite_bash.go:321-325` counts `||` among the chains for which no hint is
  given; `chainOpRE` (line 77) does not match it and the hint is given, while `2>&1 | x` is taken for a chain and
  gets none. `head`, `tail`, `less` and `more` of a large code file become `browzer read`, which shows a
  digest of the file and not the end that was asked for.
* *Shell skeleton.* Inside `$( )` a parenthesis in quotes is counted, and a `<<` that opens no
  here-document (a shift) ends the skeleton (`strip_quoted.go:146-166`): from there on quoted text leaks or
  real text is swallowed. Outside, the rest of the line that opens a here-document is taken for
  its body, and `<<<` for its start.
* *Walks.* A re-rooted pattern is not anchored: `a/.gitignore` also hides `b/a/x.md`, although
  `walker.go:64-66` lets patterns "apply only beneath their containing directory"
  (`docs_walker.go:61-62`, `walker.go:262`). Conversely a bare name in a nested `.gitignore`, which git
  applies at any depth, becomes a path (`gitignore.go:31-32`), so that `x` of `a/.gitignore` leaves `a/c/x`
  listed and uploaded.
* *Filters.* Of commands that exit with 0 these reports are lost: what vitest under turbo says behind
  a bullet; biome's warnings and findings about whole files; what explains an error of `tsc`, and all its
  errors if the output is pretty and no underline is as long as `~~~` (`tsc.go:33`); cargo's compile errors; a pod
  that runs without being ready; what pnpm, terraform and git say where a summary replaces it.
  `git log` output that contains `remote:` is taken for a push; lines that are not JSON are dropped from a
  passing `go test -json` (`gotest.go:117` says passed through).
* *Diffs and statuses.* `hunkAddCount` and `hunkDelCount` are reset only by hunks of new and deleted files
  (`git.go:130-150`, 202-215), so the "(N lines)" of a new file also counts the lines added to ordinary files
  before it, and a new file after removed lines is not collapsed at all, contrary to `git.go:91-92`. Removed
  lines `-- x` and added `++ x` are dropped as headers, without notice. The unmerged paths of a
  conflict are counted in no section of a status (`git.go:290-292`).
* *Code review.* Members that share their first four letters get the same ids (`aggregate.go:273` says unique).
* *Document flags.* `--add x` also uploads other indexed documents that changed; a new file both added and
  removed is still uploaded.

## 7. Not modelled, and why

* `EnsureRunning` and `SessionCache.Get` have no callers outside tests; `Register` writes what nothing reads.
* The upgrade check compares two strings and gives advice; read-only commands are one request and a
  rendering; flags, help, exit-code tables, path configuration and rendering have no state that two
  steps could disagree about.
* PID reuse and `EPERM` from `kill -0` would need process identities apart from PIDs. The retry
  jitter of the lock is covered by arbitrary interleaving.
* *Failures that are one step, or none, in the models:* in `SpawnLock`, an error of the lock other than
  "taken" and the fork without it (`daemon_call.go:310-315`), a failed fork (330-336: "spawned" means
  attempted) and a failed write or close of the PID (`acquire_lock.go:89-97`); in `DaemonLifecycle`, the
  four exits of a request are one `FinishRequest`, since each gives `queueLen` back (`server.go:256-280`); in
  `ManifestCache`, a failed rename and the removal of the `.tmp` after it (`manifest_cache.go:222-225`,
  `workspace_manifest.go:41-43`).
* *Assumptions about data:* `DocSync` starts with an empty server and cache, so that a `docs.json`
  lost beside a full server (`docs_cache.go:36-49` makes it empty) is not reached; `ManifestCache` has every
  `indexedAt` present and parsed (otherwise the daemon renames without comparing,
  `manifest_cache.go:211-214`); `initGuardDecide` asks for the binding where the code asks whether `.browzer`
  exists (`init.go:74`); the session summary is that of a subprocess which answers in time
  (`session_summary.go:125-138`: otherwise nothing, or a fixed sentence).
* *Not caught:* a request that arrives between the two reads of the idle watcher is cut off
  (`server.go:197`), and an event both recorded and queued because the reply was late is told twice: both are
  steps of the models, and no text promises otherwise.
* Within modelled parts: the cap of 64 MiB on what `browzer run` captures (`run.go:15-19`), the NDJSON branch of the cargo filter, the interactive documents picker,
  previews and line counts of the walk, the matching of a single pattern by the gitignore library
  beyond base names, paths and negation, quotas and sizes in the sync, and the migration of the database.
