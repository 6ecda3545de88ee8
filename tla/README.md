# rpotato: TLA+ specifications

`rpotato` (the `src/` crate) is a local coding agent: a command line and a
terminal interface over a runtime that keeps everything it does in plain files.
Several processes of it may run at once on one machine and even in one project,
and each may be stopped at any moment. What the program promises (resume after
a stop, one consistent history, no lost event, no lost user file) rests on file
locks, on the order of a handful of writes, and on recoveries that run the next
time somebody takes a lock. That is what these specifications are about.

Paths below are relative to `src/src/` unless they start with `docs/`.

## 1. Inventory

### Components, their state and their operations

| component | where | state it keeps | operations | module |
|---|---|---|---|---|
| filesystem lease | `adapters/filesystem/lease*` | a lock file, a namespace guard, owner claims; kernel locks on inodes | `acquire`, `acquire_with_wait`, drop | `Lease` |
| runtime ledger | `app/workflow_adapter/ledger/*` | one JSON-lines file for all projects, its head, mirrors, operation log, SQLite projection | `append_event`, `append_planned`, `converge_derived`, tail read, head repair | `Ledger` (partly) |
| project transitions | `app/workflow_adapter/state/*`, `transition/journal/*`, `transaction_coordinator/*` | `current-state.json`, prepared journal, backups | bootstrap, event, compaction boundary, session new and select, reconcile, recovery | `Transition` (partly) |
| workflow snapshots and pointers | `app/workflow_adapter/state/workflow_*` | immutable snapshots, pointer to the committed revision, checkpoint events | create, checkpoint, close, load, pointer repair | `Transition` (partly) |
| approval, verification, terminal transactions | `app/patch_adapter/*`, `state/transaction*`, `transition/bundle_*` | bundles of up to ten events, revisions, transcript turn, lag markers | approve, verify, run the command, roll back, cancel, deny, recover | `Approval` (partly) |
| source replacement | `state/source_install*`, `patch_adapter/guard.rs` | target, temporary, rollback and guard files | plan, commit, `recover_source_replace` | `SourceInstall` (partly) |
| teams and subagents | `app/collaboration_adapter/*` | team file and snapshots, cancel marker, subagent records, parent evidence | plan, execute, recover, work, reconcile, cancel | `Team` (partly) |
| generation admission | `app/inference_adapter/backend/{generation_state,chat}*`, `adapters/filesystem/backend_state.rs` | generation record, lock, cancel marker, terminal records; an in-process table | begin, join, release, clean up, cancel, stop | `Generation` (partly) |
| backend sidecar | `app/inference_adapter/backend/sidecar*` | sidecar record, the server process | start, health loop, stop | `Sidecar` (partly) |
| local tool loop of a request | `app/tui_adapter/runtime/request/support/*` | counters and deadline of one request, its command | model turns, tool calls, commands, cancellation | `LocalTurn` (partly) |
| literal search | `.../local_tools/search.rs` | the scan of one file | push a chunk, finish | `LineScan` (partly) |
| web research | `app/web_search_adapter/research_flow/network_call.rs` | a process-wide pool: two workers, one queued job each | offer, receive, answer, give up | `WebPool` (partly) |
| conversation memory | `app/tui_adapter/session_memory*`, `transcript/recording.rs` | records in the ledger, the memory of each terminal | load, record, clear, change session | `Conversation` (partly) |
| model artifacts | `adapters/filesystem/model_artifact/*` | a partial and a final file | fetch, resume, verify, place, cleanup | `ModelFiles` (partly) |
| installation | `composition/*`, `adapters/system_install/*` | the installed binary, PATH entry, their ownership records, update marker | install, clean install, update, uninstall, the Windows scripts | `SystemInstall` (partly) |
| browser | `app/browser_adapter*`, `adapters/browser/*` | in the external browser | one session per call | none |
| extensions | `app/extensions_adapter/*`, `runtime_core/extensions/*` | manifests, permissions, skill phase | dispatch, import, enable | none |
| context, compaction, knowledge | `app/context_adapter/*`, `app/ontology_adapter/*` | compaction artifacts, ontology | compact, select, recall | publication only, in `Transition` |
| observability projection | `adapters/sqlite/*`, `app/observability_adapter.rs` | SQLite rows | project, report | when rows follow, in `Ledger` |
| evidence | `app/evidence_adapter/*` | content-addressed records | record, stop gate | none |
| policy, intent, reports | `app/policy_adapter.rs`, `app/intent_adapter/*` | none | decide, route, render | none |
| terminal interface, command line | `surfaces/*`, `app/tui_adapter.rs` | view state | submit, draw | request thread in `LocalTurn` |
| foundation | `foundation/*` | none | JSON, hashes, errors | a hash is an injective name |

### How they interact

    command line / terminal interface
        |                    |                         |
    Conversation         LocalTurn --- LineScan    SystemInstall, ModelFiles
        |                    |    \                    |
        |                Generation  WebPool       runtime lease
        |                    |                         |
        |                 Sidecar ------------- runtime lease
        v
    Approval, Team, session, compaction ...       (operations of a project)
        |  commit_state_event / checkpoint / prepared bundles
        v
    Transition   project guard (Lease) -> recovery -> workflow guard (Lease)
        |                                     |
        |  writer lease (Lease), one for all  |
        v                                     v
    Ledger  line, head, mirrors, log      snapshots, pointer, current state, SourceInstall
        ^
        |  no lock: tail readers

Everything is shared through files. The only lock primitive is the lease. A
project's guard is taken first, the workflow guard inside it, the ledger's writer
lease last, by commits and by recoveries. The runtime lease of an installation
serves the host's own files: server, generations, installation.

### What is hard about it, and what makes each component correct

* *Locks on paths.* Kernel locks belong to inodes; two of the three objects of a
  lease live in the temporary directory, where cleaners remove them. Correct:
  exclusion, no residue of the dead blocks anybody, waiting ends.
* *Writes that are several writes*: a line and its head, a snapshot, an event, a
  pointer and a current state, a marker and what it marks, a file and its
  ownership record. Correct: what is on disk between any two of them can be read,
  and finished or discarded.
* *Stops*, also of the one that recovers.
* *Reads before locks*: identity, ledger head, target hash, generation record,
  the paths of an installation are read early and used late. Correct: whoever used an
  old answer is refused, or harms nobody.
* *Leases dropped early*: team workers, the health loop of a server, restorations of
  source files and Windows scripts go on after the lease that started them.
* *One ledger for all projects, one host for all clients.*
* *Deadlines*: a request, a web call, a cancel each promise to end whatever the
  other side does.

`PROJECT.json` lists these as hazards, each at its line, with the properties that
answer it. One has none: the PATH registration of `init` (section 5).

## 2. The modules

| module | what it is |
|---|---|
| `Lease` | `RecoverableLease`, one action per system call that other processes can see |
| `EventLog`, `Ledger` | what the ledger promises; the append path with every write, and the lock-free reader |
| `AtomicState`, `Transition` | what transitions promise; the transition engine, recovery, workflows |
| `SourceInstall` | the replacement of a source file, one action per system call |
| `WorkflowLife`, `Approval` | the life of a patch workflow; the three kinds of bundle that realise it |
| `Team` | one team: its commands, workers, leases and what they leave |
| `Generation`, `Sidecar` | who may generate, and the server that does |
| `LocalTurn`, `LineScan`, `WebPool` | one request with its tools, the search it may run, the pool its web calls use |
| `Conversation` | terminals that record and restore a conversation |
| `ModelFiles`, `SystemInstall` | model artifacts and the installation |
| `MC...` | instances for TLC |
| `Lease_proofs`, `Ledger_proofs`, `SourceInstall_proofs`, `Approval_proofs` | theorems about the module of that name |
| `Transition_proofs` | theorems about `Transition`: state and types, then atomicity, workflows and recovery |
| `Files_proofs` | theorems about `ModelFiles` and `SystemInstall` |
| `Host_proofs` | theorems about `Sidecar`, `LocalTurn`, `Generation` and `WebPool` |
| `Sessions_proofs` | theorems about `Team` and `Conversation` |

The layers are stacked by what they promise. `Transition` and everything above it uses
leases as variables that name their holder, which is what `Exclusion` (proved of
`Lease`) entitles it to, and a ledger append as one step, which is what `Implements`
(proved of `Ledger`) entitles it to. `Approval` uses a source replacement as one
step, which `SourceInstall` justifies where the guard is kept. Each of these has a
condition, named below, that the upper layer inherits.

Definitions named `X_Something` next to a definition `X` are defects: what `X` would
be if the code had a plausible bug. No specification uses them; they record which
bug each property is there to notice.

### Lease

| state | in the code |
|---|---|
| `at`, `guard`, `file` | the inode a path names now, and the inodes a process has open |
| `guardHolder`, `lockHolder` | kernel locks (`try_lock`) |
| `claim`, `stale` | owner-claim files of the living and of the dead |
| `pc`, `result`, `late` | position in `acquire`, its answer, the deadline of `acquire_with_wait` |

`OpenGuard`, `LockGuard` and `ConfirmGuard` are open, `try_lock` and the identity
checks around it; `Scan` is `remove_stale_owner_claims` one entry at a time;
`CreateClaim`, `OpenLock`, `LockFile` and `ConfirmLock` follow; `Release` and the
`Drop...` actions are the drops in field order. `Kill` closes a process's handles and
leaves its claim. `Displace` puts another inode behind a path. On Unix the claims
directory itself is the guard (`SplitGuard = FALSE`), elsewhere a file beside it.

### Ledger

`lines`, `open`, `merged` and `head` are the records of the file, whether the last lacks its
newline, whether the last ran into the one before it (the two are then one line that does not
parse), and the head file. A physical hash commits to every line before it, so it is
represented by that prefix. `mirror`, `mirrorHead` and `oplog` are the derived
outputs. An append is `Enter`, `Plan` (reread, validate, look for the id), the writes
of line, newline and head (`writeln!` on an unbuffered file is two writes), `Verify`, the steps
of `converge_derived`, and `Done`, which records the returned ordinal. `Kill` may come between
any two of them, line and newline included: the line is then `Severed`, still accepted, and the
next record runs into it. The tail reader reads head, size, bytes, size, head without a lease.
`EventLog` is what is left of the promise: a history that only grows, but for the one severed
record it may end by losing (`Sever`, `Lose`).

### Transition

`current`, `journal`, `temp`, `snaps`, `pointer` and `backup` are a project's files,
`guard` and `writer` the leases, `task` what an operation has read so far, `bundle`
what it installs. An operation is `Begin` and `Observe` (reads without a guard),
`Enter`, the recovery of what it finds, `Prepare` (all checks under guard and writer
lease), `WriteTemp`, `CommitJournal` and the steps of `execute_state_transition`. What
an operation asks for is a set of targets, empty when the code refuses or has nothing
to do. `AppendEvent` is an append without a transition, `Lose` damage from outside.

### SourceInstall

`name` maps target, temporary, rollback and guard names to inodes, `data` inodes to
bytes (before, proposed, of the user, half written). `recover_source_replace` is one
action per system call: rollback record, temporary, link of the guard, the checks of
hash and identity, unlink, link, and the clean-up. The editor saves in place or by
rename, or removes the file, at any time but (when `LateEdits` is FALSE) in the
interval between last check and unlink that the release notes exclude. `Unguarded` makes the
installer give the transition guard back after the commit, as `restore_bytes` does.

### Approval and WorkflowLife

A bundle is a kind (`approve`, `verify`, a terminal action), its events, its
revisions and the script of steps that its coordinator function runs (`ApprovalOrder`,
`VerificationOrder`, `TerminalOrder`). `Commit` makes it the project's journal, `Advance`
takes its next step, `Stop` drops it, `Recover` (with a different set of checks per
kind) takes it up again; the projection barrier and the lag marker with their own steps
decide whether the process may go on. `AdmitApproval` reads the ledger head before
the guard. After the approved command (`RunCommand`), a failure is three things one after the
other: `Restore` puts the original back, fails or finds the user's bytes; errors and refusals before the
checkpoint are `Unrecorded` and leave `verification-started`; `Record` is the checkpoint, of `verified`, of
`failed`, or of the failure whose reason is `verification-failed-rollback-failed`. A stop may come
between any two. `WorkflowLife` is the life of a workflow and its command, which the
commits of journals implement (`LifeSpec`).

### Team

`teamStage`, `teamRev`, `teamSnap` are the team's file and the highest snapshot,
`holder` the operation, state and parent leases, `execution` the lease of each
subagent, `status` the subagent records, `sent` the prompts, `receipt` the completion
events, `evidence` what the parent received. Every command (`execute`, `reconcile`, `cancel`)
is a sequence of steps with its leases; the operation lease is given back before the
workers run. A checkpoint is two writes. `LaunchMerges` and `LaunchRecovers` are what the
launch of a single subagent under the same parent does to the team.

### Generation and Sidecar

`Generation`: `member` and `primary` are the in-process table behind its mutex,
`file` record, lock and marker, each removed by reading its id and then deleting the
path (`MatchFile`, `DeleteFile`); `lease` is the runtime lease. Begin, join, release,
cancel with its wait, stop with its fallback are step sequences.
`Sidecar`: starts hold the lease from the look at the record to its write (truncate
and write are two steps), then watch without it; a stop holds none. `lost` records
which servers lost their record behind their back.

### LocalTurn, LineScan, WebPool

`LocalTurn` is the thread of one request: prompt, model turn, admission of the call,
tool, observation, with all counters, the clock in window units, the cancellation token, and
the command's process with the pipe that descendants may hold. `LineScan` pushes chunks of a
file of any bytes through the state of the line being read, one line per `TakeLine` of the loop
over a buffer; the reference it is compared with
(`Hits`) splits the whole file into lines. `WebPool` has a round-robin over workers, a
queue each, transports that hang or panic, callers that give up.

### Conversation

`log` is the stream of user, reply, tool and reset records, `current` the project's
session, `tui` the memory of each terminal and what it is doing. An exchange loads the
memory of the session, runs, and appends its records one by one; `Bind` checks whether
the session is still the one it started in. `Restored` is the loop of
`restoration.rs` over the records of a session, a recursive function of the log.

### ModelFiles

`part` and `final` are the files at the two paths, `bytes` what each file holds,
`fetch` where each process stands. A handle goes on writing its file wherever that is
by then: `Written` puts a byte at the handle's own offset, or appends. The body may bring
wrong bytes, end early, break off; a process may be killed; `CleanupFailed` and
`MoveAway` are what the refusals tell the user to do. `overlap` records whether two
fetches were ever past their first look at once.

### SystemInstall

`binary`, `owned`, `onPath`, `pathOwned`, `marker`, `state` and `backend` are the
installation, `transition` the runtime lease, `cmd` the commands, `updater` and `deleter`
the Windows scripts that wait for their parent's exit. Removals come before their records,
installations too. A backend start spawns and records under the lease. `orphan`,
`swept` and `removed` are history: what a killed install left without a record, whether
a late script removed a newer binary, whether an uninstall still has its record to remove.

### Composition in the MC modules

`MCHost` (Generation, Sidecar, LocalTurn, WebPool), `MCSessions` (Team, Conversation,
LineScan) and `MCFiles` (SourceInstall, ModelFiles, SystemInstall) put components side by
side that share no state: the initial state chooses which one a behaviour is about, the
others stay in their initial states. Their properties then speak of exactly the
behaviours of each component, in one run. Where components do interact (lease and
ledger, ledger and transition, replacement and approval, server and generation), the
interaction is in the upper module.

## 3. The runs

| run | question | answer |
|---|---|---|
| `lease` | Unix, three processes, kills, a lock file replaced twice: can two hold it, can the dead block or pile up? elsewhere, guard and claims displaced independently: does every attempt return? | no; yes |
| `ledger` | two writers, a lock-free reader, three events, stops between any two writes: readable until a record runs into a severed line, and true to what was acknowledged, derived outputs right, `EventLog` implemented? | yes |
| `ledger_severed` | "lets startup finish any interrupted ... ledger ... window idempotently": is the ledger always readable? | violated |
| `transition_state` | events, sessions, compactions, reconciliations, damage, torn writes, unguarded appends, a stop, two projects: atomic, one chain, damaged files kept? | yes |
| `transition_workflow` | workflow operations with two stops: agree pointer, snapshots, events and current state, can every journal be finished, and is it? | yes, in one project |
| `transition_stranded` | "lets startup finish any interrupted ... window idempotently", with two projects | violated |
| `files` | source file, model artifact, installation (below) | yes |
| `source_unguarded` | is the source file kept where the installer gives the guard back? | violated |
| `approval` | two projects, a stop, a fault (a derived write, a restore, an error before the checkpoint), an edit: does disk agree at each step, is nothing taken back, the life followed, each unblocked bundle finished? | yes |
| `host` | admission, server record, request budgets, web pool: promises kept, everything ends that should? | yes |
| `sessions` | team, conversation, search: nothing sent twice, merged partly, restored wrongly or missed? | yes |
| `team_partial` | "without merging partial results into the parent" | violated |

### What the properties say

Properties are conjunctions of named parts, each with its own comment in its module.

* `lease`: `MutualExclusion`; `ScanKept` (types and `ClaimBudget`: at most one claim per
  directory, so the scan budget is never used up by crashes); `BlockedByTheLiving`;
  `AcquiresReturn`.
* `ledger`: `HistoryKept` (`Readable` until records have `merged`, `AckedStays`), `ReaderConsistent`,
  `DerivedKept` (never ahead; level at each acknowledgement), `ImplementsEventLog`. What the
  merged records cost is stated, not left out: of what was acknowledged, at most the severed
  record itself, whose id was tried again and found installed. `ledger_severed`: `AlwaysReadable`.
* `transition_state`: `CurrentInstalled`, `ReplacementsKept` (`CompactionChain`, `BackupKept`),
  `ImplementsAtomic`. `transition_workflow`: `RecoveredWhole` (`WorkflowAgrees`,
  `Shown`), `Recoverable`, `JournalsEmptied`. `transition_stranded`: `Recoverable` with two
  projects. What strands a journal at all is `FinishableUnlessHindered`, a theorem.
* `files`, source: `EvidenceFirst`, `NoClobber`, `SourceKept`, `EndsInstalled` (success is
  truthful; a committed replacement is finished). Model: `ModelWhole` (verified bytes or
  overlapping fetches), `StaysSettled` (a whole artifact is never touched again),
  `ModelPrepared` (who keeps asking gets it for good, overlaps included). Installation:
  `InstallKept` (`OwnedFound`, `StateKept`), `UninstallEnds`.
* `approval`: `OnDisk` (`EventsInOrder`, `Whole`, `CurrentBehind`, `DerivedShown`,
  `LagOwned`), `SourceAgrees` (an applied patch is in the file, an undone one is not; excepted are
  the inconclusive verification, whose file may be restored already, and the recorded failure
  of a rollback, whose patch is still there), `CommandApproved`, `NothingTakenBack` (`PointerForward`,
  `LagUntilConverged`), `LifeSpec`, `Recovered`.
* `host`: `AdmissionKept` (`OneClient`, `CancelScope`, `MarkerHeld`, `Acknowledged`,
  `Reopens`), `Settles`; `ServersFound` (`ServerKnown`, `OnePort`); `RequestKept`
  (`OncePerCall`, `AnswerEarned`, `ChildStopped`), `TurnInTime` (`WindowsGuaranteed`,
  `TurnEnds`); `PoolServes` (`JobsPlaced`, `CallReturns`, `JobsRun`).
* `sessions`: `TeamKept` (`SentOnce`, `MergedWhole`, `MarkerSettles`), `NoneStuck`,
  `EndIsFinal`; `ConversationTrue` (`PairsTrue`, `ToldKept`, `MemoryDurable`,
  `SessionKept`); `ScanExact`.

### Bounds and why they are enough

* *Two processes* (three for the lease on Unix, two elsewhere): every hazard above is between one process
  and one other, or between a stopped process, its successor, and a second successor.
* *Ledger*: three events of two projects, two with the same payload: one in flight, one
  that overtakes it, one that follows.
* *Transition*: three events, one stop with two projects, two stops with one workflow of up
  to three revisions, beyond the one revision a recovery may find on top of its own.
* *SourceInstall*: two stops, of the installer and of its recovery, and an edit before, between or
  after them; the safety theorems hold for any number of both. Four inodes name every combination of
  four names.
* *Approval*: two projects, one of which ends after its approval (`Short`); one stop, one
  edit, one fault (of a derived output, of a restore or before a checkpoint). A second stop meets the same files as the first one.
* *Team*: two lanes, two processes, three commands, one stop and one event of the outside:
  an execution, another beside or after it, and a cancel or a reconciliation.
* *Generation*: two generations of two clients with a join, a crash, a fault, and a cancel or
  stop; ids are never used twice. *Sidecar*: two starts, a stop, three servers, one death.
* *LocalTurn*: three calls, two of which may be admitted; windows of two and one units, so
  that every deadline can fall before, on and after an event; outputs below and above the cap.
* *WebPool*: two workers, two callers, four calls: the number that fills it.
* *Conversation*: two terminals, two sessions, two exchanges with a tool each, one trouble.
* *LineScan*: files of up to four bytes over a newline, a zero and two letters, literals of
  up to three, every way of cutting them into chunks; limits of two matches and two visible
  bytes.
* *ModelFiles*: an artifact of two bytes (resumed after none, one or both), one more fetch
  beside the process that keeps asking, one fault, kill and cleanup.
* *SystemInstall*: four commands of one process beside one that uninstalls until it is done,
  one kill of a command, script or move.
* *Symmetry* of the processes is used in runs without liveness only (`transition_state`,
  `sessions`).
* Bootstrap and workflow operations are in `transition_workflow`, damage, torn writes and
  unguarded appends in `transition_state`: each run interleaves the operations that share the files
  its properties are about.

Liveness properties have the form `[]<>` (again and again the operation is not under way, or the
journal is gone), which says of a repeated operation what `~>` says of each start.

Deadlock is checked in the lease, ledger and transition runs, where a process may always try
again. The others may stop: budgets are used up, a request or a team ends for good. `NoneStuck` says
of the team's leases what a deadlock check would.

### Fairness

* `Lease!Fairness`, of the platform with two claims namespaces only, which `AcquiresReturn` is about:
  a live process takes its next step and the clock reaches the deadline.
  Nobody is obliged to ask for, release or survive anything.
* `Transition!FairSpec`, `SourceInstall!FairSpec`: a running process goes on (sequential
  code without waits other than deadlines), and each project is opened again: without it
  nobody would look at the journal.
* `Approval!FairSpec`: a process goes on until it stops, and the user keeps issuing commands
  in a project whose last one failed; strong, because the other project's recovery blocks and
  unblocks it again and again.
* `Generation`: each client takes its next step and a stream ends, by its answer or by its
  deadline. Commands are not fair.
* `LocalTurn`: the thread and the clock go on, and descendants of a command that hold its pipe
  end some day; nothing makes a command end, a model stop asking or a user press Ctrl+C.
* `WebPool`: callers go on, workers take and complete jobs; transports may hang.
* `ModelFiles`: each fetch goes on, one process asks again whenever it was refused, and
  the user does what a refusal tells. `SystemInstall`: commands and scripts go on, one
  user uninstalls again and again, and stops the backend.

In `MCLease`, `MCFiles` and `MCHost` the component is chosen at the start. In `MCFiles` every fair action
is conjoined with the choice of its component, since those that
rest could otherwise never take the step fairness asks for. In the two others what was not chosen rests where
none of their fair actions is enabled. Kills are bounded, never fair.

### Findings

1. **`transition_stranded`**. A committed journal fixes the ordinal of its event, but the writer
   lease that protects the ordinal dies with the process. Once another project has
   appended, the recovery is refused for good and so is every later transition of the
   project (`ledger/writer.rs:188`), against `docs/state-lifecycle.md:114`.
2. **`source_unguarded`**. `restore_bytes` and `apply_proposal` install after the guard is
   given back; a recovery in another process runs the same steps, and the slower unlinks the
   file the faster installed (`patch_adapter/guard.rs:162`).
3. **`ledger_severed`**. `append_line` writes a record and its newline as two writes
   (`ledger/append.rs:30`). A process that dies between them leaves a line that every reader
   accepts (`storage/chain.rs:33`) and whose head is repaired, so that the next record runs into it. From
   then on the ledger does not parse, in any project, against `docs/state-lifecycle.md:114`.
4. **`team_partial`**. `recover_completed_parent_merges` runs before every launch and merges
   the completed members of failed and cancelled teams (`docs/team-runtime.md:72,83`).

Behaviour that the models show and that no run states as a violation; where a property excepts it, the
exception is named:

* Transition: a half-written temporary journal is parsed before it is removed and blocks its project
  (`recovery.rs:70`; `TornWrites` with `transition_stranded`'s property). A backup that a stop cut short
  (`state/current_transition.rs:147`) and a current state that went missing behind a journal are refused by
  every recovery. An event that
  overlaps `session new` brings the old session back (`state/lifecycle/events.rs:8`).
* Approval: the file of a failed verification is restored (`workflow_execution.rs:155`) before
  anything of the failure is recorded (`:187`), and the evidence between them can fail (`:165`): a stop
  or an error there leaves the workflow in `verification-started`, an applied phase, over the
  original file. A failed restore is recorded with the patch still in the file (`:184`). `SourceAgrees`
  names both.
* Team: two executors that overlap in sequential mode each fail a lane of the other; a late
  advance to `failed` between review and merge leaves a failed team with merged evidence; a stop
  between snapshot and file refuses every later checkpoint (`team_state.rs:203`); an executor whose
  preparation fails cancels the members another one runs; receipts are checked and then appended
  without a lease, and may be there twice; a cancel after a stop within the merge leaves its evidence.
* Generation: a stop removes the files of a group that still runs once one terminal record is
  there (`sidecar.rs:310`), so that a second group may run beside it, although
  `docs/releases/v0.30-v0.36.md:481` says "One app-data root permits one active generation at a
  time."; `OneClient` excepts exactly these. A late marker overwrites a newer request's
  (`interruption.rs:145`). An empty lock left by a crash refuses every later generation.
* LocalTurn: `join_reader` (`command.rs:332`) waits for the pipe without looking at token or
  timeout; malformed arguments found at execution never count as a streak; a proposal may have
  been committed although its request is reported as cancelled; a failure to record the
  exchange loses the answer.
* WebPool: a job waits behind a stuck worker while the other is idle; jobs whose caller gave up
  still run, and four of them refuse every further call (`network_call.rs:82`).
* Conversation: two terminals in one session interleave their records, and restoration pairs
  them by position, not by exchange (`restoration.rs:21`); `PairsTrue` excepts them (`Alone`).
* ModelFiles: overlapping fetches can put a damaged file in place; it is removed (projector) or
  refused (model) by the next one. A full-size partial file with a wrong byte is refused on
  every retry until `cleanup-failed`.
* SystemInstall: on Windows, a PATH entry whose record was not written is never removed; the
  marker of a killed update blocks install, update and uninstall for good; the removal script may
  remove a binary that was installed again meanwhile; an install from the installed binary reads its
  paths before the lease and may record the ownership of a binary that is gone
  (`composition/install.rs:10`); a binary copied by an install that was killed before its record is
  left by every uninstall. `UninstallEnds` and `OwnedFound` name each of these.

## 4. What is proved

For every value of the constants, checked by TLAPS:

| theorem | says | under |
|---|---|---|
| `Lease_proofs!TypeCorrect` | `Spec => []TypeOK` | the constants' assumptions |
| `Lease_proofs!Exclusion` | `Spec => []MutualExclusion` | `Stable`: guard or lock file keeps its inode |
| `Lease_proofs!ScanStays` | `Spec => []ScanKept` | the guard is not displaced (Unix: it is the claims directory) |
| `Lease_proofs!OnlyTheLivingBlock` | `Spec => BlockedByTheLiving` | none |
| `Ledger_proofs!Durability` | `Spec => []HistoryKept` | none |
| `Ledger_proofs!Implements` | `Spec => ImplementsEventLog` | none |
| `Ledger_proofs!ReadersSeeStates` | `Spec => []ReaderConsistent` | none |
| `Ledger_proofs!DerivedFollows` | `Spec => DerivedKept` | none |
| `Transition_proofs!TypeCorrect` | `Spec => []TypeOK` | none |
| `Transition_proofs!NeverAhead` | `Spec => []CurrentInstalled` | none |
| `Transition_proofs!BackupFirst` | `Spec => BackupKept` | none |
| `Transition_proofs!Atomicity` | `Spec => ImplementsAtomic` | none |
| `Transition_proofs!OneChain` | `Spec => CompactionChain` | none |
| `Transition_proofs!ReplacedRightly` | `Spec => ReplacementsKept`, the two before | none |
| `Transition_proofs!RecoveryIsWhole` | `Spec => []RecoveredWhole` | none |
| `Transition_proofs!RecoveryIsPossible` | `Spec => []FinishableUnlessHindered` | none |
| `SourceInstall_proofs!TypeCorrect` | `Spec => []TypeOK` | none |
| `SourceInstall_proofs!EvidenceKept` | `Spec => []EvidenceFirst` | none |
| `SourceInstall_proofs!NoOverwrite` | `Spec => []NoClobber` | `~LateEdits`, `~Unguarded` |
| `SourceInstall_proofs!FileKept` | `Spec => [](SourceKept /\ ReportedInstalled)` | `~Unguarded` |
| `Approval_proofs!BundlesKept` | `Spec => [](TypeOK /\ Inv)` | none |
| `Approval_proofs!DiskKept`, `SourceKept`, `RunsApproved` | `OnDisk`, `SourceAgrees`, `CommandApproved` | none |
| `Approval_proofs!NothingUndone` | `Spec => NothingTakenBack` | none |
| `Approval_proofs!LifeFollowed` | `Spec => LifeSpec`: bundles implement `WorkflowLife` | none |
| `Host_proofs!Known`, `PortKept`, `Findable` | `SidecarSpec => []ServersFound`, and its parts | none |
| `Host_proofs!LoopTyped`, `RunsOnce`, `Earned`, `NothingRuns`, `Kept` | `LocalTurnSpec => []RequestKept`, and its parts | none |
| `Host_proofs!GenerationsKept` | `GenerationSpec => []AdmissionKept` | none |
| `Host_proofs!PoolKept` | `WebPoolSpec => []JobsPlaced`, and a job leaves its place only when it is over: the safety of `PoolServes` | none |
| `Sessions_proofs!TeamSound` | `TeamSpec => []TeamKept` | none |
| `Sessions_proofs!TeamEndIsFinal` | `TeamSpec => EndIsFinal` | none |
| `Sessions_proofs!ConversationSound` | `ConversationSpec => []ConversationTrue` | none |
| `Files_proofs!AlwaysWhole`, `WholeAndTyped` | `ModelFilesSpec => []ModelWhole`, and its main part | none |
| `Files_proofs!Stays` | `ModelFilesSpec => StaysSettled` | none |
| `Files_proofs!Kept` | `SystemInstallSpec => []InstallKept` | none |
| `Files_proofs!ScanIsExact` | `LineScanSpec => []ScanExact` | none |

The runs check the same formulas of the same modules on one instance. Everything above rests on the
named assumptions of the modules on their constants and on nothing else: a condition in the last column
is one without which the code, and the model, breaks the property (a run or section 3 says how),
and is `none` where nothing but the named assumptions is used.

*Exclusion.* `MutualExclusion` is not inductive. `LeaseInv` adds that the kernel lock tables name
the processes that stand behind the corresponding `try_lock`, with the handle open on the
locked inode, and that an object that cannot be displaced has inode 1. Two holders would then hold
one lock of one inode. Without `Stable` the theorem is false: if guard and lock file both move, a
second process locks new inodes.

*ScanStays, OnlyTheLivingBlock.* `ClaimInv` adds that a claim belongs to the one holder of the guard, that
the directory behind a finished scan holds none, and that a dead claim is alone in its directory. The scan
therefore never meets more than one entry, and `ScanLimit` is not reached however many owners die.
For the second, every kernel lock in use is held by a process that stands behind it (`OwnInv`).

*Durability, Implements.* `LedgerInv` says who stands inside the writer lease, that a planned hash is
the file plus the event, that the head lags the file by at most the one line of the process
inside, and what a missing newline means: that process stands before its second write, or the line is
severed. A kill leaves a gap of the head that `Readable` tolerates and the next `Enter` closes, or a severed
line, behind which at most one record is written: it merges, its writer's `Verify` refuses, and nobody
passes `Enter` again. Each step appends one new event, acknowledges one that is there, severs, loses the
severed record for good, or stutters in `EventLog`.

*ReadersSeeStates, DerivedFollows.* `ReadInv` says that what a reader accepts is the head it read first or
that head and what was appended since, and that an acknowledged event is behind the head. `DerivedInv`
says of each position in `converge_derived` which outputs are level with the file. A project's mirror is a
fold over the ledger, a recursive function; that it exists and is extended by one line as the code
extends it is shown by taking a least counterexample (`LeastNumber`), once, in `Ledger_proofs`.

*TypeCorrect (Transition).* The variables refer to each other (an image counts ledger lines, a pointer names an
event, a bundle names a revision), so `Typed` gives all of them one bound, the number of
events issued. `Roomy` says that the operations under way have room for the events they still issue, so
that the bound on events is not passed.

*NeverAhead, BackupFirst.* `IInv` carries the domains, the shape of images and bundles, and
`Appended`: behind the append, a bundle's event stands in the ledger at the ordinal it names. The
current state is only replaced there, and the ledger only grows. `Backed` adds that behind the
artifact step a bundle that replaces a damaged file has a whole backup; recoveries run the same
steps, and an unfinished backup stops them.

*Atomicity, OneChain.* `AtomicInv` adds to both who holds guard and writer lease at which step (`Placed`), that a
bundle is in the journal from its commit to its removal, and that a journal is `Sound`: what it replaces
is the current state, or it has replaced it already. The rename of the journal is then the step of
`AtomicState`, and every other step stutters or is an append of somebody else. A compaction
that waits (`Follows`) has checked its boundary under the leases it still holds.

*RecoveryIsWhole.* `StoryInv` adds, for each project, that its snapshots number the revisions in order (`Chain`),
that pointer and checkpoint events lag them by at most the one in the journal (`Told`), and how far a process at
each step has brought its bundle (`Stage`). A process that recovered stands where the journal is empty,
and there `Told` says that all of them agree.

*RecoveryIsPossible.* Every check of the installation concerns what `StoryInv` describes but for ordinal, current
state and backup. `Ending` adds that the ledger stands right before the planned event or right behind it, or that a
foreign event came behind the journal (`Overtaken`), and that a current image is the one replaced or the new one. The
theorem needs no assumption: with any number of projects, damage and torn writes, a committed journal passes every check
unless its backup is torn, its current state went missing, or a foreign event overtook it. The last is what
`transition_stranded` shows to happen; the others are in section 3.

*EvidenceKept, NoOverwrite, FileKept.* The step a runner stands at says what it has read, and what it has read
says what the rollback file held and holds for good. For `NoOverwrite`, `KeptInv` adds that only the
holder of the guard is past the first read, and that behind the last check the guard's link
and the target are one inode, so what an editor saves in place is still behind the guard. For
`FileKept` (while nobody edits), `InstallInv` adds that the four names always stand in one of three
arrangements (`Untouched`, `Parted`, `Replaced`), one for each side of unlink and link, and that a
reported success is the last.

*The theorems on Approval* share the invariant `Inv`. None of the properties is inductive: a bundle writes
up to ten events, two snapshots, a source file, a transcript turn, a pointer and a current state, and each
property speaks of two of these at a time. `Inv` says, of each project, who works and under which lease
(`ControlOK`), that everything before the next step of the plan is `Done`, where its events stand
in the shared ledger (`EventsOf`), what a prepared and a running bundle has found (`PreparedOK`,
`PendingOK`), that ledger, snapshots, pointer and current state agree between bundles (`QuietOK`), and that a command
that ran has an approval in the derived outputs (`RunOK`). A recovery starts the plan anew, so every step is
also proved from a state where it has been done before: `InstallPointer` keeps a later pointer, and `AppendEvent`
finds its event. `LifeFollowed` maps a commit to the decision it makes; every step of one project leaves the
history of the others alone (`Private`).

*Findable.* A start holds the lease up to its watch (`UnderLease`), so that between its look at
the record and its write no other start looks; a server that runs without a record is
then one whose start stands at the write, or one that is `lost`.

*Kept (LocalTurn).* `Inv` ties the counters to the sets they count (`ran` to `admitted`, `seen` to
the observations) and says in which stages the command's process may run (`Attended`).

*GenerationsKept.* None of the parts of `AdmissionKept` is inductive. `AdmissionInv` says that the members of a process
run under its primary or under one whose files were taken (`Grouped`); that the record names the primary of every process
that runs one, and that nobody is past the look at the record while such a process runs (`RecordHeld`); that a removal is only
under way for an id whose process has stopped, whose files were taken before, or that no longer leads (`Removing`); and that
what a living process has in a file it leads, or is about to remove (`LeftBehind`), which is why a host where nothing runs refuses
nobody. The names of clients and of the two commands are kept apart in `GenerationAssumption`: a removal is indexed by
either.

*PoolKept.* A job that is not over stands in one place, the slot of a worker or the worker itself (`StandsOnce`), and until it is
offered it is its caller's alone (`Offered`), so no two offers put the same one in. Taking the oldest job moves every other one
place forward, and giving up a call moves none.

*TeamSound, TeamEndIsFinal.* `TeamInv` gives the leases that a command holds at each of its steps (`Leased`) and where a checkpoint
leads (`Itinerary`). Only a step the current stage permits replaces it, whatever stage a command has read (`Permitted`): a stop
between the snapshot and the replacement leaves a team that refuses further checkpoints, never one that goes back. The records of an
admission are new and all there before the first lane is bound (`Recorded`), lanes are bound once (`BoundOnce`), and a bound record
is prepared by one worker, which alone may send its prompt (`PreparedOnce`), so overlapping executions and recoveries cannot send
twice. Results that a reconciliation has found complete stay complete, and a team under reconciliation is not cancelled, since both hold
the operation lease (`Reconciled`). `Settling` names, for a marked team, the command that will end it: the cancel that marked it, or
a failed execution that replaces the file before it.

*ConversationSound.* `ConversationInv` has the shapes and `Served`: an exchange takes the session of the memory it was answered from,
and a terminal with an exchange under way neither changes that memory's session nor gets another. `ConversationTold` says what the log
holds at each step of a terminal (`TuiStep`, `TuiStage`: what of its exchange is recorded and what is still to be), that a reply
follows its request in the same session and is made once (`Logged`), and that what a memory has was recorded in its session, each pair
from one exchange (`MemoryTrue`). What is restored is a recursive function of the log. Its sums are typed (`SumsTyped`), pair a
request with its own reply and keep the pair until a reset (`SumsPaired`); each is shown by the least record at which it would fail,
which needs no induction over data. The exchanges the property excepts (`Alone`) only become fewer as the log grows.

*AlwaysWhole, WholeAndTyped, Stays.* `FilesInv` is trivial once two fetches overlapped. Otherwise at most one fetch
is past its first look (`Single`), its handle is not the final file (`Apart`), and behind `Verify` the
partial file is whole (`Verified`): a cleanup may remove it, but nobody writes it. The rename then puts a whole
file, or none, in place. That no offset passes the end of the artifact needs `FetchesFit`: a copy starts where the partial
file ended. `Stays` needs only shapes (`Shaped`): each step that touches the final file
begins with a look that a whole file passes.

*Kept (SystemInstall).* `InstallInv` adds to `InstallKept` that only the holder of the lease is past its
lease step (in the type invariant), that a clean command behind its check of the runtime has no recorded backend beside it
(`Checked`), that a server spawned and not yet recorded has its state and its start under the lease (`Spawned`),
that Windows keeps a binary that runs and an update moves it aside at most (`RunsThere`), and that what an
install is about to record can be found, or a script is to blame (`ToRecord`).

*ScanIsExact.* `ScanInv`: while a file is scanned, the line in hand starts where the newlines read so far say, the state of the line is
what its bytes so far say (`Knows`: number, prefix, zero byte, literal found, and the last bytes of the line as overlap), and the records
put out are the hits of the lines before it, in order (`Reported`). `PushKnows` is the step of the overlap: a literal in the
joined bytes either was there before, or lies in the last |literal| - 1 bytes with the new ones (`CutFound`), so a cut loses
none and repeats none. `TurnKept` carries the invariant over one turn of the loop (to a newline, or to the end of the buffer) and
`ScanLoops` over all of them: each turn takes bytes away, and the least turn to break it would follow one that kept it. Line numbers
strictly grow (`NumberGrows`), so no line is reported twice, and what a limit leaves out comes later.

Only model-checked:

* All liveness and everything under fairness (`AcquiresReturn`, `JournalsEmptied`, `EndsInstalled`,
  `Recovered`, `Settles`, `TurnInTime`, `PoolServes`, `ModelPrepared`, `UninstallEnds`), and
  `NoneStuck`, which uses ENABLED: out of the prover's reach. Every other property of a passing run is a theorem,
  with three limits: of `PoolServes` the safety is one (`PoolKept`); `MutualExclusion`, `ScanKept`, `NoClobber` and
  the `SourceKept` of `SourceInstall` are theorems under the assumptions the table names; and
  `Recoverable`, which holds of one undisturbed project only, is the theorem `RecoveryIsPossible` with the
  three hindrances as exceptions.

## 5. What is not modelled

In the modelled parts:

* Ledger: a write of which only a part reaches the file (`Kill` stops between writes, and a record is
  one write), a legacy prefix without hashes, byte and count limits, SQLite rows, errors of
  `sync_all` that a process survives.
* Transition: promotion of version-1 state files, the legacy `.txn` records, several workflows of one
  project, size limits of journals. A failing system call is a `Kill`: the operation gives up where
  it stands and its leases are dropped.
* Approval: the steps of the journal that a restore of the file is (`SourceInstall`'s; here a restore is one
  step, and a stop within it is finished by the next command that takes the guard), the evidence between
  restore and checkpoint but for its errors, the rotation of a credential, the completion of a verified workflow, legacy bundles.
* SourceInstall: modes, owners, canonical paths.
* Team: a single subagent as an object of its own, the dispatch preflight, the artifacts' contents.
* Generation: what a stream reads from the server, pruning of terminal records, an error of the
  removal in `release_generation_admission` (`generation_state.rs:225`). Sidecar: installation and
  discovery of a backend.
* LocalTurn: the wording of prompts, the tools themselves but for the process they run.
  LineScan: the `\r` before a newline and the cut within a UTF-8 character. WebPool: the transports.
* Conversation: tool-output artifacts, page sessions, web sources; one append is one step here, its
  writes are `Ledger`'s.
* ModelFiles: the catalogue, the registry, manual registration, directories that cannot be made.
* SystemInstall: `init`, which registers the PATH of an installed binary without the lease
  (`composition/install.rs:31`): concurrent with an uninstall it may leave an entry behind, on Windows
  one without a record; the release download and its checks, the configuration file. The 30 seconds
  after which the removal script gives up are `ScriptDies`.
* Contents throughout: texts, hashes and times are represented by what other operations compare.

Components without a module:

* *Browser*: a client of an external protocol, sequential within one call.
* *Extensions*: manifests and permission tables are parsed and rendered; import and enable are
  single file writes; the skill phase moves inside the bundles of `Approval`.
* *Context, compaction, knowledge*: selection and ranking of text; what is published is `Transition`'s.
* *Observability projection*: rows that are rebuilt from the ledger; that they are brought level
  is in `Ledger`.
* *Evidence*: content-addressed records, one event each.
* *Policy, intent, reports; terminal interface, command line; foundation*: no state shared
  between actors; text.

### Coverage

The map names the lines that the definitions stand for. Most of the crate is not of that kind: reports
and their wording, argument parsing, JSON and SQL, hashing, HTTP, terminal rendering, and tests inside
source files make up far more than half of it, and modelling them as state machines would say nothing
that they do not say themselves. What is modelled is nearly all code in which two processes, a stop,
a deadline or a half-finished write can make a difference.

## 6. What could come next

* `init` in `SystemInstall`; the single subagent in `Team`; the registry behind `ModelFiles`, with the
  switch of the active model between two terminals.
* The projection of the observability store as a consumer that may replay and lag.
* The import and enabling of plugins while another command dispatches their hooks.
