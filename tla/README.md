# A verification project for the IDE's edit history, plans, tool servers, runs and documents

The repository is a desktop IDE: a Vue front end, a Tauri back end in Rust and a
Node "agent sidecar" that runs language-model agents. The modules here are about
the parts whose failure costs a user work or leaves the view and the system in
disagreement:

* **AED**, the Agent Edit & Rollback subsystem (`src-tauri/src/ai/edit`): an agent's
  edits are atomic, recorded and reversible, in a fjall database shared by every
  application process, across crashes and its own garbage collection;
* the **plan workflow** of the sidecar (`agent-sidecar/src/engines/plan`): plan
  records, an append-only event log and the row projected from it, driven by
  requests that interleave statement by statement;
* the **MCP warm pool** of the sidecar (`agent-sidecar/src/tools/mcp-gateway.ts`):
  server bundles shared by concurrent calls and evicted under them;
* a **terminal run**, from the click in the workbench through facade, panel and back
  end to its history entry (`src/composables/useTerminalRun.ts` and others);
* the **editor documents** (`src/store/editor.ts` and its persistence composables):
  what the user types while files are saved, formatted, refreshed and closed.

Paths are relative to the repository root.

## 1. Inventory

| Component | State | Operations | Interacts with | What is hard | Correct means |
|---|---|---|---|---|---|
| AED file transactions (`io/file_transaction.rs`, `io/storage_lock.rs`, `io/atomic_write.rs`) | manifests with a status, staging directories, the targets | `commit`, `recover_pending` | edit journal; every AED command calls `recover_pending` first | crash between any two of six steps, several processes, unwritable targets, user edits | all-or-nothing; what was decided is finished; what was not never shows |
| AED edit journal (`history/edit_journal.rs`) | operations | append, list, prune | transactions, retention, revert | pruning from a stale listing | no recent operation is lost |
| AED snapshots (`history/snapshot.rs`) | manifests, small blobs in the database, large ones in a directory | store, load, list, strip | apply and revert store them, retention strips them | shared blobs, two storage media with one batch, quota loop | a snapshot that was not chosen stays restorable |
| AED pins (`history/pins.rs`) | pin records | set, list | retention | a pin set while retention runs | pinned means kept |
| AED retention (`mod.rs`) | the clock, the quota | list, prune, collect, refresh the timeline | all of the above | four separately locked steps | limits and quota respected, pins honoured |
| AED apply (`patch.rs`, `apply/auto_apply.rs`) | authorization level, snapshot markers, in-memory timeline | `apply_patch`, `set_auth_level`, `create_snapshot` | transactions, snapshots | the user edits while snapshots are stored | no user edit is overwritten unnoticed; each edit can be undone |
| AED revert (`history/revert.rs`, `history/timeline.rs`) | none of its own | undo operation, revert hunk, file, task, restore snapshot, diff | journal, snapshots, workspace | partial failure, repeated and mixed reverts, truncated listings | files go back to what they were; rollbacks can be rolled back |
| AED path security (`security/*`) | none | path checks | apply, revert | string matching | protected paths refused |
| Terminal run (`composables/useTerminalRun.ts`, `services/terminal/facade.ts`, `terminal/session.ts`, `commands/terminal.rs`) | workbench flags, panel flags, facade maps, the session's mode and marked run | run a script, deliver events over the bus and over the panel, finish, cancel, time out | back end session, editor store | two event channels, answers after the events they caused, synchronous watchers that re-enter, a panel that comes and goes | one history entry per run with its own result; nothing shown as running for ever |
| Terminal sessions (`src-tauri/src/terminal/*`) | session mode, decoders, sequence numbers | create, write, run, dispose | front end | late events of a closed run | one active run; part of the model of a run |
| Editor documents (`store/editor.ts`, `useDocumentPersistence.ts`, `useDocumentLifecycle.ts`, `useSidecarChangedDocumentRefresh.ts`) | open documents, saved content, operations under way | open, type, format, save, refresh, dirty check before closing | back end file commands, agent's writes | typing during every await, failing and timed-out calls, two flows at a time | no typed text is lost; "saved" means on disk |
| Sidecar plan workflow (`agent-sidecar/src/engines/plan`) | plan records, events, projected rows | plan, approve, reject, execute, validate, replan, finish | engines, front end | requests interleaved between any two statements, killed sidecars | only approved plans run; the row tells what the log tells |
| Sidecar MCP gateway pool (`agent-sidecar/src/tools/mcp-gateway.ts`) | entries, bundles, active counts, idle timers | call a tool, create, evict, expire | tool servers | eviction while calls are handed the entry, a loop that waits between candidates | counts exact, no idle bundle for ever, limit kept |
| WSL Link (`wsl_link/*`) | connection state, circuit breaker, outbox, agent receipts | connect, supervise, retry, degrade, send | transports, commands | reconnects, timeouts, duplicated and lost messages | one connection, at-most-once effects, eventual reconnect |
| AI budget (`ai/budget`) | token and cost counters | record, check, roll over | gateway | day change between check and record | limit not exceeded |
| AI gateway, providers, approval, audit, redaction | configuration, conversations, logs | chat, stream, approve | sidecar, front end | stream cancellation | mostly formatting |
| Agent sidecar process (`agent_sidecar`) | child process handle | start, probe, restart, stop | sidecar | a probe racing an exit | one child |
| Search, workspace files and watcher, LSP, SSH, Git, shell tools | handles, pools | adapters | front end | connection pool | mostly I/O |
| Front-end assistant and other stores | run and stream state | user actions | all commands | events after navigation | view matches back end |

Every component is listed in `PROJECT.json`, the ones not modelled with the
reason.

### Hazards

`PROJECT.json` lists them at their lines. The main ones: a crash between two
steps of a transaction; recovery of one process meeting a live commit of another;
redo over a file the user has changed since; deleting large blobs before the batch
that forgets them commits; pins and operation lists read earlier than they are
used; a request of the plan workflow that reads a row, and another that changes it
before the first appends; two projections of one log that race for the revision; a
sidecar killed between the record and the event of a decision; a bundle evicted
while a call is being handed it; a completion event that comes before the answer to
the call that started the run, or once over each of two channels; a panel
unmounted while a run is pending; text typed while the document it belongs to is
saved, formatted or loaded again; a save that times out and is carried out later.

## 2. Plan

Done, in this order:

1. **FileTransaction**, its abstract specification **EditIntent**, the refinement
   and proofs.
2. **SnapshotStore**: snapshots, pins, journal pruning, garbage collection, proofs.
3. **EditHistory**: apply and revert commands over an abstract transaction and
   retention, proofs.
4. **PlanWorkflow**, **McpPool**, **TerminalRun**, **EditorDocuments**, with proofs.

Next:

5. **WslLink**: life-cycle state machine and supervisor, circuit breaker, outbox
   with the agent's idempotent receipt, and an abstract exactly-once queue for the
   outbox to implement.
6. **Budget** (limits and day rollover), **SidecarProcess** (start, probe, restart),
   the assistant's run and stream state.
7. Proofs: abstract specifications for PlanWorkflow (a row that only ever moves along
   its log) and EditorDocuments for their modules to implement; a refinement from
   FileTransaction and SnapshotStore to the steps EditHistory takes for them.

Composition: EditHistory abstracts the outcome of FileTransaction (an edit is one step
or is left pending for a redo, the outcomes EditIntent leaves after the next
recovery) and of SnapshotStore (any snapshot may be stripped at any time). That
abstraction is by hand; the modules are not joined by a refinement. TerminalRun
is a composition in itself: workbench, facade, panel and back end in one module,
each a variable of its own, because what goes wrong goes wrong between them.

## 3. Modules

### FileTransaction, EditIntent

`FileTransaction` has one process per application process. Its variables are the
files, the manifests (`status`, `entries`, `staged`), the journal, and for each
process the local state of the command it runs (`pc`, `mode`, `seen`, `tx`,
`idx`, `plan`). Actions are the steps between which another process or a crash
can come: `BeginCommit`/`BeginQuery`, `ListManifests`, `DiscardStaging`,
`MarkDiscarded`, `BeginRedo`, `EndRecovery`, `Prepare`, `StageEntry`,
`MarkCommitted`, `ApplyEntry`/`ApplyFails`, `AppendOperations`, `MarkDone`,
`RemoveStaging`, and `Fail` for an error or a crash anywhere. `UserEdit` and
`ToggleBlocked` stand for the world outside. `storage_lock` makes single
operations atomic and nothing more, so one locked operation is one action.

`EditIntent` is what a commit promises: an edit is decided or given up; a decided
edit is published file by file, then journalled, and files are written by nobody
else but the user. `FileTransaction!ImplementsIntent` is the refinement.

### SnapshotStore

A snapshot is its id (creation order), date, task and set of contents; `live`
says whether the manifest still has its blob keys, `small` and `cas` are the
blobs that exist. A command is `StoreSnapshot`, `RecordOperation` or `SetPin`
followed by the four steps of `apply_retention_policy_with_policy`. The
collection is one action (it runs under `journal.lock`) with a failing variant
that deleted some large blobs and committed nothing. Blobs count one each against
the quota, an abstraction of `byte_size`. `set_pin` and the refresh of the
in-memory flags, two lock scopes in the code, are one action: nothing depends on
the gap. `shown` holds the snapshot entries of the in-memory timeline; its
operation entries are in EditHistory.

### EditHistory

The commands of one process as sequences of steps; Tauri runs these synchronous
commands one at a time, and the user or another program may change files between
any two steps. `touched` is the set of files others wrote since the command read
them; it is what the modification-time comparison of the second conflict check
sees. Snapshots and operations share a clock, so "newest first" is by creation.
A content stands for its hash. The content that remains after `revert_hunk` is
any content. A patch names a file once. The authorization level
is kept as the set of tasks it lets write. The files (`Path`) are finitely many: a
revert picks them one after the other.

### PlanWorkflow

`record` is `agent_plan_records` (the status of each version), `events` the log,
`row` the projected row with its revision. A request (`job`) is a list of store
calls, `Program`; each call is one to five database statements with an await between
any two, and each statement is an action: `ReadRecord`/`updatePlanStatus`,
`createPendingPlan`, `getPlan`, `LookForRow`/`createForPlan`, `ReadRow`/
`appendEvents`, and the projection `ReadState`, `listEvents`, `readRevision`,
`reproject`. The agent's stream is `ToolCall` (a heartbeat), `StreamEnds` and
`StreamNeverStarts`; `StatementFails` and `Killed` are the faults. `ApplyEvent` is
the reducer of plan-workflow-store.ts, event by event; `Replay` is the loop that applies
it, a recursive function over the length of the log. `projectWorkflow` keeps what
the code keeps: the columns start afresh (`Afresh`), the state object is the one the row
already held, so old events are applied to it again. There is no cancel request at
this commit; a plan ends by reject, finish or failure.

### McpPool

`entries` is the pool's map, `entry` every entry object ever made (an entry that
left the map may still be closing or be held by a call), `older` the order of
`lastUsedAt`, as a relation between entries. Code between two awaits is one action: `Begin` (with `evictExpired`),
`ensureEntry`, `Created`/`CreateFails`, `Resume`, `withServer`, `Finish` (its finally
block), `IdleTimer`, `Closed`. `evictOverflow` is a loop that awaits each close: its
first turn is part of `Created` and `Finish`, its later turns are `EvictNext`, with
the candidates of the start. An entry that has just been handed to a caller is not
old enough to expire (`BeingHanded`): only microtasks lie between.

### TerminalRun

`task` is where each call of `runScript` stands, `view` the workbench's and the
panel's state, `facade` the maps of facade.ts and the stores it writes, `backend`
the session (marked run, mode, shell) and the phase of each script, `events` what
the back end has sent and the front end has not seen. `Dispatch` is the back end
taking the call and `DispatchReturns` its answer; events the call caused may be
delivered in between. `Deliver` hands one event to all three: `OnBus`, `OnPanel` and
`OnFacade`. The panel holds a completion back until output is drawn
(`LateCompletion`, `FlushOutput`); `CompletionTimeout` is the workbench's own timer.
The functions of the workbench are operators on `view`, because Vue's synchronous
watchers call them again while they run: `FinalizeWith` is the body shared by the
outer and the inner call. `Mount`, `Attach`, `Connect`, `Detach`, `Show`, `Hide` are
the life of the panel.

### EditorDocuments

`disk` holds the files, `ed` the front end: documents, operations under way (`jobs`)
and calls sent to the back end, which runs them one at a time in their order
(`Performed`, `CallFails`, `CallTimesOut`). A text is the set of changes it contains
and whether it is tidy (conventions and shfmt change the form only). An operation
goes on when its call is answered (`OpenAnswered`, `SaveAnswered`,
`RefreshAnswered`, `Formatted`), and the user may `Type` in between. A save of a document
without a path formats twice (`again`) and then asks for a path, even if another save
has given the document one meanwhile (`Prepared`). What a closing has
yet to save is a set (`todo`) from which the next document is picked. `owed`,
`exposed` and `versions` are history variables: what has been typed and not yet
written, what was typed while an operation on the document was under way, and what
each file ever held.

## 4. Runs

| Run | Question | Result |
|---|---|---|
| `single_process` | one process, crashes and failures anywhere: is every edit all-or-nothing and redoable, is redo ordered, do the steps implement EditIntent | holds |
| `shared_storage` | two processes: does the journal name only published edits, are undecided edits invisible | holds |
| `pending_resolved` | is a pending manifest eventually resolved | holds |
| `snapshot_retention` | shared blobs, failures: are only chosen snapshots lost, do small blobs leak, are pins honoured and recent operations kept | holds |
| `edit_rollback` | two files, three commands: are source snapshots right, is what a command replaces saved, are restores complete, does `revert_task` restore the files | holds |
| `plan_serial` | failed statements and killed sidecars: has an answered decision reached both stores | holds |
| `plan_concurrent` | interleaved requests: is the log legal, does the gate hold, does no request undo another's decision, is the row the projection of a prefix of the log | holds |
| `plan_converge` | does the row catch up with the log once all requests are answered, as the comment at plan-workflow-store.ts:1025 says | violated |
| `pool_warm` | are active counts exact, does every idle bundle have a timer, is the limit exceeded only by pinned and active bundles, what may close a bundle | holds |
| `terminal_run` | one history entry per run, with its own result; no result holds another run's output; no run shown after its end; every run ends | holds |
| `editor_documents` | is text typed outside operations kept, is a clean document on disk, are tabs bounded and unique | holds |
| `editor_refresh` | does the refresh leave dirty documents alone, as the test useAiAssistant.spec.ts:3252 says | violated |

A violated property quotes a comment or test of the repository in `findings`. Every
property of a run that holds has a mutant in `mutants`: the definitions marked
"Wrong on purpose" in the modules.

### Other behaviour met while modelling

Each of these follows from the code and is excluded from, or stated as an exception
in, the properties; none has a run of its own.

* AED: a redo writes its targets without comparing them (ADR-20260513:66 asks for a
  check). A second process can discard a manifest that the first is still staging,
  after which every recovery fails on it (file_transaction.rs:43). Pruning works
  from a listing, so a second process can lose a recent operation (mod.rs:300). The
  quota loop stops at the first snapshot whose blobs are shared (snapshot.rs:314).
  The in-memory timeline keeps stripped snapshots (mod.rs:322). `revert_task` looks
  at the newest 200 entries only (revert.rs:481). Reverting a task twice reports a
  conflict with its own first revert (revert.rs:378).
* Plans: an event appended after `PlanFinished` brings the row back to an active
  status; validating or replanning a failed plan logs an approval again
  (validation.ts:58); a workflow suspended by a tool is resumed by no one.
* MCP pool: a call that was handed an entry just before its eviction is refused as not
  initialised (mcp-gateway.ts:806); closing an old entry deletes the key even if a
  newer entry has it. `evictOverflow` lists its candidates before it awaits a close
  (mcp-gateway.ts:943), so that one of its later turns can close a bundle that a call
  has come to use meanwhile: with one warm place and a pinned server, fourteen steps
  lead there. `ClosesOnlyIdle` makes this its only exception.
* Terminal: after a timeout a second final line may be logged (useTerminalRun.ts:215);
  `pendingRunHandles` keeps handles of runs that never start (facade.ts:97); when the
  interactive shell exits the mark is cleared and a second run can start beside the
  first (terminal.rs:799).
* Editor: text typed while its document is being saved, formatted or refreshed can be
  lost (the exception in `EditsKept`); closing a folder during a save opens the tab
  again.

### Bounds

All bounds are constants.

* FileTransaction: two files and two contents with one process, one file with two
  processes, two entries per edit, two transactions, so that a redo can meet a newer
  edit; one or two failures on any step, also on the recovery of an earlier one.
* SnapshotStore: one small and one large content, so that two snapshots can share
  either; limits of zero to two days make each age fall on, before and after its
  limit.
* EditHistory: three commands on two files with two contents, enough for a file
  edited there and back and then reverted, and for partial writes; one failure,
  restart, user edit or stripped snapshot between any two steps.
* PlanWorkflow: `plan_serial` serves five requests one after the other (plan, decide,
  execute, decide again, and one more) on two versions of two steps with one tool
  call and one fault; `plan_concurrent` and `plan_converge` three requests, two at a
  time, on one version of one step. `plan_concurrent` starts where the plan is stored
  and has its row (`SpecPlanned`); `plan_converge` starts from nothing.
* McpPool: two servers compete for one warm place beside a pinned one; three of four
  calls at a time, so that an entry can be in use, handed over and waited for at
  once.
* TerminalRun: two runs, so that the events of one can meet the state of the other; one
  chunk of output and one trouble (a failed call, an exiting shell, a hidden or
  unmounted panel, a closed workspace).
* EditorDocuments: two operations under way, four documents ever, two tabs, two files,
  two changes typed and one written by others. `editor_refresh` needs less.

Deadlock is checked in the AED runs: queries, pin changes and changes of the
authorization level are never used up, so a state without successor would be a
command that cannot go on. The other components stop by design when no request,
call, run or operation is left, and the bounds end those; `CHECK_DEADLOCK FALSE`
there.

### Fairness

FileTransaction: `Fairness` is weak fairness of the steps of a running command
(sequential Rust code, each step of which succeeds, fails with an error or is cut off
by a crash) and of `BeginQuery`: AED commands keep being issued, because the timeline
panel queries on every refresh, and each of them recovers first. `PendingIsResolved`
has as its premise that targets do not stay blocked for ever; failures are finitely
many by `MaxFaults`.

TerminalRun: `FairSpec` is weak fairness of the steps of `runScript` (an awaited
command of the back end is answered or fails) and of `CompletionTimeout`
(`window.setTimeout` fires). Nothing is assumed about scripts ending, events arriving
or the panel being there: `RunEnds` holds because the workbench's timer does.

## 5. Proofs

Every invariant and every action property that a passing run checks is also a theorem.
The theorems hold for all values of the constants, under the named assumptions of the
modules: bounds are naturals, and at least one where the program cannot work with none
(steps of a plan, tabs, operations, runs); special values are not ordinary ones;
large contents are contents; the pinned limit of the snapshots is not below the
unpinned one; pinned keys of the pool are keys; the tasks, files and calls a loop
goes through are finitely many. Three groups of theorems have a hypothesis on the
behaviour, named in their statements and explained below: `SoleProcess`, `Uncut`,
`Undisturbed`. The runs show that each can be met.

| Module | Theorem | Property |
|---|---|---|
| FileTransactionProofs | `TypeCorrect`, `JournalIsPublished`, `DecisionComesFirst`, `SharedSafety` | `TypeOK`, `JournalOnlyPublished`, `NoWriteBeforeDecision`, and both |
| | `CommittedKeepsStaging`, `DoneIsAllOrNothing`, `OnePending`, `NewestWins`, `Refinement` | `CommittedIsRecoverable`, `AllOrNothing`, `AtMostOnePending`, `NewestDecisionWins`, `ImplementsIntent`; one process |
| SnapshotStoreProofs | `TypeCorrect`, `SurvivorsRestorable`, `BlobTableExact` | `TypeOK`, `ChosenOnlyAreLost`, `SmallBlobsExact` |
| | `PinsKept`, `OperationsKept` | `PinsHonoured`, `FreshOperationsKept`; one process |
| EditHistoryProofs | `TypeCorrect`, `SourcesHold`, `RevertCompletes`, `NothingIsLost` | `TypeOK`, `SourceHoldsBefore`, `RevertIsComplete`, `ReplacedIsSaved` |
| | `RevertTaskIsTotal` | `RevertTaskRestores`; the list of the revert is not cut off |
| PlanWorkflowProofs | `TypeCorrect`, `LogLegal`, `Gate`, `DecisionsKept` | `TypeOK`, `LogIsLegal`, `GateHolds`, `DecisionsStand` |
| PlanRowProofs | `RowFollowsLog` | `RowIsAPrefix` |
| | `DecisionsLand` | `DecisionReachesBoth`; nobody disturbs the decision |
| McpPoolProofs | `TypeCorrect`, `IdleTimed`, `OverflowBounded`, `ClosesIdleBundles` | `TypeOK`, `IdleHasTimer`, `OverflowInUse`, `ClosesOnlyIdle` |
| TerminalRunProofs | `TypeCorrect`, `OnceInHistory`, `NoGhosts` | `TypeOK`, `HistoryOnce`, `NoGhostRun` |
| | `ResultsAreOwn`, `CompletionRecorded` | `ResultIsOwn`, `CompletionIsRecorded` |
| EditorDocumentsProofs | `TypeCorrect`, `TypedKept`, `SavedWasOnDisk`, `TabLimit`, `OneTabPerPath` | `TypeOK`, `EditsKept`, `CleanWasOnDisk`, `TabsBounded`, `OnePathOneTab` |

### FileTransaction

* `SharedSafety`, for any number of processes: from `SharedInv`, which adds to
  the two properties that a committed manifest is decided, that a process in the
  apply loop works on a decided manifest, and that the entries before its index
  are published. Without the last the journal step is not inductive.
* `SoleSafety`, if no two processes share the storage (`SoleProcess`): from `SoleInv`,
  which says for each value of the program counter how far the listing of
  `recover_pending` agrees with the manifests (`Control`). That agreement is exactly
  what a second process destroys.
* `NewestWins`: from `WinnerInv`, which states the property entry by entry and also
  while a manifest is being redone. An entry is settled when its manifest is done or
  the process is past it (`Settled`); a manifest is followed by others only once it
  is done (`OlderAreDone`), so that no redo overwrites a newer decision.
* `Refinement`: under the same assumption every step is a step or a stutter of
  `EditIntent`.

### SnapshotStore

* `BlobSafety`, for any number of processes: from `BlobInv`. A failed collection
  may leave manifests that name missing blobs, so "live snapshots are loadable"
  is false; "live snapshots no collection chose have their large blobs" is
  inductive, because what is deleted is not named by any survivor.
* `PinsKept`, `OperationsKept`, with one process: from `PolicyInv`, by which the
  listing and the pin index still equal the journal and the pins when they are
  used. With two processes the second is false.

### EditHistory

* `HistoryInv` says, for each place where a command may stand, what the snapshots it
  took and the contents it read still have to do with the files. Every statement about
  a file has the exception of `touched`: somebody else wrote it since (`Holds`). The
  newest snapshot is the source of the plan until the commit (`Sourced`); the files of
  an unfinished transaction are as before or as after it (`Redoable`); while a restore
  writes, what is still to be overwritten is saved and what is overwritten is in place
  (`Rewriting`). The last carries `RevertCompletes` through partial writes, and
  `NothingIsLost` through every step that replaces a content.
* `RevertTaskIsTotal`: `Unwinding` says that `revert_task` has looked at the newest
  operations of the task and that each file has the content from before the oldest of
  them it looked at. When none is left (`Looking`) that is the content from before the
  task. The hypothesis `[]Uncut` is the limit of 200 entries of revert.rs:481: beyond
  it the code does leave operations unreverted, and the property is false.

### PlanWorkflow

* `PlanInv`. It says of every request where its current call stands between two
  statements (`Placed`), and that a call that needs a decision, an approval or a
  started step has it behind it or still has the call that brings it before it in its
  program (`Ready`); of every log what its events presuppose (`LegalSteps`); of every
  row that it shows nothing its log does not hold (`Shows`). `Shows` is what makes the
  checks of the store, which look at the row, say something about the log.
* The first statement of `LogIsLegal` could not be proved and was wrong: it asked for
  an approval before every step. With more requests than the run has, a plan that was
  only reported as completed can take calls again, because a stale reprojection brings
  its row back to `waiting_approval`. The property now allows for that.
* `DecisionsKept`, an action property: `RecordsMoveForward` goes through the statements
  that write the record. An update only lands on the status its request read before
  (the WHERE clause of the update), and from each status the code asks for a later one
  only, so a request that read the record before another decided it undoes nothing.
* `RowFollowsLog`. `reproject` applies the log to the state object of a row it read
  earlier, which holds a first part of that log already. The lemma `Absorbed` says that
  this makes no difference at the end: on the way each field is the one of the replay
  from the beginning or still the one the row held (`Between`), and once the held part
  is replayed the two are the same. `RowInv` then says that each row, and each row a
  projection under way starts from, is what a prefix of the log leads to, and that the
  prefix is not longer than the log that was read.
* `DecisionsLand`: from `DecisionInv`. The call that brings the decision to the row is
  the last of its request; once its events are in the log every projection of the whole
  log shows it (`Decides`), whatever row it starts from; and what was read is the whole
  log and the current revision. The last is what another request would destroy,
  hence the hypothesis `[]Undisturbed`: while a request approves, rejects or finishes a
  version, no other running request makes a call about that version. Requests about
  other versions are free. With one request at a time, as in `plan_serial`, it always
  holds (`DecisionsLandAlone`). Without it the revision check may refuse the
  projection, and `plan_converge` shows what comes of that.
* `Replay` is defined by recursion over the naturals. That the function exists and
  takes one step per event (`ReplayExists`, `ReplaySteps`), and what holds of it, is
  proved by smallest counterexample (`Smallest`), not by the induction theorems.

### McpPool

* `IdleTimed`: from `PoolInv`. The count of active calls is what carries it: a refused
  call, too, goes through the finally block, so that the count returns to zero and the
  timer comes back (`Counted`, `Held`). Every step of the eviction loop frees keys and
  moves entries on (`MovesOn`). `Bounded` counts entries against calls: a call that has
  to make an entry finds an unused one.
* `OverflowBounded`: a step that makes a bundle warm or idle adds at most one, and the
  eviction at its end takes an unpinned idle one if there is one. Later turns of the
  loop only close, so that the age of their list of candidates does not matter.
* `ClosesIdleBundles`, an action property: from `PoolInv` and a second invariant,
  `Unpinned` (timers and lists of candidates never hold the bundle of a pinned server).
  Each step is `Careful`: what it closes it found idle, or found on the list of an
  eviction that waited. The exception is needed, see the behaviour met above.

### TerminalRun

* `RunInv`. The workbench follows one run at a time, and not one that has been finalised
  (`OneCurrent`, `Open`); what is in the history has its end in the log (`Logged`); an
  unannounced run is known nowhere (`Fresh`); what is on the way agrees with how far
  back end and facade are (`Ordered`, `Started`); and for the current run the output
  shown, the output buffered and the chunks on the way are together what the back end
  sent, up to a beginning that closing the workspace cleared (`OutputFits`). Of the
  functions of the workbench, which call each other through watchers, one fact is
  proved each and then combined: they leave a sound state sound and take up no run but
  the one they are told to (`Steady`).
* `OnceInHistory`, `NoGhosts` follow. `CompletionRecorded`, an action property, uses
  `OutputFits`: when the completion is delivered no chunk is on the way (`Ordered`), so
  what is recorded is the whole output.
* `ResultsAreOwn`: the last result is kept inside `OutputFits` too, as a stretch of the
  chunks that have arrived (`Resulting`). Finalising takes what is shown of the current
  run; a failure drops what is still buffered before the panel's cancellation takes the
  rest, and closing the workspace drops what was drawn, so these give a beginning or an
  end of it (`PartResult`, `OutputPrefix`, `OutputSuffix`). The cap on the stored
  output, which drops the oldest text, is not modelled; it would only shorten the
  stretch at its beginning.

### EditorDocuments

* `EditorInv`. Changes at stake are those owed and not exposed: typed while no operation
  on the document was under way. No version of a file and no saved text holds an owed
  change; each change at stake is in some document; the text of an operation on its
  way to the disk or to the formatter holds all that is at stake in its document
  (`JobFits`); once a save is answered nothing is at stake in it; and a closing has
  every document with something at stake on its list or under way. The last makes
  `TypedKept` hold when a folder is closed or the program quits.
* `CleanWasOnDisk`, `TabsBounded` and `OnePathOneTab` are conjuncts of the same
  invariant, with a call under way for each operation that waits (`CallsFit`).

### Model-checked only

* `PendingIsResolved` and `RunEnds`: liveness is outside the prover's reach.
* `RowConverges` and `DirtyKeptByRefresh` are violated, so there is nothing to prove.
* `DecisionReachesBoth` with several requests about one version is neither proved nor
  checked: `plan_concurrent` does not claim it.

## 6. What is not modelled

* AED: path checks, diff and patch text, audit events, error texts. The timestamps of
  operations are a counter; their string comparison is listed as a hazard. In
  EditHistory operations are not pruned (SnapshotStore prunes them) and only one
  process runs.
* Plan workflow: what plans and steps say, validator texts, checkpoints of the engine.
* MCP pool: the catalogue cache, metrics, tool resolution, `disconnectAll` (no caller).
* Terminal: drawing, decoding, sequence numbers, input, retry and disposal of the
  panel.
* Editor: images, diffs, encodings, the active tab, the stored session; and what
  useWorkbench.ts exports and no view calls at this commit: `requestCloseDocument`,
  `requestCloseWorkspace`, `formatWorkspaceFileByPath`, and `saveDocumentAs` for a
  document that already has a path when it starts.
* The components with status `not_modelled` in `PROJECT.json`, each with its reason. WSL
  Link, the budget, the sidecar process and the assistant's stream state keep state
  worth modelling and are next in the plan.
