----------------------------- MODULE EditHistory -----------------------------
(***************************************************************************)
(* The commands of the Agent Edit & Rollback subsystem in one process:     *)
(* applying a patch, and taking it back by operation, hunk, file, task or  *)
(* snapshot (src-tauri/src/ai/edit: apply/auto_apply.rs,                   *)
(* history/revert.rs, history/timeline.rs, mod.rs).                        *)
(*                                                                         *)
(* Commands run one after the other; between any two of their steps the    *)
(* user or another program may change the workspace files.  The file       *)
(* transaction of an edit is one step here, or is left pending by a        *)
(* failure (FileTransaction has its steps); retention may strip the blobs  *)
(* of any snapshot at any time (SnapshotStore says when it does).          *)
(***************************************************************************)
EXTENDS Integers, FiniteSets, Sequences

CONSTANTS
    Path,         \* workspace files
    Content,      \* file contents; a content stands for its hash too
    Absent,       \* no such file
    Task,         \* agent tasks
    NoTask,       \* no task bound
    Turn,         \* turn ids
    NoTurn,       \* a patch without turn_id
    Limit,        \* DEFAULT_LIMIT of timeline.rs
    MaxCommands,  \* bound: commands ever run
    MaxDisturbances  \* bound: the user's changes, stripped snapshots, failures and restarts

ASSUME HistoryAssumption ==
    /\ Absent \notin Content
    /\ NoTask \notin Task
    /\ NoTurn \notin Turn
    /\ {Limit, MaxCommands, MaxDisturbances} \subseteq Nat
    /\ IsFiniteSet(Path)

VARIABLES
    file,      \* [Path -> Content or Absent]: the workspace
    snaps,     \* Seq(Snapshot): the snapshots stored, oldest first
    stripped,  \* snapshots whose blobs retention removed
    ops,       \* Seq(Operation): the edits decided, oldest first
    journal,   \* operations in the edit journal
    pending,   \* operations of a committed, unfinished file transaction
    mem_snaps, \* snapshots of AiEditState.timeline
    mem_ops,   \* operations of AiEditState.timeline
    markers,   \* AiEditState.snapshot_markers
    auth,      \* AiEditState.auth: the tasks that may write
    pc,        \* where the running command stands
    cmd,       \* its kind and task
    plan,      \* apply: the updated contents
    base,      \* apply: the contents the plan was made from
    queue,     \* undo: the operations not yet looked at
    target,    \* undo and restore: the contents to write
    left,      \* the files of target not yet written
    undone,    \* revert_task: reverted_operation_ids
    touched,   \* files changed by others since the command read them (mtime)
    commands, edits, faults

store    == <<snaps, stripped, ops, journal, pending>>
memory   == <<mem_snaps, mem_ops, markers, auth>>
command  == <<cmd, plan, base, queue, target, left, undone>>
counters == <<commands, edits, faults>>
vars     == <<file, store, memory, pc, command, touched, counters>>

\* The tasks an AiEditAuthLevel lets write: none, every one, or the one bound.
Level == {{}, Task} \cup {{t} : t \in Task}
Scope == {"task-start", "turn-start", "source", "manual", "pre-revert", "revert", "hunk"}
Kind  == {"none", "apply", "undo", "file", "task", "hunk", "restore"}
Label == {"idle", "task-start", "turn-start", "source", "check", "commit",
          "undo", "save", "write", "record"}

\* Some of the files with a content each.
Files == UNION {[fs -> Content] : fs \in SUBSET Path}

Snapshot  == [task : Task, scope : Scope, files : Files, at : Nat]
Operation == [task : Task, path : Path, before : Content, after : Content,
              source : Nat, at : Nat]

\* Timestamps: snapshots and operations share one clock.
Clock == Len(snaps) + Len(ops)

OnDisk(fs) == \A f \in fs : file[f] # Absent
Current(fs) == [f \in fs |-> file[f]]

\* load_stored_snapshot would succeed.
Loadable(s) == s \in DOMAIN snaps /\ s \notin stripped

------------------------------------------------------------------------------
(* Listing *)

\* list_timeline_with_state for one task, without stored snapshots: journal and
\* in-memory operations and in-memory snapshots, the Limit newest of them.
Entries(t) ==
    {snaps[s].at : s \in {r \in mem_snaps : snaps[r].task = t}} \cup
    {ops[o].at : o \in {r \in journal \cup mem_ops : ops[r].task = t}}

\* list_task_operations
TaskOperations(t) ==
    {o \in journal \cup mem_ops :
        /\ ops[o].task = t
        /\ Cardinality({at \in Entries(t) : at > ops[o].at}) < Limit}

\* Wrong on purpose: the list is oldest first.
NewestReversed(os) == CHOOSE o \in os : \A q \in os : o <= q

Newest(os) == CHOOSE o \in os : \A q \in os : q <= o

\* ensure_write_authorized
Authorized(t) == t \in auth

------------------------------------------------------------------------------
(* Command life cycle *)

\* A command starts when recover_pending has left nothing pending.
Begin(kind, t, u) ==
    /\ pc = "idle"
    /\ pending = {}
    /\ commands < MaxCommands
    /\ commands' = commands + 1
    /\ cmd' = [kind |-> kind, task |-> t, turn |-> u]
    /\ touched' = {}

Nothing == [kind |-> "none", task |-> NoTask, turn |-> NoTurn]

Return ==
    /\ pc'     = "idle"
    /\ cmd'    = Nothing
    /\ plan'   = << >>
    /\ base'   = << >>
    /\ queue'  = {}
    /\ target' = << >>
    /\ left'   = {}
    /\ undone' = {}

\* store_snapshot, then append_snapshot.
Store(t, scope, files) ==
    /\ snaps' = Append(snaps, [task |-> t, scope |-> scope, files |-> files, at |-> Clock + 1])
    /\ mem_snaps' = mem_snaps \cup {Len(snaps) + 1}

\* The bound on what happens to a command from outside.
Disturbable == edits + faults + Cardinality(stripped) < MaxDisturbances

\* An error at any step ends the command; what it did stays.
Fail ==
    /\ pc # "idle"
    /\ Disturbable
    /\ faults' = faults + 1
    /\ Return
    /\ UNCHANGED <<file, store, memory, touched, commands, edits>>

\* recover_pending redoes the committed transaction: files, then journal.
Recover ==
    /\ pc = "idle"
    /\ pending # {}
    /\ file' = [f \in Path |-> IF \E o \in pending : ops[o].path = f
                               THEN ops[CHOOSE o \in pending : ops[o].path = f].after
                               ELSE file[f]]
    /\ journal' = journal \cup pending
    /\ pending' = {}
    /\ UNCHANGED <<snaps, stripped, ops, memory, pc, command, touched, counters>>

\* The application ends and starts again.
Restart ==
    /\ Disturbable
    /\ faults'    = faults + 1
    /\ mem_snaps' = {}
    /\ mem_ops'   = {}
    /\ markers'   = {}
    /\ auth'      = {}
    /\ Return
    /\ UNCHANGED <<file, store, touched, commands, edits>>

\* set_auth_level: manual, session or per-task; without a task that lets none write.
SetAuthLevel ==
    /\ pc = "idle"
    /\ auth' \in Level
    /\ UNCHANGED <<file, store, mem_snaps, mem_ops, markers, pc, command, touched, counters>>

\* The user or another program writes or deletes a file.
UserEdit ==
    /\ Disturbable
    /\ edits' = edits + 1
    /\ \E f \in Path, c \in Content \cup {Absent} :
          /\ c # file[f]
          /\ file' = [file EXCEPT ![f] = c]
          /\ touched' = touched \cup {f}
    /\ UNCHANGED <<store, memory, pc, command, commands, faults>>

\* apply_snapshot_retention strips a snapshot.
Strip ==
    /\ Disturbable
    /\ \E s \in DOMAIN snaps \ stripped : stripped' = stripped \cup {s}
    /\ UNCHANGED <<file, snaps, ops, journal, pending, memory, pc, command, touched, counters>>

\* create_snapshot
CreateSnapshot ==
    /\ pc = "idle" /\ pending = {} /\ commands < MaxCommands
    /\ \E t \in Task, fs \in SUBSET Path \ {{}} :
          /\ OnDisk(fs)
          /\ Store(t, "manual", Current(fs))
    /\ commands' = commands + 1
    /\ UNCHANGED <<file, stripped, ops, journal, pending, mem_ops, markers, auth,
                   pc, command, touched, edits, faults>>

------------------------------------------------------------------------------
(* apply_patch and apply_operation_plans *)

\* The contents the patch was made from are still on disk; an edit the user
\* confirmed needs no authorization.
BeginApply ==
    /\ \E t \in Task, u \in Turn \cup {NoTurn}, confirmed \in BOOLEAN, fs \in SUBSET Path \ {{}} :
          /\ Begin("apply", t, u)
          /\ confirmed \/ Authorized(t)
          /\ OnDisk(fs)
          /\ base' = Current(fs)
          /\ plan' \in [fs -> Content]
    /\ pc' = "task-start"
    /\ UNCHANGED <<file, store, memory, queue, target, left, undone, edits, faults>>

\* mark_snapshot_scope, then the snapshot: of the contents in the plan, not of
\* the disk.
Checkpoint(scope, key, next) ==
    /\ pc = scope
    /\ IF key \in markers
       THEN UNCHANGED <<snaps, mem_snaps>>
       ELSE Store(cmd.task, scope, base)
    /\ markers' = markers \cup {key}
    /\ pc' = next
    /\ UNCHANGED <<file, stripped, ops, journal, pending, mem_ops, auth, command, touched, counters>>

TaskStart == Checkpoint("task-start", <<"task-start", cmd.task>>,
                        IF cmd.turn = NoTurn THEN "source" ELSE "turn-start")
TurnStart == Checkpoint("turn-start", <<"turn-start", cmd.turn>>, "source")

\* The marker is set, the snapshot is not stored.
CheckpointFails ==
    /\ pc \in {"task-start", "turn-start"}
    /\ Disturbable
    /\ faults' = faults + 1
    /\ markers' = markers \cup {IF pc = "task-start" THEN <<pc, cmd.task>> ELSE <<pc, cmd.turn>>}
    /\ Return
    /\ UNCHANGED <<file, store, mem_snaps, mem_ops, auth, touched, commands, edits>>

\* The pre-tool or manual snapshot the operations refer to.
SourceSnapshot ==
    /\ pc = "source"
    /\ Store(cmd.task, "source", base)
    /\ pc' = "check"
    /\ UNCHANGED <<file, stripped, ops, journal, pending, mem_ops, markers, auth,
                   command, touched, counters>>

\* The second validate_operation_conflicts: content and mtime.
Unchanged == \A f \in DOMAIN base : file[f] = base[f] /\ f \notin touched

CheckConflicts ==
    /\ pc = "check"
    /\ \/ /\ Unchanged
          /\ pc' = "commit"
          /\ UNCHANGED command
       \/ ~Unchanged /\ Return
    /\ UNCHANGED <<file, store, memory, touched, counters>>

\* The operations of the plan, one per file; their order is the patch's.
NewOperations ==
    {os \in [1..Cardinality(DOMAIN plan) -> [path : DOMAIN plan]] :
        \A i, j \in DOMAIN os : os[i].path = os[j].path => i = j}

\* Wrong on purpose: the id of the checkpoint before the source snapshot.
DecideEarlierSource ==
    /\ \E os \in NewOperations :
          ops' = ops \o [i \in DOMAIN os |->
                    [task |-> cmd.task, path |-> os[i].path, before |-> base[os[i].path],
                     after |-> plan[os[i].path], source |-> Len(snaps) - 1, at |-> Clock + i]]
    /\ Return

Decide ==
    /\ \E os \in NewOperations :
          ops' = ops \o [i \in DOMAIN os |->
                    [task |-> cmd.task, path |-> os[i].path, before |-> base[os[i].path],
                     after |-> plan[os[i].path], source |-> Len(snaps), at |-> Clock + i]]
    /\ Return

\* Wrong on purpose: one operation too many.
DecidedOneMore == Len(ops)..Len(ops')

Decided == DOMAIN ops' \ DOMAIN ops

\* file_transaction::commit, record_committed_operations.
Commit ==
    /\ pc = "commit"
    /\ Decide
    /\ file' = [f \in Path |-> IF f \in DOMAIN plan THEN plan[f] ELSE file[f]]
    /\ journal' = journal \cup Decided
    /\ mem_ops' = mem_ops \cup Decided
    /\ UNCHANGED <<snaps, stripped, pending, mem_snaps, markers, auth, touched, counters>>

\* It fails after its decision: some files are written, the journal has nothing.
CommitUnfinished ==
    /\ pc = "commit"
    /\ Disturbable
    /\ faults' = faults + 1
    /\ \E fs \in SUBSET DOMAIN plan :
          file' = [f \in Path |-> IF f \in fs THEN plan[f] ELSE file[f]]
    /\ Decide
    /\ pending' = Decided
    /\ UNCHANGED <<snaps, stripped, journal, memory, touched, commands, edits>>

------------------------------------------------------------------------------
(* revert.rs *)

\* undo_operation, revert_file, revert_task up to their first operation.
BeginUndo ==
    /\ \/ \E o \in journal \cup mem_ops :
             /\ Authorized(ops[o].task)
             /\ Begin("undo", ops[o].task, NoTurn)
             /\ queue' = {o}
       \/ \E t \in Task, f \in Path :
             LET matching == {o \in TaskOperations(t) : ops[o].path = f} IN
             /\ Authorized(t)
             /\ matching # {}
             /\ Begin("file", t, NoTurn)
             /\ queue' = {Newest(matching)}
       \/ \E t \in Task :
             /\ Authorized(t)
             /\ TaskOperations(t) # {}
             /\ Begin("task", t, NoTurn)
             /\ queue' = TaskOperations(t)
    /\ pc' = "undo"
    /\ UNCHANGED <<file, store, memory, plan, base, target, left, undone, edits, faults>>

Before(o) == snaps[ops[o].source].files[ops[o].path]

\* is_operation_already_reverted; undo_operation does not ask.
AlreadyReverted(o) ==
    cmd.kind # "undo" /\ Loadable(ops[o].source) /\ file[ops[o].path] = Before(o)

\* ensure_operation_matches_expected_state, and the source snapshot loads.
MayUndo(o) == file[ops[o].path] = ops[o].after /\ Loadable(ops[o].source)

\* revert_task passes over what is already reverted.
SkipReverted ==
    /\ pc = "undo" /\ cmd.kind = "task" /\ queue # {}
    /\ AlreadyReverted(Newest(queue))
    /\ queue' = queue \ {Newest(queue)}
    /\ UNCHANGED <<file, store, memory, pc, cmd, plan, base, target, left, undone, touched, counters>>

AcceptUndo ==
    /\ pc = "undo" /\ queue # {}
    /\ LET o == Newest(queue) IN
          /\ ~AlreadyReverted(o)
          /\ MayUndo(o)
          /\ queue'  = queue \ {o}
          /\ undone' = undone \cup {o}
          /\ target' = [f \in {ops[o].path} |-> Before(o)]
    /\ pc' = "save"
    /\ UNCHANGED <<file, store, memory, cmd, plan, base, left, touched, counters>>

\* restore_conflict, a missing source snapshot, or revert_file with nothing to do.
RefuseUndo ==
    /\ pc = "undo" /\ queue # {}
    /\ LET o == Newest(queue) IN
          IF AlreadyReverted(o) THEN cmd.kind = "file" ELSE ~MayUndo(o)
    /\ Return
    /\ UNCHANGED <<file, store, memory, touched, counters>>

\* revert_task is through; it reports an error if undone is empty.
EndRevertTask ==
    /\ pc = "undo" /\ queue = {}
    /\ Return
    /\ UNCHANGED <<file, store, memory, touched, counters>>

\* resolve_diff_preview finds a hunk: the file differs from the source snapshot,
\* or that cannot be loaded and the operation's stored diff is used.
Previewable(o) == Loadable(ops[o].source) => file[ops[o].path] # Before(o)

\* revert_hunk; what is left without the hunk is some content.
BeginHunk ==
    /\ \E t \in Task : \E o \in TaskOperations(t) :
          /\ Authorized(t)
          /\ Previewable(o)
          /\ Begin("hunk", t, NoTurn)
          /\ target' \in [{ops[o].path} -> Content]
    /\ pc' = "save"
    /\ UNCHANGED <<file, store, memory, plan, base, queue, left, undone, edits, faults>>

\* restore_snapshot
BeginRestore ==
    /\ \E s \in DOMAIN snaps :
          /\ Loadable(s)
          /\ Authorized(snaps[s].task)
          /\ Begin("restore", snaps[s].task, NoTurn)
          /\ target' = snaps[s].files
    /\ pc' = "save"
    /\ UNCHANGED <<file, store, memory, plan, base, queue, left, undone, edits, faults>>

\* Wrong on purpose: the pre-revert snapshot has the contents about to be written.
SaveCurrentTooLate ==
    /\ pc = "save"
    /\ OnDisk(DOMAIN target)
    /\ Store(cmd.task, "pre-revert", target)
    /\ left' = DOMAIN target
    /\ touched' = touched \ DOMAIN target
    /\ pc' = "write"
    /\ UNCHANGED <<file, stripped, ops, journal, pending, mem_ops, markers, auth,
                   cmd, plan, base, queue, target, undone, counters>>

\* The current contents are read and stored as the pre-revert snapshot.
SaveCurrent ==
    /\ pc = "save"
    /\ OnDisk(DOMAIN target)
    /\ Store(cmd.task, "pre-revert", Current(DOMAIN target))
    /\ left' = DOMAIN target
    /\ touched' = touched \ DOMAIN target
    /\ pc' = "write"
    /\ UNCHANGED <<file, stripped, ops, journal, pending, mem_ops, markers, auth,
                   cmd, plan, base, queue, target, undone, counters>>

\* A file that is gone cannot be read.
RefuseSave ==
    /\ pc = "save"
    /\ ~OnDisk(DOMAIN target)
    /\ Return
    /\ UNCHANGED <<file, store, memory, touched, counters>>

\* Wrong on purpose: only the first file is written.
WriteFileOnce ==
    /\ pc = "write"
    /\ \E f \in left : file' = [file EXCEPT ![f] = target[f]]
    /\ left' = {}
    /\ pc' = "record"
    /\ UNCHANGED <<store, memory, cmd, plan, base, queue, target, undone, touched, counters>>

WriteFile ==
    /\ pc = "write"
    /\ \E f \in left :
          /\ file' = [file EXCEPT ![f] = target[f]]
          /\ left' = left \ {f}
          /\ pc' = IF left = {f} THEN "record" ELSE "write"
    /\ UNCHANGED <<store, memory, cmd, plan, base, queue, target, undone, touched, counters>>

\* The revert snapshot; revert_hunk reads the file once more for it.
RecordRevert ==
    /\ pc = "record"
    /\ cmd.kind = "hunk" => OnDisk(DOMAIN target)
    /\ IF cmd.kind = "hunk"
       THEN Store(cmd.task, "hunk", Current(DOMAIN target))
       ELSE Store(cmd.task, "revert", target)
    /\ IF cmd.kind = "task"
       THEN /\ pc' = "undo"
            /\ target' = << >>
            /\ UNCHANGED <<cmd, plan, base, queue, left, undone>>
       ELSE Return
    /\ UNCHANGED <<file, stripped, ops, journal, pending, mem_ops, markers, auth, touched, counters>>

RefuseRecord ==
    /\ pc = "record" /\ cmd.kind = "hunk"
    /\ ~OnDisk(DOMAIN target)
    /\ Return
    /\ UNCHANGED <<file, store, memory, touched, counters>>

------------------------------------------------------------------------------
Init ==
    /\ file \in [Path -> Content]
    /\ snaps = << >> /\ ops = << >>
    /\ stripped = {} /\ journal = {} /\ pending = {}
    /\ mem_snaps = {} /\ mem_ops = {} /\ markers = {}
    /\ auth = {}
    /\ pc = "idle"
    /\ cmd = Nothing
    /\ plan = << >> /\ base = << >> /\ target = << >>
    /\ queue = {} /\ left = {} /\ undone = {} /\ touched = {}
    /\ commands = 0 /\ edits = 0 /\ faults = 0

Apply == BeginApply \/ TaskStart \/ TurnStart \/ CheckpointFails \/ SourceSnapshot
            \/ CheckConflicts \/ Commit \/ CommitUnfinished
Revert == BeginUndo \/ SkipReverted \/ AcceptUndo \/ RefuseUndo \/ EndRevertTask
            \/ BeginHunk \/ BeginRestore \/ SaveCurrent \/ RefuseSave
            \/ WriteFile \/ RecordRevert \/ RefuseRecord
Next == Apply \/ Revert \/ CreateSnapshot \/ Recover \/ Fail \/ Restart
            \/ SetAuthLevel \/ UserEdit \/ Strip

Spec == Init /\ [][Next]_vars

------------------------------------------------------------------------------
(* Properties *)

\* Every variable keeps its type, and operations refer to earlier snapshots.
TypeOK ==
    /\ file \in [Path -> Content \cup {Absent}]
    /\ snaps \in Seq(Snapshot)
    /\ ops \in Seq(Operation)
    /\ stripped \cup mem_snaps \subseteq DOMAIN snaps
    /\ journal \cup pending \cup mem_ops \cup queue \cup undone \subseteq DOMAIN ops
    /\ markers \subseteq ({"task-start"} \X Task) \cup ({"turn-start"} \X Turn)
    /\ auth \in Level
    /\ pc \in Label
    /\ cmd \in [kind : Kind, task : Task \cup {NoTask}, turn : Turn \cup {NoTurn}]
    /\ {plan, base, target} \subseteq Files
    /\ left \subseteq DOMAIN target
    /\ touched \subseteq Path
    /\ commands \in 0..MaxCommands /\ {edits, faults} \subseteq 0..MaxDisturbances

\* The source snapshot of an operation holds its file as it was before the
\* edit, whatever the user wrote while apply_operation_plans took snapshots.
SourceHoldsBefore ==
    \A o \in DOMAIN ops :
        /\ ops[o].source \in DOMAIN snaps
        /\ ops[o].path \in DOMAIN snaps[ops[o].source].files
        /\ Before(o) = ops[o].before
        /\ snaps[ops[o].source].at < ops[o].at

\* Whatever a command or a redo replaces in a file was stored in a snapshot
\* before, unless somebody wrote the file after the command read it
\* (ADR-20260428: a rollback can itself be undone).
ReplacedIsSaved ==
    [][\A f \in Path : file'[f] # file[f] /\ edits' = edits =>
          \/ f \in touched
          \/ \E s \in DOMAIN snaps : f \in DOMAIN snaps[s].files /\ snaps[s].files[f] = file[f]]_vars

TaskPaths(t) == {ops[o].path : o \in {r \in journal \cup mem_ops : ops[r].task = t}}

\* The file as it was before the first edit of the task.
Original(t, f) ==
    LET os == {o \in journal \cup mem_ops : ops[o].task = t /\ ops[o].path = f}
    IN  ops[CHOOSE o \in os : \A q \in os : o <= q].before

Restored(t) == \A f \in TaskPaths(t) : f \in touched \/ file[f] = Original(t, f)

\* A revert_task that reports success leaves every file of the task as it was
\* before the task's first edit (audit event ai.edit.task_reverted: all
\* effective edits of the task), files others write meanwhile excepted.
RevertTaskRestores ==
    [][EndRevertTask /\ undone # {} => Restored(cmd.task)]_vars

\* When a revert or restore writes its closing snapshot, all its files have
\* the contents it reports, those others write meanwhile excepted.
RevertIsComplete ==
    pc = "record" => \A f \in DOMAIN target : f \in touched \/ file[f] = target[f]
==============================================================================
