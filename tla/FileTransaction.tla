--------------------------- MODULE FileTransaction ---------------------------
(***************************************************************************)
(* The crash-safe multi-file write of the Agent Edit & Rollback subsystem  *)
(* (src-tauri/src/ai/edit/io/file_transaction.rs).                         *)
(*                                                                         *)
(* Every AED command of an application process runs recover_pending first, *)
(* and an AI write then runs commit: a manifest is stored as prepared, the *)
(* new contents are staged, the manifest is marked committed, the staged   *)
(* contents are written to the target files, the operations are appended   *)
(* to the journal, the manifest is marked done and the staging directory   *)
(* is removed.  journal.lock is taken around single storage operations     *)
(* only, so each of those operations is one atomic step here and steps of  *)
(* several application processes, of the user's editor and failures fall   *)
(* between them.                                                           *)
(***************************************************************************)
EXTENDS Integers, Sequences, FiniteSets

CONSTANTS
    Proc,          \* application processes sharing one AED storage root
    Path,          \* files AED may write
    Content,       \* file contents (equal iff their blake3 hashes are equal)
    MaxTx,         \* bound: transactions ever prepared
    MaxEntries,    \* bound: files in one plan (20 in validate_patch)
    MaxUserEdits,  \* bound: writes by the user's editor
    MaxFaults      \* bound: failed storage operations and process crashes

ASSUME BoundsAssumption ==
    /\ MaxTx \in Nat
    /\ MaxEntries \in Nat
    /\ MaxUserEdits \in Nat
    /\ MaxFaults \in Nat

VARIABLES
    file,       \* [Path -> Content]: the workspace on disk
    status,     \* [Tx -> Status]: manifest status in the file_transactions keyspace
    entries,    \* [Tx -> Seq(Entry)]: manifest entries
    staged,     \* [Tx -> SUBSET Nat]: entries whose staging file exists
    journal,    \* transactions whose operations are in the operation journal
    pc,         \* [Proc -> Label]: where the command of a process stands
    plan,       \* [Proc -> Seq(Entry)]: the plan to commit; << >> in a query
    mode,       \* [Proc -> {"recover", "commit"}]: who called apply_manifest
    seen,       \* [Proc -> [Tx -> Status]]: the manifests list_manifests returned
    tx,         \* [Proc -> Nat]: the transaction being handled
    idx,        \* [Proc -> Nat]: the next entry of that transaction
    blocked,    \* paths on which a write is refused (symlink, protected, in use)
    userEdits,  \* number of writes by the user's editor so far
    faults,     \* number of failures so far
    decided,    \* history: transactions ever marked committed
    published   \* history: [Tx -> SUBSET Nat]: entries ever written to their target

storage == <<status, entries, staged, journal>>
local   == <<pc, plan, mode, seen, tx, idx>>
env     == <<blocked, userEdits, faults>>
history == <<decided, published>>
vars    == <<file, storage, local, env, history>>

Tx     == 1..MaxTx
Status == {"absent", "prepared", "committed", "done"}
Label  == {"idle", "list", "recover", "discard", "prepare", "stage", "apply",
           "finish", "cleanup"}

\* An entry of a manifest.  base is the before_hash of the operation that
\* travels with it, content the text in its staging file.
Entry == [path : Path, base : Content, content : Content]

\* What a command may ask for; the same path may occur twice.
Plans == UNION {[1..n -> [path : Path, content : Content]] : n \in 1..MaxEntries}

------------------------------------------------------------------------------
(* Commands *)

\* Plans accepted but not yet given a manifest.
Unprepared == {p \in Proc : plan[p] # << >> /\ mode[p] = "recover"}

\* The tail of apply_operation_plans: every target still has the content the
\* plan was made from, then commit is called and starts with recover_pending.
BeginCommit(p) ==
    /\ pc[p] = "idle"
    /\ Cardinality({t \in Tx : status[t] = "absent"}) > Cardinality(Unprepared)
    /\ \E steps \in Plans :
          plan' = [plan EXCEPT ![p] =
                     [i \in DOMAIN steps |->
                        [path    |-> steps[i].path,
                         base    |-> file[steps[i].path],
                         content |-> steps[i].content]]]
    /\ pc' = [pc EXCEPT ![p] = "list"]
    /\ UNCHANGED <<file, storage, mode, seen, tx, idx, env, history>>

\* Any other AED command (ai_edit_list_timeline, ai_edit_get_diff, ...): only
\* its recover_ai_edit_storage matters here.
BeginQuery(p) ==
    /\ pc[p] = "idle"
    /\ pc' = [pc EXCEPT ![p] = "list"]
    /\ UNCHANGED <<file, storage, plan, mode, seen, tx, idx, env, history>>

\* A command returns, successfully or not; its local state is gone.
Return(p) ==
    /\ pc'   = [pc   EXCEPT ![p] = "idle"]
    /\ plan' = [plan EXCEPT ![p] = << >>]
    /\ mode' = [mode EXCEPT ![p] = "recover"]
    /\ seen' = [seen EXCEPT ![p] = [t \in Tx |-> "absent"]]
    /\ tx'   = [tx   EXCEPT ![p] = 0]
    /\ idx'  = [idx  EXCEPT ![p] = 1]

------------------------------------------------------------------------------
(* recover_pending *)

ListManifests(p) ==
    /\ pc[p] = "list"
    /\ seen' = [seen EXCEPT ![p] = status]
    /\ pc'   = [pc EXCEPT ![p] = "recover"]
    /\ UNCHANGED <<file, storage, plan, mode, tx, idx, env, history>>

\* Manifests of the listing that recover_pending still has to handle, and the
\* one it handles next: the keyspace iterates in key order, and keys are
\* creation times.
PendingSeen(p) == {t \in Tx : seen[p][t] \in {"prepared", "committed"}}
IsNext(p, t)   == t \in PendingSeen(p) /\ \A u \in PendingSeen(p) : t <= u

\* Wrong on purpose: recovery discards committed manifests as well.
DiscardStagingOfCommitted(p) ==
    /\ pc[p] = "recover"
    /\ \E t \in Tx :
          /\ IsNext(p, t)
          /\ staged' = [staged EXCEPT ![t] = {}]
          /\ tx'     = [tx EXCEPT ![p] = t]
    /\ pc' = [pc EXCEPT ![p] = "discard"]
    /\ UNCHANGED <<file, status, entries, journal, plan, mode, seen, idx, env, history>>

DiscardStaging(p) ==
    /\ pc[p] = "recover"
    /\ \E t \in Tx :
          /\ IsNext(p, t)
          /\ seen[p][t] = "prepared"
          /\ staged' = [staged EXCEPT ![t] = {}]
          /\ tx'     = [tx EXCEPT ![p] = t]
    /\ pc' = [pc EXCEPT ![p] = "discard"]
    /\ UNCHANGED <<file, status, entries, journal, plan, mode, seen, idx, env, history>>

\* Wrong on purpose: the staging is removed but the manifest stays prepared.
MarkDiscardedNot(p) ==
    /\ pc[p] = "discard"
    /\ seen'   = [seen EXCEPT ![p][tx[p]] = "done"]
    /\ pc'     = [pc EXCEPT ![p] = "recover"]
    /\ UNCHANGED <<file, storage, plan, mode, tx, idx, env, history>>

MarkDiscarded(p) ==
    /\ pc[p] = "discard"
    /\ status' = [status EXCEPT ![tx[p]] = "done"]
    /\ seen'   = [seen EXCEPT ![p][tx[p]] = "done"]
    /\ pc'     = [pc EXCEPT ![p] = "recover"]
    /\ UNCHANGED <<file, entries, staged, journal, plan, mode, tx, idx, env, history>>

\* Wrong on purpose: recovery redoes prepared manifests as well.
BeginRedoOfPrepared(p) ==
    /\ pc[p] = "recover"
    /\ \E t \in Tx :
          /\ IsNext(p, t)
          /\ tx' = [tx EXCEPT ![p] = t]
    /\ idx' = [idx EXCEPT ![p] = 1]
    /\ pc'  = [pc EXCEPT ![p] = "apply"]
    /\ UNCHANGED <<file, storage, plan, mode, seen, env, history>>

BeginRedo(p) ==
    /\ pc[p] = "recover"
    /\ \E t \in Tx :
          /\ IsNext(p, t)
          /\ seen[p][t] = "committed"
          /\ tx' = [tx EXCEPT ![p] = t]
    /\ idx' = [idx EXCEPT ![p] = 1]
    /\ pc'  = [pc EXCEPT ![p] = "apply"]
    /\ UNCHANGED <<file, storage, plan, mode, seen, env, history>>

\* Wrong on purpose: commit goes on before recovery has finished.
EndRecoveryEarly(p) ==
    /\ pc[p] = "recover"
    /\ \/ /\ plan[p] = << >>
          /\ Return(p)
       \/ /\ plan[p] # << >>
          /\ pc' = [pc EXCEPT ![p] = "prepare"]
          /\ UNCHANGED <<plan, mode, seen, tx, idx>>
    /\ UNCHANGED <<file, storage, env, history>>

EndRecovery(p) ==
    /\ pc[p] = "recover"
    /\ PendingSeen(p) = {}
    /\ \/ /\ plan[p] = << >>
          /\ Return(p)
       \/ /\ plan[p] # << >>
          /\ pc' = [pc EXCEPT ![p] = "prepare"]
          /\ UNCHANGED <<plan, mode, seen, tx, idx>>
    /\ UNCHANGED <<file, storage, env, history>>

------------------------------------------------------------------------------
(* commit *)

\* Wrong on purpose: entries are counted from zero.
PrepareFromZero(p) ==
    /\ pc[p] = "prepare"
    /\ \E t \in Tx :
          /\ status[t] = "absent"
          /\ \A u \in Tx : status[u] = "absent" => t <= u
          /\ status'  = [status EXCEPT ![t] = "prepared"]
          /\ entries' = [entries EXCEPT ![t] = plan[p]]
          /\ tx'      = [tx EXCEPT ![p] = t]
    /\ idx'  = [idx EXCEPT ![p] = 0]
    /\ mode' = [mode EXCEPT ![p] = "commit"]
    /\ pc'   = [pc EXCEPT ![p] = "stage"]
    /\ UNCHANGED <<file, staged, journal, plan, seen, env, history>>

\* PreparedFileTransaction::new: a manifest with a fresh, larger id.
Prepare(p) ==
    /\ pc[p] = "prepare"
    /\ \E t \in Tx :
          /\ status[t] = "absent"
          /\ \A u \in Tx : status[u] = "absent" => t <= u
          /\ status'  = [status EXCEPT ![t] = "prepared"]
          /\ entries' = [entries EXCEPT ![t] = plan[p]]
          /\ tx'      = [tx EXCEPT ![p] = t]
    /\ idx'  = [idx EXCEPT ![p] = 1]
    /\ mode' = [mode EXCEPT ![p] = "commit"]
    /\ pc'   = [pc EXCEPT ![p] = "stage"]
    /\ UNCHANGED <<file, staged, journal, plan, seen, env, history>>

\* One round of write_staging_files.
StageEntry(p) ==
    /\ pc[p] = "stage"
    /\ idx[p] <= Len(entries[tx[p]])
    /\ staged' = [staged EXCEPT ![tx[p]] = @ \cup {idx[p]}]
    /\ idx'    = [idx EXCEPT ![p] = @ + 1]
    /\ UNCHANGED <<file, status, entries, journal, pc, plan, mode, seen, tx, env, history>>

\* Wrong on purpose: the manifest is marked committed before everything is
\* staged.
MarkCommittedEarly(p) ==
    /\ pc[p] = "stage"
    /\ status'  = [status EXCEPT ![tx[p]] = "committed"]
    /\ decided' = decided \cup {tx[p]}
    /\ idx'     = [idx EXCEPT ![p] = 1]
    /\ pc'      = [pc EXCEPT ![p] = "apply"]
    /\ UNCHANGED <<file, entries, staged, journal, plan, mode, seen, tx, env, published>>

\* update_status overwrites whatever status the manifest has by now.
MarkCommitted(p) ==
    /\ pc[p] = "stage"
    /\ idx[p] > Len(entries[tx[p]])
    /\ status'  = [status EXCEPT ![tx[p]] = "committed"]
    /\ decided' = decided \cup {tx[p]}
    /\ idx'     = [idx EXCEPT ![p] = 1]
    /\ pc'      = [pc EXCEPT ![p] = "apply"]
    /\ UNCHANGED <<file, entries, staged, journal, plan, mode, seen, tx, env, published>>

------------------------------------------------------------------------------
(* apply_manifest and what follows it, in commit as in recover_pending *)

Target(p) == entries[tx[p]][idx[p]].path

\* Wrong on purpose: a refused target is skipped and counts as written.
ApplyEntrySkippingBlocked(p) ==
    /\ pc[p] = "apply"
    /\ idx[p] <= Len(entries[tx[p]])
    /\ idx[p] \in staged[tx[p]]
    /\ file'      = IF Target(p) \in blocked THEN file
                   ELSE [file EXCEPT ![Target(p)] = entries[tx[p]][idx[p]].content]
    /\ published' = [published EXCEPT ![tx[p]] = @ \cup {idx[p]}]
    /\ idx'       = [idx EXCEPT ![p] = @ + 1]
    /\ UNCHANGED <<storage, pc, plan, mode, seen, tx, env, decided>>

\* One round of apply_manifest.  The target's current content is not looked at.
ApplyEntry(p) ==
    /\ pc[p] = "apply"
    /\ idx[p] <= Len(entries[tx[p]])
    /\ Target(p) \notin blocked
    /\ idx[p] \in staged[tx[p]]
    /\ file'      = [file EXCEPT ![Target(p)] = entries[tx[p]][idx[p]].content]
    /\ published' = [published EXCEPT ![tx[p]] = @ \cup {idx[p]}]
    /\ idx'       = [idx EXCEPT ![p] = @ + 1]
    /\ UNCHANGED <<storage, pc, plan, mode, seen, tx, env, decided>>

\* The path is refused or its staging file cannot be read: the command ends
\* with an error and the manifest stays as it is.
ApplyFails(p) ==
    /\ pc[p] = "apply"
    /\ idx[p] <= Len(entries[tx[p]])
    /\ Target(p) \in blocked \/ idx[p] \notin staged[tx[p]]
    /\ Return(p)
    /\ UNCHANGED <<file, storage, env, history>>

\* Wrong on purpose: the operations are appended before every file is written.
AppendOperationsEarly(p) ==
    /\ pc[p] = "apply"
    /\ journal' = journal \cup {tx[p]}
    /\ pc'      = [pc EXCEPT ![p] = "finish"]
    /\ UNCHANGED <<file, status, entries, staged, plan, mode, seen, tx, idx, env, history>>

AppendOperations(p) ==
    /\ pc[p] = "apply"
    /\ idx[p] > Len(entries[tx[p]])
    /\ journal' = journal \cup {tx[p]}
    /\ pc'      = [pc EXCEPT ![p] = "finish"]
    /\ UNCHANGED <<file, status, entries, staged, plan, mode, seen, tx, idx, env, history>>

MarkDone(p) ==
    /\ pc[p] = "finish"
    /\ status' = [status EXCEPT ![tx[p]] = "done"]
    /\ pc'     = [pc EXCEPT ![p] = "cleanup"]
    /\ UNCHANGED <<file, entries, staged, journal, plan, mode, seen, tx, idx, env, history>>

RemoveStaging(p) ==
    /\ pc[p] = "cleanup"
    /\ staged' = [staged EXCEPT ![tx[p]] = {}]
    /\ \/ /\ mode[p] = "commit"
          /\ Return(p)
       \/ /\ mode[p] = "recover"
          /\ seen' = [seen EXCEPT ![p][tx[p]] = "done"]
          /\ pc'   = [pc EXCEPT ![p] = "recover"]
          /\ UNCHANGED <<plan, mode, tx, idx>>
    /\ UNCHANGED <<file, status, entries, journal, env, history>>

------------------------------------------------------------------------------
(* Failures and the user *)

\* A storage operation fails (another process holds journal.lock, an I/O
\* error) or the process dies: either way the command is over and only what
\* is on disk remains.
Fail(p) ==
    /\ pc[p] # "idle"
    /\ faults < MaxFaults
    /\ faults' = faults + 1
    /\ Return(p)
    /\ UNCHANGED <<file, storage, blocked, userEdits, history>>

\* The user's editor, a formatter, git: writes no check of AED covers.
UserEdit ==
    /\ userEdits < MaxUserEdits
    /\ userEdits' = userEdits + 1
    /\ \E f \in Path, c \in Content :
          /\ c # file[f]
          /\ file' = [file EXCEPT ![f] = c]
    /\ UNCHANGED <<storage, local, blocked, faults, history>>

\* A target becomes, or stops being, something apply_manifest refuses to
\* write: replaced by a symbolic link, read-only, opened without sharing.
ToggleBlocked(f) ==
    /\ blocked' = IF f \in blocked THEN blocked \ {f} ELSE blocked \cup {f}
    /\ UNCHANGED <<file, storage, local, userEdits, faults, history>>

------------------------------------------------------------------------------
Init ==
    /\ file \in [Path -> Content]
    /\ status    = [t \in Tx |-> "absent"]
    /\ entries   = [t \in Tx |-> << >>]
    /\ staged    = [t \in Tx |-> {}]
    /\ journal   = {}
    /\ pc        = [p \in Proc |-> "idle"]
    /\ plan      = [p \in Proc |-> << >>]
    /\ mode      = [p \in Proc |-> "recover"]
    /\ seen      = [p \in Proc |-> [t \in Tx |-> "absent"]]
    /\ tx        = [p \in Proc |-> 0]
    /\ idx       = [p \in Proc |-> 1]
    /\ blocked   = {}
    /\ userEdits = 0
    /\ faults    = 0
    /\ decided   = {}
    /\ published = [t \in Tx |-> {}]

\* What a process does once a command has begun.
Step(p) ==
    \/ ListManifests(p)
    \/ DiscardStaging(p)
    \/ MarkDiscarded(p)
    \/ BeginRedo(p)
    \/ EndRecovery(p)
    \/ Prepare(p)
    \/ StageEntry(p)
    \/ MarkCommitted(p)
    \/ ApplyEntry(p)
    \/ ApplyFails(p)
    \/ AppendOperations(p)
    \/ MarkDone(p)
    \/ RemoveStaging(p)

Next ==
    \/ \E p \in Proc : BeginCommit(p) \/ BeginQuery(p) \/ Step(p) \/ Fail(p)
    \/ UserEdit
    \/ \E f \in Path : ToggleBlocked(f)

Spec == Init /\ [][Next]_vars
------------------------------------------------------------------------------
(* Fairness: a command that has begun runs on, and AED commands keep being *)
(* issued (the timeline panel queries on every refresh).                   *)

Fairness == \A p \in Proc : WF_vars(Step(p)) /\ WF_vars(BeginQuery(p))

LiveSpec == Spec /\ Fairness

------------------------------------------------------------------------------
(* Properties *)

\* Where a process handles one particular transaction.
Busy == {"discard", "stage", "apply", "finish", "cleanup"}

\* Every variable keeps its type, and a process that handles a transaction
\* has one.
TypeOK ==
    /\ file \in [Path -> Content]
    /\ status \in [Tx -> Status]
    /\ entries \in [Tx -> Seq(Entry)]
    /\ staged \in [Tx -> SUBSET Nat]
    /\ journal \in SUBSET Tx
    /\ pc \in [Proc -> Label]
    /\ plan \in [Proc -> Seq(Entry)]
    /\ mode \in [Proc -> {"recover", "commit"}]
    /\ seen \in [Proc -> [Tx -> Status]]
    /\ tx \in [Proc -> Nat]
    /\ \A p \in Proc : pc[p] \in Busy => tx[p] \in Tx
    /\ idx \in [Proc -> Nat \ {0}]
    /\ blocked \in SUBSET Path
    /\ userEdits \in Nat
    /\ faults \in Nat
    /\ decided \in SUBSET Tx
    /\ published \in [Tx -> SUBSET Nat]

\* No operation is in the journal whose transaction was not decided or one of
\* whose files was never written: the timeline shows no edit that did not
\* happen, however many processes commit, recover and fail.
JournalOnlyPublished ==
    \A t \in journal : t \in decided /\ published[t] = DOMAIN entries[t]

\* A transaction that was never marked committed has touched no file, so that
\* discarding a prepared manifest undoes nothing.
NoWriteBeforeDecision ==
    \A t \in Tx : published[t] # {} => t \in decided

\* A manifest marked committed still has every staging file: recover_pending
\* can always redo it.  A single process: a second one could discard the
\* manifest while it is being staged.
CommittedIsRecoverable ==
    \A t \in Tx : status[t] = "committed" => DOMAIN entries[t] \subseteq staged[t]

\* A manifest is done only when its transaction took full effect and is in the
\* journal, or had no effect at all, whatever step a crash interrupted.  A
\* single process.
AllOrNothing ==
    \A t \in Tx : status[t] = "done" =>
        \/ t \in journal /\ published[t] = DOMAIN entries[t]
        \/ t \notin decided /\ published[t] = {}

\* While nobody else writes, redo never lets an older edit overwrite a newer
\* one: with no manifest left committed, each file has the content of the last
\* entry for it in the newest decided transaction.  A single process.
IsLastEntry(t, i) ==
    \A u \in decided : \A j \in DOMAIN entries[u] :
        entries[u][j].path = entries[t][i].path => u < t \/ (u = t /\ j <= i)
NewestDecisionWins ==
    (userEdits = 0 /\ \A t \in Tx : status[t] # "committed") =>
        \A t \in decided : \A i \in DOMAIN entries[t] :
            IsLastEntry(t, i) => file[entries[t][i].path] = entries[t][i].content

\* At most one manifest is pending at any time: commit recovers before it
\* prepares and fails when recovery fails.  A single process.
AtMostOnePending ==
    \A t, u \in Tx :
        {status[t], status[u]} \subseteq {"prepared", "committed"} => t = u

\* The phase of a transaction as EditIntent sees it.
PhaseOf(t) ==
    CASE status[t] = "absent"    -> "new"
      [] status[t] = "prepared"  -> "open"
      [] status[t] = "committed" -> IF t \in journal THEN "recorded" ELSE "decided"
      [] status[t] = "done"      -> IF t \in journal THEN "closed" ELSE "discarded"

Intent == INSTANCE EditIntent WITH
    phase   <- [t \in Tx |-> PhaseOf(t)],
    change  <- entries,
    written <- published,
    edits   <- userEdits

\* The manifest, staging and recovery machinery of one process implements the
\* edit EditIntent promises.
ImplementsIntent == Intent!Init /\ [][Intent!Next]_(Intent!vars)

\* A manifest left pending by a failure or a crash is eventually done: redone
\* or discarded by a later command, once no target stays blocked.
PendingIsResolved ==
    <>[](blocked = {}) =>
        \A t \in Tx : status[t] \in {"prepared", "committed"} ~> status[t] = "done"
==============================================================================
