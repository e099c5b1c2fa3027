---------------------------- MODULE SnapshotStore ----------------------------
(***************************************************************************)
(* Snapshots, pins and the retention policy of the Agent Edit & Rollback   *)
(* subsystem (src-tauri/src/ai/edit/history/snapshot.rs, pins.rs,          *)
(* edit_journal.rs and the retention part of ai/edit/mod.rs).              *)
(*                                                                         *)
(* A snapshot manifest names the blobs of its files.  Blobs are shared by  *)
(* content hash: small ones live in the fjall database, large ones are     *)
(* files of a content-addressed directory outside the database's batches.  *)
(* After every stored snapshot, applied edit and pin change a command runs *)
(* the retention policy: it lists the operations, lists the pins, prunes   *)
(* the operations and collects garbage.  journal.lock makes each of these  *)
(* atomic, not the sequence, so commands of two processes interleave.      *)
(***************************************************************************)
EXTENDS Integers, FiniteSets

CONSTANTS
    Proc,       \* application processes sharing one AED storage root
    Task,       \* agent tasks
    Content,    \* file contents, one blob each
    Large,      \* contents above SMALL_BLOB_MAX_BYTES
    FullTtl,    \* FULL_BLOB_TTL_DAYS
    PinnedTtl,  \* PINNED_FULL_BLOB_TTL_DAYS
    OpTtl,      \* OPERATION_METADATA_TTL_DAYS
    Quota,      \* DEFAULT_TOTAL_BLOB_QUOTA_BYTES, in blobs; 0 turns it off
    MaxSnap,    \* bound: snapshots ever stored
    MaxOp,      \* bound: operations ever recorded
    MaxDay,     \* bound: days that pass
    MaxFaults   \* bound: failures and crashes

ASSUME RetentionAssumption ==
    /\ Task # {}
    /\ Large \subseteq Content
    /\ {FullTtl, PinnedTtl, OpTtl, Quota, MaxSnap, MaxOp, MaxDay, MaxFaults} \subseteq Nat
    /\ FullTtl <= PinnedTtl

VARIABLES
    day,      \* the current date
    made,     \* number of snapshots stored; ids are 1..made in creation order
    born,     \* [Snap -> Nat]: created_at
    owner,    \* [Snap -> Task]: task_id
    refs,     \* [Snap -> SUBSET Content]: the contents of its files
    live,     \* snapshots whose manifest still has its blob keys
    small,    \* blobs in the snapshot_blobs keyspace
    cas,      \* blobs in the content-addressed directory
    ops,      \* the operation journal: set of records
    recorded, \* number of operations ever recorded; their ids
    pins,     \* pinned targets: <<"snapshot" | "task" | "operation", id>>
    pc,       \* [Proc -> Label]: where the command of a process stands
    now,      \* [Proc -> Nat]: policy.now
    kept,     \* [Proc -> SUBSET Op]: operations the policy keeps
    index,    \* [Proc -> pinned targets]: pin_index
    pruned,   \* [Proc -> BOOLEAN]: prune_operations removed something
    source,   \* [Proc -> Nat]: the snapshot taken for an edit not yet applied, or 0
    shown,    \* [Proc -> SUBSET Shown]: snapshots of the in-memory timeline
    faults,   \* number of failures so far
    doomed    \* history: snapshots a garbage collection chose to strip

disk    == <<day, made, born, owner, refs, recorded>>
blobs   == <<live, small, cas>>
policy  == <<now, kept, index, pruned>>
memory  == <<source, shown>>
vars    == <<disk, blobs, ops, pins, pc, policy, memory, faults, doomed>>

Snap   == 1..MaxSnap
Label  == {"idle", "operations", "pins", "prune", "gc"}
Op     == [id : 1..MaxOp, task : Task, at : 0..MaxDay, source : Snap]
Target == ({"snapshot"} \X Snap) \cup ({"task"} \X Task) \cup ({"operation"} \X (1..MaxOp))

\* A snapshot of AiEditState.timeline: the payload store_snapshot returned,
\* whose content_available nothing updates later.
Shown == [id : Snap, pinned : BOOLEAN, content_available : BOOLEAN]

------------------------------------------------------------------------------
(* Retention *)

SnapshotPinned(s, pinIndex) ==
    <<"snapshot", s>> \in pinIndex \/ <<"task", owner[s]>> \in pinIndex

OperationPinned(o, pinIndex) ==
    <<"operation", o.id>> \in pinIndex \/ <<"task", o.task>> \in pinIndex

\* Wrong on purpose: unpinned operations go as soon as full blobs do.
RetainedTooFew(listed, pinIndex, today) ==
    {o \in listed : OperationPinned(o, pinIndex) \/ o.at >= today - FullTtl}

Retained(listed, pinIndex, today) ==
    {o \in listed : OperationPinned(o, pinIndex) \/ o.at >= today - OpTtl}

\* should_strip_full_blobs
Expired(s, pinIndex, today) ==
    today - born[s] > IF SnapshotPinned(s, pinIndex) THEN PinnedTtl ELSE FullTtl

\* Wrong on purpose: a pin on the task does not protect its snapshots.
ProtectedButByTask(s, pinIndex, today) ==
    <<"snapshot", s>> \in pinIndex /\ today - born[s] <= PinnedTtl

\* is_full_blob_pin_protected
Protected(s, pinIndex, today) ==
    SnapshotPinned(s, pinIndex) /\ today - born[s] <= PinnedTtl

\* The blobs a set of manifests refers to; their number stands for the sum of
\* active_blob_bytes.
Blobs(snaps) == UNION {refs[s] : s \in snaps}
Total(snaps) == Cardinality(Blobs(snaps))

\* The quota loop strips unprotected manifests oldest first.  It stops when
\* the total is within the quota, or after a manifest that freed nothing.
Evicted(snaps, pinIndex, today) ==
    LET open     == {s \in snaps : ~Protected(s, pinIndex, today)}
        Before(u) == snaps \ {v \in open : v < u}
        After(u)  == Before(u) \ {u}
    IN  {s \in open :
            /\ Quota > 0 /\ Total(snaps) > Quota
            /\ \A u \in open : u < s =>
                  Total(After(u)) > Quota /\ Total(After(u)) # Total(Before(u))}

\* What is left with its blobs after apply_snapshot_retention.
Survivors(pinIndex, today) ==
    LET fresh == {s \in live : ~Expired(s, pinIndex, today)}
    IN  fresh \ Evicted(fresh, pinIndex, today)

\* Wrong on purpose: every blob of a stripped manifest goes, shared or not.
FreedUncounted(rest) == Blobs(live \ rest)

\* Blobs whose reference count drops to zero.
Freed(rest) == Blobs(live) \ Blobs(rest)

------------------------------------------------------------------------------
(* Commands, up to their run_retention_policy_best_effort *)

\* Wrong on purpose: two snapshots get the same id.
StoreSnapshotSameId(p) ==
    /\ pc[p] = "idle"
    /\ made < MaxSnap
    /\ \E t \in Task, cs \in SUBSET Content \ {{}} :
          LET s == made + 1 IN
          /\ born'  = [born EXCEPT ![s] = day]
          /\ owner' = [owner EXCEPT ![s] = t]
          /\ refs'  = [refs EXCEPT ![s] = cs]
          /\ live'  = live \cup {s}
          /\ small' = small \cup (cs \ Large)
          /\ cas'   = cas \cup (cs \cap Large)
          /\ source' = [source EXCEPT ![p] = s]
          /\ shown' = [shown EXCEPT ![p] = @ \cup
                         {[id |-> s, pinned |-> FALSE, content_available |-> TRUE]}]
    /\ pc' = [pc EXCEPT ![p] = "operations"]
    /\ UNCHANGED <<day, made, recorded, ops, pins, policy, faults, doomed>>

\* store_snapshot and the push of append_snapshot.
StoreSnapshot(p) ==
    /\ pc[p] = "idle"
    /\ made < MaxSnap
    /\ \E t \in Task, cs \in SUBSET Content \ {{}} :
          LET s == made + 1 IN
          /\ made'  = s
          /\ born'  = [born EXCEPT ![s] = day]
          /\ owner' = [owner EXCEPT ![s] = t]
          /\ refs'  = [refs EXCEPT ![s] = cs]
          /\ live'  = live \cup {s}
          /\ small' = small \cup (cs \ Large)
          /\ cas'   = cas \cup (cs \cap Large)
          /\ source' = [source EXCEPT ![p] = s]
          /\ shown' = [shown EXCEPT ![p] = @ \cup
                         {[id |-> s, pinned |-> FALSE, content_available |-> TRUE]}]
    /\ pc' = [pc EXCEPT ![p] = "operations"]
    /\ UNCHANGED <<day, recorded, ops, pins, policy, faults, doomed>>

\* Wrong on purpose: small blobs are inserted outside the batch.
StoreSnapshotFailsUnbatched(p) ==
    /\ pc[p] = "idle"
    /\ faults < MaxFaults
    /\ faults' = faults + 1
    /\ \E cs \in SUBSET Large  : cas' = cas \cup cs
    /\ \E cs \in SUBSET (Content \ Large) : small' = small \cup cs
    /\ UNCHANGED <<disk, live, ops, pins, pc, policy, memory, doomed>>

\* store_snapshot fails before its batch commits: large blobs already written
\* stay behind.
StoreSnapshotFails(p) ==
    /\ pc[p] = "idle"
    /\ faults < MaxFaults
    /\ faults' = faults + 1
    /\ \E cs \in SUBSET Large : cas' = cas \cup cs
    /\ UNCHANGED <<disk, live, small, ops, pins, pc, policy, memory, doomed>>

\* apply_operation_plans commits the edit it took its last snapshot for, then
\* runs the policy.
RecordOperation(p) ==
    /\ pc[p] = "idle"
    /\ source[p] # 0
    /\ recorded < MaxOp
    /\ recorded' = recorded + 1
    /\ ops'      = ops \cup {[id |-> recorded', task |-> owner[source[p]],
                              at |-> day, source |-> source[p]]}
    /\ source'   = [source EXCEPT ![p] = 0]
    /\ pc'       = [pc EXCEPT ![p] = "operations"]
    /\ UNCHANGED <<day, made, born, owner, refs, blobs, pins, policy, shown, faults, doomed>>

\* refresh_timeline_pin_state, on one entry.
Refreshed(e, pinIndex) ==
    [id |-> e.id, pinned |-> SnapshotPinned(e.id, pinIndex),
     content_available |-> e.content_available]

\* ai_edit_set_pin: the pin, then the flags of the in-memory timeline.
SetPin(p) ==
    /\ pc[p] = "idle"
    /\ \E target \in ({"snapshot"} \X (1..made)) \cup ({"task"} \X Task)
                        \cup ({"operation"} \X {o.id : o \in ops}) :
          pins' = IF target \in pins THEN pins \ {target} ELSE pins \cup {target}
    /\ shown' = [shown EXCEPT ![p] =
                   {Refreshed(e, pins') : e \in @}]
    /\ pc' = [pc EXCEPT ![p] = "operations"]
    /\ UNCHANGED <<disk, blobs, ops, policy, source, faults, doomed>>

------------------------------------------------------------------------------
(* apply_retention_policy_with_policy *)

ListOperations(p) ==
    /\ pc[p] = "operations"
    /\ now'  = [now EXCEPT ![p] = day]
    /\ kept' = [kept EXCEPT ![p] = ops]
    /\ pc'   = [pc EXCEPT ![p] = "pins"]
    /\ UNCHANGED <<disk, blobs, ops, pins, index, pruned, memory, faults, doomed>>

ListPins(p) ==
    /\ pc[p] = "pins"
    /\ index' = [index EXCEPT ![p] = pins]
    /\ kept'  = [kept EXCEPT ![p] = Retained(@, pins, now[p])]
    /\ pc'    = [pc EXCEPT ![p] = "prune"]
    /\ UNCHANGED <<disk, blobs, ops, pins, now, pruned, memory, faults, doomed>>

\* prune_operations removes whatever is not in the set the listing gave.
PruneOperations(p) ==
    /\ pc[p] = "prune"
    /\ ops'    = {o \in ops : \E k \in kept[p] : k.id = o.id}
    /\ pruned' = [pruned EXCEPT ![p] = ops' # ops]
    /\ pc'     = [pc EXCEPT ![p] = "gc"]
    /\ UNCHANGED <<disk, blobs, pins, now, kept, index, memory, faults, doomed>>

\* The local state of the policy is gone when it returns.
PolicyReturns(p) ==
    /\ pc'     = [pc EXCEPT ![p] = "idle"]
    /\ now'    = [now EXCEPT ![p] = 0]
    /\ kept'   = [kept EXCEPT ![p] = {}]
    /\ index'  = [index EXCEPT ![p] = {}]
    /\ pruned' = [pruned EXCEPT ![p] = FALSE]

\* apply_snapshot_retention and, if the policy changed anything, the retain of
\* the in-memory timeline.
CollectGarbage(p) ==
    /\ pc[p] = "gc"
    /\ LET rest == Survivors(index[p], now[p]) IN
          /\ live'   = rest
          /\ small'  = small \ Freed(rest)
          /\ cas'    = cas \ Freed(rest)
          /\ doomed' = doomed \cup (live \ rest)
          /\ shown'  = [shown EXCEPT ![p] =
                          IF rest = live /\ ~pruned[p] THEN @
                          ELSE {e \in @ : \/ \E o \in kept[p] : o.source = e.id
                                          \/ e.pinned
                                          \/ e.content_available}]
    /\ PolicyReturns(p)
    /\ UNCHANGED <<disk, ops, pins, source, faults>>

\* An error or a crash before the batch commits: some of the large blobs are
\* already deleted, the manifests still name them.
CollectGarbageFails(p) ==
    /\ pc[p] = "gc"
    /\ faults < MaxFaults
    /\ faults' = faults + 1
    /\ LET rest == Survivors(index[p], now[p]) IN
          /\ \E gone \in SUBSET (Freed(rest) \cap Large) : cas' = cas \ gone
          /\ doomed' = doomed \cup (live \ rest)
    /\ PolicyReturns(p)
    /\ UNCHANGED <<disk, live, small, ops, pins, memory>>

\* Another step of the policy fails (journal.lock is taken, an I/O error): the
\* command goes on without it.
PolicyFails(p) ==
    /\ pc[p] \in {"operations", "pins", "prune"}
    /\ faults < MaxFaults
    /\ faults' = faults + 1
    /\ PolicyReturns(p)
    /\ UNCHANGED <<disk, blobs, ops, pins, memory, doomed>>

\* The process ends, in a command or not, and starts again with an empty
\* in-memory timeline.
Restart(p) ==
    /\ faults < MaxFaults
    /\ faults' = faults + 1
    /\ source' = [source EXCEPT ![p] = 0]
    /\ shown'  = [shown EXCEPT ![p] = {}]
    /\ PolicyReturns(p)
    /\ UNCHANGED <<disk, blobs, ops, pins, doomed>>

DayPasses ==
    /\ day < MaxDay
    /\ day' = day + 1
    /\ UNCHANGED <<made, born, owner, refs, recorded, blobs, ops, pins, pc, policy, memory, faults, doomed>>

------------------------------------------------------------------------------
Init ==
    /\ day    = 0
    /\ made   = 0
    /\ born   = [s \in Snap |-> 0]
    /\ owner  = [s \in Snap |-> CHOOSE t \in Task : TRUE]
    /\ refs   = [s \in Snap |-> {}]
    /\ live   = {}
    /\ small  = {}
    /\ cas    = {}
    /\ ops    = {}
    /\ recorded = 0
    /\ pins   = {}
    /\ pc     = [p \in Proc |-> "idle"]
    /\ now    = [p \in Proc |-> 0]
    /\ kept   = [p \in Proc |-> {}]
    /\ index  = [p \in Proc |-> {}]
    /\ pruned = [p \in Proc |-> FALSE]
    /\ source = [p \in Proc |-> 0]
    /\ shown  = [p \in Proc |-> {}]
    /\ faults = 0
    /\ doomed = {}

Next ==
    \/ \E p \in Proc :
          \/ StoreSnapshot(p) \/ StoreSnapshotFails(p)
          \/ RecordOperation(p) \/ SetPin(p)
          \/ ListOperations(p) \/ ListPins(p) \/ PruneOperations(p)
          \/ CollectGarbage(p) \/ CollectGarbageFails(p)
          \/ PolicyFails(p) \/ Restart(p)
    \/ DayPasses

Spec == Init /\ [][Next]_vars

------------------------------------------------------------------------------
(* Properties *)

\* Every variable keeps its type; only stored snapshots are live or stripped.
TypeOK ==
    /\ day \in 0..MaxDay
    /\ made \in 0..MaxSnap
    /\ born \in [Snap -> 0..MaxDay]
    /\ owner \in [Snap -> Task]
    /\ refs \in [Snap -> SUBSET Content]
    /\ live \cup doomed \subseteq 1..made
    /\ small \subseteq Content \ Large
    /\ cas \subseteq Large
    /\ ops \subseteq Op
    /\ recorded \in 0..MaxOp
    /\ pins \subseteq Target
    /\ pc \in [Proc -> Label]
    /\ now \in [Proc -> 0..MaxDay]
    /\ kept \in [Proc -> SUBSET Op]
    /\ index \in [Proc -> SUBSET Target]
    /\ pruned \in [Proc -> BOOLEAN]
    /\ source \in [Proc -> 0..made]
    /\ shown \in [Proc -> SUBSET Shown]
    /\ faults \in 0..MaxFaults

\* load_stored_snapshot would succeed.
Loadable(s) == s \in live /\ refs[s] \subseteq small \cup cas

\* A snapshot no garbage collection ever chose can be restored: sharing blobs
\* with stripped snapshots, and collections that fail half way, cost it nothing.
ChosenOnlyAreLost == \A s \in (1..made) \ doomed : Loadable(s)

\* The database holds exactly the small blobs some manifest names: nothing
\* dangles and nothing leaks, because blobs and manifests share one batch.
SmallBlobsExact == small = Blobs(live) \ Large

\* A collection never strips a snapshot that is pinned, itself or by its task,
\* and no older than the pinned limit (ADR-20260513 section 6: eviction takes
\* what is not pinned).
PinsHonoured ==
    [][\A s \in live \ live' :
          {<<"snapshot", s>>, <<"task", owner[s]>>} \cap pins # {}
             => day - born[s] > PinnedTtl]_vars

\* The journal loses an operation only when it is older than the metadata
\* limit: what was just applied can be undone.
FreshOperationsKept ==
    [][\A o \in ops \ ops' : day - o.at > OpTtl]_vars
==============================================================================
