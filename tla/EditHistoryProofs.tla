--------------------------- MODULE EditHistoryProofs ---------------------------
(***************************************************************************)
(* Proofs about EditHistory for every set of files, contents, tasks and    *)
(* turns and every bound.                                                  *)
(*                                                                         *)
(* HistoryInv says, for each place where a command may stand, what the     *)
(* snapshots it took and the contents it read still have to do with the    *)
(* files.  Unwinding and Looking add how far revert_task has got.          *)
(***************************************************************************)
EXTENDS EditHistory, TLAPS, FiniteSetTheorems, SequenceTheorems, WellFoundedInduction,
        NaturalsInduction

------------------------------------------------------------------------------
(* The inductive invariants *)

\* Somebody wrote f after the command read it, or the file has content c.
Holds(f, c) == f \in touched \/ file[f] = c

\* Some snapshot has the content file f has now.
Saved(f) == \E s \in DOMAIN snaps : f \in DOMAIN snaps[s].files /\ snaps[s].files[f] = file[f]

\* Snapshots and operations are stamped in the order they are stored.
Stamped ==
    /\ SourceHoldsBefore
    /\ \A s \in DOMAIN snaps : snaps[s].at <= Clock
    /\ \A o \in DOMAIN ops : ops[o].at <= Clock

\* The running command has a task, a plan for the files it read, no unfinished
\* transaction beside it, and files left to write only while it writes.
Running ==
    /\ pc # "idle" => cmd.task \in Task /\ pending = {}
    /\ pc = "turn-start" => cmd.turn \in Turn
    /\ pc \in {"task-start", "turn-start", "source", "check", "commit"} =>
          DOMAIN plan = DOMAIN base
    /\ pc # "write" => left = {}

\* The newest snapshot is the source snapshot of the plan, and at the commit
\* the files are as it says.
Sourced ==
    /\ pc \in {"check", "commit"} => snaps # << >> /\ snaps[Len(snaps)].files = base
    /\ pc = "commit" => \A f \in DOMAIN base : Holds(f, base[f])

\* The files of an unfinished transaction are as before or as after it.
Redoable ==
    /\ \A o \in pending : Holds(ops[o].path, ops[o].before) \/ Holds(ops[o].path, ops[o].after)
    /\ \A o, q \in pending : ops[o].path = ops[q].path => o = q

\* What is still to be overwritten is saved, what is overwritten is in place.
Rewriting ==
    pc = "write" =>
        /\ \A f \in left : f \in touched \/ Saved(f)
        /\ \A f \in DOMAIN target \ left : Holds(f, target[f])

HistoryInv ==
    TypeOK /\ Stamped /\ Running /\ Sourced /\ Redoable /\ Rewriting /\ RevertIsComplete

------------------------------------------------------------------------------
(* The revert of a task *)

AllOperations(t) == {o \in journal \cup mem_ops : ops[o].task = t}

\* The operations of the task that revert_task has looked at.
Reverted(t) == AllOperations(t) \ queue

\* The list a revert works from was not cut off at Limit.
Uncut == \A t \in Task : Cardinality(Entries(t)) <= Limit

\* Only revert_task can come to the end of its operations.
Looking == pc = "undo" => cmd.kind = "task" \/ queue # {}

\* Operations are looked at newest first, and a file has the content from
\* before the oldest of its operations looked at so far.
Unwinding ==
    cmd.kind = "task" /\ pc \in {"undo", "save", "write", "record"} =>
        /\ queue \subseteq AllOperations(cmd.task)
        /\ \A o \in queue, q \in Reverted(cmd.task) : o < q
        /\ \A o \in Reverted(cmd.task) :
              (\A q \in Reverted(cmd.task) : ops[q].path = ops[o].path => o <= q) =>
                 IF pc = "undo" \/ ops[o].path \notin DOMAIN target
                 THEN Holds(ops[o].path, ops[o].before)
                 ELSE target[ops[o].path] = ops[o].before

------------------------------------------------------------------------------
(* Lemmas about the data *)

LEMMA Smallest ==
    ASSUME NEW S \in SUBSET Nat, S # {}
    PROVE  \E x \in S : \A y \in S : x <= y
<1>1. PICK x \in S : \A y \in S : <<y, x>> \notin OpToRel(<, Nat)
  BY NatLessThanWellFounded, WFMin
<1>2. \A y \in S : ~ (y < x)
  BY <1>1 DEF OpToRel
<1> QED
  BY <1>2

LEMMA Largest ==
    ASSUME NEW n \in Nat, NEW S \in SUBSET (1..n), S # {}
    PROVE  \E x \in S : \A y \in S : y <= x
<1> DEFINE R == {n - y : y \in S}
<1>1. \A y \in S : y \in Int /\ n - y \in Nat
  OBVIOUS
<1>2. R \in SUBSET Nat /\ R # {}
  BY <1>1
<1>3. PICK r \in R : \A q \in R : r <= q
  BY <1>2, Smallest
<1>4. PICK x \in S : r = n - x
  OBVIOUS
<1>5. \A y \in S : n - x <= n - y
  BY <1>3, <1>4
<1> QED
  BY <1>1, <1>5

\* Newest picks the last of some operations.
LEMMA NewestIsLast ==
    ASSUME ops \in Seq(Operation), NEW os \in SUBSET (DOMAIN ops), os # {}
    PROVE  Newest(os) \in os /\ \A q \in os : q <= Newest(os)
<1>1. DOMAIN ops = 1..Len(ops) /\ Len(ops) \in Nat
  BY LenProperties
<1>2. \E o \in os : \A q \in os : q <= o
  BY <1>1, Largest
<1> QED
  BY <1>2 DEF Newest

LEMMA EmptyFiles == << >> \in Files /\ DOMAIN << >> = {}
<1>1. DOMAIN << >> = {}
  OBVIOUS
<1>2. << >> \in [{} -> Content]
  OBVIOUS
<1> QED
  BY <1>1, <1>2 DEF Files

\* Files are functions, to contents, from the paths they name.
LEMMA FilesAre ==
    ASSUME NEW fs \in Files
    PROVE  DOMAIN fs \subseteq Path /\ \A f \in DOMAIN fs : fs[f] \in Content
<1>1. PICK ps \in SUBSET Path : fs \in [ps -> Content]
  BY DEF Files
<1> QED
  BY <1>1

LEMMA FunctionIsFiles ==
    ASSUME NEW ps \in SUBSET Path, NEW fs \in [ps -> Content]
    PROVE  fs \in Files /\ DOMAIN fs = ps
BY DEF Files

LEMMA CurrentIsFiles ==
    ASSUME file \in [Path -> Content \cup {Absent}], NEW ps \in SUBSET Path, OnDisk(ps)
    PROVE  /\ Current(ps) \in Files /\ DOMAIN Current(ps) = ps
           /\ \A f \in ps : Current(ps)[f] = file[f]
<1>1. Current(ps) \in [ps -> Content]
  BY DEF Current, OnDisk
<1>2. \A f \in ps : Current(ps)[f] = file[f]
  BY DEF Current
<1> QED
  BY <1>1, <1>2, FunctionIsFiles

\* Storing a snapshot leaves the earlier ones alone.
LEMMA StoreAppends ==
    ASSUME snaps \in Seq(Snapshot), ops \in Seq(Operation), mem_snaps \subseteq DOMAIN snaps,
           NEW t \in Task, NEW scope \in Scope, NEW fs \in Files, Store(t, scope, fs)
    PROVE  /\ snaps' \in Seq(Snapshot)
           /\ Len(snaps) \in Nat /\ Len(snaps') = Len(snaps) + 1 /\ snaps' # << >>
           /\ DOMAIN snaps' = DOMAIN snaps \cup {Len(snaps')}
           /\ \A s \in DOMAIN snaps : s # Len(snaps') /\ snaps'[s] = snaps[s]
           /\ snaps'[Len(snaps')].files = fs
           /\ snaps'[Len(snaps')].at = Clock + 1
           /\ mem_snaps' \subseteq DOMAIN snaps'
<1> DEFINE new == [task |-> t, scope |-> scope, files |-> fs, at |-> Clock + 1]
<1>1. Len(snaps) \in Nat /\ Len(ops) \in Nat /\ DOMAIN snaps = 1..Len(snaps)
  BY LenProperties
<1>2. new \in Snapshot /\ new.files = fs /\ new.at = Clock + 1
  BY <1>1 DEF Snapshot, Clock
<1> HIDE DEF new
<1>3. snaps' = Append(snaps, new) /\ mem_snaps' = mem_snaps \cup {Len(snaps) + 1}
  BY DEF Store, new
<1>4. /\ snaps' \in Seq(Snapshot) /\ snaps' # << >> /\ Len(snaps') = Len(snaps) + 1
      /\ \A i \in 1..Len(snaps) : snaps'[i] = snaps[i]
      /\ snaps'[Len(snaps) + 1] = new
  BY <1>2, <1>3, AppendProperties
<1>5. DOMAIN snaps' = 1..(Len(snaps) + 1)
  BY <1>4, LenProperties
<1> QED
  BY <1>1, <1>2, <1>3, <1>4, <1>5

\* What the operations of a plan look like.
LEMMA DecideAppends ==
    ASSUME snaps \in Seq(Snapshot), ops \in Seq(Operation),
           plan \in Files, base \in Files, DOMAIN plan = DOMAIN base, cmd.task \in Task,
           Decide
    PROVE  /\ ops' \in Seq(Operation)
           /\ Len(ops) <= Len(ops')
           /\ DOMAIN ops \subseteq DOMAIN ops'
           /\ \A o \in DOMAIN ops : ops'[o] = ops[o]
           /\ \A o \in Decided :
                 /\ ops'[o].path \in DOMAIN plan
                 /\ ops'[o].before = base[ops'[o].path]
                 /\ ops'[o].after = plan[ops'[o].path]
                 /\ ops'[o].source = Len(snaps)
                 /\ ops'[o].at > Clock
                 /\ ops'[o].at <= Len(snaps) + Len(ops')
           /\ \A o, q \in Decided : ops'[o].path = ops'[q].path => o = q
<1>1. /\ Len(snaps) \in Nat /\ Len(ops) \in Nat /\ DOMAIN ops = 1..Len(ops)
  BY LenProperties
<1>2. /\ DOMAIN plan \subseteq Path /\ \A f \in DOMAIN plan : plan[f] \in Content
      /\ \A f \in DOMAIN plan : base[f] \in Content
  BY FilesAre
<1>3. Cardinality(DOMAIN plan) \in Nat
  BY <1>2, HistoryAssumption, FS_Subset, FS_CardinalityType
<1> DEFINE n == Cardinality(DOMAIN plan)
<1>4. PICK os \in NewOperations :
          ops' = ops \o [i \in DOMAIN os |->
                    [task |-> cmd.task, path |-> os[i].path, before |-> base[os[i].path],
                     after |-> plan[os[i].path], source |-> Len(snaps), at |-> Clock + i]]
  BY DEF Decide
<1> DEFINE new == [i \in DOMAIN os |->
                    [task |-> cmd.task, path |-> os[i].path, before |-> base[os[i].path],
                     after |-> plan[os[i].path], source |-> Len(snaps), at |-> Clock + i]]
<1>5. /\ os \in [1..n -> [path : DOMAIN plan]]
      /\ \A i, j \in DOMAIN os : os[i].path = os[j].path => i = j
  BY DEF NewOperations
<1>6. n \in Nat
  BY <1>3
<1> HIDE DEF n
<1>7. DOMAIN os = 1..n /\ \A i \in 1..n : os[i].path \in DOMAIN plan
  BY <1>5
<1>8. Clock = Len(snaps) + Len(ops)
  BY DEF Clock
<1>9. \A i \in 1..n : /\ new[i].path = os[i].path
                      /\ new[i].before = base[os[i].path]
                      /\ new[i].after = plan[os[i].path]
                      /\ new[i].source = Len(snaps)
                      /\ new[i].at = Clock + i
                      /\ new[i] \in Operation
  <2> SUFFICES ASSUME NEW i \in 1..n
               PROVE  [task |-> cmd.task, path |-> os[i].path, before |-> base[os[i].path],
                       after |-> plan[os[i].path], source |-> Len(snaps), at |-> Clock + i]
                      \in Operation
    BY <1>7
  <2>1. Clock + i \in Nat
    BY <1>1, <1>6, <1>8
  <2> QED
    BY <1>1, <1>2, <1>7, <2>1 DEF Operation
<1>10. new \in Seq(Operation) /\ Len(new) = n
  <2>1. new \in [1..n -> Operation]
    BY <1>7, <1>9
  <2> HIDE DEF new
  <2> QED
    BY <1>6, <2>1
<1> HIDE DEF new
<1>11. ops' = ops \o new
  BY <1>4 DEF new
<1>12. /\ ops' \in Seq(Operation) /\ Len(ops') = Len(ops) + n
       /\ \A i \in 1..(Len(ops) + n) :
             ops'[i] = IF i <= Len(ops) THEN ops[i] ELSE new[i - Len(ops)]
  BY <1>10, <1>11, ConcatProperties
<1>13. DOMAIN ops' = 1..(Len(ops) + n)
  BY <1>12, LenProperties
<1>14. \A o \in Decided : o - Len(ops) \in 1..n /\ ops'[o] = new[o - Len(ops)]
  BY <1>1, <1>6, <1>12, <1>13 DEF Decided
<1>15. \A o \in DOMAIN ops : o \in DOMAIN ops' /\ ops'[o] = ops[o]
  BY <1>1, <1>6, <1>12, <1>13
<1>16. ASSUME NEW o \in Decided
       PROVE  /\ ops'[o].path \in DOMAIN plan
              /\ ops'[o].before = base[ops'[o].path]
              /\ ops'[o].after = plan[ops'[o].path]
              /\ ops'[o].source = Len(snaps)
              /\ ops'[o].at > Clock
              /\ ops'[o].at <= Len(snaps) + Len(ops')
  <2>1. o - Len(ops) \in 1..n /\ ops'[o] = new[o - Len(ops)]
    BY <1>14
  <2>2. ops'[o].at = Clock + (o - Len(ops))
    BY <1>9, <2>1
  <2>3. ops'[o].at > Clock /\ ops'[o].at <= Len(snaps) + Len(ops')
    BY <1>1, <1>6, <1>8, <1>12, <2>1, <2>2
  <2> QED
    BY <1>7, <1>9, <2>1, <2>3
<1>17. ASSUME NEW o \in Decided, NEW q \in Decided, ops'[o].path = ops'[q].path
       PROVE  o = q
  <2>1. o - Len(ops) \in 1..n /\ q - Len(ops) \in 1..n
    BY <1>14
  <2>2. os[o - Len(ops)].path = os[q - Len(ops)].path
    BY <1>9, <1>14, <1>17, <2>1
  <2>3. o - Len(ops) = q - Len(ops)
    BY <1>5, <1>7, <2>1, <2>2
  <2>4. o \in Int /\ q \in Int
    BY <1>1, <1>6, <1>13 DEF Decided
  <2> QED
    BY <1>1, <2>3, <2>4
<1> QED
  BY <1>1, <1>6, <1>12, <1>15, <1>16, <1>17

------------------------------------------------------------------------------
(* Types *)

LEMMA TypeInit == Init => TypeOK
<1> SUFFICES ASSUME Init PROVE TypeOK
  OBVIOUS
<1>1. << >> \in Seq(Snapshot) /\ << >> \in Seq(Operation)
  OBVIOUS
<1>2. << >> \in Files /\ DOMAIN << >> = {}
  BY EmptyFiles
<1>3. MaxCommands \in Nat /\ MaxDisturbances \in Nat
  BY HistoryAssumption
<1>4. cmd \in [kind : Kind, task : Task \cup {NoTask}, turn : Turn \cup {NoTurn}]
  BY DEF Init, Nothing, Kind
<1>5. {edits, faults} \subseteq 0..MaxDisturbances /\ commands \in 0..MaxCommands
  BY <1>3 DEF Init
<1>6. auth \in Level /\ pc \in Label
  BY DEF Init, Level, Label
<1>7. file \in [Path -> Content \cup {Absent}]
  BY DEF Init
<1> QED
  BY <1>1, <1>2, <1>4, <1>5, <1>6, <1>7 DEF Init, TypeOK

\* A returning command leaves well-typed local state.
LEMMA ReturnType ==
    ASSUME Return
    PROVE  /\ pc' \in Label /\ pc' = "idle"
           /\ cmd' \in [kind : Kind, task : Task \cup {NoTask}, turn : Turn \cup {NoTurn}]
           /\ {plan', base', target'} \subseteq Files
           /\ queue' = {} /\ undone' = {} /\ left' = {}
           /\ DOMAIN target' = {}
BY EmptyFiles DEF Return, Label, Nothing, Kind

\* The bound on disturbances leaves room for one more.
LEMMA DisturbanceCounts ==
    ASSUME TypeOK, Disturbable
    PROVE  {edits + 1, faults + 1} \subseteq 0..MaxDisturbances
<1>1. stripped \subseteq 1..Len(snaps) /\ Len(snaps) \in Int
  BY LenProperties DEF TypeOK
<1>2. IsFiniteSet(1..Len(snaps))
  BY <1>1, FS_Interval
<1>3. Cardinality(stripped) \in Nat
  BY <1>1, <1>2, FS_Subset, FS_CardinalityType
<1>4. edits \in Nat /\ faults \in Nat /\ MaxDisturbances \in Nat
  BY HistoryAssumption DEF TypeOK
<1> QED
  BY <1>3, <1>4 DEF Disturbable

\* What Begin leaves well-typed.
LEMMA BeginType ==
    ASSUME TypeOK, NEW kind \in Kind, NEW t \in Task, NEW u \in Turn \cup {NoTurn},
           Begin(kind, t, u)
    PROVE  /\ pc = "idle" /\ pending = {}
           /\ commands' \in 0..MaxCommands
           /\ cmd' \in [kind : Kind, task : Task \cup {NoTask}, turn : Turn \cup {NoTurn}]
           /\ cmd'.kind = kind /\ cmd'.task = t /\ cmd'.turn = u
           /\ touched' = {}
<1>1. commands' \in 0..MaxCommands
  BY HistoryAssumption DEF TypeOK, Begin
<1> QED
  BY <1>1 DEF Begin

\* The before content of an operation is a content.
LEMMA BeforeIsContent ==
    ASSUME TypeOK, SourceHoldsBefore, NEW o \in DOMAIN ops
    PROVE  /\ Before(o) \in Content /\ Before(o) = ops[o].before
           /\ ops[o].path \in Path /\ ops[o].task \in Task
<1>1. ops[o] \in Operation
  BY DEF TypeOK
<1>2. snaps[ops[o].source] \in Snapshot
  BY DEF TypeOK, SourceHoldsBefore
<1>3. snaps[ops[o].source].files \in Files
  BY <1>2 DEF Snapshot
<1> QED
  BY <1>1, <1>3, FilesAre DEF SourceHoldsBefore, Before, Operation

\* A file taken from a list of operations names operations that exist.
LEMMA QueueType ==
    ASSUME TypeOK, BeginUndo
    PROVE  queue' \subseteq DOMAIN ops
<1>1. journal \cup mem_ops \subseteq DOMAIN ops /\ ops \in Seq(Operation)
  BY DEF TypeOK
<1>2. \A t \in Task : TaskOperations(t) \subseteq DOMAIN ops
  BY <1>1 DEF TaskOperations
<1>3. ASSUME NEW t \in Task, NEW f \in Path,
             {o \in TaskOperations(t) : ops[o].path = f} # {},
             queue' = {Newest({o \in TaskOperations(t) : ops[o].path = f})}
      PROVE  queue' \subseteq DOMAIN ops
  <2> DEFINE os == {o \in TaskOperations(t) : ops[o].path = f}
  <2>1. os \in SUBSET (DOMAIN ops) /\ os # {}
    BY <1>2, <1>3
  <2>2. Newest(os) \in os
    BY <1>1, <2>1, NewestIsLast
  <2> QED
    BY <1>3, <2>1, <2>2
<1>4. \/ \E o \in journal \cup mem_ops : queue' = {o}
      \/ \E t \in Task, f \in Path :
            /\ {o \in TaskOperations(t) : ops[o].path = f} # {}
            /\ queue' = {Newest({o \in TaskOperations(t) : ops[o].path = f})}
      \/ \E t \in Task : queue' = TaskOperations(t)
  BY DEF BeginUndo
<1> QED
  BY <1>1, <1>2, <1>3, <1>4

\* The running command of an undo.
LEMMA BeginUndoType ==
    ASSUME TypeOK, BeginUndo
    PROVE  \E kind \in {"undo", "file", "task"} : \E t \in Task : Begin(kind, t, NoTurn)
<1>1. ASSUME NEW o \in journal \cup mem_ops PROVE ops[o].task \in Task
  <2>1. ops[o] \in Operation
    BY DEF TypeOK
  <2> QED
    BY <2>1 DEF Operation
<1>2. \/ \E o \in journal \cup mem_ops : Begin("undo", ops[o].task, NoTurn)
      \/ \E t \in Task : Begin("file", t, NoTurn)
      \/ \E t \in Task : Begin("task", t, NoTurn)
  BY DEF BeginUndo
<1> QED
  BY <1>1, <1>2

\* A command that only returns.
LEMMA TypeReturn ==
    ASSUME TypeOK, Return, UNCHANGED <<file, store, touched, commands>>,
           mem_snaps' \subseteq mem_snaps, mem_ops' \subseteq mem_ops, auth' \in Level,
           markers' \subseteq ({"task-start"} \X Task) \cup ({"turn-start"} \X Turn),
           {edits', faults'} \subseteq 0..MaxDisturbances
    PROVE  TypeOK'
BY ReturnType DEF TypeOK, store

\* A command that stores a snapshot.
LEMMA TypeStore ==
    ASSUME TypeOK, NEW t \in Task, NEW scope \in Scope, NEW fs \in Files,
           Store(t, scope, fs), UNCHANGED <<stripped, ops, journal, pending, mem_ops>>
    PROVE  /\ snaps' \in Seq(Snapshot) /\ ops' \in Seq(Operation)
           /\ stripped' \cup mem_snaps' \subseteq DOMAIN snaps'
           /\ journal' \cup pending' \cup mem_ops' \subseteq DOMAIN ops'
<1>1. /\ DOMAIN snaps' = DOMAIN snaps \cup {Len(snaps')}
      /\ snaps' \in Seq(Snapshot) /\ mem_snaps' \subseteq DOMAIN snaps'
  BY StoreAppends DEF TypeOK
<1> QED
  BY <1>1 DEF TypeOK

LEMMA TypeApply ==
    ASSUME TypeOK, Running, Apply
    PROVE  TypeOK'
<1> USE DEF store, memory, command, counters
<1>1. CASE BeginApply
  <2>1. PICK t \in Task, u \in Turn \cup {NoTurn}, fs \in SUBSET Path :
            /\ Begin("apply", t, u)
            /\ OnDisk(fs)
            /\ base' = Current(fs)
            /\ plan' \in [fs -> Content]
    BY <1>1 DEF BeginApply
  <2>2. plan' \in Files /\ base' \in Files
    BY <2>1, CurrentIsFiles, FunctionIsFiles DEF TypeOK
  <2>3. /\ commands' \in 0..MaxCommands /\ touched' = {}
        /\ cmd' \in [kind : Kind, task : Task \cup {NoTask}, turn : Turn \cup {NoTurn}]
    <3>1. "apply" \in Kind
      BY DEF Kind
    <3> QED
      BY <2>1, <3>1, BeginType
  <2>4. pc' \in Label
    BY <1>1 DEF BeginApply, Label
  <2> QED
    BY <1>1, <2>2, <2>3, <2>4 DEF BeginApply, TypeOK
<1>2. ASSUME NEW scope \in {"task-start", "turn-start"}, NEW key, NEW next \in Label,
             key \in ({"task-start"} \X Task) \cup ({"turn-start"} \X Turn),
             Checkpoint(scope, key, next)
      PROVE  TypeOK'
  <2>1. cmd.task \in Task /\ scope \in Scope /\ base \in Files
    BY <1>2 DEF Running, Checkpoint, TypeOK, Scope
  <2>2. /\ snaps' \in Seq(Snapshot) /\ ops' \in Seq(Operation)
        /\ stripped' \cup mem_snaps' \subseteq DOMAIN snaps'
        /\ journal' \cup pending' \cup mem_ops' \subseteq DOMAIN ops'
    BY <1>2, <2>1, TypeStore DEF Checkpoint, TypeOK
  <2>3. markers' \subseteq ({"task-start"} \X Task) \cup ({"turn-start"} \X Turn)
    BY <1>2 DEF Checkpoint, TypeOK
  <2> QED
    BY <1>2, <2>2, <2>3 DEF Checkpoint, TypeOK
<1>3. CASE TaskStart
  <2>1. cmd.task \in Task
    BY <1>3 DEF TaskStart, Checkpoint, Running
  <2>2. (IF cmd.turn = NoTurn THEN "source" ELSE "turn-start") \in Label
    BY DEF Label
  <2> QED
    BY <1>2, <1>3, <2>1, <2>2 DEF TaskStart
<1>4. CASE TurnStart
  <2>1. cmd.turn \in Turn
    BY <1>4 DEF TurnStart, Checkpoint, Running
  <2> QED
    BY <1>2, <1>4, <2>1 DEF TurnStart, Label
<1>5. CASE CheckpointFails
  <2>1. faults' \in 0..MaxDisturbances /\ edits' \in 0..MaxDisturbances
    BY <1>5, DisturbanceCounts DEF CheckpointFails, TypeOK
  <2>2. markers' \subseteq ({"task-start"} \X Task) \cup ({"turn-start"} \X Turn)
    BY <1>5 DEF CheckpointFails, Running, TypeOK
  <2> QED
    BY <1>5, <2>1, <2>2, TypeReturn DEF CheckpointFails, TypeOK
<1>6. CASE SourceSnapshot
  <2>1. cmd.task \in Task /\ "source" \in Scope /\ base \in Files
    BY <1>6 DEF Running, SourceSnapshot, TypeOK, Scope
  <2>2. /\ snaps' \in Seq(Snapshot) /\ ops' \in Seq(Operation)
        /\ stripped' \cup mem_snaps' \subseteq DOMAIN snaps'
        /\ journal' \cup pending' \cup mem_ops' \subseteq DOMAIN ops'
    BY <1>6, <2>1, TypeStore DEF SourceSnapshot
  <2> QED
    BY <1>6, <2>2 DEF SourceSnapshot, TypeOK, Label
<1>7. CASE CheckConflicts
  <2>1. CASE Return
    BY <1>7, <2>1, TypeReturn DEF CheckConflicts, TypeOK
  <2>2. CASE pc' = "commit" /\ UNCHANGED command
    BY <1>7, <2>2 DEF CheckConflicts, TypeOK, Label
  <2> QED
    BY <1>7, <2>1, <2>2 DEF CheckConflicts
<1>8. CASE Commit \/ CommitUnfinished
  <2>1. pc = "commit" /\ Decide
    BY <1>8 DEF Commit, CommitUnfinished
  <2>2. cmd.task \in Task /\ DOMAIN plan = DOMAIN base /\ plan \in Files /\ base \in Files
    BY <2>1 DEF Running, TypeOK
  <2>3. /\ ops' \in Seq(Operation)
        /\ DOMAIN ops \subseteq DOMAIN ops' /\ Decided \subseteq DOMAIN ops'
    BY <2>1, <2>2, DecideAppends DEF TypeOK, Decided
  <2>4. /\ \A f \in DOMAIN plan : f \in Path /\ plan[f] \in Content
        /\ file \in [Path -> Content \cup {Absent}]
    BY <2>2, FilesAre DEF TypeOK
  <2>5. Return
    BY <2>1 DEF Decide
  <2>6. CASE Commit
    <3>1. file' \in [Path -> Content \cup {Absent}]
      BY <2>4, <2>6 DEF Commit
    <3>2. journal' \cup mem_ops' \cup pending' \subseteq DOMAIN ops'
      BY <2>3, <2>6 DEF Commit, TypeOK
    <3> QED
      BY <2>3, <2>5, <2>6, <3>1, <3>2, ReturnType DEF Commit, TypeOK
  <2>7. CASE CommitUnfinished
    <3>1. PICK fs \in SUBSET DOMAIN plan :
              file' = [f \in Path |-> IF f \in fs THEN plan[f] ELSE file[f]]
      BY <2>7 DEF CommitUnfinished
    <3>2. file' \in [Path -> Content \cup {Absent}]
      BY <2>4, <3>1
    <3>3. journal' \cup mem_ops' \cup pending' \subseteq DOMAIN ops'
      BY <2>3, <2>7 DEF CommitUnfinished, TypeOK
    <3>4. {edits', faults'} \subseteq 0..MaxDisturbances
      BY <2>7, DisturbanceCounts DEF CommitUnfinished, TypeOK
    <3> QED
      BY <2>3, <2>5, <2>7, <3>2, <3>3, <3>4, ReturnType DEF CommitUnfinished, TypeOK
  <2> QED
    BY <1>8, <2>6, <2>7
<1> QED
  BY <1>1, <1>3, <1>4, <1>5, <1>6, <1>7, <1>8 DEF Apply

LEMMA TypeRevert ==
    ASSUME TypeOK, Stamped, Running, Revert
    PROVE  TypeOK'
<1> USE DEF store, memory, command, counters
<1>0. ops \in Seq(Operation) /\ queue \in SUBSET (DOMAIN ops)
  BY DEF TypeOK
<1>1. CASE BeginUndo
  <2>1. PICK kind \in {"undo", "file", "task"}, t \in Task : Begin(kind, t, NoTurn)
    BY <1>1, BeginUndoType
  <2>2. /\ commands' \in 0..MaxCommands /\ touched' = {}
        /\ cmd' \in [kind : Kind, task : Task \cup {NoTask}, turn : Turn \cup {NoTurn}]
    <3>1. kind \in Kind
      BY DEF Kind
    <3> QED
      BY <2>1, <3>1, BeginType
  <2>3. queue' \subseteq DOMAIN ops /\ pc' \in Label
    BY <1>1, QueueType DEF BeginUndo, Label
  <2> QED
    BY <1>1, <2>2, <2>3 DEF BeginUndo, TypeOK
<1>2. CASE SkipReverted
  BY <1>2 DEF SkipReverted, TypeOK
<1>3. CASE AcceptUndo
  <2>1. Newest(queue) \in DOMAIN ops
    BY <1>0, <1>3, NewestIsLast DEF AcceptUndo
  <2> DEFINE o == Newest(queue)
  <2>2. Before(o) \in Content /\ ops[o].path \in Path
    BY <2>1, BeforeIsContent DEF Stamped
  <2>3. target' = [f \in {ops[o].path} |-> Before(o)] /\ queue' \subseteq queue
        /\ undone' = undone \cup {o} /\ pc' = "save" /\ left' = left
    BY <1>3 DEF AcceptUndo
  <2>4. left = {}
    BY <1>3 DEF AcceptUndo, TypeOK, Running
  <2> HIDE DEF o
  <2>5. target' \in Files
    BY <2>2, <2>3, FunctionIsFiles
  <2> QED
    BY <1>3, <2>1, <2>3, <2>4, <2>5 DEF AcceptUndo, TypeOK, Label, o
<1>4. CASE RefuseUndo \/ EndRevertTask \/ RefuseSave \/ RefuseRecord
  BY <1>4, TypeReturn DEF RefuseUndo, EndRevertTask, RefuseSave, RefuseRecord, TypeOK
<1>5. CASE BeginHunk
  <2>0. PICK t \in Task : \E o \in TaskOperations(t) :
            Begin("hunk", t, NoTurn) /\ target' \in [{ops[o].path} -> Content]
    BY <1>5 DEF BeginHunk
  <2>1. PICK o \in TaskOperations(t) :
            Begin("hunk", t, NoTurn) /\ target' \in [{ops[o].path} -> Content]
    BY <2>0
  <2>2. ops[o].path \in Path
    BY BeforeIsContent DEF TaskOperations, TypeOK, Stamped
  <2>3. target' \in Files
    BY <2>1, <2>2, FunctionIsFiles
  <2>4. /\ commands' \in 0..MaxCommands /\ touched' = {}
        /\ cmd' \in [kind : Kind, task : Task \cup {NoTask}, turn : Turn \cup {NoTurn}]
    BY <2>1, BeginType DEF Kind
  <2>5. left' = {} /\ pc' \in Label
    BY <1>5, <2>1 DEF BeginHunk, Begin, Label, Running
  <2> QED
    BY <1>5, <2>3, <2>4, <2>5 DEF BeginHunk, TypeOK
<1>6. CASE BeginRestore
  <2>1. PICK s \in DOMAIN snaps : Begin("restore", snaps[s].task, NoTurn)
                                  /\ target' = snaps[s].files
    BY <1>6 DEF BeginRestore
  <2>2. snaps[s] \in Snapshot
    BY DEF TypeOK
  <2>3. snaps[s].files \in Files /\ snaps[s].task \in Task
    BY <2>2 DEF Snapshot
  <2>4. /\ commands' \in 0..MaxCommands /\ touched' = {}
        /\ cmd' \in [kind : Kind, task : Task \cup {NoTask}, turn : Turn \cup {NoTurn}]
    BY <2>1, <2>3, BeginType DEF Kind
  <2>5. left' = {} /\ pc' \in Label
    BY <1>6, <2>1 DEF BeginRestore, Begin, Label, Running
  <2> QED
    BY <1>6, <2>1, <2>3, <2>4, <2>5 DEF BeginRestore, TypeOK
<1>7. CASE SaveCurrent
  <2>1. cmd.task \in Task /\ "pre-revert" \in Scope /\ Current(DOMAIN target) \in Files
    BY <1>7, CurrentIsFiles, FilesAre DEF Running, SaveCurrent, TypeOK, Scope
  <2>2. /\ snaps' \in Seq(Snapshot) /\ ops' \in Seq(Operation)
        /\ stripped' \cup mem_snaps' \subseteq DOMAIN snaps'
        /\ journal' \cup pending' \cup mem_ops' \subseteq DOMAIN ops'
    BY <1>7, <2>1, TypeStore DEF SaveCurrent
  <2> QED
    BY <1>7, <2>2 DEF SaveCurrent, TypeOK, Label
<1>8. CASE WriteFile
  <2>1. PICK f \in left : file' = [file EXCEPT ![f] = target[f]] /\ left' = left \ {f}
                          /\ pc' \in {"record", "write"}
    BY <1>8 DEF WriteFile
  <2>2. f \in DOMAIN target /\ target \in Files
    BY DEF TypeOK
  <2>3. file' \in [Path -> Content \cup {Absent}]
    BY <2>1, <2>2, FilesAre DEF TypeOK
  <2> QED
    BY <1>8, <2>1, <2>3 DEF WriteFile, TypeOK, Label
<1>9. CASE RecordRevert
  <2>1. \E scope \in Scope, fs \in Files : Store(cmd.task, scope, fs)
    BY <1>9, CurrentIsFiles, FilesAre DEF RecordRevert, TypeOK, Scope
  <2>2. /\ snaps' \in Seq(Snapshot) /\ ops' \in Seq(Operation)
        /\ stripped' \cup mem_snaps' \subseteq DOMAIN snaps'
        /\ journal' \cup pending' \cup mem_ops' \subseteq DOMAIN ops'
    <3>1. cmd.task \in Task
      BY <1>9 DEF RecordRevert, Running
    <3> QED
      BY <1>9, <2>1, <3>1, TypeStore DEF RecordRevert
  <2>3. CASE Return
    BY <1>9, <2>2, <2>3, ReturnType DEF RecordRevert, TypeOK
  <2>4. CASE pc' = "undo" /\ target' = << >> /\ UNCHANGED <<cmd, plan, base, queue, left, undone>>
    <3>1. left = {}
      BY <1>9 DEF RecordRevert, Running
    <3> QED
      BY <1>9, <2>2, <2>4, <3>1, EmptyFiles DEF RecordRevert, TypeOK, Label
  <2> QED
    BY <1>9, <2>3, <2>4 DEF RecordRevert
<1> QED
  BY <1>1, <1>2, <1>3, <1>4, <1>5, <1>6, <1>7, <1>8, <1>9 DEF Revert

LEMMA TypeNext ==
    ASSUME TypeOK, Stamped, Running, [Next]_vars
    PROVE  TypeOK'
<1> USE DEF store, memory, command, counters
<1>1. CASE Apply
  BY <1>1, TypeApply
<1>2. CASE Revert
  BY <1>2, TypeRevert
<1>3. CASE CreateSnapshot
  <2>1. PICK t \in Task, fs \in SUBSET Path : OnDisk(fs) /\ Store(t, "manual", Current(fs))
    BY <1>3 DEF CreateSnapshot
  <2>2. "manual" \in Scope /\ Current(fs) \in Files
    BY <2>1, CurrentIsFiles DEF TypeOK, Scope
  <2>3. /\ snaps' \in Seq(Snapshot) /\ ops' \in Seq(Operation)
        /\ stripped' \cup mem_snaps' \subseteq DOMAIN snaps'
        /\ journal' \cup pending' \cup mem_ops' \subseteq DOMAIN ops'
    BY <1>3, <2>1, <2>2, TypeStore DEF CreateSnapshot
  <2>4. commands' \in 0..MaxCommands
    BY <1>3, HistoryAssumption DEF CreateSnapshot, TypeOK
  <2> QED
    BY <1>3, <2>3, <2>4 DEF CreateSnapshot, TypeOK
<1>4. CASE Recover
  <2>1. \A o \in pending : ops[o].after \in Content
    <3>1. \A o \in pending : ops[o] \in Operation
      BY DEF TypeOK
    <3> QED
      BY <3>1 DEF Operation
  <2>2. \A f \in Path : (\E o \in pending : ops[o].path = f) =>
            ops[CHOOSE o \in pending : ops[o].path = f].after \in Content
    BY <2>1
  <2>3. file' \in [Path -> Content \cup {Absent}]
    BY <1>4, <2>2 DEF Recover, TypeOK
  <2> QED
    BY <1>4, <2>3 DEF Recover, TypeOK
<1>5. CASE Fail
  <2>1. {edits', faults'} \subseteq 0..MaxDisturbances
    BY <1>5, DisturbanceCounts DEF Fail, TypeOK
  <2> QED
    BY <1>5, <2>1, TypeReturn DEF Fail, TypeOK
<1>6. CASE Restart
  <2>1. {edits', faults'} \subseteq 0..MaxDisturbances
    BY <1>6, DisturbanceCounts DEF Restart, TypeOK
  <2> QED
    BY <1>6, <2>1, TypeReturn DEF Restart, TypeOK, Level
<1>7. CASE SetAuthLevel
  BY <1>7 DEF SetAuthLevel, TypeOK
<1>8. CASE UserEdit
  <2>1. {edits', faults'} \subseteq 0..MaxDisturbances
    BY <1>8, DisturbanceCounts DEF UserEdit, TypeOK
  <2>2. file' \in [Path -> Content \cup {Absent}] /\ touched' \subseteq Path
    BY <1>8 DEF UserEdit, TypeOK
  <2> QED
    BY <1>8, <2>1, <2>2 DEF UserEdit, TypeOK
<1>9. CASE Strip
  BY <1>9 DEF Strip, TypeOK
<1>10. CASE UNCHANGED vars
  BY <1>10 DEF vars, TypeOK
<1> QED
  BY <1>1, <1>2, <1>3, <1>4, <1>5, <1>6, <1>7, <1>8, <1>9, <1>10 DEF Next

------------------------------------------------------------------------------
(* The running command *)

LEMMA RunningNext ==
    ASSUME TypeOK, Stamped, Running, [Next]_vars
    PROVE  Running'
<1> USE DEF store, memory, command, counters
<1>1. ASSUME Return, pending' = pending \/ pc = "commit" PROVE Running'
  BY <1>1 DEF Return, Running
<1>2. CASE BeginApply
  <2>1. PICK t \in Task, u \in Turn \cup {NoTurn}, fs \in SUBSET Path :
            /\ Begin("apply", t, u)
            /\ OnDisk(fs)
            /\ base' = Current(fs)
            /\ plan' \in [fs -> Content]
    BY <1>2 DEF BeginApply
  <2>2. DOMAIN plan' = DOMAIN base'
    BY <2>1 DEF Current
  <2>3. pc' = "task-start" /\ pc = "idle" /\ pending' = {} /\ left' = left /\ cmd'.task \in Task
    BY <1>2, <2>1 DEF BeginApply, Begin
  <2> QED
    BY <2>2, <2>3 DEF Running
<1>3. CASE TaskStart \/ TurnStart \/ SourceSnapshot
  BY <1>3 DEF TaskStart, TurnStart, SourceSnapshot, Checkpoint, Running, TypeOK
<1>4. CASE CheckConflicts
  <2>1. CASE Return
    BY <1>1, <1>4, <2>1 DEF CheckConflicts
  <2>2. CASE pc' = "commit" /\ UNCHANGED command
    BY <1>4, <2>2 DEF CheckConflicts, Running
  <2> QED
    BY <1>4, <2>1, <2>2 DEF CheckConflicts
<1>5. CASE Commit \/ CommitUnfinished
  BY <1>1, <1>5 DEF Commit, CommitUnfinished, Decide
<1>6. CASE \/ CheckpointFails \/ RefuseUndo \/ EndRevertTask \/ RefuseSave \/ RefuseRecord
           \/ Fail \/ Restart
  BY <1>1, <1>6 DEF CheckpointFails, RefuseUndo, EndRevertTask, RefuseSave, RefuseRecord,
                    Fail, Restart
<1>7. CASE BeginUndo \/ BeginHunk \/ BeginRestore
  <2>1. \E kind \in Kind, t \in Task : Begin(kind, t, NoTurn)
    <3>1. CASE BeginUndo
      BY <3>1, BeginUndoType DEF Kind
    <3>2. CASE BeginHunk
      BY <3>2 DEF BeginHunk, Kind
    <3>3. CASE BeginRestore
      <4>1. \A s \in DOMAIN snaps : snaps[s] \in Snapshot
        BY DEF TypeOK
      <4> QED
        BY <3>3, <4>1 DEF BeginRestore, Kind, Snapshot
    <3> QED
      BY <1>7, <3>1, <3>2, <3>3
  <2>2. pc' \in {"undo", "save"} /\ left' = left /\ UNCHANGED pending
    BY <1>7 DEF BeginUndo, BeginHunk, BeginRestore
  <2>3. pc = "idle" /\ pending = {} /\ cmd'.task \in Task
    BY <2>1 DEF Begin
  <2> QED
    BY <2>2, <2>3 DEF Running
<1>8. CASE SkipReverted \/ AcceptUndo \/ SaveCurrent
  BY <1>8 DEF SkipReverted, AcceptUndo, SaveCurrent, Running
<1>9. CASE WriteFile
  BY <1>9 DEF WriteFile, Running
<1>10. CASE RecordRevert
  <2>1. CASE Return
    BY <1>1, <1>10, <2>1 DEF RecordRevert
  <2>2. CASE pc' = "undo" /\ UNCHANGED <<cmd, plan, base, queue, left, undone>>
    BY <1>10, <2>2 DEF RecordRevert, Running
  <2> QED
    BY <1>10, <2>1, <2>2 DEF RecordRevert
<1>11. CASE CreateSnapshot \/ Recover \/ SetAuthLevel \/ UserEdit \/ Strip \/ UNCHANGED vars
  BY <1>11 DEF CreateSnapshot, Recover, SetAuthLevel, UserEdit, Strip, vars, Running
<1> QED
  BY <1>2, <1>3, <1>4, <1>5, <1>6, <1>7, <1>8, <1>9, <1>10, <1>11 DEF Next, Apply, Revert

------------------------------------------------------------------------------
(* Snapshots and operations *)

\* What steps do to the two lists: nothing, one more snapshot, or the
\* operations of the plan that is committed.
LEMMA ListsNext ==
    ASSUME TypeOK, Running, [Next]_vars
    PROVE  \/ UNCHANGED <<snaps, ops>>
           \/ /\ UNCHANGED ops
              /\ \E t \in Task, scope \in Scope, fs \in Files : Store(t, scope, fs)
           \/ pc = "commit" /\ Decide /\ UNCHANGED snaps
<1> USE DEF store, memory, command, counters
<1>1. CASE TaskStart \/ TurnStart \/ SourceSnapshot
  <2>1. cmd.task \in Task /\ base \in Files
    BY <1>1 DEF TaskStart, TurnStart, SourceSnapshot, Checkpoint, Running, TypeOK
  <2>2. {"task-start", "turn-start", "source"} \subseteq Scope
    BY DEF Scope
  <2>3. \/ UNCHANGED <<snaps, ops>>
        \/ \E scope \in {"task-start", "turn-start", "source"} :
              Store(cmd.task, scope, base) /\ UNCHANGED ops
    BY <1>1 DEF TaskStart, TurnStart, SourceSnapshot, Checkpoint
  <2> QED
    BY <2>1, <2>2, <2>3
<1>2. CASE SaveCurrent \/ RecordRevert
  <2>1. cmd.task \in Task /\ UNCHANGED ops
    BY <1>2 DEF SaveCurrent, RecordRevert, Running
  <2>2. \E scope \in Scope, fs \in Files : Store(cmd.task, scope, fs)
    BY <1>2, CurrentIsFiles, FilesAre DEF SaveCurrent, RecordRevert, TypeOK, Scope
  <2> QED
    BY <2>1, <2>2
<1>3. CASE CreateSnapshot
  <2>1. \E t \in Task, fs \in SUBSET Path : OnDisk(fs) /\ Store(t, "manual", Current(fs))
    BY <1>3 DEF CreateSnapshot
  <2> QED
    BY <1>3, <2>1, CurrentIsFiles DEF CreateSnapshot, TypeOK, Scope
<1>4. CASE Commit \/ CommitUnfinished
  BY <1>4 DEF Commit, CommitUnfinished
<1>5. CASE \/ BeginApply \/ CheckpointFails \/ CheckConflicts \/ BeginUndo \/ SkipReverted
           \/ AcceptUndo \/ RefuseUndo \/ EndRevertTask \/ BeginHunk \/ BeginRestore
           \/ RefuseSave \/ WriteFile \/ RefuseRecord \/ Recover \/ Fail \/ Restart
           \/ SetAuthLevel \/ UserEdit \/ Strip \/ UNCHANGED vars
  BY <1>5 DEF BeginApply, CheckpointFails, CheckConflicts, BeginUndo, SkipReverted,
              AcceptUndo, RefuseUndo, EndRevertTask, BeginHunk, BeginRestore, RefuseSave,
              WriteFile, RefuseRecord, Recover, Fail, Restart, SetAuthLevel, UserEdit, Strip, vars
<1> QED
  BY <1>1, <1>2, <1>3, <1>4, <1>5 DEF Next, Apply, Revert

LEMMA StampedNext ==
    ASSUME TypeOK, Stamped, Running, Sourced, [Next]_vars
    PROVE  Stamped'
<1>0. Len(snaps) \in Nat /\ Len(ops) \in Nat /\ DOMAIN snaps = 1..Len(snaps)
  BY LenProperties DEF TypeOK
<1>1. \A s \in DOMAIN snaps : snaps[s].at \in Nat
  <2>1. \A s \in DOMAIN snaps : snaps[s] \in Snapshot
    BY DEF TypeOK
  <2> QED
    BY <2>1 DEF Snapshot
<1>2. \A o \in DOMAIN ops : ops[o].at \in Nat
  <2>1. \A o \in DOMAIN ops : ops[o] \in Operation
    BY DEF TypeOK
  <2> QED
    BY <2>1 DEF Operation
<1>3. CASE UNCHANGED <<snaps, ops>>
  BY <1>3 DEF Stamped, SourceHoldsBefore, Before, Clock
<1>4. ASSUME NEW t \in Task, NEW scope \in Scope, NEW fs \in Files, Store(t, scope, fs),
             UNCHANGED ops
      PROVE  Stamped'
  <2>1. /\ Len(snaps') = Len(snaps) + 1
        /\ DOMAIN snaps' = DOMAIN snaps \cup {Len(snaps')}
        /\ \A s \in DOMAIN snaps : snaps'[s] = snaps[s]
        /\ snaps'[Len(snaps')].at = Clock + 1
    BY <1>4, StoreAppends DEF TypeOK
  <2>2. Clock' = Clock + 1 /\ Clock \in Nat
    BY <1>0, <1>4, <2>1 DEF Clock
  <2>3. SourceHoldsBefore'
    BY <1>4, <2>1 DEF Stamped, SourceHoldsBefore, Before
  <2>4. \A s \in DOMAIN snaps' : snaps'[s].at <= Clock'
    BY <1>1, <2>1, <2>2 DEF Stamped
  <2>5. \A o \in DOMAIN ops : ops[o].at <= Clock'
    BY <1>2, <2>2 DEF Stamped
  <2> QED
    BY <1>4, <2>3, <2>4, <2>5 DEF Stamped
<1>5. CASE pc = "commit" /\ Decide /\ UNCHANGED snaps
  <2>1. /\ DOMAIN ops \subseteq DOMAIN ops'
        /\ \A o \in DOMAIN ops : ops'[o] = ops[o]
        /\ \A o \in Decided : /\ ops'[o].path \in DOMAIN plan
                              /\ ops'[o].before = base[ops'[o].path]
                              /\ ops'[o].source = Len(snaps)
                              /\ ops'[o].at > Clock
                              /\ ops'[o].at <= Len(snaps) + Len(ops')
        /\ Len(ops') \in Nat /\ Len(ops) <= Len(ops')
    <3>1. cmd.task \in Task /\ DOMAIN plan = DOMAIN base /\ plan \in Files /\ base \in Files
      BY <1>5 DEF Running, TypeOK
    <3>2. ops' \in Seq(Operation) /\ Len(ops) <= Len(ops')
      BY <1>5, <3>1, DecideAppends DEF TypeOK
    <3> QED
      BY <1>5, <3>1, <3>2, DecideAppends, LenProperties DEF TypeOK
  <2>2. snaps # << >> /\ snaps[Len(snaps)].files = base /\ DOMAIN plan = DOMAIN base
    BY <1>5 DEF Sourced, Running
  <2>3. Len(snaps) \in DOMAIN snaps
    BY <1>0, <2>2, EmptySeq DEF TypeOK
  <2>4. \A o \in DOMAIN ops' : o \in DOMAIN ops \/ o \in Decided
    BY DEF Decided
  <2>5. SourceHoldsBefore'
    <3> SUFFICES ASSUME NEW o \in DOMAIN ops'
                 PROVE  /\ ops'[o].source \in DOMAIN snaps
                        /\ ops'[o].path \in DOMAIN snaps[ops'[o].source].files
                        /\ snaps[ops'[o].source].files[ops'[o].path] = ops'[o].before
                        /\ snaps[ops'[o].source].at < ops'[o].at
      BY <1>5 DEF SourceHoldsBefore, Before
    <3>1. CASE o \in DOMAIN ops
      BY <2>1, <3>1 DEF Stamped, SourceHoldsBefore, Before
    <3>2. CASE o \in Decided
      <4>1. snaps[Len(snaps)].at <= Clock /\ ops'[o].at > Clock
        BY <2>1, <2>3, <3>2 DEF Stamped
      <4>2. snaps[Len(snaps)].at \in Nat /\ Clock \in Nat /\ ops'[o].at \in Int
        <5>1. ops'[o] \in Operation
          <6>1. ops' \in Seq(Operation)
            BY TypeNext DEF TypeOK
          <6> QED
            BY <6>1
        <5> QED
          BY <1>0, <1>1, <2>3, <5>1 DEF Clock, Operation
      <4>3. snaps[Len(snaps)].at < ops'[o].at
        BY <4>1, <4>2
      <4> QED
        BY <2>1, <2>2, <2>3, <3>2, <4>3
    <3> QED
      BY <2>4, <3>1, <3>2
  <2>6. Clock <= Clock' /\ Clock \in Nat /\ Clock' = Len(snaps) + Len(ops') /\ Clock' \in Nat
    BY <1>0, <1>5, <2>1 DEF Clock
  <2>7. \A s \in DOMAIN snaps : snaps[s].at <= Clock'
    BY <1>1, <2>6 DEF Stamped
  <2>8. \A o \in DOMAIN ops' : ops'[o].at <= Clock'
    <3> SUFFICES ASSUME NEW o \in DOMAIN ops' PROVE ops'[o].at <= Clock'
      OBVIOUS
    <3>1. CASE o \in DOMAIN ops
      <4>1. ops[o].at <= Clock /\ ops[o].at \in Nat
        BY <1>2, <3>1 DEF Stamped
      <4> QED
        BY <2>1, <2>6, <3>1, <4>1
    <3>2. CASE o \in Decided
      BY <2>1, <2>6, <3>2
    <3> QED
      BY <2>4, <3>1, <3>2
  <2> QED
    BY <1>5, <2>5, <2>7, <2>8 DEF Stamped
<1> QED
  BY <1>3, <1>4, <1>5, ListsNext

------------------------------------------------------------------------------
(* The contents of files *)

\* Nobody but a user edit, a commit, a redo and WriteFile changes a file.
LEMMA FileKept ==
    ASSUME [Next]_vars, ~ Commit, ~ CommitUnfinished, ~ Recover, ~ WriteFile, ~ UserEdit
    PROVE  UNCHANGED file
BY DEF Next, Apply, Revert, BeginApply, TaskStart, TurnStart, SourceSnapshot, Checkpoint,
       CheckpointFails, CheckConflicts, BeginUndo, SkipReverted, AcceptUndo, RefuseUndo,
       EndRevertTask, BeginHunk, BeginRestore, SaveCurrent, RefuseSave, RecordRevert,
       RefuseRecord, CreateSnapshot, Fail, Restart, SetAuthLevel, Strip, vars

LEMMA FileChanges ==
    ASSUME TypeOK, [Next]_vars, ~ Commit, ~ CommitUnfinished, ~ Recover, ~ WriteFile
    PROVE  \A f \in Path : f \in touched' \/ file'[f] = file[f]
BY FileKept DEF UserEdit, TypeOK

\* What is saved stays saved: snapshots are only added.
LEMMA SavedKept ==
    ASSUME TypeOK, Running, [Next]_vars, NEW f \in Path, Saved(f), file'[f] = file[f]
    PROVE  Saved(f)'
<1>1. PICK s \in DOMAIN snaps : f \in DOMAIN snaps[s].files /\ snaps[s].files[f] = file[f]
  BY DEF Saved
<1>2. s \in DOMAIN snaps' /\ snaps'[s] = snaps[s]
  <2>1. ASSUME NEW t \in Task, NEW scope \in Scope, NEW fs \in Files, Store(t, scope, fs)
        PROVE  s \in DOMAIN snaps' /\ snaps'[s] = snaps[s]
    <3>1. /\ DOMAIN snaps' = DOMAIN snaps \cup {Len(snaps')}
          /\ \A r \in DOMAIN snaps : snaps'[r] = snaps[r]
      BY <2>1, StoreAppends DEF TypeOK
    <3> QED
      BY <1>1, <3>1
  <2> QED
    BY <1>1, <2>1, ListsNext
<1> QED
  BY <1>1, <1>2 DEF Saved

LEMMA SourcedNext ==
    ASSUME HistoryInv, [Next]_vars
    PROVE  Sourced'
<1> USE DEF store, memory, command, counters
<1>0. TypeOK /\ Running /\ Sourced
  BY DEF HistoryInv
<1>1. CASE pc' \notin {"check", "commit"}
  BY <1>1 DEF Sourced
<1>2. CASE SourceSnapshot
  <2>1. cmd.task \in Task /\ "source" \in Scope /\ base \in Files
    BY <1>0, <1>2 DEF Running, SourceSnapshot, TypeOK, Scope
  <2>2. snaps' # << >> /\ snaps'[Len(snaps')].files = base
    BY <1>0, <1>2, <2>1, StoreAppends DEF TypeOK, SourceSnapshot
  <2> QED
    BY <1>2, <2>2 DEF Sourced, SourceSnapshot
<1>3. CASE CheckConflicts /\ pc' = "commit"
  <2>1. Unchanged /\ pc = "check" /\ UNCHANGED <<file, store, command, touched>>
    BY <1>3 DEF CheckConflicts, Return
  <2> QED
    BY <1>0, <1>3, <2>1 DEF Sourced, Unchanged, Holds
<1>4. CASE UserEdit \/ Strip \/ UNCHANGED vars
  <2>1. UNCHANGED <<pc, base, snaps>>
    BY <1>4 DEF UserEdit, Strip, vars
  <2>2. ASSUME pc = "commit", NEW f \in DOMAIN base PROVE Holds(f, base[f])'
    <3>1. f \in Path /\ Holds(f, base[f])
      BY <1>0, <2>2, FilesAre DEF Sourced, TypeOK
    <3>2. f \in touched' \/ file'[f] = file[f]
      BY <1>0, <1>4, <3>1 DEF UserEdit, Strip, vars, TypeOK
    <3>3. touched \subseteq touched'
      BY <1>4 DEF UserEdit, Strip, vars
    <3>4. Holds(f, base[f]) => Holds(f, base[f])'
      BY <2>1, <3>2, <3>3 DEF Holds
    <3> QED
      BY <3>1, <3>4
  <2> QED
    BY <1>0, <2>1, <2>2 DEF Sourced
<1>5. pc' \in {"check", "commit"} =>
          SourceSnapshot \/ (CheckConflicts /\ pc' = "commit") \/ UserEdit \/ Strip \/ UNCHANGED vars
  BY <1>0 DEF Next, Apply, Revert, BeginApply, TaskStart, TurnStart, SourceSnapshot, Checkpoint, Begin,
       CheckpointFails, CheckConflicts, BeginUndo, SkipReverted, AcceptUndo, RefuseUndo,
       EndRevertTask, BeginHunk, BeginRestore, SaveCurrent, RefuseSave, RecordRevert,
       RefuseRecord, CreateSnapshot, Fail, Restart, SetAuthLevel,
       Commit, CommitUnfinished, Decide, Recover, WriteFile, Return
<1> QED
  BY <1>1, <1>2, <1>3, <1>4, <1>5

LEMMA RedoableNext ==
    ASSUME HistoryInv, [Next]_vars
    PROVE  Redoable'
<1> USE DEF store, memory, command, counters
<1>0. TypeOK /\ Running /\ Sourced /\ Redoable /\ ops \in Seq(Operation)
  BY DEF HistoryInv, TypeOK
<1>1. CASE CommitUnfinished
  <2>1. PICK fs \in SUBSET DOMAIN plan :
            file' = [f \in Path |-> IF f \in fs THEN plan[f] ELSE file[f]]
    BY <1>1 DEF CommitUnfinished
  <2>2. pc = "commit" /\ Decide /\ pending' = Decided /\ UNCHANGED <<snaps, touched>>
    BY <1>1 DEF CommitUnfinished
  <2>3. cmd.task \in Task /\ DOMAIN plan = DOMAIN base /\ plan \in Files /\ base \in Files
    BY <1>0, <2>2 DEF Running, TypeOK
  <2>4. /\ \A o \in Decided : /\ ops'[o].path \in DOMAIN plan
                              /\ ops'[o].before = base[ops'[o].path]
                              /\ ops'[o].after = plan[ops'[o].path]
        /\ \A o, q \in Decided : ops'[o].path = ops'[q].path => o = q
    BY <1>0, <2>2, <2>3, DecideAppends DEF TypeOK
  <2>5. \A f \in DOMAIN plan : f \in touched \/ file'[f] = base[f] \/ file'[f] = plan[f]
    <3> SUFFICES ASSUME NEW f \in DOMAIN plan, f \notin touched
                 PROVE  file'[f] = base[f] \/ file'[f] = plan[f]
      OBVIOUS
    <3>1. f \in Path /\ file[f] = base[f]
      BY <1>0, <2>2, <2>3, FilesAre DEF Sourced, Holds
    <3> QED
      BY <2>1, <3>1
  <2> QED
    BY <2>2, <2>4, <2>5 DEF Redoable, Holds
<1>2. CASE pending' = {}
  BY <1>2 DEF Redoable
<1>3. CASE pc # "idle" /\ ~ CommitUnfinished
  <2>1. pending = {}
    BY <1>0, <1>3 DEF Running
  <2>2. pending' = pending \/ pending' = {}
    BY <1>3 DEF Next, Apply, Revert, BeginApply, TaskStart, TurnStart, SourceSnapshot, Checkpoint,
       CheckpointFails, CheckConflicts, BeginUndo, SkipReverted, AcceptUndo, RefuseUndo,
       EndRevertTask, BeginHunk, BeginRestore, SaveCurrent, RefuseSave, RecordRevert,
       RefuseRecord, CreateSnapshot, Fail, Restart, SetAuthLevel, Strip, vars,
       Commit, Recover, WriteFile, UserEdit
  <2> QED
    BY <1>2, <2>1, <2>2
<1>4. CASE pc = "idle" /\ pending # {} /\ ~ Recover
  <2>1. /\ UNCHANGED <<pending, ops>> /\ touched \subseteq touched'
        /\ \A f \in Path : f \in touched' \/ file'[f] = file[f]
    <3>1. UNCHANGED <<pending, ops>> /\ touched \subseteq touched'
      BY <1>4 DEF Next, Apply, Revert, BeginApply, TaskStart, TurnStart, SourceSnapshot,
         Checkpoint, CheckpointFails, CheckConflicts, BeginUndo, SkipReverted, AcceptUndo,
         RefuseUndo, EndRevertTask, BeginHunk, BeginRestore, SaveCurrent, RefuseSave,
         RecordRevert, RefuseRecord, CreateSnapshot, Fail, Restart, SetAuthLevel, Strip, vars,
         Commit, CommitUnfinished, WriteFile, UserEdit, Begin
    <3>2. ~ Commit /\ ~ CommitUnfinished /\ ~ WriteFile
      BY <1>4 DEF Commit, CommitUnfinished, WriteFile
    <3> QED
      BY <1>0, <1>4, <3>1, <3>2, FileChanges
  <2>2. \A o \in pending : ops[o].path \in Path
    <3>1. \A o \in pending : ops[o] \in Operation
      BY <1>0 DEF TypeOK
    <3> QED
      BY <3>1 DEF Operation
  <2>3. \A o \in pending : \/ Holds(ops[o].path, ops[o].before)'
                           \/ Holds(ops[o].path, ops[o].after)'
    BY <1>0, <2>1, <2>2 DEF Redoable, Holds
  <2> QED
    BY <1>0, <2>1, <2>3 DEF Redoable
<1>5. CASE pc = "idle" /\ pending = {}
  <2>1. pending' = pending
    BY <1>5 DEF Next, Apply, Revert, BeginApply, TaskStart, TurnStart, SourceSnapshot, Checkpoint,
       CheckpointFails, CheckConflicts, BeginUndo, SkipReverted, AcceptUndo, RefuseUndo,
       EndRevertTask, BeginHunk, BeginRestore, SaveCurrent, RefuseSave, RecordRevert,
       RefuseRecord, CreateSnapshot, Fail, Restart, SetAuthLevel, Strip, vars,
       Commit, CommitUnfinished, Recover, WriteFile, UserEdit, Begin
  <2> QED
    BY <1>2, <1>5, <2>1
<1>6. CASE Recover
  BY <1>2, <1>6 DEF Recover
<1> QED
  BY <1>1, <1>3, <1>4, <1>5, <1>6

LEMMA RewritingNext ==
    ASSUME HistoryInv, [Next]_vars
    PROVE  Rewriting' /\ RevertIsComplete'
<1> USE DEF store, memory, command, counters
<1>0. TypeOK /\ Running /\ Rewriting /\ RevertIsComplete
  BY DEF HistoryInv
<1>f. target \in Files /\ left \subseteq DOMAIN target /\ DOMAIN target \subseteq Path
  BY <1>0, FilesAre DEF TypeOK
<1>1. CASE SaveCurrent
  <2>1. pc' = "write" /\ left' = DOMAIN target /\ target' = target /\ UNCHANGED file
    BY <1>1 DEF SaveCurrent
  <2>2. cmd.task \in Task /\ "pre-revert" \in Scope /\ OnDisk(DOMAIN target)
        /\ Store(cmd.task, "pre-revert", Current(DOMAIN target))
    BY <1>0, <1>1 DEF Running, SaveCurrent, Scope
  <2>3. /\ Current(DOMAIN target) \in Files /\ DOMAIN Current(DOMAIN target) = DOMAIN target
        /\ \A f \in DOMAIN target : Current(DOMAIN target)[f] = file[f]
    BY <1>0, <1>f, <2>2, CurrentIsFiles DEF TypeOK
  <2>4. /\ Len(snaps') \in DOMAIN snaps'
        /\ snaps'[Len(snaps')].files = Current(DOMAIN target)
    BY <1>0, <2>2, <2>3, StoreAppends DEF TypeOK
  <2>5. \A f \in DOMAIN target : Saved(f)'
    BY <2>1, <2>3, <2>4 DEF Saved
  <2> QED
    BY <2>1, <2>5 DEF Rewriting, RevertIsComplete
<1>2. CASE WriteFile
  <2>1. PICK f \in left : /\ file' = [file EXCEPT ![f] = target[f]]
                          /\ left' = left \ {f}
                          /\ pc' = IF left = {f} THEN "record" ELSE "write"
    BY <1>2 DEF WriteFile
  <2>2. pc = "write" /\ UNCHANGED <<target, touched>>
    BY <1>2 DEF WriteFile
  <2>3. f \in Path /\ file'[f] = target[f] /\ \A g \in Path : g # f => file'[g] = file[g]
    BY <1>0, <1>f, <2>1 DEF TypeOK
  <2>4. \A g \in left' : g \in touched' \/ Saved(g)'
    <3> SUFFICES ASSUME NEW g \in left', g \notin touched' PROVE Saved(g)'
      OBVIOUS
    <3>1. g \in left /\ g \in Path /\ file'[g] = file[g]
      BY <1>f, <2>1, <2>3
    <3>2. Saved(g)
      BY <1>0, <2>2, <3>1 DEF Rewriting
    <3> QED
      BY <1>0, <3>1, <3>2, SavedKept
  <2>5. \A g \in DOMAIN target \ left' : Holds(g, target[g])'
    <3> SUFFICES ASSUME NEW g \in DOMAIN target \ left' PROVE g \in touched' \/ file'[g] = target[g]
      BY <2>2 DEF Holds
    <3>1. CASE g = f
      BY <2>3, <3>1
    <3>2. CASE g # f
      <4>1. g \in DOMAIN target \ left /\ g \in Path
        BY <1>f, <2>1, <3>2
      <4>2. g \in touched \/ file[g] = target[g]
        BY <1>0, <2>2, <4>1 DEF Rewriting, Holds
      <4> QED
        BY <2>2, <2>3, <3>2, <4>1, <4>2
    <3> QED
      BY <3>1, <3>2
  <2>6. RevertIsComplete'
    BY <2>1, <2>2, <2>5 DEF RevertIsComplete, Holds
  <2> QED
    BY <2>2, <2>4, <2>5, <2>6 DEF Rewriting
<1>3. CASE pc' \notin {"write", "record"}
  BY <1>3 DEF Rewriting, RevertIsComplete
<1>4. CASE UserEdit \/ Strip \/ UNCHANGED vars
  <2>1. UNCHANGED <<pc, target, left>> /\ touched \subseteq touched'
        /\ \A f \in Path : f \in touched' \/ file'[f] = file[f]
    BY <1>0, <1>4 DEF UserEdit, Strip, vars, TypeOK
  <2>2. \A f \in Path : Saved(f) => f \in touched' \/ Saved(f)'
    BY <1>0, <2>1, SavedKept
  <2>3. \A f \in Path : \A c : Holds(f, c) => Holds(f, c)'
    BY <2>1 DEF Holds
  <2>4. Rewriting'
    <3> SUFFICES ASSUME pc = "write"
                 PROVE  /\ \A f \in left : f \in touched' \/ Saved(f)'
                        /\ \A f \in DOMAIN target \ left : Holds(f, target[f])'
      BY <2>1 DEF Rewriting
    <3>1. \A f \in left : f \in touched' \/ Saved(f)'
      BY <1>0, <1>f, <2>1, <2>2 DEF Rewriting
    <3>2. \A f \in DOMAIN target \ left : f \in touched' \/ file'[f] = target[f]
      BY <1>0, <1>f, <2>1 DEF Rewriting, Holds
    <3> QED
      BY <2>1, <3>1, <3>2 DEF Holds
  <2>5. RevertIsComplete'
    BY <1>0, <1>f, <2>1 DEF RevertIsComplete
  <2> QED
    BY <2>4, <2>5
<1>5. pc' \in {"write", "record"} =>
          SaveCurrent \/ WriteFile \/ UserEdit \/ Strip \/ UNCHANGED vars
  BY DEF Next, Apply, Revert, BeginApply, TaskStart, TurnStart, SourceSnapshot, Checkpoint, Begin,
       CheckpointFails, CheckConflicts, BeginUndo, SkipReverted, AcceptUndo, RefuseUndo,
       EndRevertTask, BeginHunk, BeginRestore, RefuseSave, RecordRevert,
       RefuseRecord, CreateSnapshot, Fail, Restart, SetAuthLevel,
       Commit, CommitUnfinished, Decide, Recover, Return
<1> QED
  BY <1>1, <1>2, <1>3, <1>4, <1>5

LEMMA HistoryInit == Init => HistoryInv
<1> SUFFICES ASSUME Init PROVE HistoryInv
  OBVIOUS
<1>1. DOMAIN snaps = {} /\ DOMAIN ops = {}
  BY DEF Init
<1>2. Stamped
  BY <1>1 DEF Stamped, SourceHoldsBefore
<1> QED
  BY <1>2, TypeInit DEF Init, HistoryInv, Running, Sourced, Redoable, Rewriting, RevertIsComplete

LEMMA HistoryNext == HistoryInv /\ [Next]_vars => HistoryInv'
BY TypeNext, StampedNext, RunningNext, SourcedNext, RedoableNext, RewritingNext DEF HistoryInv

------------------------------------------------------------------------------
(* Theorems *)

\* Every variable keeps its type, and operations refer to earlier snapshots.
THEOREM TypeCorrect == Spec => []TypeOK
<1>1. HistoryInv => TypeOK
  BY DEF HistoryInv
<1> QED
  BY <1>1, HistoryInit, HistoryNext, PTL DEF Spec

\* The snapshot an operation names as its source (AiEditOperation's
\* source_snapshot_id, set by apply_operation_plans) holds its file as it was
\* before the edit, and is older than it.
THEOREM SourcesHold == Spec => []SourceHoldsBefore
<1>1. HistoryInv => SourceHoldsBefore
  BY DEF HistoryInv, Stamped
<1> QED
  BY <1>1, HistoryInit, HistoryNext, PTL DEF Spec

\* When a revert writes its closing snapshot, every file has the content it
\* reports, unless somebody wrote it meanwhile (write_contents of revert.rs).
THEOREM RevertCompletes == Spec => []RevertIsComplete
<1>1. HistoryInv => RevertIsComplete
  BY DEF HistoryInv
<1> QED
  BY <1>1, HistoryInit, HistoryNext, PTL DEF Spec

LEMMA ReplacedStep ==
    ASSUME HistoryInv, [Next]_vars, NEW f \in Path, file'[f] # file[f], edits' = edits
    PROVE  f \in touched \/ Saved(f)
<1> USE DEF store, memory, command, counters
<1>0. TypeOK /\ Stamped /\ Running /\ Sourced /\ Redoable /\ Rewriting
  BY DEF HistoryInv
<1>1. CASE Commit \/ CommitUnfinished
  <2>1. pc = "commit" /\ f \in DOMAIN plan
    BY <1>1 DEF Commit, CommitUnfinished
  <2>2. f \in DOMAIN base /\ Holds(f, base[f])
    BY <1>0, <2>1 DEF Running, Sourced
  <2>3. snaps # << >> /\ snaps[Len(snaps)].files = base
    BY <1>0, <2>1 DEF Sourced
  <2>4. Len(snaps) \in DOMAIN snaps
    BY <1>0, <2>3, EmptySeq, LenProperties DEF TypeOK
  <2> QED
    BY <2>2, <2>3, <2>4 DEF Holds, Saved
<1>2. CASE Recover
  <2>1. \E o \in pending : ops[o].path = f
    BY <1>2 DEF Recover
  <2>2. PICK o \in pending : /\ ops[o].path = f
                             /\ o = CHOOSE q \in pending : ops[q].path = f
    BY <2>1
  <2>3. file'[f] = ops[o].after
    BY <1>2, <2>1, <2>2 DEF Recover
  <2>4. f \in touched \/ file[f] = ops[o].before
    BY <1>0, <2>2, <2>3 DEF Redoable, Holds
  <2>5. o \in DOMAIN ops
    BY <1>0 DEF TypeOK
  <2>6. /\ ops[o].source \in DOMAIN snaps
        /\ f \in DOMAIN snaps[ops[o].source].files
        /\ snaps[ops[o].source].files[f] = ops[o].before
    BY <1>0, <2>2, <2>5 DEF Stamped, SourceHoldsBefore, Before
  <2> QED
    BY <2>4, <2>6 DEF Saved
<1>3. CASE WriteFile
  <2>1. pc = "write" /\ f \in left
    BY <1>0, <1>3 DEF WriteFile, TypeOK
  <2> QED
    BY <1>0, <2>1 DEF Rewriting
<1>4. CASE UserEdit
  <2>1. edits \in Int /\ edits' = edits + 1
    BY <1>0, <1>4 DEF UserEdit, TypeOK
  <2> QED
    BY <2>1
<1> QED
  BY <1>1, <1>2, <1>3, <1>4, FileKept

\* Whatever a commit, a redo, a revert or a restore replaces in a file is in
\* some snapshot before, unless somebody wrote the file after the command read
\* it: the pre-revert and source snapshots make every rollback reversible.
THEOREM NothingIsLost == Spec => ReplacedIsSaved
<1>1. HistoryInv /\ [Next]_vars =>
        [\A f \in Path : file'[f] # file[f] /\ edits' = edits =>
            \/ f \in touched
            \/ \E s \in DOMAIN snaps : f \in DOMAIN snaps[s].files /\ snaps[s].files[f] = file[f]]_vars
  BY ReplacedStep DEF Saved
<1> QED
  BY <1>1, HistoryInit, HistoryNext, PTL DEF Spec, ReplacedIsSaved

------------------------------------------------------------------------------
(* revert_task *)

\* With a list that is not cut, revert_task gets every operation of the task.
LEMMA NothingCut ==
    ASSUME TypeOK, Stamped, Uncut, NEW t \in Task
    PROVE  TaskOperations(t) = AllOperations(t)
<1>0. Len(snaps) \in Nat /\ Len(ops) \in Nat /\ Clock \in Nat /\ Limit \in Nat
  BY LenProperties, HistoryAssumption DEF TypeOK, Clock
<1>1. \A s \in mem_snaps : snaps[s].at \in Nat /\ snaps[s].at <= Clock
  <2>1. \A s \in mem_snaps : snaps[s] \in Snapshot /\ s \in DOMAIN snaps
    BY DEF TypeOK
  <2> QED
    BY <2>1 DEF Snapshot, Stamped
<1>2. \A o \in journal \cup mem_ops : ops[o].at \in Nat /\ ops[o].at <= Clock
  <2>1. \A o \in journal \cup mem_ops : ops[o] \in Operation /\ o \in DOMAIN ops
    BY DEF TypeOK
  <2> QED
    BY <2>1 DEF Operation, Stamped
<1>3. Entries(t) \in SUBSET Nat /\ \A at \in Entries(t) : at <= Clock
  BY <1>1, <1>2 DEF Entries
<1>4. IsFiniteSet(Entries(t)) /\ Cardinality(Entries(t)) \in Nat
  BY <1>0, <1>3, FS_BoundedSetOfNaturals, FS_CardinalityType
<1>5. ASSUME NEW o \in AllOperations(t)
      PROVE  Cardinality({at \in Entries(t) : at > ops[o].at}) < Limit
  <2> DEFINE later == {at \in Entries(t) : at > ops[o].at}
  <2>1. ops[o].at \in Entries(t) /\ ops[o].at \in Nat
    BY <1>2 DEF AllOperations, Entries
  <2>2. later \in SUBSET Entries(t) /\ later # Entries(t)
    BY <2>1
  <2> HIDE DEF later
  <2>3. IsFiniteSet(later) /\ Cardinality(later) <= Cardinality(Entries(t))
        /\ Cardinality(later) # Cardinality(Entries(t))
    BY <1>4, <2>2, FS_Subset
  <2>4. Cardinality(later) \in Nat /\ Cardinality(Entries(t)) <= Limit
    BY <2>3, FS_CardinalityType DEF Uncut
  <2>5. Cardinality(later) < Limit
    BY <1>0, <1>4, <2>3, <2>4
  <2> QED
    BY <2>5 DEF later
<1> QED
  BY <1>5 DEF TaskOperations, AllOperations

LEMMA UnwindingNext ==
    ASSUME HistoryInv, Unwinding, Uncut, [Next]_vars
    PROVE  Unwinding'
<1> USE DEF store, memory, command, counters
<1>0. /\ TypeOK /\ Stamped /\ Running /\ RevertIsComplete
      /\ ops \in Seq(Operation) /\ queue \in SUBSET (DOMAIN ops)
  BY DEF HistoryInv, TypeOK
<1>d. DOMAIN ops \subseteq Int
  BY <1>0, LenProperties
<1>p. \A t : \A o \in AllOperations(t) : /\ o \in DOMAIN ops /\ o \in Int
                                         /\ ops[o].path \in Path
  BY <1>0, <1>d, BeforeIsContent DEF AllOperations, TypeOK, Stamped
<1>i. Unwinding' \/ (cmd'.kind = "task" /\ pc' \in {"undo", "save", "write", "record"})
  BY DEF Unwinding
<1>1. CASE BeginUndo
  <2>1. CASE cmd'.kind = "task"
    <3>1. PICK t \in Task : Begin("task", t, NoTurn) /\ queue' = TaskOperations(t)
      BY <1>1, <2>1 DEF BeginUndo, Begin
    <3>2. queue' = AllOperations(cmd'.task)
      BY <1>0, <3>1, NothingCut DEF Begin
    <3>3. AllOperations(cmd'.task) = AllOperations(cmd.task)'
      BY <1>1 DEF BeginUndo, AllOperations
    <3>4. Reverted(cmd.task)' = {}
      BY <3>2, <3>3 DEF Reverted
    <3> QED
      BY <3>2, <3>3, <3>4 DEF Unwinding
  <2> QED
    BY <1>i, <2>1
<1>2. CASE (SkipReverted \/ AcceptUndo) /\ cmd.kind = "task"
  <2> DEFINE n == Newest(queue)
             T == cmd.task
  <2>1. /\ pc = "undo" /\ queue # {} /\ queue' = queue \ {n}
        /\ UNCHANGED <<file, journal, mem_ops, ops, cmd, touched>>
    BY <1>2 DEF SkipReverted, AcceptUndo
  <2>2. n \in queue /\ \A q \in queue : q <= n
    BY <1>0, <2>1, NewestIsLast
  <2>3. /\ queue \subseteq AllOperations(T)
        /\ \A o \in queue, q \in Reverted(T) : o < q
        /\ \A o \in Reverted(T) :
              (\A q \in Reverted(T) : ops[q].path = ops[o].path => o <= q) =>
                 Holds(ops[o].path, ops[o].before)
    BY <1>2, <2>1 DEF Unwinding
  <2>4. Before(n) = ops[n].before
    BY <1>0, <2>2, BeforeIsContent DEF Stamped
  <2> HIDE DEF n
  <2>5. AllOperations(T)' = AllOperations(T) /\ Reverted(T)' = Reverted(T) \cup {n}
    BY <2>1, <2>2, <2>3 DEF AllOperations, Reverted
  <2>6. n \in Int /\ queue \subseteq Int /\ Reverted(T) \subseteq Int
    BY <1>p, <2>2, <2>3 DEF Reverted
  <2>7. \A o \in queue', q \in Reverted(T)' : o < q
    BY <2>1, <2>2, <2>3, <2>5, <2>6
  <2>8. ASSUME NEW o \in Reverted(T), \A q \in Reverted(T)' : ops[q].path = ops[o].path => o <= q
        PROVE  Holds(ops[o].path, ops[o].before) /\ ops[o].path # ops[n].path
    <3>1. n < o
      BY <2>2, <2>3
    <3>2. ops[o].path # ops[n].path
      BY <2>5, <2>6, <2>8, <3>1
    <3> QED
      BY <2>3, <2>5, <2>8, <3>2
  <2>9. CASE SkipReverted
    <3>1. pc' = "undo" /\ file[ops[n].path] = ops[n].before
      BY <2>4, <2>9 DEF SkipReverted, AlreadyReverted, n
    <3>2. \A o \in Reverted(T)' :
              (\A q \in Reverted(T)' : ops[q].path = ops[o].path => o <= q) =>
                 Holds(ops[o].path, ops[o].before)'
      BY <2>1, <2>5, <2>8, <3>1 DEF Holds
    <3> QED
      BY <2>1, <2>3, <2>5, <2>7, <3>1, <3>2 DEF Unwinding
  <2>10. CASE AcceptUndo
    <3>1. pc' = "save" /\ target' = [f \in {ops[n].path} |-> ops[n].before]
      BY <2>4, <2>10 DEF AcceptUndo, n
    <3>2. DOMAIN target' = {ops[n].path} /\ target'[ops[n].path] = ops[n].before
      BY <3>1
    <3>3. \A o \in Reverted(T)' :
              (\A q \in Reverted(T)' : ops[q].path = ops[o].path => o <= q) =>
                 IF ops[o].path \notin DOMAIN target'
                 THEN Holds(ops[o].path, ops[o].before)'
                 ELSE target'[ops[o].path] = ops[o].before
      BY <2>1, <2>5, <2>8, <3>2 DEF Holds
    <3> QED
      BY <2>1, <2>3, <2>5, <2>7, <3>1, <3>3 DEF Unwinding
  <2> QED
    BY <1>2, <2>9, <2>10
<1>3. ASSUME UNCHANGED <<journal, mem_ops, ops, cmd, queue>>,
             pc \in {"undo", "save", "write", "record"}, cmd.kind = "task",
             \A o \in Reverted(cmd.task) :
                IF pc = "undo" \/ ops[o].path \notin DOMAIN target
                THEN Holds(ops[o].path, ops[o].before) =>
                     IF pc' = "undo" \/ ops[o].path \notin DOMAIN target'
                     THEN Holds(ops[o].path, ops[o].before)'
                     ELSE target'[ops[o].path] = ops[o].before
                ELSE target[ops[o].path] = ops[o].before =>
                     IF pc' = "undo" \/ ops[o].path \notin DOMAIN target'
                     THEN Holds(ops[o].path, ops[o].before)'
                     ELSE target'[ops[o].path] = ops[o].before
      PROVE  Unwinding'
  <2>1. Reverted(cmd.task)' = Reverted(cmd.task) /\ AllOperations(cmd.task)' = AllOperations(cmd.task)
    BY <1>3 DEF Reverted, AllOperations
  <2> QED
    BY <1>3, <2>1 DEF Unwinding
<1>4. CASE SaveCurrent /\ cmd.kind = "task"
  <2>1. /\ UNCHANGED <<journal, mem_ops, ops, cmd, queue, target, file>>
        /\ pc = "save" /\ pc' = "write" /\ touched' = touched \ DOMAIN target
    BY <1>4 DEF SaveCurrent
  <2> QED
    BY <1>3, <1>4, <2>1 DEF Holds
<1>5. CASE WriteFile /\ cmd.kind = "task"
  <2>1. /\ UNCHANGED <<journal, mem_ops, ops, cmd, queue, target, touched>>
        /\ pc = "write" /\ pc' \in {"write", "record"}
        /\ \A f \in Path : f \notin DOMAIN target => file'[f] = file[f]
    BY <1>0, <1>5 DEF WriteFile, TypeOK
  <2>2. \A o \in Reverted(cmd.task) : ops[o].path \in Path
    BY <1>p DEF Reverted
  <2> QED
    BY <1>3, <1>5, <2>1, <2>2 DEF Holds
<1>6. CASE RecordRevert /\ cmd.kind = "task"
  <2>1. /\ UNCHANGED <<journal, mem_ops, ops, cmd, queue, file, touched>>
        /\ pc = "record" /\ pc' = "undo"
    BY <1>6 DEF RecordRevert
  <2>2. \A f \in DOMAIN target : Holds(f, target[f])
    BY <1>0, <2>1 DEF RevertIsComplete, Holds
  <2> QED
    BY <1>3, <1>6, <2>1, <2>2 DEF Holds
<1>7. CASE (UserEdit \/ Strip \/ UNCHANGED vars) /\ cmd'.kind = "task"
           /\ pc' \in {"undo", "save", "write", "record"}
  <2>1. /\ UNCHANGED <<journal, mem_ops, ops, cmd, queue, target, pc>>
        /\ touched \subseteq touched'
        /\ \A f \in Path : f \in touched' \/ file'[f] = file[f]
    BY <1>0, <1>7 DEF UserEdit, Strip, vars, TypeOK
  <2>2. \A o \in Reverted(cmd.task) : ops[o].path \in Path
    BY <1>p DEF Reverted
  <2>3. \A o \in Reverted(cmd.task) :
            Holds(ops[o].path, ops[o].before) => Holds(ops[o].path, ops[o].before)'
    BY <2>1, <2>2 DEF Holds
  <2> QED
    BY <1>3, <1>7, <2>1, <2>3
<1>8. ASSUME cmd'.kind = "task", pc' \in {"undo", "save", "write", "record"}
      PROVE  \/ BeginUndo \/ SkipReverted \/ AcceptUndo \/ SaveCurrent \/ WriteFile
             \/ RecordRevert \/ UserEdit \/ Strip \/ UNCHANGED vars
  <2>1. ~ Return
    BY <1>8 DEF Return
  <2>2. ~ BeginHunk /\ ~ BeginRestore
    <3>1. ASSUME NEW t, Begin("hunk", t, NoTurn) \/ Begin("restore", t, NoTurn) PROVE FALSE
      BY <1>8, <3>1 DEF Begin
    <3>2. ~ BeginHunk
      BY <3>1 DEF BeginHunk
    <3>3. ~ BeginRestore
      BY <3>1 DEF BeginRestore
    <3> QED
      BY <3>2, <3>3
  <2>3. ~ Commit /\ ~ CommitUnfinished
    BY <2>1 DEF Commit, CommitUnfinished, Decide
  <2>4. ~ BeginApply /\ ~ TaskStart /\ ~ TurnStart /\ ~ SourceSnapshot /\ ~ CheckConflicts
    BY <1>8, <2>1 DEF BeginApply, TaskStart, TurnStart, SourceSnapshot, Checkpoint, CheckConflicts
  <2>5. /\ ~ CreateSnapshot /\ ~ Recover /\ ~ SetAuthLevel
        /\ ~ CheckpointFails /\ ~ RefuseUndo /\ ~ EndRevertTask /\ ~ RefuseSave
        /\ ~ RefuseRecord /\ ~ Fail /\ ~ Restart
    BY <1>8, <2>1 DEF CreateSnapshot, Recover, SetAuthLevel, CheckpointFails, RefuseUndo,
                      EndRevertTask, RefuseSave, RefuseRecord, Fail, Restart
  <2> QED
    BY <2>2, <2>3, <2>4, <2>5 DEF Next, Apply, Revert
<1>9. SkipReverted \/ AcceptUndo \/ SaveCurrent \/ WriteFile \/ RecordRevert =>
          cmd'.kind = cmd.kind \/ pc' = "idle"
  BY DEF SkipReverted, AcceptUndo, SaveCurrent, WriteFile, RecordRevert, Return
<1> QED
  BY <1>1, <1>2, <1>4, <1>5, <1>6, <1>7, <1>8, <1>9, <1>i

LEMMA LookingNext ==
    ASSUME Looking, [Next]_vars
    PROVE  Looking'
<1> USE DEF store, memory, command, counters
<1>1. CASE BeginUndo
  <2>1. CASE \E t \in Task : Begin("task", t, NoTurn)
    BY <2>1 DEF Begin, Looking
  <2>2. CASE queue' # {}
    BY <2>2 DEF Looking
  <2> QED
    BY <1>1, <2>1, <2>2 DEF BeginUndo
<1>2. CASE SkipReverted \/ RecordRevert \/ UserEdit \/ Strip \/ UNCHANGED vars
  BY <1>2 DEF Looking, SkipReverted, RecordRevert, Return, UserEdit, Strip, vars
<1>3. pc' # "undo" \/ BeginUndo \/ SkipReverted \/ RecordRevert \/ UserEdit \/ Strip \/ UNCHANGED vars
  BY DEF Next, Apply, Revert, BeginApply, TaskStart, TurnStart, SourceSnapshot, Checkpoint,
         CheckpointFails, CheckConflicts, AcceptUndo, RefuseUndo, EndRevertTask, BeginHunk,
         BeginRestore, SaveCurrent, RefuseSave, WriteFile, RefuseRecord, CreateSnapshot, Fail,
         Restart, SetAuthLevel, Commit, CommitUnfinished, Decide, Recover, Begin, Return
<1> QED
  BY <1>1, <1>2, <1>3 DEF Looking

LEMMA RestoredStep ==
    ASSUME HistoryInv, Looking, Unwinding, EndRevertTask
    PROVE  Restored(cmd.task)
<1> DEFINE T == cmd.task
<1> SUFFICES ASSUME NEW f \in TaskPaths(T), f \notin touched
             PROVE  file[f] = Original(T, f)
  BY DEF Restored
<1> DEFINE os == {o \in journal \cup mem_ops : ops[o].task = T /\ ops[o].path = f}
           m  == CHOOSE o \in os : \A q \in os : o <= q
<1>1. os # {}
  BY DEF TaskPaths
<1>2. os \in SUBSET Nat
  BY LenProperties DEF HistoryInv, TypeOK
<1>3. m \in os /\ \A q \in os : m <= q
  BY <1>1, <1>2, Smallest
<1>4. Original(T, f) = ops[m].before
  BY DEF Original
<1> HIDE DEF m
<1>5. pc = "undo" /\ queue = {} /\ cmd.kind = "task"
  BY DEF EndRevertTask, Looking
<1>6. Reverted(T) = AllOperations(T)
  BY <1>5 DEF Reverted
<1>7. m \in Reverted(T) /\ \A q \in Reverted(T) : ops[q].path = ops[m].path => m <= q
  BY <1>3, <1>6 DEF AllOperations
<1>8. Holds(ops[m].path, ops[m].before)
  BY <1>5, <1>7 DEF Unwinding
<1> QED
  BY <1>3, <1>4, <1>8 DEF Holds

\* A revert_task that comes to its end leaves every file of the task as it was
\* before the task's first edit, files others wrote meanwhile excepted, as long
\* as no task has more entries than the DEFAULT_LIMIT list_task_operations
\* works with.
THEOREM RevertTaskIsTotal == Spec /\ []Uncut => RevertTaskRestores
<1> DEFINE Inv == HistoryInv /\ Looking /\ Unwinding
<1>1. Init => Inv
  BY HistoryInit DEF Init, Nothing, Looking, Unwinding
<1>2. Inv /\ Uncut /\ [Next]_vars => Inv'
  BY HistoryNext, LookingNext, UnwindingNext
<1>3. Inv => [EndRevertTask /\ undone # {} => Restored(cmd.task)]_vars
  BY RestoredStep
<1> QED
  BY <1>1, <1>2, <1>3, PTL DEF Spec, RevertTaskRestores
==============================================================================
