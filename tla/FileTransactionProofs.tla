------------------------ MODULE FileTransactionProofs ------------------------
(***************************************************************************)
(* Proofs about FileTransaction for every set of processes, files and      *)
(* contents and every bound.                                               *)
(*                                                                         *)
(* SharedInv holds however many processes share the storage; SoleInv needs *)
(* that no two processes do, and says how far the listing recover_pending  *)
(* works from agrees with the manifests.  WinnerInv adds, for the newest   *)
(* decision on a path, that an older transaction still to be applied does  *)
(* not come after a newer one, and that what is settled is on disk.        *)
(***************************************************************************)
EXTENDS FileTransaction, TLAPS

------------------------------------------------------------------------------
(* The inductive invariants *)

SharedInv ==
    /\ TypeOK
    /\ JournalOnlyPublished
    /\ NoWriteBeforeDecision
    /\ \A t \in Tx :
          /\ status[t] = "committed" => t \in decided
          /\ status[t] = "absent" => t \notin decided
          /\ published[t] \subseteq DOMAIN entries[t]
    /\ \A p \in Proc : \A t \in Tx :
          /\ seen[p][t] = "committed" => t \in decided
          /\ seen[p][t] # "absent" => status[t] # "absent"
    /\ \A p \in Proc : pc[p] \in Busy => status[tx[p]] # "absent"
    /\ \A p \in Proc : pc[p] = "apply" =>
          tx[p] \in decided /\ 1..(idx[p] - 1) \subseteq published[tx[p]]

Pending == {"prepared", "committed"}

\* What the program counter of the only process says about the manifests.
Control(p) ==
    /\ pc[p] \in {"idle", "list", "recover", "discard", "prepare"} => mode[p] = "recover"
    /\ pc[p] = "recover" => seen[p] = status
    /\ pc[p] = "discard" => seen[p] = status /\ status[tx[p]] = "prepared"
    /\ pc[p] = "prepare" => \A t \in Tx : status[t] \notin Pending
    /\ pc[p] = "stage" =>
          /\ mode[p] = "commit"
          /\ status[tx[p]] = "prepared"
          /\ 1..(idx[p] - 1) \subseteq staged[tx[p]]
    /\ pc[p] \in {"apply", "finish"} =>
          /\ status[tx[p]] = "committed"
          /\ mode[p] = "recover" => seen[p] = status
    /\ pc[p] = "finish" => tx[p] \in journal
    /\ pc[p] = "cleanup" =>
          /\ status[tx[p]] = "done"
          /\ mode[p] = "recover" => status = [seen[p] EXCEPT ![tx[p]] = "done"]

SoleInv ==
    /\ SharedInv
    /\ CommittedIsRecoverable
    /\ AllOrNothing
    /\ AtMostOnePending
    /\ \A t \in Tx : status[t] = "prepared" => t \notin decided
    /\ \A p \in Proc : Control(p)

------------------------------------------------------------------------------
(* Types *)

\* The plan BeginCommit builds is a sequence of entries.
LEMMA PlanType ==
    ASSUME NEW steps \in Plans, file \in [Path -> Content]
    PROVE  [i \in DOMAIN steps |-> [path    |-> steps[i].path,
                                    base    |-> file[steps[i].path],
                                    content |-> steps[i].content]] \in Seq(Entry)
<1>1. PICK n \in 1..MaxEntries : steps \in [1..n -> [path : Path, content : Content]]
  BY BoundsAssumption DEF Plans
<1>2. DOMAIN steps = 1..n /\ n \in Nat
  BY <1>1, BoundsAssumption
<1>3. \A i \in 1..n : [path |-> steps[i].path, base |-> file[steps[i].path],
                       content |-> steps[i].content] \in Entry
  BY <1>1 DEF Entry
<1> QED
  BY <1>2, <1>3

LEMMA TypeInit == Init => TypeOK
BY DEF Init, TypeOK, Status, Label, Busy

\* A returning command leaves well-typed local state.
LEMMA ReturnType ==
    ASSUME TypeOK, NEW p \in Proc, Return(p)
    PROVE  /\ pc' \in [Proc -> Label]
           /\ plan' \in [Proc -> Seq(Entry)]
           /\ mode' \in [Proc -> {"recover", "commit"}]
           /\ seen' \in [Proc -> [Tx -> Status]]
           /\ tx' \in [Proc -> Nat]
           /\ \A q \in Proc : pc'[q] \in Busy => tx'[q] \in Tx
           /\ idx' \in [Proc -> Nat \ {0}]
<1>1. << >> \in Seq(Entry)
  OBVIOUS
<1>2. [t \in Tx |-> "absent"] \in [Tx -> Status]
  BY DEF Status
<1> QED
  BY <1>1, <1>2 DEF TypeOK, Return, Label, Busy

LEMMA TypeStep ==
    ASSUME TypeOK, NEW p \in Proc, Step(p)
    PROVE  TypeOK'
<1> USE DEF storage, env, history, Busy
<1>1. CASE ListManifests(p)
  BY <1>1 DEF TypeOK, ListManifests, Label
<1>2. CASE DiscardStaging(p)
  BY <1>2 DEF TypeOK, DiscardStaging, Label, Tx
<1>3. CASE MarkDiscarded(p)
  BY <1>3 DEF TypeOK, MarkDiscarded, Label, Status
<1>4. CASE BeginRedo(p)
  BY <1>4 DEF TypeOK, BeginRedo, Label, Tx
<1>5. CASE EndRecovery(p)
  BY <1>5, ReturnType DEF TypeOK, EndRecovery, Label
<1>6. CASE Prepare(p)
  BY <1>6 DEF TypeOK, Prepare, Label, Status, Tx
<1>7. CASE StageEntry(p)
  BY <1>7 DEF TypeOK, StageEntry
<1>8. CASE MarkCommitted(p)
  BY <1>8 DEF TypeOK, MarkCommitted, Label, Status
<1>9. CASE ApplyEntry(p)
  <2>1. entries[tx[p]][idx[p]] \in Entry
    BY <1>9 DEF TypeOK, ApplyEntry
  <2>2. file' \in [Path -> Content]
    BY <1>9, <2>1 DEF TypeOK, ApplyEntry, Target, Entry
  <2>3. published' \in [Tx -> SUBSET Nat]
    BY <1>9 DEF TypeOK, ApplyEntry
  <2> QED
    BY <1>9, <2>2, <2>3 DEF TypeOK, ApplyEntry
<1>10. CASE ApplyFails(p)
  BY <1>10, ReturnType DEF TypeOK, ApplyFails
<1>11. CASE AppendOperations(p)
  BY <1>11 DEF TypeOK, AppendOperations, Label
<1>12. CASE MarkDone(p)
  BY <1>12 DEF TypeOK, MarkDone, Label, Status
<1>13. CASE RemoveStaging(p)
  <2>1. staged' \in [Tx -> SUBSET Nat]
    BY <1>13 DEF TypeOK, RemoveStaging
  <2>2. CASE mode[p] = "commit" /\ Return(p)
    BY <1>13, <2>1, <2>2, ReturnType DEF TypeOK, RemoveStaging
  <2>3. CASE /\ seen' = [seen EXCEPT ![p][tx[p]] = "done"]
             /\ pc'   = [pc EXCEPT ![p] = "recover"]
             /\ UNCHANGED <<plan, mode, tx, idx>>
    BY <1>13, <2>1, <2>3 DEF TypeOK, RemoveStaging, Label, Status
  <2> QED
    BY <1>13, <2>2, <2>3 DEF RemoveStaging
<1> QED
  BY <1>1, <1>2, <1>3, <1>4, <1>5, <1>6, <1>7, <1>8, <1>9, <1>10, <1>11, <1>12, <1>13
  DEF Step

LEMMA TypeNext == TypeOK /\ [Next]_vars => TypeOK'
<1> SUFFICES ASSUME TypeOK, [Next]_vars PROVE TypeOK'
  OBVIOUS
<1> USE DEF storage, local, env, history, Busy
<1>1. ASSUME NEW p \in Proc, BeginCommit(p) PROVE TypeOK'
  <2>1. pc' \in [Proc -> Label] /\ mode' \in [Proc -> {"recover", "commit"}]
        /\ \A q \in Proc : pc'[q] \in Busy => tx'[q] \in Tx
    BY <1>1 DEF TypeOK, BeginCommit, Label
  <2>2. plan' \in [Proc -> Seq(Entry)]
    BY <1>1, PlanType DEF TypeOK, BeginCommit
  <2>3. UNCHANGED <<file, status, entries, staged, journal, mode, seen, tx, idx,
                  blocked, userEdits, faults, decided, published>>
    BY <1>1 DEF BeginCommit
  <2> QED
    BY <2>1, <2>2, <2>3 DEF TypeOK
<1>2. ASSUME NEW p \in Proc, BeginQuery(p) PROVE TypeOK'
  BY <1>2 DEF TypeOK, BeginQuery, Label
<1>3. ASSUME NEW p \in Proc, Step(p) PROVE TypeOK'
  BY <1>3, TypeStep
<1>4. ASSUME NEW p \in Proc, Fail(p) PROVE TypeOK'
  <2>1. Return(p) /\ faults' = faults + 1
        /\ UNCHANGED <<file, status, entries, staged, journal, blocked, userEdits, decided, published>>
    BY <1>4 DEF Fail
  <2>2. /\ pc' \in [Proc -> Label] /\ plan' \in [Proc -> Seq(Entry)]
        /\ mode' \in [Proc -> {"recover", "commit"}] /\ seen' \in [Proc -> [Tx -> Status]]
        /\ tx' \in [Proc -> Nat] /\ idx' \in [Proc -> Nat \ {0}]
        /\ \A q \in Proc : pc'[q] \in Busy => tx'[q] \in Tx
    BY <2>1, ReturnType
  <2> QED
    BY <2>1, <2>2 DEF TypeOK
<1>5. CASE UserEdit
  BY <1>5 DEF TypeOK, UserEdit
<1>6. ASSUME NEW f \in Path, ToggleBlocked(f) PROVE TypeOK'
  BY <1>6 DEF TypeOK, ToggleBlocked
<1>7. CASE UNCHANGED vars
  BY <1>7 DEF TypeOK, vars
<1> QED
  BY <1>1, <1>2, <1>3, <1>4, <1>5, <1>6, <1>7 DEF Next

\* Every variable keeps its type, for any number of processes.
THEOREM TypeCorrect == Spec => []TypeOK
BY TypeInit, TypeNext, PTL DEF Spec

------------------------------------------------------------------------------
(* Any number of processes *)

LEMMA SharedInit == Init => SharedInv
BY TypeInit DEF Init, SharedInv, JournalOnlyPublished, NoWriteBeforeDecision, Busy

\* A returning command forgets what it saw and handles nothing any more.
LEMMA ReturnShared ==
    ASSUME SharedInv, TypeOK', NEW p \in Proc, Return(p),
           UNCHANGED <<status, entries, journal, decided, published>>
    PROVE  SharedInv'
BY DEF TypeOK, SharedInv, JournalOnlyPublished, NoWriteBeforeDecision, Return, Busy

LEMMA SharedStep ==
    ASSUME SharedInv, NEW p \in Proc, Step(p)
    PROVE  SharedInv'
<1> USE DEF storage, env, history, Busy
<1>0. TypeOK /\ TypeOK'
  BY TypeStep DEF SharedInv
<1>1. CASE ListManifests(p)
  BY <1>0, <1>1 DEF TypeOK, SharedInv, JournalOnlyPublished, NoWriteBeforeDecision, ListManifests
<1>2. CASE DiscardStaging(p)
  BY <1>0, <1>2 DEF TypeOK, SharedInv, JournalOnlyPublished, NoWriteBeforeDecision,
                    DiscardStaging, IsNext, PendingSeen
<1>3. CASE MarkDiscarded(p)
  BY <1>0, <1>3 DEF TypeOK, SharedInv, JournalOnlyPublished, NoWriteBeforeDecision, MarkDiscarded
<1>4. CASE BeginRedo(p)
  BY <1>0, <1>4 DEF TypeOK, SharedInv, JournalOnlyPublished, NoWriteBeforeDecision,
                    BeginRedo, IsNext, PendingSeen
<1>5. CASE EndRecovery(p)
  <2>1. CASE Return(p)
    BY <1>0, <1>5, <2>1, ReturnShared DEF EndRecovery
  <2>2. CASE /\ pc' = [pc EXCEPT ![p] = "prepare"]
             /\ UNCHANGED <<plan, mode, seen, tx, idx>>
    BY <1>0, <1>5, <2>2 DEF TypeOK, SharedInv, JournalOnlyPublished, NoWriteBeforeDecision,
                            EndRecovery
  <2> QED
    BY <1>5, <2>1, <2>2 DEF EndRecovery
<1>6. CASE Prepare(p)
  BY <1>0, <1>6 DEF TypeOK, SharedInv, JournalOnlyPublished, NoWriteBeforeDecision, Prepare
<1>7. CASE StageEntry(p)
  BY <1>0, <1>7 DEF TypeOK, SharedInv, JournalOnlyPublished, NoWriteBeforeDecision, StageEntry
<1>8. CASE MarkCommitted(p)
  BY <1>0, <1>8 DEF TypeOK, SharedInv, JournalOnlyPublished, NoWriteBeforeDecision, MarkCommitted
<1>9. CASE ApplyEntry(p)
  <2>1. /\ tx[p] \in Tx /\ tx[p] \in decided
        /\ idx[p] \in Nat \ {0} /\ idx[p] \in DOMAIN entries[tx[p]]
        /\ 1..(idx[p] - 1) \subseteq published[tx[p]]
    BY <1>0, <1>9 DEF TypeOK, SharedInv, ApplyEntry
  <2>2. /\ published'[tx[p]] = published[tx[p]] \cup {idx[p]}
        /\ \A t \in Tx : t # tx[p] => published'[t] = published[t]
    BY <1>0, <1>9 DEF TypeOK, ApplyEntry
  <2>3. JournalOnlyPublished'
    <3> SUFFICES ASSUME NEW t \in journal
                 PROVE  t \in decided /\ published'[t] = DOMAIN entries[t]
      BY <1>9 DEF JournalOnlyPublished, ApplyEntry
    <3>1. t \in Tx /\ t \in decided /\ published[t] = DOMAIN entries[t]
      BY <1>0 DEF TypeOK, SharedInv, JournalOnlyPublished
    <3>2. CASE t = tx[p]
      BY <2>1, <2>2, <3>1, <3>2
    <3> QED
      BY <2>2, <3>1, <3>2
  <2>4. NoWriteBeforeDecision'
    BY <1>0, <1>9, <2>1, <2>2 DEF TypeOK, SharedInv, NoWriteBeforeDecision, ApplyEntry
  <2>5. \A t \in Tx : published'[t] \subseteq DOMAIN entries'[t]
    BY <1>0, <1>9, <2>1, <2>2 DEF TypeOK, SharedInv, ApplyEntry
  <2>6. \A q \in Proc : pc'[q] = "apply" => 1..(idx'[q] - 1) \subseteq published'[tx'[q]]
    <3> SUFFICES ASSUME NEW q \in Proc, pc[q] = "apply",
                        NEW n \in 1..(idx'[q] - 1)
                 PROVE  n \in published'[tx[q]]
      BY <1>9 DEF ApplyEntry
    <3>1. tx[q] \in Tx
      BY <1>0 DEF TypeOK
    <3>2. CASE q = p
      <4>1. idx'[p] = idx[p] + 1
        BY <1>0, <1>9 DEF TypeOK, ApplyEntry
      <4>2. n \in 1..(idx[p] - 1) \/ n = idx[p]
        BY <2>1, <3>2, <4>1
      <4> QED
        BY <2>1, <2>2, <3>2, <4>2
    <3>3. CASE q # p
      <4>1. n \in published[tx[q]]
        BY <1>0, <1>9, <3>1, <3>3 DEF TypeOK, SharedInv, ApplyEntry
      <4> QED
        BY <2>2, <3>1, <4>1
    <3> QED
      BY <3>2, <3>3
  <2> QED
    BY <1>0, <1>9, <2>3, <2>4, <2>5, <2>6 DEF SharedInv, ApplyEntry
<1>10. CASE ApplyFails(p)
  BY <1>0, <1>10, ReturnShared DEF ApplyFails
<1>11. CASE AppendOperations(p)
  <2>1. tx[p] \in Tx /\ tx[p] \in decided
    BY <1>0, <1>11 DEF TypeOK, SharedInv, AppendOperations
  <2>2. published[tx[p]] = DOMAIN entries[tx[p]]
    <3>1. DOMAIN entries[tx[p]] = 1..Len(entries[tx[p]]) /\ Len(entries[tx[p]]) \in Nat
      BY <1>0, <2>1 DEF TypeOK
    <3>2. 1..(idx[p] - 1) \subseteq published[tx[p]] /\ idx[p] \in Nat
      BY <1>0, <1>11 DEF TypeOK, SharedInv, AppendOperations
    <3>3. published[tx[p]] \subseteq DOMAIN entries[tx[p]]
      BY <2>1 DEF SharedInv
    <3>4. \A n \in 1..Len(entries[tx[p]]) : n \in 1..(idx[p] - 1)
      BY <1>11, <3>1, <3>2 DEF AppendOperations
    <3> QED
      BY <3>1, <3>2, <3>3, <3>4
  <2>3. JournalOnlyPublished'
    BY <1>11, <2>1, <2>2 DEF SharedInv, JournalOnlyPublished, AppendOperations
  <2> QED
    BY <1>0, <1>11, <2>3 DEF TypeOK, SharedInv, NoWriteBeforeDecision, AppendOperations
<1>12. CASE MarkDone(p)
  BY <1>0, <1>12 DEF TypeOK, SharedInv, JournalOnlyPublished, NoWriteBeforeDecision, MarkDone
<1>13. CASE RemoveStaging(p)
  <2>1. CASE Return(p)
    BY <1>0, <1>13, <2>1, ReturnShared DEF RemoveStaging
  <2>2. CASE /\ seen' = [seen EXCEPT ![p][tx[p]] = "done"]
             /\ pc'   = [pc EXCEPT ![p] = "recover"]
             /\ UNCHANGED <<plan, mode, tx, idx>>
    BY <1>0, <1>13, <2>2 DEF TypeOK, SharedInv, JournalOnlyPublished, NoWriteBeforeDecision,
                             RemoveStaging
  <2> QED
    BY <1>13, <2>1, <2>2 DEF RemoveStaging
<1> QED
  BY <1>1, <1>2, <1>3, <1>4, <1>5, <1>6, <1>7, <1>8, <1>9, <1>10, <1>11, <1>12, <1>13
  DEF Step

LEMMA SharedNext == SharedInv /\ [Next]_vars => SharedInv'
<1> SUFFICES ASSUME SharedInv, [Next]_vars PROVE SharedInv'
  OBVIOUS
<1> USE DEF storage, local, env, history, Busy
<1>0. TypeOK /\ TypeOK'
  BY TypeNext DEF SharedInv
<1>1. ASSUME NEW p \in Proc, BeginCommit(p) PROVE SharedInv'
  BY <1>0, <1>1 DEF TypeOK, SharedInv, JournalOnlyPublished, NoWriteBeforeDecision, BeginCommit
<1>2. ASSUME NEW p \in Proc, BeginQuery(p) PROVE SharedInv'
  BY <1>0, <1>2 DEF TypeOK, SharedInv, JournalOnlyPublished, NoWriteBeforeDecision, BeginQuery
<1>3. ASSUME NEW p \in Proc, Step(p) PROVE SharedInv'
  BY <1>3, SharedStep
<1>4. ASSUME NEW p \in Proc, Fail(p) PROVE SharedInv'
  BY <1>0, <1>4, ReturnShared DEF Fail
<1>5. CASE UserEdit
  BY <1>0, <1>5 DEF SharedInv, JournalOnlyPublished, NoWriteBeforeDecision, UserEdit
<1>6. ASSUME NEW f \in Path, ToggleBlocked(f) PROVE SharedInv'
  BY <1>0, <1>6 DEF SharedInv, JournalOnlyPublished, NoWriteBeforeDecision, ToggleBlocked
<1>7. CASE UNCHANGED vars
  BY <1>0, <1>7 DEF SharedInv, JournalOnlyPublished, NoWriteBeforeDecision, vars
<1> QED
  BY <1>1, <1>2, <1>3, <1>4, <1>5, <1>6, <1>7 DEF Next

\* However many processes commit, recover and fail on one storage root, the
\* journal names only edits whose files were all written, and an edit that was
\* never marked committed has touched no file.
THEOREM SharedSafety == Spec => [](JournalOnlyPublished /\ NoWriteBeforeDecision)
<1>1. SharedInv => JournalOnlyPublished /\ NoWriteBeforeDecision
  BY DEF SharedInv
<1> QED
  BY <1>1, SharedInit, SharedNext, PTL DEF Spec

\* The journal half of it: append_operations runs only after apply_manifest has
\* written every target.
COROLLARY JournalIsPublished == Spec => []JournalOnlyPublished
  BY SharedSafety, PTL

\* The other half: no write_atomic on a target before update_status(Committed).
COROLLARY DecisionComesFirst == Spec => []NoWriteBeforeDecision
  BY SharedSafety, PTL

------------------------------------------------------------------------------
(* A single process *)

SoleProcess == \A p, q \in Proc : p = q

\* The part of SoleInv that does not look at the process.
SoleStorage ==
    /\ CommittedIsRecoverable
    /\ AllOrNothing
    /\ AtMostOnePending
    /\ \A t \in Tx : status[t] = "prepared" => t \notin decided

LEMMA SoleInit == Init => SoleInv
BY SharedInit DEF Init, SoleInv, CommittedIsRecoverable, AllOrNothing, AtMostOnePending,
                  Control, Pending

\* It is enough to look at the one process that moves.
LEMMA SoleCollect ==
    ASSUME SoleProcess, NEW p \in Proc, SharedInv', SoleStorage', Control(p)'
    PROVE  SoleInv'
<1>1. \A q \in Proc : Control(q)'
  BY DEF SoleProcess
<1> QED
  BY <1>1 DEF SoleInv, SoleStorage

\* A command that returns leaves the manifests as they are.
LEMMA SoleReturn ==
    ASSUME SoleProcess, SoleInv, SharedInv', NEW p \in Proc, Return(p),
           UNCHANGED <<status, entries, staged, journal, decided, published>>
    PROVE  SoleInv'
<1>1. SoleStorage'
  BY DEF SoleInv, SoleStorage, CommittedIsRecoverable, AllOrNothing, AtMostOnePending
<1>2. pc'[p] = "idle" /\ mode'[p] = "recover"
  BY DEF SoleInv, SharedInv, TypeOK, Return
<1>3. Control(p)'
  BY <1>2 DEF Control
<1> QED
  BY <1>1, <1>3, SoleCollect

LEMMA SoleStep ==
    ASSUME SoleProcess, SoleInv, NEW p \in Proc, Step(p)
    PROVE  SoleInv'
<1> USE DEF storage, env, history, Busy
<1>0. TypeOK /\ SharedInv /\ SharedInv' /\ Control(p) /\ SoleStorage
  BY SharedStep DEF SoleInv, SharedInv, SoleStorage
<1>1. CASE ListManifests(p)
  <2>1. SoleStorage'
    BY <1>0, <1>1 DEF TypeOK, Control, Pending, SoleStorage, CommittedIsRecoverable,
        AllOrNothing, AtMostOnePending, ListManifests
  <2>2. Control(p)'
    BY <1>0, <1>1 DEF TypeOK, Control, Pending, SoleStorage, ListManifests
  <2> QED
    BY <1>0, <2>1, <2>2, SoleCollect
<1>2. CASE DiscardStaging(p)
  <2>1. SoleStorage'
    BY <1>0, <1>2 DEF TypeOK, Control, Pending, SoleStorage, CommittedIsRecoverable,
        AllOrNothing, AtMostOnePending, DiscardStaging, IsNext, PendingSeen
  <2>2. Control(p)'
    BY <1>0, <1>2 DEF TypeOK, Control, Pending, SoleStorage, DiscardStaging, IsNext, PendingSeen
  <2> QED
    BY <1>0, <2>1, <2>2, SoleCollect
<1>3. CASE MarkDiscarded(p)
  <2>1. SoleStorage'
    <3>1. tx[p] \in Tx /\ tx[p] \notin decided /\ published[tx[p]] = {}
      BY <1>0, <1>3 DEF TypeOK, Control, SoleStorage, SharedInv, NoWriteBeforeDecision,
                        MarkDiscarded
    <3> QED
      BY <1>0, <1>3, <3>1 DEF TypeOK, SoleStorage, CommittedIsRecoverable,
          AllOrNothing, AtMostOnePending, MarkDiscarded
  <2>2. Control(p)'
    BY <1>0, <1>3 DEF TypeOK, Control, Pending, SoleStorage, MarkDiscarded
  <2> QED
    BY <1>0, <2>1, <2>2, SoleCollect
<1>4. CASE BeginRedo(p)
  <2>1. SoleStorage'
    BY <1>0, <1>4 DEF TypeOK, Control, Pending, SoleStorage, CommittedIsRecoverable,
        AllOrNothing, AtMostOnePending, BeginRedo, IsNext, PendingSeen
  <2>2. Control(p)'
    BY <1>0, <1>4 DEF TypeOK, Control, Pending, SoleStorage, BeginRedo, IsNext, PendingSeen
  <2> QED
    BY <1>0, <2>1, <2>2, SoleCollect
<1>5. CASE EndRecovery(p)
  <2>1. CASE Return(p)
    BY <1>0, <1>5, <2>1, SoleReturn DEF EndRecovery
  <2>2. CASE /\ pc' = [pc EXCEPT ![p] = "prepare"]
             /\ UNCHANGED <<plan, mode, seen, tx, idx>>
    <3>1. SoleStorage'
      BY <1>0, <1>5 DEF SoleStorage, CommittedIsRecoverable, AllOrNothing,
          AtMostOnePending, EndRecovery
    <3>2. Control(p)'
      BY <1>0, <1>5, <2>2 DEF TypeOK, Control, Pending, EndRecovery, PendingSeen
    <3> QED
      BY <1>0, <3>1, <3>2, SoleCollect
  <2> QED
    BY <1>5, <2>1, <2>2 DEF EndRecovery
<1>6. CASE Prepare(p)
  <2>1. SoleStorage'
    <3>1. PICK t \in Tx : /\ status[t] = "absent"
                          /\ status' = [status EXCEPT ![t] = "prepared"]
                          /\ entries' = [entries EXCEPT ![t] = plan[p]]
      BY <1>6 DEF Prepare
    <3>2. t \notin decided
      BY <1>0, <3>1 DEF SharedInv
    <3>3. \A u \in Tx : status[u] \notin Pending
      BY <1>0, <1>6 DEF Control, Prepare
    <3>4. /\ status'[t] = "prepared"
          /\ \A u \in Tx : u # t => status'[u] = status[u] /\ entries'[u] = entries[u]
      BY <1>0, <3>1 DEF TypeOK
    <3>5. UNCHANGED <<staged, journal, decided, published>>
      BY <1>6 DEF Prepare
    <3>6. CommittedIsRecoverable' /\ AllOrNothing'
      BY <1>0, <3>4, <3>5 DEF SoleStorage, CommittedIsRecoverable, AllOrNothing
    <3>7. AtMostOnePending'
      BY <3>3, <3>4 DEF AtMostOnePending, Pending
    <3>8. \A u \in Tx : status'[u] = "prepared" => u \notin decided'
      BY <1>0, <3>2, <3>4, <3>5 DEF SoleStorage
    <3> QED
      BY <3>6, <3>7, <3>8 DEF SoleStorage
  <2>2. Control(p)'
    BY <1>0, <1>6 DEF TypeOK, Control, Pending, SoleStorage, Prepare
  <2> QED
    BY <1>0, <2>1, <2>2, SoleCollect
<1>7. CASE StageEntry(p)
  <2>1. SoleStorage'
    BY <1>0, <1>7 DEF TypeOK, Control, Pending, SoleStorage, CommittedIsRecoverable,
        AllOrNothing, AtMostOnePending, StageEntry
  <2>2. Control(p)'
    BY <1>0, <1>7 DEF TypeOK, Control, Pending, SoleStorage, StageEntry
  <2> QED
    BY <1>0, <2>1, <2>2, SoleCollect
<1>8. CASE MarkCommitted(p)
  <2>1. SoleStorage'
    <3>1. /\ DOMAIN entries[tx[p]] = 1..Len(entries[tx[p]])
          /\ Len(entries[tx[p]]) \in Nat
          /\ idx[p] \in Nat
          /\ idx[p] > Len(entries[tx[p]])
          /\ 1..(idx[p] - 1) \subseteq staged[tx[p]]
      BY <1>0, <1>8 DEF TypeOK, Control, MarkCommitted
    <3>2. DOMAIN entries[tx[p]] \subseteq staged[tx[p]]
      <4> SUFFICES ASSUME NEW n \in DOMAIN entries[tx[p]] PROVE n \in 1..(idx[p] - 1)
        BY <3>1
      <4> QED
        BY <3>1
    <3>3. tx[p] \in Tx /\ status[tx[p]] = "prepared"
      BY <1>0, <1>8 DEF TypeOK, Control, MarkCommitted
    <3>4. CommittedIsRecoverable'
      BY <1>0, <1>8, <3>2 DEF TypeOK, SoleStorage, CommittedIsRecoverable, MarkCommitted
    <3>5. AllOrNothing'
      BY <1>0, <1>8 DEF TypeOK, SoleStorage, AllOrNothing, MarkCommitted
    <3>6. AtMostOnePending'
      BY <1>0, <1>8, <3>3 DEF TypeOK, SoleStorage, AtMostOnePending, MarkCommitted
    <3>7. \A t \in Tx : status'[t] = "prepared" => t \notin decided'
      BY <1>0, <1>8 DEF TypeOK, SoleStorage, MarkCommitted
    <3> QED
      BY <3>4, <3>5, <3>6, <3>7 DEF SoleStorage
  <2>2. Control(p)'
    BY <1>0, <1>8 DEF TypeOK, Control, Pending, SoleStorage, MarkCommitted
  <2> QED
    BY <1>0, <2>1, <2>2, SoleCollect
<1>9. CASE ApplyEntry(p)
  <2>1. SoleStorage'
    BY <1>0, <1>9 DEF TypeOK, Control, Pending, SoleStorage, CommittedIsRecoverable,
        AllOrNothing, AtMostOnePending, ApplyEntry
  <2>2. Control(p)'
    BY <1>0, <1>9 DEF TypeOK, Control, Pending, SoleStorage, ApplyEntry
  <2> QED
    BY <1>0, <2>1, <2>2, SoleCollect
<1>10. CASE ApplyFails(p)
  BY <1>0, <1>10, SoleReturn DEF ApplyFails
<1>11. CASE AppendOperations(p)
  <2>1. SoleStorage'
    BY <1>0, <1>11 DEF TypeOK, Control, Pending, SoleStorage, CommittedIsRecoverable,
        AllOrNothing, AtMostOnePending, AppendOperations
  <2>2. Control(p)'
    BY <1>0, <1>11 DEF TypeOK, Control, Pending, SoleStorage, AppendOperations
  <2> QED
    BY <1>0, <2>1, <2>2, SoleCollect
<1>12. CASE MarkDone(p)
  <2>1. SoleStorage'
    <3>1. tx[p] \in Tx /\ tx[p] \in journal /\ published[tx[p]] = DOMAIN entries[tx[p]]
      BY <1>0, <1>12 DEF TypeOK, Control, SharedInv, JournalOnlyPublished, MarkDone
    <3> QED
      BY <1>0, <1>12, <3>1 DEF TypeOK, SoleStorage, CommittedIsRecoverable,
          AllOrNothing, AtMostOnePending, MarkDone
  <2>2. Control(p)'
    BY <1>0, <1>12 DEF TypeOK, Control, Pending, SoleStorage, MarkDone
  <2> QED
    BY <1>0, <2>1, <2>2, SoleCollect
<1>13. CASE RemoveStaging(p)
  <2>1. SoleStorage'
    BY <1>0, <1>13 DEF TypeOK, Control, Pending, SoleStorage, CommittedIsRecoverable,
        AllOrNothing, AtMostOnePending, RemoveStaging
  <2>2. Control(p)'
    <3>1. CASE Return(p)
      <4>1. pc'[p] = "idle" /\ mode'[p] = "recover"
        BY <1>0, <3>1 DEF TypeOK, Return
      <4> QED
        BY <4>1 DEF Control
    <3>2. CASE /\ mode[p] = "recover"
               /\ seen' = [seen EXCEPT ![p][tx[p]] = "done"]
               /\ pc'   = [pc EXCEPT ![p] = "recover"]
               /\ UNCHANGED <<plan, mode, tx, idx>>
      <4>1. status' = [seen[p] EXCEPT ![tx[p]] = "done"]
        BY <1>0, <1>13, <3>2 DEF Control, RemoveStaging
      <4>2. seen'[p] = [seen[p] EXCEPT ![tx[p]] = "done"]
        BY <1>0, <3>2 DEF TypeOK
      <4>3. pc'[p] = "recover" /\ mode'[p] = "recover"
        BY <1>0, <3>2 DEF TypeOK
      <4> QED
        BY <4>1, <4>2, <4>3 DEF Control
    <3> QED
      BY <1>13, <3>1, <3>2 DEF RemoveStaging
  <2> QED
    BY <1>0, <2>1, <2>2, SoleCollect
<1> QED
  BY <1>1, <1>2, <1>3, <1>4, <1>5, <1>6, <1>7, <1>8, <1>9, <1>10, <1>11, <1>12, <1>13
  DEF Step

LEMMA SoleNext == ASSUME SoleProcess PROVE SoleInv /\ [Next]_vars => SoleInv'
<1> SUFFICES ASSUME SoleInv, [Next]_vars PROVE SoleInv'
  OBVIOUS
<1> USE DEF storage, local, env, history
<1>0. TypeOK /\ SharedInv /\ SharedInv' /\ SoleStorage
  BY SharedNext DEF SoleInv, SharedInv, SoleStorage
<1>1. ASSUME NEW p \in Proc, BeginCommit(p) \/ BeginQuery(p) PROVE SoleInv'
  <2>1. SoleStorage'
    BY <1>0, <1>1 DEF SoleStorage, CommittedIsRecoverable, AllOrNothing, AtMostOnePending,
                      BeginCommit, BeginQuery
  <2>2. pc[p] = "idle" /\ pc'[p] = "list" /\ mode' = mode
    BY <1>0, <1>1 DEF TypeOK, BeginCommit, BeginQuery
  <2>3. Control(p)'
    BY <2>2 DEF SoleInv, Control
  <2> QED
    BY <1>0, <2>1, <2>3, SoleCollect
<1>2. ASSUME NEW p \in Proc, Step(p) PROVE SoleInv'
  BY <1>2, SoleStep
<1>3. ASSUME NEW p \in Proc, Fail(p) PROVE SoleInv'
  BY <1>0, <1>3, SoleReturn DEF Fail
<1>4. CASE UserEdit \/ (\E f \in Path : ToggleBlocked(f)) \/ UNCHANGED vars
  <2>1. UNCHANGED <<storage, local, history>>
    BY <1>4 DEF UserEdit, ToggleBlocked, vars
  <2>2. SoleStorage'
    BY <1>0, <2>1 DEF SoleStorage, CommittedIsRecoverable, AllOrNothing, AtMostOnePending
  <2>3. \A p \in Proc : Control(p)'
    BY <2>1 DEF SoleInv, Control
  <2> QED
    BY <1>0, <2>2, <2>3 DEF SoleInv, SoleStorage
<1> QED
  BY <1>1, <1>2, <1>3, <1>4 DEF Next

\* With one process, whatever step a failure or a crash interrupts: a committed
\* manifest keeps its staging files, a done one took full effect or none, and
\* no two manifests are pending.
THEOREM SoleSafety ==
    ASSUME SoleProcess
    PROVE  Spec => [](CommittedIsRecoverable /\ AllOrNothing /\ AtMostOnePending)
<1>1. SoleInv => CommittedIsRecoverable /\ AllOrNothing /\ AtMostOnePending
  BY DEF SoleInv
<1>2. SoleInv /\ [Next]_vars => SoleInv'
  BY SoleNext
<1> QED
  BY <1>1, <1>2, SoleInit, PTL DEF Spec

\* A manifest marked committed can be redone from its staging directory.
COROLLARY CommittedKeepsStaging ==
    ASSUME SoleProcess PROVE Spec => []CommittedIsRecoverable
  BY SoleSafety, PTL

\* A done manifest took full effect or, discarded, none.
COROLLARY DoneIsAllOrNothing == ASSUME SoleProcess PROVE Spec => []AllOrNothing
  BY SoleSafety, PTL

\* recover_pending leaves at most one manifest pending before the next prepare.
COROLLARY OnePending == ASSUME SoleProcess PROVE Spec => []AtMostOnePending
  BY SoleSafety, PTL

------------------------------------------------------------------------------
(* A single process: the newest decision wins *)

\* Redo may still have to write entry i of a committed manifest, unless the
\* process is past it.
Through(t, i) ==
    \E p \in Proc : tx[p] = t /\ (pc[p] = "finish" \/ (pc[p] = "apply" /\ i < idx[p]))
Settled(t, i) == status[t] = "committed" => Through(t, i)

\* A manifest is only followed by others once it is done.
OlderAreDone == \A t, u \in Tx : t < u /\ status[u] # "absent" => status[t] = "done"

\* NewestDecisionWins, entry by entry and with a manifest still being redone.
SettledIsOnDisk ==
    userEdits = 0 =>
        \A t \in decided : \A i \in DOMAIN entries[t] :
            Settled(t, i) /\ IsLastEntry(t, i) => file[entries[t][i].path] = entries[t][i].content

WinnerInv == SoleInv /\ OlderAreDone /\ SettledIsOnDisk

LEMMA WinnerInit == Init => WinnerInv
BY SoleInit DEF Init, WinnerInv, OlderAreDone, SettledIsOnDisk

\* A step that writes no file and settles no entry.
LEMMA SettledKept ==
    ASSUME SettledIsOnDisk, UNCHANGED <<file, entries, decided, userEdits>>,
           \A t \in decided : \A i \in DOMAIN entries[t] : Settled(t, i)' => Settled(t, i)
    PROVE  SettledIsOnDisk'
BY DEF SettledIsOnDisk, IsLastEntry

LEMMA WinnerStep ==
    ASSUME SoleProcess, WinnerInv, NEW p \in Proc, Step(p)
    PROVE  OlderAreDone' /\ SettledIsOnDisk'
<1> USE DEF storage, env, history, Busy
<1>0. TypeOK /\ SharedInv /\ Control(p) /\ SoleStorage /\ OlderAreDone /\ SettledIsOnDisk
  BY DEF WinnerInv, SoleInv, SharedInv, SoleStorage
<1>sole. \A q \in Proc : q = p
  BY DEF SoleProcess
<1>1. CASE \/ ListManifests(p) \/ DiscardStaging(p) \/ BeginRedo(p) \/ EndRecovery(p)
           \/ StageEntry(p) \/ ApplyFails(p) \/ RemoveStaging(p)
  <2>1. UNCHANGED <<file, status, entries, decided, userEdits>>
    BY <1>1 DEF ListManifests, DiscardStaging, BeginRedo, EndRecovery, StageEntry,
                ApplyFails, RemoveStaging
  <2>2. pc'[p] # "finish" /\ (pc'[p] = "apply" => idx'[p] = 1)
    BY <1>0, <1>1 DEF TypeOK, ListManifests, DiscardStaging, BeginRedo, EndRecovery, StageEntry,
                ApplyFails, RemoveStaging, Return
  <2>3. \A t \in decided : \A i \in DOMAIN entries[t] : ~ Through(t, i)'
    BY <1>0, <1>sole, <2>2 DEF TypeOK, Through
  <2>4. SettledIsOnDisk'
    BY <1>0, <2>1, <2>3, SettledKept DEF Settled
  <2> QED
    BY <1>0, <2>1, <2>4 DEF OlderAreDone
<1>2. CASE MarkDiscarded(p)
  <2>1. tx[p] \in Tx /\ tx[p] \notin decided /\ status' = [status EXCEPT ![tx[p]] = "done"]
    BY <1>0, <1>2 DEF TypeOK, Control, SoleStorage, MarkDiscarded
  <2>2. \A t \in Tx : t # tx[p] => status'[t] = status[t]
    BY <1>0, <2>1 DEF TypeOK
  <2>3. OlderAreDone'
    BY <1>0, <1>2, <2>1, <2>2 DEF TypeOK, Control, OlderAreDone, MarkDiscarded
  <2>4. \A t \in decided : t \in Tx /\ status[t] # "committed"
    BY <1>0, <1>2, <2>1 DEF TypeOK, Control, SoleStorage, AtMostOnePending, MarkDiscarded
  <2>5. SettledIsOnDisk'
    BY <1>0, <1>2, <2>4, SettledKept DEF Settled, MarkDiscarded
  <2> QED
    BY <2>3, <2>5
<1>3. CASE Prepare(p)
  <2>1. PICK t \in Tx : /\ status[t] = "absent"
                        /\ \A u \in Tx : status[u] = "absent" => t <= u
                        /\ status' = [status EXCEPT ![t] = "prepared"]
                        /\ entries' = [entries EXCEPT ![t] = plan[p]]
    BY <1>3 DEF Prepare
  <2>2. \A u \in Tx : u # t => status'[u] = status[u] /\ entries'[u] = entries[u]
    BY <1>0, <2>1 DEF TypeOK
  <2>3. \A u \in Tx : status[u] \notin Pending
    BY <1>0, <1>3 DEF Control, Prepare
  <2>4. OlderAreDone'
    <3> SUFFICES ASSUME NEW v \in Tx, NEW u \in Tx, v < u, status'[u] # "absent"
                 PROVE  status'[v] = "done"
      BY DEF OlderAreDone
    <3>1. v \in Int /\ u \in Int /\ t \in Int
      BY DEF Tx
    <3>2. status[v] # "absent"
      <4>1. CASE u = t
        BY <2>1, <3>1, <4>1
      <4>2. CASE u # t
        BY <1>0, <2>2, <4>2 DEF OlderAreDone
      <4> QED
        BY <4>1, <4>2
    <3>3. v # t /\ status[v] = "done"
      BY <1>0, <2>1, <2>3, <3>2 DEF TypeOK, Status, Pending
    <3> QED
      BY <2>2, <3>3
  <2>5. SettledIsOnDisk'
    <3>1. t \notin decided /\ decided \subseteq Tx
      BY <1>0, <2>1 DEF SharedInv, TypeOK
    <3>2. \A u \in decided : entries'[u] = entries[u] /\ status[u] # "committed"
      BY <2>2, <2>3, <3>1 DEF Pending
    <3>3. UNCHANGED <<file, decided, userEdits>>
      BY <1>3 DEF Prepare
    <3>4. \A u \in decided : \A i \in DOMAIN entries[u] : IsLastEntry(u, i)' => IsLastEntry(u, i)
      BY <3>2, <3>3 DEF IsLastEntry
    <3> QED
      BY <1>0, <3>2, <3>3, <3>4 DEF SettledIsOnDisk, Settled
  <2> QED
    BY <2>4, <2>5
<1>4. CASE MarkCommitted(p)
  <2>1. /\ tx[p] \in Tx /\ status[tx[p]] = "prepared"
        /\ status' = [status EXCEPT ![tx[p]] = "committed"]
        /\ decided' = decided \cup {tx[p]}
        /\ UNCHANGED <<file, entries, userEdits, tx>>
        /\ pc'[p] = "apply" /\ idx'[p] = 1
    BY <1>0, <1>4 DEF TypeOK, Control, MarkCommitted
  <2>2. /\ status'[tx[p]] = "committed"
        /\ \A t \in Tx : t # tx[p] => status'[t] = status[t]
    BY <1>0, <2>1 DEF TypeOK
  <2>3. OlderAreDone'
    BY <1>0, <2>1, <2>2 DEF OlderAreDone
  <2>4. SettledIsOnDisk'
    <3> SUFFICES ASSUME userEdits = 0, NEW t \in decided', NEW i \in DOMAIN entries[t],
                        Settled(t, i)', IsLastEntry(t, i)'
                 PROVE  file[entries[t][i].path] = entries[t][i].content
      BY <2>1 DEF SettledIsOnDisk
    <3>1. t # tx[p] /\ t \in decided /\ t \in Tx
      <4>1. ASSUME t = tx[p] PROVE FALSE
        <5>1. Through(t, i)'
          BY <2>2, <4>1 DEF Settled
        <5>2. i < 1
          BY <1>sole, <2>1, <5>1 DEF Through
        <5> QED
          BY <1>0, <2>1, <4>1, <5>2 DEF TypeOK
      <4> QED
        BY <1>0, <2>1, <4>1 DEF TypeOK
    <3>2. status[t] # "committed"
      BY <1>0, <2>1, <3>1 DEF SoleStorage, AtMostOnePending
    <3>3. IsLastEntry(t, i)
      BY <2>1 DEF IsLastEntry
    <3> QED
      BY <1>0, <3>1, <3>2, <3>3 DEF SettledIsOnDisk, Settled
  <2> QED
    BY <2>3, <2>4
<1>5. CASE ApplyEntry(p)
  <2>1. /\ tx[p] \in Tx /\ tx[p] \in decided /\ status[tx[p]] = "committed"
        /\ idx[p] \in DOMAIN entries[tx[p]]
        /\ entries[tx[p]][idx[p]].path \in Path
        /\ UNCHANGED <<status, entries, decided, userEdits, pc, tx>>
    <3>1. /\ tx[p] \in Tx /\ tx[p] \in decided /\ status[tx[p]] = "committed"
          /\ UNCHANGED <<status, entries, decided, userEdits, pc, tx>>
      BY <1>0, <1>5 DEF TypeOK, Control, SharedInv, ApplyEntry
    <3>2. idx[p] \in DOMAIN entries[tx[p]] /\ entries[tx[p]][idx[p]] \in Entry
      BY <1>0, <1>5, <3>1 DEF TypeOK, ApplyEntry
    <3> QED
      BY <3>1, <3>2 DEF Entry
  <2>2. idx[p] \in Nat /\ idx'[p] = idx[p] + 1
    BY <1>0, <1>5 DEF TypeOK, ApplyEntry
  <2>3. /\ file' = [file EXCEPT ![entries[tx[p]][idx[p]].path] = entries[tx[p]][idx[p]].content]
        /\ file \in [Path -> Content]
    BY <1>0, <1>5 DEF TypeOK, ApplyEntry, Target
  <2>4. SettledIsOnDisk'
    <3> SUFFICES ASSUME userEdits = 0, NEW t \in decided, NEW i \in DOMAIN entries[t],
                        Settled(t, i)', IsLastEntry(t, i)
                 PROVE  file'[entries[t][i].path] = entries[t][i].content
      BY <2>1 DEF SettledIsOnDisk, IsLastEntry
    <3>1. t \in Tx /\ t \in Int /\ tx[p] \in Int /\ i \in Nat /\ entries[t][i].path \in Path
      <4>1. t \in Tx
        BY <1>0 DEF TypeOK
      <4>2. i \in Nat /\ entries[t][i] \in Entry
        BY <1>0, <4>1 DEF TypeOK
      <4> QED
        BY <2>1, <4>1, <4>2 DEF Tx, Entry
    <3>2. CASE t = tx[p] /\ i = idx[p]
      BY <2>1, <2>3, <3>2
    <3>3. CASE ~ (t = tx[p] /\ i = idx[p])
      <4>1. Settled(t, i)
        <5>1. CASE status[t] = "committed"
          <6>1. Through(t, i)'
            BY <2>1, <5>1 DEF Settled
          <6>2. t = tx[p] /\ (pc[p] = "finish" \/ (pc[p] = "apply" /\ i < idx[p] + 1))
            BY <1>sole, <2>1, <2>2, <6>1 DEF Through
          <6>3. i < idx[p] + 1 => i < idx[p]
            BY <2>2, <3>1, <3>3, <6>2
          <6> QED
            BY <6>2, <6>3 DEF Through, Settled
        <5> QED
          BY <5>1 DEF Settled
      <4>2. entries[t][i].path # entries[tx[p]][idx[p]].path
        <5>1. ASSUME entries[t][i].path = entries[tx[p]][idx[p]].path PROVE FALSE
          <6>1. tx[p] < t \/ (tx[p] = t /\ idx[p] <= i)
            BY <2>1, <5>1 DEF IsLastEntry
          <6>2. CASE tx[p] < t
            <7>1. status[t] # "absent"
              BY <1>0, <3>1 DEF SharedInv
            <7> QED
              BY <1>0, <2>1, <3>1, <6>2, <7>1 DEF OlderAreDone
          <6>3. CASE tx[p] = t /\ idx[p] <= i
            <7>1. Through(t, i)
              BY <2>1, <4>1, <6>3 DEF Settled
            <7>2. pc[p] = "apply"
              BY <1>5 DEF ApplyEntry
            <7>3. i < idx[p]
              BY <1>sole, <7>1, <7>2 DEF Through
            <7> QED
              BY <2>2, <3>1, <6>3, <7>3
          <6> QED
            BY <6>1, <6>2, <6>3
        <5> QED
          BY <5>1
      <4>3. file[entries[t][i].path] = entries[t][i].content
        BY <1>0, <4>1 DEF SettledIsOnDisk
      <4> QED
        BY <2>3, <3>1, <4>2, <4>3
    <3> QED
      BY <3>2, <3>3
  <2> QED
    BY <1>0, <2>1, <2>4 DEF OlderAreDone
<1>6. CASE AppendOperations(p)
  <2>1. UNCHANGED <<file, status, entries, decided, userEdits, tx>>
    BY <1>6 DEF AppendOperations
  <2>2. \A t \in decided : \A i \in DOMAIN entries[t] : Settled(t, i)' => Settled(t, i)
    <3> SUFFICES ASSUME NEW t \in decided, NEW i \in DOMAIN entries[t], Through(t, i)'
                 PROVE  Through(t, i)
      BY <2>1 DEF Settled
    <3>1. tx[p] = t /\ t \in Tx
      BY <1>0, <1>sole, <2>1 DEF TypeOK, Through
    <3>2. /\ DOMAIN entries[t] = 1..Len(entries[t]) /\ Len(entries[t]) \in Nat
          /\ idx[p] \in Nat /\ idx[p] > Len(entries[t]) /\ pc[p] = "apply"
      BY <1>0, <1>6, <3>1 DEF TypeOK, AppendOperations
    <3>3. i < idx[p]
      BY <3>2
    <3> QED
      BY <3>1, <3>2, <3>3 DEF Through
  <2>3. SettledIsOnDisk'
    BY <1>0, <2>1, <2>2, SettledKept
  <2> QED
    BY <1>0, <2>1, <2>3 DEF OlderAreDone
<1>7. CASE MarkDone(p)
  <2>1. /\ tx[p] \in Tx /\ pc[p] = "finish" /\ status' = [status EXCEPT ![tx[p]] = "done"]
        /\ status[tx[p]] = "committed"
        /\ UNCHANGED <<file, entries, decided, userEdits, tx>>
        /\ pc'[p] = "cleanup"
    BY <1>0, <1>7 DEF TypeOK, Control, MarkDone
  <2>2. \A t \in Tx : t # tx[p] => status'[t] = status[t]
    BY <1>0, <2>1 DEF TypeOK
  <2>3. OlderAreDone'
    BY <1>0, <2>1, <2>2 DEF TypeOK, OlderAreDone
  <2>4. \A t \in decided : \A i \in DOMAIN entries[t] : Settled(t, i)
    <3> SUFFICES ASSUME NEW t \in decided, status[t] = "committed" PROVE tx[p] = t
      BY <2>1 DEF Settled, Through
    <3> QED
      BY <1>0, <2>1 DEF TypeOK, SoleStorage, AtMostOnePending
  <2>5. SettledIsOnDisk'
    BY <1>0, <2>1, <2>4, SettledKept
  <2> QED
    BY <2>3, <2>5
<1> QED
  BY <1>1, <1>2, <1>3, <1>4, <1>5, <1>6, <1>7 DEF Step

LEMMA WinnerNext == ASSUME SoleProcess PROVE WinnerInv /\ [Next]_vars => WinnerInv'
<1> SUFFICES ASSUME WinnerInv, [Next]_vars PROVE WinnerInv'
  OBVIOUS
<1> USE DEF storage, local, env, history
<1>0. TypeOK /\ SoleInv /\ SoleInv' /\ OlderAreDone /\ SettledIsOnDisk
  BY SoleNext DEF WinnerInv, SoleInv, SharedInv
<1>1. ASSUME NEW p \in Proc, Step(p) PROVE WinnerInv'
  BY <1>0, <1>1, WinnerStep DEF WinnerInv
<1>2. ASSUME NEW p \in Proc, BeginCommit(p) \/ BeginQuery(p) \/ Fail(p) PROVE WinnerInv'
  <2>1. UNCHANGED <<file, status, entries, decided, userEdits>>
    BY <1>2 DEF BeginCommit, BeginQuery, Fail
  <2>2. pc'[p] \in {"list", "idle"} /\ \A q \in Proc : q = p
    BY <1>0, <1>2 DEF TypeOK, BeginCommit, BeginQuery, Fail, Return, SoleProcess
  <2>3. \A t \in decided : \A i \in DOMAIN entries[t] : ~ Through(t, i)'
    BY <2>2 DEF Through
  <2>4. SettledIsOnDisk'
    BY <1>0, <2>1, <2>3, SettledKept DEF Settled
  <2> QED
    BY <1>0, <2>1, <2>4 DEF WinnerInv, OlderAreDone
<1>3. CASE UserEdit
  <2>1. userEdits' # 0
    BY <1>0, <1>3 DEF TypeOK, UserEdit
  <2> QED
    BY <1>0, <1>3, <2>1 DEF WinnerInv, OlderAreDone, SettledIsOnDisk, UserEdit
<1>4. CASE (\E f \in Path : ToggleBlocked(f)) \/ UNCHANGED vars
  <2>1. UNCHANGED <<file, storage, local, userEdits, history>>
    BY <1>4 DEF ToggleBlocked, vars
  <2>2. SettledIsOnDisk'
    BY <1>0, <2>1, SettledKept DEF Settled, Through
  <2> QED
    BY <1>0, <2>1, <2>2 DEF WinnerInv, OlderAreDone
<1> QED
  BY <1>1, <1>2, <1>3, <1>4 DEF Next

\* With one process and no other writer, whatever is interrupted and redone: a
\* file holds what the newest decided plan wrote to it.  recover_pending redoes
\* a manifest that older plans may share files with, and apply_manifest never
\* looks at a target, so it is the order of the manifests that has to save the
\* newer edit: no manifest is prepared before the older ones are done.
THEOREM NewestWins == ASSUME SoleProcess PROVE Spec => []NewestDecisionWins
<1>1. WinnerInv => NewestDecisionWins
  <2> SUFFICES ASSUME SettledIsOnDisk, decided \subseteq Tx PROVE NewestDecisionWins
    BY DEF WinnerInv, SoleInv, SharedInv, TypeOK
  <2> QED
    BY DEF SettledIsOnDisk, NewestDecisionWins, Settled
<1>2. WinnerInv /\ [Next]_vars => WinnerInv'
  BY WinnerNext
<1> QED
  BY <1>1, <1>2, WinnerInit, PTL DEF Spec

------------------------------------------------------------------------------
(* A single process implements EditIntent *)

PhaseMap == [t \in Tx |-> PhaseOf(t)]

LEMMA IntentInit == Init => Intent!Init
BY DEF Init, Intent!Init, PhaseOf

\* A step that leaves manifests, journal, files and history alone stutters.
LEMMA IntentStutter ==
    ASSUME UNCHANGED <<file, status, entries, journal, published, userEdits>>
    PROVE  UNCHANGED Intent!vars
BY DEF Intent!vars, PhaseOf

\* A step that moves one manifest moves the phase of that transaction only.
LEMMA PhaseMoves ==
    ASSUME NEW t \in Tx,
           \A u \in Tx \ {t} : status'[u] = status[u] /\ (u \in journal' <=> u \in journal)
    PROVE  PhaseMap' = [PhaseMap EXCEPT ![t] = PhaseOf(t)']
<1>1. \A u \in Tx \ {t} : PhaseOf(u)' = PhaseOf(u)
  BY DEF PhaseOf
<1> QED
  BY <1>1 DEF PhaseMap

LEMMA IntentStep ==
    ASSUME SoleInv, NEW p \in Proc, Step(p)
    PROVE  [Intent!Next]_(Intent!vars)
<1> USE DEF storage, env, history, Busy
<1>0. TypeOK /\ SharedInv /\ Control(p) /\ SoleStorage
  BY DEF SoleInv, SharedInv, SoleStorage
<1>1. CASE \/ ListManifests(p) \/ DiscardStaging(p) \/ BeginRedo(p) \/ EndRecovery(p)
           \/ StageEntry(p) \/ ApplyFails(p) \/ RemoveStaging(p)
  <2>1. UNCHANGED <<file, status, entries, journal, published, userEdits>>
    BY <1>1 DEF ListManifests, DiscardStaging, BeginRedo, EndRecovery, StageEntry,
                ApplyFails, RemoveStaging
  <2> QED
    BY <2>1, IntentStutter
<1>2. CASE MarkDiscarded(p)
  <2>1. tx[p] \in Tx /\ status[tx[p]] = "prepared" /\ tx[p] \notin journal
    BY <1>0, <1>2 DEF TypeOK, Control, SoleStorage, SharedInv, JournalOnlyPublished,
                      MarkDiscarded
  <2>2. PhaseMap' = [PhaseMap EXCEPT ![tx[p]] = PhaseOf(tx[p])']
    BY <1>0, <1>2, <2>1, PhaseMoves DEF TypeOK, MarkDiscarded
  <2>3. PhaseOf(tx[p]) = "open" /\ status'[tx[p]] = "done" /\ journal' = journal
    BY <1>0, <1>2, <2>1 DEF TypeOK, PhaseOf, MarkDiscarded
  <2> QED
    BY <1>2, <2>1, <2>2, <2>3 DEF PhaseMap, PhaseOf, Intent!Next, Intent!Discard, MarkDiscarded
<1>3. CASE Prepare(p)
  <2>1. PICK t \in Tx : /\ status[t] = "absent"
                        /\ status' = [status EXCEPT ![t] = "prepared"]
                        /\ entries' = [entries EXCEPT ![t] = plan[p]]
    BY <1>3 DEF Prepare
  <2>2. PhaseMap' = [PhaseMap EXCEPT ![t] = PhaseOf(t)']
    BY <1>0, <1>3, <2>1, PhaseMoves DEF TypeOK, Prepare
  <2>3. PhaseOf(t) = "new" /\ status'[t] = "prepared"
    BY <1>0, <2>1 DEF TypeOK, PhaseOf
  <2>4. entries'[t] = plan[p] /\ plan[p] \in Seq(Entry)
    BY <1>0, <2>1 DEF TypeOK
  <2>5. Intent!Open(t)
    BY <1>3, <2>1, <2>2, <2>3, <2>4 DEF PhaseMap, PhaseOf, Entry, Intent!Open, Prepare
  <2> QED
    BY <2>5 DEF Intent!Next
<1>4. CASE MarkCommitted(p)
  <2>1. tx[p] \in Tx /\ status[tx[p]] = "prepared" /\ tx[p] \notin journal
    BY <1>0, <1>4 DEF TypeOK, Control, SoleStorage, SharedInv, JournalOnlyPublished,
                      MarkCommitted
  <2>2. PhaseMap' = [PhaseMap EXCEPT ![tx[p]] = PhaseOf(tx[p])']
    BY <1>0, <1>4, <2>1, PhaseMoves DEF TypeOK, MarkCommitted
  <2>3. PhaseOf(tx[p]) = "open" /\ status'[tx[p]] = "committed" /\ journal' = journal
    BY <1>0, <1>4, <2>1 DEF TypeOK, PhaseOf, MarkCommitted
  <2>4. Intent!Decide(tx[p])
    BY <1>4, <2>1, <2>2, <2>3 DEF PhaseMap, PhaseOf, Intent!Decide, MarkCommitted
  <2> QED
    BY <2>1, <2>4 DEF Intent!Next
<1>5. CASE ApplyEntry(p)
  <2>1. /\ tx[p] \in Tx /\ status[tx[p]] = "committed"
        /\ idx[p] \in DOMAIN entries[tx[p]]
    BY <1>0, <1>5 DEF TypeOK, Control, ApplyEntry
  <2>2. PhaseMap' = PhaseMap /\ PhaseMap[tx[p]] \in {"decided", "recorded"}
    BY <1>5, <2>1 DEF PhaseMap, PhaseOf, ApplyEntry
  <2>3. Intent!Write(tx[p], idx[p])
    BY <1>5, <2>2 DEF PhaseMap, Target, Intent!Write, ApplyEntry
  <2> QED
    BY <2>1, <2>3 DEF Intent!Next
<1>6. CASE AppendOperations(p)
  <2>1. tx[p] \in Tx /\ status[tx[p]] = "committed" /\ status' = status
    BY <1>0, <1>6 DEF TypeOK, Control, AppendOperations
  <2>2. CASE tx[p] \in journal
    <3>1. UNCHANGED <<file, status, entries, journal, published, userEdits>>
      BY <1>6, <2>2 DEF AppendOperations
    <3> QED
      BY <3>1, IntentStutter
  <2>3. CASE tx[p] \notin journal
    <3>1. JournalOnlyPublished'
      BY <1>6, SharedStep DEF Step, SoleInv, SharedInv
    <3>2. published[tx[p]] = DOMAIN entries[tx[p]]
      BY <1>6, <3>1 DEF JournalOnlyPublished, AppendOperations
    <3>3. PhaseMap' = [PhaseMap EXCEPT ![tx[p]] = PhaseOf(tx[p])']
      BY <1>6, <2>1, PhaseMoves DEF AppendOperations
    <3>4. PhaseOf(tx[p]) = "decided" /\ tx[p] \in journal'
      BY <1>6, <2>1, <2>3 DEF PhaseOf, AppendOperations
    <3>5. Intent!Record(tx[p])
      BY <1>6, <2>1, <3>2, <3>3, <3>4 DEF PhaseMap, PhaseOf, Intent!Record, AppendOperations
    <3> QED
      BY <2>1, <3>5 DEF Intent!Next
  <2> QED
    BY <2>2, <2>3
<1>7. CASE MarkDone(p)
  <2>1. tx[p] \in Tx /\ status[tx[p]] = "committed" /\ tx[p] \in journal
    BY <1>0, <1>7 DEF TypeOK, Control, MarkDone
  <2>2. PhaseMap' = [PhaseMap EXCEPT ![tx[p]] = PhaseOf(tx[p])']
    BY <1>0, <1>7, <2>1, PhaseMoves DEF TypeOK, MarkDone
  <2>3. PhaseOf(tx[p]) = "recorded" /\ status'[tx[p]] = "done" /\ journal' = journal
    BY <1>0, <1>7, <2>1 DEF TypeOK, PhaseOf, MarkDone
  <2>4. Intent!Close(tx[p])
    BY <1>7, <2>1, <2>2, <2>3 DEF PhaseMap, PhaseOf, Intent!Close, MarkDone
  <2> QED
    BY <2>1, <2>4 DEF Intent!Next
<1> QED
  BY <1>1, <1>2, <1>3, <1>4, <1>5, <1>6, <1>7 DEF Step

LEMMA IntentNext == SoleInv /\ [Next]_vars => [Intent!Next]_(Intent!vars)
<1> SUFFICES ASSUME SoleInv, [Next]_vars PROVE [Intent!Next]_(Intent!vars)
  OBVIOUS
<1> USE DEF storage, local, env, history
<1>1. ASSUME NEW p \in Proc, Step(p) PROVE [Intent!Next]_(Intent!vars)
  BY <1>1, IntentStep
<1>2. CASE \/ \E p \in Proc : BeginCommit(p) \/ BeginQuery(p) \/ Fail(p)
           \/ \E f \in Path : ToggleBlocked(f)
           \/ UNCHANGED vars
  <2>1. UNCHANGED <<file, status, entries, journal, published, userEdits>>
    BY <1>2 DEF BeginCommit, BeginQuery, Fail, ToggleBlocked, vars
  <2> QED
    BY <2>1, IntentStutter
<1>3. CASE UserEdit
  <2>1. PhaseMap' = PhaseMap
    BY <1>3 DEF UserEdit, PhaseMap, PhaseOf
  <2>2. Intent!EditByOther
    BY <1>3, <2>1 DEF UserEdit, PhaseMap, Intent!EditByOther
  <2> QED
    BY <2>2 DEF Intent!Next
<1> QED
  BY <1>1, <1>2, <1>3 DEF Next

\* With one process, committing, failing and recovering implement the abstract
\* edit: decided at one instant, recorded only when fully written, discarded
\* only when nothing was written, never written again once closed.
THEOREM Refinement == ASSUME SoleProcess PROVE Spec => ImplementsIntent
<1>1. SoleInv /\ [Next]_vars => SoleInv'
  BY SoleNext
<1> QED
  BY <1>1, SoleInit, IntentInit, IntentNext, PTL DEF Spec, ImplementsIntent
==============================================================================
