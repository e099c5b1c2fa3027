------------------------- MODULE SnapshotStoreProofs -------------------------
(***************************************************************************)
(* Proofs about SnapshotStore for every set of processes, tasks and        *)
(* contents, every time to live, quota and bound.                          *)
(***************************************************************************)
EXTENDS SnapshotStore, TLAPS

------------------------------------------------------------------------------
(* Types *)

LEMMA TypeInit == Init => TypeOK
BY RetentionAssumption DEF Init, TypeOK, Label, Snap

\* The policy returns with well-typed local state.
LEMMA PolicyReturnsType ==
    ASSUME TypeOK, NEW p \in Proc, PolicyReturns(p)
    PROVE  /\ pc' \in [Proc -> Label]
           /\ now' \in [Proc -> 0..MaxDay]
           /\ kept' \in [Proc -> SUBSET Op]
           /\ index' \in [Proc -> SUBSET Target]
           /\ pruned' \in [Proc -> BOOLEAN]
<1>1. 0 \in 0..MaxDay
  BY RetentionAssumption
<1> QED
  BY <1>1 DEF TypeOK, PolicyReturns, Label

\* Toggling a pin keeps pins a set of targets.
LEMMA SetPinType ==
    ASSUME TypeOK, NEW p \in Proc, SetPin(p)
    PROVE  pins' \subseteq Target
<1>1. made \in 0..MaxSnap /\ 1..made \subseteq Snap
  BY RetentionAssumption DEF TypeOK, Snap
<1>2. {o.id : o \in ops} \subseteq 1..MaxOp
  BY DEF TypeOK, Op
<1>3. ({"snapshot"} \X (1..made)) \cup ({"task"} \X Task)
        \cup ({"operation"} \X {o.id : o \in ops}) \subseteq Target
  BY <1>1, <1>2 DEF Target
<1> QED
  BY <1>3 DEF SetPin, TypeOK

LEMMA TypeStep == TypeOK /\ [Next]_vars => TypeOK'
<1> SUFFICES ASSUME TypeOK, [Next]_vars PROVE TypeOK'
  OBVIOUS
<1> USE RetentionAssumption
<1>1. ASSUME NEW p \in Proc, StoreSnapshot(p) PROVE TypeOK'
  <2>1. PICK t \in Task, cs \in SUBSET Content :
          /\ made' = made + 1
          /\ born'  = [born EXCEPT ![made + 1] = day]
          /\ owner' = [owner EXCEPT ![made + 1] = t]
          /\ refs'  = [refs EXCEPT ![made + 1] = cs]
          /\ live'  = live \cup {made + 1}
          /\ small' = small \cup (cs \ Large)
          /\ cas'   = cas \cup (cs \cap Large)
          /\ source' = [source EXCEPT ![p] = made + 1]
          /\ shown' = [shown EXCEPT ![p] = @ \cup
                         {[id |-> made + 1, pinned |-> FALSE, content_available |-> TRUE]}]
    BY <1>1 DEF StoreSnapshot
  <2>2. made + 1 \in Snap /\ made' \in 0..MaxSnap /\ made < MaxSnap
    BY <1>1, <2>1 DEF StoreSnapshot, TypeOK, Snap
  <2>3. [id |-> made + 1, pinned |-> FALSE, content_available |-> TRUE] \in Shown
    BY <2>2 DEF Shown
  <2>4. shown' \in [Proc -> SUBSET Shown]
    BY <2>1, <2>3 DEF TypeOK
  <2>5. source' \in [Proc -> 0..made'] /\ live' \cup doomed' \subseteq 1..made'
    BY <1>1, <2>1 DEF TypeOK, StoreSnapshot
  <2>6. pc' \in [Proc -> Label]
    BY <1>1 DEF TypeOK, StoreSnapshot, Label
  <2> QED
    BY <1>1, <2>1, <2>2, <2>4, <2>5, <2>6 DEF TypeOK, StoreSnapshot, policy
<1>2. ASSUME NEW p \in Proc, StoreSnapshotFails(p) PROVE TypeOK'
  BY <1>2 DEF TypeOK, StoreSnapshotFails, disk, policy, memory
<1>3. ASSUME NEW p \in Proc, RecordOperation(p) PROVE TypeOK'
  <2>1. source[p] \in Snap /\ recorded' \in 1..MaxOp
    BY <1>3 DEF RecordOperation, TypeOK, Snap
  <2>2. [id |-> recorded', task |-> owner[source[p]], at |-> day, source |-> source[p]] \in Op
    BY <2>1 DEF TypeOK, Op
  <2>3. ops' \subseteq Op /\ recorded' \in 0..MaxOp
    BY <1>3, <2>1, <2>2 DEF RecordOperation, TypeOK
  <2>4. source' \in [Proc -> 0..made'] /\ pc' \in [Proc -> Label]
    BY <1>3 DEF RecordOperation, TypeOK, Label
  <2> QED
    BY <1>3, <2>3, <2>4 DEF TypeOK, RecordOperation, blobs, policy
<1>4. ASSUME NEW p \in Proc, SetPin(p) PROVE TypeOK'
  <2>1. pins' \subseteq Target
    BY <1>4, SetPinType
  <2>2. ASSUME NEW e \in Shown PROVE Refreshed(e, pins') \in Shown
    BY DEF Shown, Refreshed, SnapshotPinned
  <2>3. {Refreshed(e, pins') : e \in shown[p]} \in SUBSET Shown
    BY <2>2 DEF TypeOK
  <2>4. shown' = [shown EXCEPT ![p] = {Refreshed(e, pins') : e \in shown[p]}]
    BY <1>4 DEF SetPin
  <2>5. shown' \in [Proc -> SUBSET Shown]
    BY <2>3, <2>4 DEF TypeOK
  <2>6. pc' \in [Proc -> Label]
    BY <1>4 DEF SetPin, TypeOK, Label
  <2> QED
    BY <1>4, <2>1, <2>5, <2>6 DEF SetPin, TypeOK, disk, blobs, policy
<1>5. ASSUME NEW p \in Proc, ListOperations(p) PROVE TypeOK'
  BY <1>5 DEF TypeOK, ListOperations, Label, disk, blobs, memory
<1>6. ASSUME NEW p \in Proc, ListPins(p) PROVE TypeOK'
  <2>1. kept' \in [Proc -> SUBSET Op]
    BY <1>6 DEF TypeOK, ListPins, Retained
  <2> QED
    BY <1>6, <2>1 DEF TypeOK, ListPins, Label, disk, blobs, memory
<1>7. ASSUME NEW p \in Proc, PruneOperations(p) PROVE TypeOK'
  BY <1>7 DEF TypeOK, PruneOperations, Label, disk, blobs, memory
<1>8. ASSUME NEW p \in Proc, CollectGarbage(p) PROVE TypeOK'
  <2>1. PICK rest : /\ rest = Survivors(index[p], now[p])
                    /\ live' = rest
                    /\ small' = small \ Freed(rest)
                    /\ cas' = cas \ Freed(rest)
                    /\ doomed' = doomed \cup (live \ rest)
    BY <1>8 DEF CollectGarbage
  <2>2. rest \subseteq live
    BY <2>1 DEF Survivors
  <2>3. shown' \in [Proc -> SUBSET Shown]
    BY <1>8 DEF CollectGarbage, TypeOK
  <2> QED
    BY <1>8, <2>1, <2>2, <2>3, PolicyReturnsType DEF TypeOK, CollectGarbage, disk
<1>9. ASSUME NEW p \in Proc, CollectGarbageFails(p) PROVE TypeOK'
  BY <1>9, PolicyReturnsType DEF TypeOK, CollectGarbageFails, disk, memory
<1>10. ASSUME NEW p \in Proc, PolicyFails(p) PROVE TypeOK'
  BY <1>10, PolicyReturnsType DEF TypeOK, PolicyFails, disk, blobs, memory
<1>11. ASSUME NEW p \in Proc, Restart(p) PROVE TypeOK'
  BY <1>11, PolicyReturnsType DEF TypeOK, Restart, disk, blobs
<1>12. CASE DayPasses
  BY <1>12 DEF TypeOK, DayPasses, blobs, policy, memory
<1>13. CASE UNCHANGED vars
  BY <1>13 DEF TypeOK, vars, disk, blobs, policy, memory
<1> QED
  BY <1>1, <1>2, <1>3, <1>4, <1>5, <1>6, <1>7, <1>8, <1>9, <1>10, <1>11, <1>12, <1>13 DEF Next

\* Every variable of the snapshot store keeps its type: manifests, blobs, the
\* journal, the pins and the local state of apply_retention_policy_with_policy.
THEOREM TypeCorrect == Spec => []TypeOK
BY TypeInit, TypeStep, PTL DEF Spec

------------------------------------------------------------------------------
(* Blobs *)

\* A collection may delete large blobs and then fail, so a manifest it chose
\* may name missing ones.  What is inductive is that every manifest it did not
\* choose is live and has its large blobs.
BlobInv ==
    /\ TypeOK
    /\ SmallBlobsExact
    /\ (1..made) \ doomed \subseteq live
    /\ \A s \in live \ doomed : refs[s] \cap Large \subseteq cas

LEMMA BlobInit == Init => BlobInv
BY TypeInit, RetentionAssumption DEF Init, BlobInv, SmallBlobsExact, Blobs

LEMMA SurvivorsLive ==
    ASSUME NEW pinIndex, NEW today
    PROVE  Survivors(pinIndex, today) \subseteq live
BY DEF Survivors

LEMMA BlobStep == BlobInv /\ [Next]_vars => BlobInv'
<1> SUFFICES ASSUME BlobInv, [Next]_vars PROVE BlobInv'
  OBVIOUS
<1>0. TypeOK /\ TypeOK'
  BY TypeStep DEF BlobInv
<1>1. ASSUME NEW p \in Proc, StoreSnapshot(p) PROVE BlobInv'
  <2>1. PICK cs \in SUBSET Content :
          /\ made' = made + 1
          /\ refs'  = [refs EXCEPT ![made + 1] = cs]
          /\ live'  = live \cup {made + 1}
          /\ small' = small \cup (cs \ Large)
          /\ cas'   = cas \cup (cs \cap Large)
          /\ doomed' = doomed
    BY <1>1 DEF StoreSnapshot
  <2>2. made \in Nat /\ made + 1 \in Snap /\ live \subseteq 1..made
    BY <1>0, <2>1, RetentionAssumption DEF TypeOK, Snap
  <2>3. refs'[made + 1] = cs /\ \A s \in live : refs'[s] = refs[s]
    BY <1>0, <2>1, <2>2 DEF TypeOK
  <2>4. Blobs(live)' = Blobs(live) \cup cs
    BY <2>1, <2>3 DEF Blobs
  <2>5. (1..made') \ doomed' \subseteq live'
    BY <2>1, <2>2 DEF BlobInv
  <2>6. \A s \in live' \ doomed' : refs'[s] \cap Large \subseteq cas'
    BY <2>1, <2>3 DEF BlobInv
  <2>7. SmallBlobsExact'
    BY <2>1, <2>4 DEF BlobInv, SmallBlobsExact
  <2> QED
    BY <1>0, <2>5, <2>6, <2>7 DEF BlobInv
<1>2. ASSUME NEW p \in Proc, StoreSnapshotFails(p) PROVE BlobInv'
  BY <1>0, <1>2 DEF BlobInv, SmallBlobsExact, Blobs, StoreSnapshotFails, disk
<1>3. ASSUME NEW p \in Proc, CollectGarbage(p) PROVE BlobInv'
  <2> DEFINE rest == Survivors(index[p], now[p])
  <2>1. /\ live' = rest
        /\ small' = small \ Freed(rest)
        /\ cas' = cas \ Freed(rest)
        /\ doomed' = doomed \cup (live \ rest)
        /\ made' = made /\ refs' = refs
    BY <1>3 DEF CollectGarbage, disk
  <2>2. rest \subseteq live
    BY SurvivorsLive
  <2> HIDE DEF rest
  <2>3. Blobs(live)' = Blobs(rest)
    BY <2>1 DEF Blobs
  <2>4. Blobs(rest) \subseteq Blobs(live)
    BY <2>2 DEF Blobs
  <2>5. SmallBlobsExact'
    BY <2>1, <2>3, <2>4 DEF BlobInv, SmallBlobsExact, Freed
  <2>6. \A s \in live' \ doomed' : refs'[s] \cap Large \subseteq cas'
    BY <2>1, <2>2 DEF BlobInv, Freed, Blobs
  <2>7. (1..made') \ doomed' \subseteq live'
    BY <2>1 DEF BlobInv
  <2> QED
    BY <1>0, <2>5, <2>6, <2>7 DEF BlobInv
<1>4. ASSUME NEW p \in Proc, CollectGarbageFails(p) PROVE BlobInv'
  <2> DEFINE rest == Survivors(index[p], now[p])
  <2>1. PICK gone \in SUBSET (Freed(rest) \cap Large) :
          /\ cas' = cas \ gone
          /\ doomed' = doomed \cup (live \ rest)
          /\ live' = live /\ small' = small /\ made' = made /\ refs' = refs
    BY <1>4 DEF CollectGarbageFails, disk
  <2> HIDE DEF rest
  <2>2. SmallBlobsExact'
    BY <2>1 DEF BlobInv, SmallBlobsExact, Blobs
  <2>3. \A s \in live' \ doomed' : refs'[s] \cap Large \subseteq cas'
    BY <2>1 DEF BlobInv, Freed, Blobs
  <2>4. (1..made') \ doomed' \subseteq live'
    BY <2>1 DEF BlobInv
  <2> QED
    BY <1>0, <2>2, <2>3, <2>4 DEF BlobInv
<1>5. ASSUME UNCHANGED <<made, refs, blobs, doomed>> PROVE BlobInv'
  BY <1>0, <1>5 DEF BlobInv, SmallBlobsExact, Blobs, blobs
<1>6. ASSUME NEW p \in Proc,
             \/ RecordOperation(p) \/ SetPin(p) \/ ListOperations(p) \/ ListPins(p)
             \/ PruneOperations(p) \/ PolicyFails(p) \/ Restart(p)
      PROVE  BlobInv'
  BY <1>5, <1>6 DEF RecordOperation, SetPin, ListOperations, ListPins, PruneOperations,
                    PolicyFails, Restart, disk
<1>7. CASE DayPasses
  BY <1>5, <1>7 DEF DayPasses
<1>8. CASE UNCHANGED vars
  BY <1>5, <1>8 DEF vars, disk
<1> QED
  BY <1>1, <1>2, <1>3, <1>4, <1>6, <1>7, <1>8 DEF Next

\* Whatever processes share the store and wherever they fail: a snapshot
\* apply_snapshot_retention never chose can be restored, and the database holds
\* exactly the small blobs the manifests name.
THEOREM BlobSafety == Spec => [](ChosenOnlyAreLost /\ SmallBlobsExact)
<1>1. BlobInv => ChosenOnlyAreLost /\ SmallBlobsExact
  <2> SUFFICES ASSUME BlobInv, NEW s \in (1..made) \ doomed PROVE Loadable(s)
    BY DEF BlobInv, ChosenOnlyAreLost
  <2>1. s \in live /\ refs[s] \cap Large \subseteq cas
    BY DEF BlobInv
  <2>2. refs[s] \subseteq Blobs(live)
    BY <2>1 DEF Blobs
  <2> QED
    BY <2>1, <2>2 DEF Loadable, BlobInv, SmallBlobsExact
<1> QED
  BY BlobInit, BlobStep, <1>1, PTL DEF Spec

\* A snapshot apply_snapshot_retention never chose can be restored.
COROLLARY SurvivorsRestorable == Spec => []ChosenOnlyAreLost
  BY BlobSafety, PTL

\* The blob table holds exactly the small blobs that manifests name.
COROLLARY BlobTableExact == Spec => []SmallBlobsExact
  BY BlobSafety, PTL

------------------------------------------------------------------------------
(* Pins and fresh operations, with one process *)

SoleProcess == \A p, q \in Proc : p = q

\* What the only process read of the journal and the pins still stands, and
\* its clock reading is no later than today.
PolicyInv ==
    /\ TypeOK
    /\ \A p \in Proc :
          /\ now[p] <= day
          /\ pc[p] = "pins" => kept[p] = ops
          /\ pc[p] \in {"prune", "gc"} => index[p] = pins
          /\ pc[p] = "prune" => kept[p] = Retained(ops, pins, now[p])

LEMMA PolicyInit == Init => PolicyInv
BY TypeInit DEF Init, PolicyInv

LEMMA PolicyStep == ASSUME SoleProcess PROVE PolicyInv /\ [Next]_vars => PolicyInv'
<1> SUFFICES ASSUME PolicyInv, [Next]_vars PROVE PolicyInv'
  OBVIOUS
<1>0. TypeOK /\ TypeOK' /\ \A p \in Proc : now[p] \in Nat /\ day \in Nat /\ 0 <= day
  BY TypeStep, RetentionAssumption DEF PolicyInv, TypeOK
<1>1. ASSUME NEW p \in Proc, PolicyReturns(p), day' = day PROVE PolicyInv'
  BY <1>0, <1>1 DEF PolicyInv, PolicyReturns, SoleProcess, TypeOK
<1>2. ASSUME NEW p \in Proc, now' = now, day' = day, pc' = [pc EXCEPT ![p] = "operations"]
      PROVE  PolicyInv'
  BY <1>0, <1>2 DEF PolicyInv, SoleProcess, TypeOK
<1>3. ASSUME NEW p \in Proc, StoreSnapshot(p) \/ RecordOperation(p) \/ SetPin(p)
      PROVE  PolicyInv'
  BY <1>2, <1>3 DEF StoreSnapshot, RecordOperation, SetPin, policy, disk
<1>4. ASSUME NEW p \in Proc,
             CollectGarbage(p) \/ CollectGarbageFails(p) \/ PolicyFails(p) \/ Restart(p)
      PROVE  PolicyInv'
  BY <1>1, <1>4 DEF CollectGarbage, CollectGarbageFails, PolicyFails, Restart, disk
<1>5. ASSUME NEW p \in Proc, ListOperations(p) PROVE PolicyInv'
  BY <1>0, <1>5 DEF PolicyInv, ListOperations, SoleProcess, TypeOK, disk
<1>6. ASSUME NEW p \in Proc, ListPins(p) PROVE PolicyInv'
  <2>1. /\ kept'[p] = Retained(ops, pins, now[p]) /\ index'[p] = pins /\ pc'[p] = "prune"
        /\ ops' = ops /\ pins' = pins /\ now' = now /\ day' = day
    BY <1>6 DEF PolicyInv, ListPins, TypeOK, disk
  <2>2. kept'[p] = Retained(ops, pins, now[p])'
    BY <2>1 DEF Retained, OperationPinned
  <2> QED
    BY <1>0, <2>1, <2>2 DEF PolicyInv, SoleProcess
<1>7. ASSUME NEW p \in Proc, PruneOperations(p) PROVE PolicyInv'
  BY <1>0, <1>7 DEF PolicyInv, PruneOperations, SoleProcess, TypeOK, disk
<1>8. ASSUME UNCHANGED <<pc, now, kept, index, ops, pins>>, day' \in Nat, day' >= day
      PROVE  PolicyInv'
  <2>1. \A p \in Proc : Retained(ops, pins, now[p])' = Retained(ops, pins, now[p])
    BY <1>8 DEF Retained, OperationPinned
  <2> QED
    BY <1>0, <1>8, <2>1 DEF PolicyInv
<1>9. ASSUME NEW p \in Proc, StoreSnapshotFails(p) PROVE PolicyInv'
  BY <1>0, <1>8, <1>9 DEF StoreSnapshotFails, disk, policy
<1>10. CASE DayPasses
  <2>1. day \in Nat /\ day' = day + 1
    BY <1>10, RetentionAssumption DEF DayPasses, PolicyInv, TypeOK
  <2> QED
    BY <1>8, <1>10, <2>1 DEF DayPasses, policy
<1>11. CASE UNCHANGED vars
  <2>1. day \in Nat /\ day' = day
    BY <1>11, RetentionAssumption DEF vars, disk, PolicyInv, TypeOK
  <2> QED
    BY <1>8, <1>11, <2>1 DEF vars, policy
<1> QED
  BY <1>3, <1>4, <1>5, <1>6, <1>7, <1>9, <1>10, <1>11 DEF Next

\* No other action of the retention policy takes blobs from a snapshot.
LEMMA OnlyCollectionStrips ==
    ASSUME [Next]_vars, ~(live \subseteq live')
    PROVE  \E p \in Proc : CollectGarbage(p)
BY DEF Next, StoreSnapshot, StoreSnapshotFails, RecordOperation, SetPin, ListOperations,
       ListPins, PruneOperations, CollectGarbageFails, PolicyFails, Restart, DayPasses,
       vars, blobs

\* Only prune_operations takes operations from the journal.
LEMMA OnlyPruneRemoves ==
    ASSUME [Next]_vars, ~(ops \subseteq ops')
    PROVE  \E p \in Proc : PruneOperations(p)
BY DEF Next, StoreSnapshot, StoreSnapshotFails, RecordOperation, SetPin, ListOperations,
       ListPins, CollectGarbage, CollectGarbageFails, PolicyFails, Restart, DayPasses, vars

\* With one process a collection leaves the blobs of every snapshot that is
\* pinned and within the pinned limit.
THEOREM PinsKept == ASSUME SoleProcess PROVE Spec => PinsHonoured
<1>1. ASSUME PolicyInv, [Next]_vars, NEW s \in live \ live',
             {<<"snapshot", s>>, <<"task", owner[s]>>} \cap pins # {}
      PROVE  day - born[s] > PinnedTtl
  <2>1. PICK p \in Proc : CollectGarbage(p)
    BY <1>1, OnlyCollectionStrips
  <2>2. index[p] = pins /\ now[p] <= day /\ live' = Survivors(pins, now[p])
    BY <1>1, <2>1 DEF CollectGarbage, PolicyInv
  <2>3. SnapshotPinned(s, pins)
    BY <1>1 DEF SnapshotPinned
  <2>4. s \in Snap /\ born[s] \in Nat /\ now[p] \in Nat /\ day \in Nat /\ PinnedTtl \in Nat
    BY <1>1, RetentionAssumption DEF PolicyInv, TypeOK, Snap
  <2>5. now[p] - born[s] > PinnedTtl
    <3>1. CASE Expired(s, pins, now[p])
      BY <2>3, <3>1 DEF Expired
    <3>2. CASE ~Expired(s, pins, now[p])
      <4>1. ~Protected(s, pins, now[p])
        BY <1>1, <2>2, <3>2 DEF Survivors, Evicted
      <4> QED
        BY <2>3, <2>4, <4>1 DEF Protected
    <3> QED
      BY <3>1, <3>2
  <2> QED
    BY <2>2, <2>4, <2>5
<1>2. PolicyInv /\ [Next]_vars =>
        [\A s \in live \ live' :
           {<<"snapshot", s>>, <<"task", owner[s]>>} \cap pins # {}
              => day - born[s] > PinnedTtl]_vars
  BY <1>1
<1> QED
  BY PolicyInit, PolicyStep, <1>2, PTL DEF Spec, PinsHonoured

\* With one process prune_operations removes only operations older than
\* OPERATION_METADATA_TTL_DAYS.
THEOREM OperationsKept == ASSUME SoleProcess PROVE Spec => FreshOperationsKept
<1>1. ASSUME PolicyInv, [Next]_vars, NEW o \in ops \ ops'
      PROVE  day - o.at > OpTtl
  <2>1. PICK p \in Proc : PruneOperations(p)
    BY <1>1, OnlyPruneRemoves
  <2>2. kept[p] = Retained(ops, pins, now[p]) /\ now[p] <= day
    BY <1>1, <2>1 DEF PruneOperations, PolicyInv
  <2>3. o \notin kept[p]
    BY <1>1, <2>1 DEF PruneOperations
  <2>4. o.at \in Nat /\ now[p] \in Nat /\ day \in Nat /\ OpTtl \in Nat
    BY <1>1, RetentionAssumption DEF PolicyInv, TypeOK, Op
  <2>5. ~(o.at >= now[p] - OpTtl)
    BY <2>2, <2>3 DEF Retained
  <2> QED
    BY <2>2, <2>4, <2>5
<1>2. PolicyInv /\ [Next]_vars => [\A o \in ops \ ops' : day - o.at > OpTtl]_vars
  BY <1>1
<1> QED
  BY PolicyInit, PolicyStep, <1>2, PTL DEF Spec, FreshOperationsKept
==============================================================================
