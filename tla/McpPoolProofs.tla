---------------------------- MODULE McpPoolProofs ----------------------------
(***************************************************************************)
(* Proofs about McpPool for every set of keys and finite set of callers,   *)
(* every maxWarm and every number of calls.                                *)
(***************************************************************************)
EXTENDS McpPool, FiniteSetTheorems, TLAPS

Places == {"idle", "ensure", "wait", "got", "use", "refused"}
States == {"unused", "creating", "up", "closing", "closed", "failed"}

\* The calls that count themselves active on an entry.
Using(i)  == {c \in HeldBy(i) : At(c, "use") \/ At(c, "refused")}
Made      == {i \in Id : entry[i].state # "unused"}
Ensuring  == {c \in Caller : At(c, "ensure")}

EntryRecord == [key : Key \cup {"none"}, state : States, active : Int, timer : BOOLEAN]
CallRecord  == [at : Places, id : Id \cup {None}, key : Key \cup {"none"}, expired : SUBSET Id]

Shapes ==
    /\ entries \in [Key -> Id \cup {None}]
    /\ entry \in [Id -> EntryRecord]
    /\ call \in [Caller -> CallRecord]
    /\ calls \in 0 .. MaxCalls

\* A call that waits holds an entry that was made; one that goes on holds an
\* entry that is no longer being created.
Held ==
    \A c \in Caller :
        /\ At(c, "wait") => call[c].id \in Made
        /\ call[c].at \in {"got", "use", "refused"} =>
              /\ call[c].id \in Made
              /\ entry[call[c].id].state # "creating"
        /\ At(c, "ensure") => call[c].key \in Key

\* An entry that was made has the key of a server, and the pool leads a key to an
\* entry of that key.
Pooled ==
    /\ \A i \in Made : entry[i].key \in Key
    /\ \A k \in Key : entries[k] # None => entries[k] \in Made /\ entry[entries[k]].key = k

Counted == \A i \in Id : entry[i].active = Cardinality(Using(i))

\* Every entry was made by a call, and a call in ensureEntry has made none yet.
Bounded == Cardinality(Made) + Cardinality(Ensuring) <= calls

PoolInv == Shapes /\ Held /\ Pooled /\ Counted /\ Bounded /\ IdleHasTimer

------------------------------------------------------------------------------
LEMMA Finite ==
    /\ IsFiniteSet(Id) /\ Cardinality(Id) = MaxCalls
    /\ IsFiniteSet(Made) /\ IsFiniteSet(Ensuring)
    /\ \A i : IsFiniteSet(Using(i)) /\ Cardinality(Using(i)) \in Nat
<1>1. IsFiniteSet(Id) /\ Cardinality(Id) = MaxCalls
  BY FS_Interval, PoolAssumption DEF Id
<1>2. Made \in SUBSET Id /\ Ensuring \in SUBSET Caller
  BY DEF Made, Ensuring
<1>3. ASSUME NEW i PROVE IsFiniteSet(Using(i)) /\ Cardinality(Using(i)) \in Nat
  <2>1. Using(i) \in SUBSET Caller
    BY DEF Using, HeldBy
  <2> QED
    BY <2>1, FS_Subset, FS_CardinalityType, PoolAssumption
<1> QED
  BY <1>1, <1>2, <1>3, FS_Subset, PoolAssumption

LEMMA Start == Init => PoolInv
<1> SUFFICES ASSUME Init PROVE PoolInv
  OBVIOUS
<1> USE PoolAssumption DEF Init
<1>1. Shapes
  BY DEF Shapes, EntryRecord, CallRecord, Blank, NoCall, None, States, Places
<1>2. Held /\ Pooled /\ IdleHasTimer
  BY DEF Held, Pooled, IdleHasTimer, Blank, NoCall, At, Made
<1>3. \A i \in Id : Using(i) = {}
  BY DEF Using, HeldBy, At, NoCall
<1>4. Made = {} /\ Ensuring = {}
  BY DEF Made, Ensuring, Blank, NoCall, At
<1>5. Counted
  BY <1>3, FS_EmptySet DEF Counted, Blank
<1>6. Bounded
  BY <1>4, FS_EmptySet DEF Bounded
<1> QED
  BY <1>1, <1>2, <1>5, <1>6 DEF PoolInv

------------------------------------------------------------------------------
(* Steps that leave the calls alone. *)

\* What a step of the pool itself may do: keys are freed, entries move on.
MovesOn(es, en) ==
    /\ entries' \in [Key -> Id \cup {None}]
    /\ \A k \in Key : entries'[k] \in {es[k], None}
    /\ entry' \in [Id -> EntryRecord]
    /\ \A i \in Id :
          /\ entry'[i].key = en[i].key /\ entry'[i].active = en[i].active
          /\ entry'[i].state = "unused" <=> en[i].state = "unused"
          /\ entry'[i].state = "creating" => en[i].state = "creating"
          /\ entry'[i].state = "up" => en[i].state = "up"
                                        /\ entry'[i].timer = en[i].timer

LEMMA EvictingMovesOn ==
    ASSUME NEW es \in [Key -> Id \cup {None}], NEW en \in [Id -> EntryRecord],
           NEW cs, NEW o, NEW others, EvictFrom(es, en, cs, o, others)
    PROVE  MovesOn(es, en)
<1>1. CASE entries' = es /\ entry' = en
  BY <1>1 DEF MovesOn
<1>2. ASSUME NEW h, entries' = Dropped(es, en, h) /\ entry' = Closing(en, h)
      PROVE  MovesOn(es, en)
  <2>1. entries' \in [Key -> Id \cup {None}] /\ \A k \in Key : entries'[k] \in {es[k], None}
    BY <1>2 DEF Dropped
  <2>2. CASE h \notin Id
    <3>1. entry' = en
      BY <1>2, <2>2 DEF Closing
    <3> QED
      BY <2>1, <3>1 DEF MovesOn
  <2>3. CASE h \in Id
    <3>1. entry' = [en EXCEPT ![h] = [en[h] EXCEPT !.timer = FALSE,
                       !.state = IF en[h].state = "up" THEN "closing" ELSE en[h].state]]
      BY <1>2, <2>3 DEF Closing
    <3>2. \A i \in Id : i # h => entry'[i] = en[i]
      BY <2>3, <3>1
    <3>3. /\ entry'[h] \in EntryRecord
          /\ entry'[h].key = en[h].key /\ entry'[h].active = en[h].active
          /\ entry'[h].state = IF en[h].state = "up" THEN "closing" ELSE en[h].state
      <4>1. en[h] \in EntryRecord
        BY <2>3
      <4> QED
        BY <2>3, <3>1, <4>1 DEF EntryRecord, States
    <3>4. entry' \in [Id -> EntryRecord]
      BY <2>3, <3>1, <3>3
    <3> QED
      BY <2>1, <3>2, <3>3, <3>4 DEF MovesOn
  <2> QED
    BY <2>2, <2>3
<1>3. (entries' = es /\ entry' = en)
         \/ \E h \in cs : entries' = Dropped(es, en, h) /\ entry' = Closing(en, h)
  BY DEF EvictFrom
<1> QED
  BY <1>1, <1>2, <1>3

LEMMA PoolStep ==
    ASSUME PoolInv, NEW en \in [Id -> EntryRecord], MovesOn(entries, en),
           UNCHANGED <<call, calls>>,
           \A i \in Id : /\ en[i].key = entry[i].key /\ en[i].active = entry[i].active
                         /\ en[i].state = "unused" <=> entry[i].state = "unused"
                         /\ en[i].state = "creating" => entry[i].state = "creating"
                         /\ en[i].state = "up" /\ en[i].active = 0 /\ en[i].key \notin Pinned
                               => en[i].timer
    PROVE  PoolInv'
<1> USE DEF PoolInv, MovesOn
<1>1. Made' = Made /\ Ensuring' = Ensuring
  BY DEF Made, Ensuring, At
<1>2. \A i : Using(i)' = Using(i)
  BY DEF Using, HeldBy, At
<1>3. Shapes'
  BY DEF Shapes
<1>4. Held'
  BY <1>1 DEF Held, At, Made
<1>5. Pooled'
  BY <1>1 DEF Pooled, Made
<1>6. Counted'
  BY <1>2 DEF Counted
<1>7. Bounded'
  BY <1>1 DEF Bounded
<1>8. IdleHasTimer'
  BY DEF IdleHasTimer
<1> QED
  BY <1>3, <1>4, <1>5, <1>6, <1>7, <1>8

LEMMA CreatedStep == ASSUME PoolInv, NEW i \in Id, Created(i) PROVE PoolInv'
<1> DEFINE en == [entry EXCEPT ![i].state = "up", ![i].timer = entry[i].key \notin Pinned]
           o  == Touch(older, i)
<1>1. evictOverflow(entries, en, o) /\ entry[i].state = "creating" /\ UNCHANGED <<call, calls>>
  BY DEF Created
<1>2. en = [entry EXCEPT ![i] = [entry[i] EXCEPT !.state = "up",
                                        !.timer = entry[i].key \notin Pinned]]
  OBVIOUS
<1>3. en \in [Id -> EntryRecord]
  BY <1>2 DEF PoolInv, Shapes, EntryRecord, States
<1>4. /\ \A j \in Id : /\ en[j].key = entry[j].key /\ en[j].active = entry[j].active
                       /\ j # i => en[j] = entry[j]
      /\ en[i].state = "up" /\ en[i].timer = (entry[i].key \notin Pinned)
  BY <1>2 DEF PoolInv, Shapes, EntryRecord
<1>5. MovesOn(entries, en)
  BY <1>1, <1>3, EvictingMovesOn DEF evictOverflow, PoolInv, Shapes
<1>6. \A j \in Id : /\ en[j].key = entry[j].key /\ en[j].active = entry[j].active
                    /\ en[j].state = "unused" <=> entry[j].state = "unused"
                    /\ en[j].state = "creating" => entry[j].state = "creating"
                    /\ en[j].state = "up" /\ en[j].active = 0 /\ en[j].key \notin Pinned
                          => en[j].timer
  BY <1>1, <1>4 DEF PoolInv, IdleHasTimer
<1> QED
  BY <1>1, <1>3, <1>5, <1>6, PoolStep

LEMMA EvictNextStep == ASSUME PoolInv, NEW l, EvictNext(l) PROVE PoolInv'
<1>1. MovesOn(entries, entry)
  BY EvictingMovesOn DEF EvictNext, PoolInv, Shapes
<1> QED
  BY <1>1, PoolStep DEF EvictNext, PoolInv, Shapes, IdleHasTimer

LEMMA ClosedStep == ASSUME PoolInv, NEW i \in Id, Closed(i) PROVE PoolInv'
<1>1. entry' = [entry EXCEPT ![i] = [entry[i] EXCEPT !.state = "closed"]]
  BY DEF Closed
<1>2. MovesOn(entries, entry)
  BY <1>1 DEF Closed, MovesOn, PoolInv, Shapes, EntryRecord, States
<1> QED
  BY <1>2, PoolStep DEF Closed, PoolInv, Shapes, IdleHasTimer

\* The timer of an idle bundle fires: the bundle is closed.  It stops without
\* effect only while the bundle is in use or closing.
LEMMA IdleTimerStep == ASSUME PoolInv, NEW i \in Id, IdleTimer(i) PROVE PoolInv'
<1>1. CASE entry[i].active > 0 \/ entry[i].state # "up"
  <2> DEFINE en == [entry EXCEPT ![i].timer = FALSE]
  <2>1. entry' = en /\ entries' = entries /\ UNCHANGED <<call, calls>>
    BY <1>1 DEF IdleTimer
  <2>2. en = [entry EXCEPT ![i] = [entry[i] EXCEPT !.timer = FALSE]]
    OBVIOUS
  <2>3. en \in [Id -> EntryRecord]
    BY <2>2 DEF PoolInv, Shapes, EntryRecord
  <2>4. MovesOn(entries, en)
    BY <2>1, <2>3 DEF MovesOn, PoolInv, Shapes
  <2>5. \A j \in Id : /\ en[j].key = entry[j].key /\ en[j].active = entry[j].active
                      /\ en[j].state = entry[j].state
                      /\ j # i => en[j].timer = entry[j].timer
    BY <2>2 DEF PoolInv, Shapes, EntryRecord
  <2>6. \A j \in Id : en[j].state = "up" /\ en[j].active = 0 /\ en[j].key \notin Pinned
                          => en[j].timer
    BY <1>1, <2>5 DEF PoolInv, IdleHasTimer
  <2> HIDE DEF en
  <2> QED
    BY <2>1, <2>3, <2>4, <2>5, <2>6, PoolStep
<1>2. CASE ~ (entry[i].active > 0 \/ entry[i].state # "up")
  <2>1. /\ entries' = Dropped(entries, entry, i) /\ entry' = Closing(entry, i)
        /\ UNCHANGED <<call, calls>>
    BY <1>2 DEF IdleTimer
  <2>2. entry' = [entry EXCEPT ![i] = [entry[i] EXCEPT !.timer = FALSE,
                     !.state = IF entry[i].state = "up" THEN "closing" ELSE entry[i].state]]
    BY <2>1 DEF Closing
  <2>3. entries' \in [Key -> Id \cup {None}] /\ \A k \in Key : entries'[k] \in {entries[k], None}
    BY <2>1 DEF Dropped, PoolInv, Shapes
  <2>4. /\ entry' \in [Id -> EntryRecord]
        /\ \A j \in Id : /\ entry'[j].key = entry[j].key /\ entry'[j].active = entry[j].active
                         /\ j # i => entry'[j] = entry[j]
        /\ entry'[i].state = "closing" /\ entry[i].state = "up"
    BY <1>2, <2>2 DEF PoolInv, Shapes, EntryRecord, States
  <2>5. MovesOn(entries, entry)
    BY <2>3, <2>4 DEF MovesOn
  <2> QED
    BY <2>1, <2>5, PoolStep DEF PoolInv, Shapes, IdleHasTimer
<1> QED
  BY <1>1, <1>2

------------------------------------------------------------------------------
(* Steps of the calls. *)

LEMMA CreateFailsStep == ASSUME PoolInv, NEW i \in Id, CreateFails(i) PROVE PoolInv'
<1> USE DEF PoolInv
<1>1. /\ entry[i].state = "creating" /\ entries' = Dropped(entries, entry, i)
      /\ entry' = [entry EXCEPT ![i] = [entry[i] EXCEPT !.state = "failed"]]
      /\ call' = [c \in Caller |-> IF call[c].id = i THEN NoCall ELSE call[c]]
      /\ calls' = calls
  BY DEF CreateFails
<1>2. /\ entry' \in [Id -> EntryRecord]
      /\ \A j \in Id : /\ entry'[j].key = entry[j].key /\ entry'[j].active = entry[j].active
                       /\ entry'[j].timer = entry[j].timer
                       /\ j # i => entry'[j].state = entry[j].state
      /\ entry'[i].state = "failed"
  BY <1>1 DEF Shapes, EntryRecord, States
<1>3. NoCall \in CallRecord
  BY DEF NoCall, CallRecord, Places
<1>4. Shapes'
  BY <1>1, <1>2, <1>3 DEF Shapes, Dropped
<1>5. Made' = Made
  BY <1>1, <1>2 DEF Made
<1>6. \A j \in Id : Using(j)' = Using(j)
  BY <1>1 DEF Using, HeldBy, At, NoCall, Held, None, Id
<1>7. Held'
  BY <1>1, <1>2, <1>5 DEF Held, At, NoCall, Made
<1>8. Pooled'
  BY <1>1, <1>2, <1>5 DEF Pooled, Dropped, Shapes
<1>9. Counted'
  BY <1>2, <1>6 DEF Counted
<1>10. Ensuring' \in SUBSET Ensuring
  BY <1>1 DEF Ensuring, At, NoCall
<1>11. Bounded'
  BY <1>1, <1>5, <1>10, Finite, FS_Subset, FS_CardinalityType DEF Bounded, Shapes
<1>12. IdleHasTimer'
  BY <1>2 DEF IdleHasTimer
<1> QED
  BY <1>4, <1>7, <1>8, <1>9, <1>11, <1>12

\* A new call: it has made no entry yet, and evictExpired closes idle bundles.
LEMMA BeginStep == ASSUME PoolInv, NEW c \in Caller, Begin(c) PROVE PoolInv'
<1> USE DEF PoolInv
<1>1. PICK k \in Key, old \in SUBSET Id :
        /\ At(c, "idle") /\ calls < MaxCalls /\ calls' = calls + 1
        /\ entries' = [j \in Key |-> IF entries[j] \in old THEN None ELSE entries[j]]
        /\ entry' = [i \in Id |-> IF i \in old
                        THEN [entry[i] EXCEPT !.state = "closing", !.timer = FALSE]
                        ELSE entry[i]]
        /\ call' = [call EXCEPT ![c] =
              [at |-> "ensure", id |-> None, key |-> k, expired |-> old]]
        /\ \A i \in old : entry[i].state = "up"
  BY DEF Begin, Candidates, Evictable
<1>2. /\ entry' \in [Id -> EntryRecord]
      /\ \A i \in Id : /\ entry'[i].key = entry[i].key /\ entry'[i].active = entry[i].active
                       /\ entry'[i].state = "unused" <=> entry[i].state = "unused"
                       /\ entry'[i].state = "creating" <=> entry[i].state = "creating"
                       /\ entry'[i].state = "up" => entry'[i] = entry[i]
  BY <1>1 DEF Shapes, EntryRecord, States
<1>3. /\ call'[c] = [at |-> "ensure", id |-> None, key |-> k, expired |-> old]
      /\ \A d \in Caller \ {c} : call'[d] = call[d]
      /\ call' \in [Caller -> CallRecord]
  BY <1>1 DEF Shapes, CallRecord, Places
<1>0. At(c, "idle") /\ calls < MaxCalls /\ calls' = calls + 1
  BY <1>1
<1>4. Shapes'
  <2>1. calls' \in 0 .. MaxCalls
    BY <1>0, PoolAssumption DEF Shapes
  <2>2. entries' \in [Key -> Id \cup {None}]
    BY <1>1 DEF Shapes
  <2> QED
    BY <1>2, <1>3, <2>1, <2>2 DEF Shapes
<1>5. Made' = Made
  BY <1>2 DEF Made
<1>6. Held'
  BY <1>2, <1>3, <1>5 DEF Held, At, Made
<1>7. Pooled'
  BY <1>1, <1>2, <1>5 DEF Pooled, Shapes, Made
<1>8. \A i \in Id : Using(i)' = Using(i)
  BY <1>1, <1>3 DEF Using, HeldBy, At
<1>9. Counted'
  BY <1>2, <1>8 DEF Counted
<1>10. Ensuring' = Ensuring \cup {c}
  BY <1>3 DEF Ensuring, At
<1>11. Cardinality(Ensuring \cup {c}) = Cardinality(Ensuring) + 1
  <2>1. c \notin Ensuring
    BY <1>1 DEF Ensuring, At
  <2>2. IsFiniteSet(Ensuring)
    BY Finite
  <2> QED
    BY <2>1, <2>2, FS_AddElement
<1>12. Bounded'
  <2>1. Cardinality(Made) \in Nat /\ Cardinality(Ensuring) \in Nat
    BY Finite, FS_CardinalityType
  <2>2. Cardinality(Made)' = Cardinality(Made) /\ Cardinality(Ensuring)' = Cardinality(Ensuring) + 1
    BY <1>5, <1>10, <1>11
  <2> QED
    BY <1>0, <2>1, <2>2 DEF Bounded, Shapes
<1>13. IdleHasTimer'
  BY <1>2 DEF IdleHasTimer
<1> QED
  BY <1>4, <1>6, <1>7, <1>9, <1>12, <1>13

\* Some entry is still unused when a call has to make one.
LEMMA FreshExists ==
    ASSUME PoolInv, NEW c \in Caller, At(c, "ensure")
    PROVE  FreshId \in Id \ Made
<1>1. c \in Ensuring
  BY DEF Ensuring
<1>2. Cardinality(Ensuring) \in Nat /\ Cardinality(Ensuring) # 0
  BY <1>1, Finite, FS_EmptySet, FS_CardinalityType
<1>3. Made \in SUBSET Id /\ Cardinality(Made) \in Nat
  BY Finite, FS_CardinalityType DEF Made
<1>4. Cardinality(Made) < MaxCalls
  BY <1>2, <1>3, PoolAssumption DEF PoolInv, Bounded, Shapes
<1>5. Made # Id
  BY <1>4, Finite, PoolAssumption
<1>6. \E i \in Id : entry[i].state = "unused"
  BY <1>3, <1>5 DEF Made
<1> QED
  BY <1>6 DEF FreshId, Made

\* A call that only moves its own program counter on an entry that stays.
LEMMA HandingStep ==
    ASSUME PoolInv, NEW c \in Caller, UNCHANGED <<entries, entry, calls>>,
           NEW rec \in CallRecord, call' = [call EXCEPT ![c] = rec],
           rec.at \in {"wait", "got"}, rec.id \in Made,
           rec.at = "got" => entry[rec.id].state # "creating",
           call[c].at \in {"ensure", "wait"}
    PROVE  PoolInv'
<1> USE DEF PoolInv
<1>1. Shapes'
  BY DEF Shapes
<1>2. Made' = Made
  BY DEF Made
<1>3. Held'
  BY <1>2 DEF Held, At, Shapes
<1>4. Pooled'
  BY <1>2 DEF Pooled
<1>5. \A i \in Id : Using(i)' = Using(i)
  BY DEF Using, HeldBy, At, Shapes
<1>6. Counted'
  BY <1>5 DEF Counted
<1>7. Ensuring' \in SUBSET Ensuring
  BY DEF Ensuring, At, Shapes
<1>8. Bounded'
  BY <1>2, <1>7, Finite, FS_Subset, FS_CardinalityType DEF Bounded, Shapes
<1>9. IdleHasTimer'
  BY DEF IdleHasTimer
<1> QED
  BY <1>1, <1>3, <1>4, <1>6, <1>8, <1>9

LEMMA ensureEntryStep == ASSUME PoolInv, NEW c \in Caller, ensureEntry(c) PROVE PoolInv'
<1> USE DEF PoolInv
<1> DEFINE k == call[c].key
           f == FreshId
<1>0. At(c, "ensure") /\ k \in Key /\ calls' = calls
  BY DEF ensureEntry, Held
<1>1. CASE /\ entries[k] # None /\ entry[entries[k]].state \in {"up", "creating"}
           /\ UNCHANGED <<entries, entry>>
           /\ call' = [call EXCEPT ![c] =
                 [at |-> IF entry[entries[k]].state = "up" THEN "got" ELSE "wait",
                  id |-> entries[k], key |-> k, expired |-> {}]]
  <2> DEFINE rec == [at |-> IF entry[entries[k]].state = "up" THEN "got" ELSE "wait",
                     id |-> entries[k], key |-> k, expired |-> {}]
  <2>1. rec.id \in Made
    BY <1>0, <1>1 DEF Pooled
  <2>2. rec \in CallRecord
    BY <1>0, <2>1 DEF CallRecord, Places, Made
  <2>3. call[c].at \in {"ensure", "wait"} /\ rec.at \in {"wait", "got"}
    BY <1>0 DEF At
  <2> HIDE DEF rec
  <2>4. call' = [call EXCEPT ![c] = rec] /\ (rec.at = "got" => entry[rec.id].state # "creating")
    BY <1>1 DEF rec
  <2> QED
    BY <1>0, <1>1, <2>1, <2>2, <2>3, <2>4, HandingStep
<1>2. CASE /\ entries[k] = None
           /\ entries' = [entries EXCEPT ![k] = f]
           /\ entry' = [entry EXCEPT ![f] =
                           [key |-> k, state |-> "creating", active |-> 0, timer |-> FALSE]]
           /\ call' = [call EXCEPT ![c] = [at |-> "wait", id |-> f, key |-> k, expired |-> {}]]
  <2>1. f \in Id \ Made
    BY <1>0, FreshExists
  <2> HIDE DEF f
  <2>2. Shapes'
    BY <1>0, <1>2, <2>1 DEF Shapes, EntryRecord, CallRecord, Places, States
  <2>3. Made' = Made \cup {f}
    BY <1>2, <2>1 DEF Made, Shapes
  <2>4. \A i \in Id \ {f} : entry'[i] = entry[i]
    BY <1>2 DEF Shapes
  <2>5. entry'[f].key = k /\ entry'[f].state = "creating" /\ entry'[f].active = 0
    BY <1>2, <2>1 DEF Shapes
  <2>6. Held'
    <3>1. \A d \in Caller \ {c} : call'[d] = call[d]
      BY <1>2 DEF Shapes
    <3>2. call'[c].at = "wait" /\ call'[c].id = f
      BY <1>2 DEF Shapes
    <3> QED
      BY <2>1, <2>3, <2>4, <3>1, <3>2 DEF Held, At, Made
  <2>7. Pooled'
    BY <1>0, <1>2, <2>1, <2>3, <2>4, <2>5 DEF Pooled, Shapes, Made
  <2>8. \A i \in Id : Using(i)' = Using(i)
    BY <1>0, <1>2 DEF Using, HeldBy, At, Shapes
  <2>9. Using(f) = {}
    BY <2>1 DEF Using, HeldBy, At, Held
  <2>10. Counted'
    BY <2>4, <2>5, <2>8, <2>9, FS_EmptySet DEF Counted
  <2>11. Ensuring' = Ensuring \ {c} /\ c \in Ensuring
    BY <1>0, <1>2 DEF Ensuring, At, Shapes
  <2>12. Bounded'
    <3>1. Cardinality(Ensuring \ {c}) = Cardinality(Ensuring) - 1
      BY <2>11, Finite, FS_RemoveElement
    <3>2. Cardinality(Made \cup {f}) = Cardinality(Made) + 1
      BY <2>1, Finite, FS_AddElement
    <3>3. Cardinality(Made) \in Nat /\ Cardinality(Ensuring) \in Nat
      BY Finite, FS_CardinalityType
    <3>4. /\ Cardinality(Made)' = Cardinality(Made) + 1
          /\ Cardinality(Ensuring)' = Cardinality(Ensuring) - 1
      BY <2>3, <2>11, <3>1, <3>2
    <3> QED
      BY <1>0, <3>3, <3>4 DEF Bounded, Shapes
  <2>13. IdleHasTimer'
    BY <2>4, <2>5 DEF IdleHasTimer
  <2> QED
    BY <2>2, <2>6, <2>7, <2>10, <2>12, <2>13
<1> QED
  BY <1>1, <1>2 DEF ensureEntry, Holding

LEMMA ResumeStep == ASSUME PoolInv, NEW c \in Caller, Resume(c) PROVE PoolInv'
<1> USE DEF PoolInv
<1>1. /\ At(c, "wait") /\ entry[call[c].id].state # "creating"
      /\ call' = [call EXCEPT ![c] = [call[c] EXCEPT !.at = "got"]]
      /\ UNCHANGED <<entries, entry, calls>>
  BY DEF Resume, pool
<1> DEFINE rec == [call[c] EXCEPT !.at = "got"]
<1>2. call[c] \in CallRecord
  BY DEF Shapes
<1>3. rec \in CallRecord /\ rec.at = "got" /\ rec.id = call[c].id
  BY <1>2 DEF CallRecord, Places
<1>4. rec.id \in Made /\ call[c].at \in {"ensure", "wait"}
  BY <1>1, <1>3 DEF Held, At
<1>5. call' = [call EXCEPT ![c] = rec]
  BY <1>1
<1> HIDE DEF rec
<1> QED
  BY <1>1, <1>3, <1>4, <1>5, HandingStep

LEMMA Recounted ==
    ASSUME NEW e \in EntryRecord, NEW n \in Int, NEW b \in BOOLEAN
    PROVE  LET r == [e EXCEPT !.active = n, !.timer = b]
           IN  /\ r \in EntryRecord /\ r.active = n /\ r.timer = b
               /\ r.key = e.key /\ r.state = e.state
BY DEF EntryRecord

\* The call is counted active and the idle timer stopped.
LEMMA withServerStep == ASSUME PoolInv, NEW c \in Caller, withServer(c) PROVE PoolInv'
<1> USE DEF PoolInv
<1> DEFINE i == call[c].id
           place == IF entry[i].state = "up" THEN "use" ELSE "refused"
<1>1. /\ At(c, "got") /\ i \in Made /\ entry[i].state # "creating" /\ i \in Id
      /\ UNCHANGED <<entries, calls>>
  BY DEF withServer, Held, At, Made
<1> DEFINE new == [entry[i] EXCEPT !.active = entry[i].active + 1, !.timer = FALSE]
<1>2. /\ entry' = [entry EXCEPT ![i] = new]
      /\ call' = [call EXCEPT ![c] = [call[c] EXCEPT !.at = place]]
  BY DEF withServer
<1>3. entry[i] \in EntryRecord /\ call[c] \in CallRecord
  BY <1>1 DEF Shapes
<1>0. /\ new \in EntryRecord /\ new.key = entry[i].key /\ new.state = entry[i].state
      /\ new.active = entry[i].active + 1
  <2>1. entry[i].active + 1 \in Int
    BY <1>3 DEF EntryRecord
  <2> HIDE DEF i
  <2> QED
    BY <1>3, <2>1, Recounted
<1> HIDE DEF i, place, new
<1>4. /\ entry' \in [Id -> EntryRecord]
      /\ \A j \in Id : /\ entry'[j].key = entry[j].key /\ entry'[j].state = entry[j].state
                       /\ j # i => entry'[j] = entry[j]
      /\ entry'[i].active = entry[i].active + 1
  BY <1>0, <1>1, <1>2 DEF Shapes
<1>5. place \in {"use", "refused"}
  BY DEF place
<1>6. /\ call' \in [Caller -> CallRecord] /\ call'[c].at = place /\ call'[c].id = i
      /\ \A d \in Caller \ {c} : call'[d] = call[d]
  BY <1>2, <1>3, <1>5 DEF Shapes, CallRecord, Places, i
<1>7. Shapes'
  BY <1>1, <1>4, <1>6 DEF Shapes
<1>8. Made' = Made /\ Ensuring' = Ensuring
  BY <1>1, <1>4, <1>5, <1>6 DEF Made, Ensuring, At
<1>9. Held'
  BY <1>1, <1>4, <1>5, <1>6, <1>8 DEF Held, At, Made
<1>10. Pooled'
  BY <1>1, <1>4, <1>8 DEF Pooled, Made
<1>11. ASSUME NEW j \in Id
       PROVE  entry'[j].active = Cardinality(Using(j)')
  <2>1. CASE j = i
    <3>1. Using(j)' = Using(j) \cup {c} /\ c \notin Using(j)
      BY <1>1, <1>5, <1>6, <2>1 DEF Using, HeldBy, At, i
    <3>2. Cardinality(Using(j) \cup {c}) = Cardinality(Using(j)) + 1
      BY <3>1, Finite, FS_AddElement
    <3>3. entry'[j].active = Cardinality(Using(j)) + 1
      BY <1>4, <2>1 DEF Counted
    <3> QED
      BY <3>1, <3>2, <3>3
  <2>2. CASE j # i
    <3>1. Using(j)' = Using(j)
      BY <1>1, <1>5, <1>6, <2>2 DEF Using, HeldBy, At, i
    <3>2. entry'[j].active = Cardinality(Using(j))
      BY <1>4, <2>2 DEF Counted
    <3> QED
      BY <3>1, <3>2
  <2> QED
    BY <2>1, <2>2
<1>14. Counted'
  BY <1>11 DEF Counted
<1>15. Bounded'
  BY <1>1, <1>8 DEF Bounded
<1>16. IdleHasTimer'
  <2>1. entry[i].active \in Nat
    BY <1>1, Finite DEF Counted
  <2>2. entry'[i].active # 0
    BY <1>4, <2>1
  <2> QED
    BY <1>4, <2>2 DEF IdleHasTimer
<1> QED
  BY <1>7, <1>9, <1>10, <1>14, <1>15, <1>16

\* The call is no longer counted; a bundle that is up and not pinned gets its
\* idle timer back, and the overflow is evicted.
LEMMA FinishStep == ASSUME PoolInv, NEW c \in Caller, Finish(c) PROVE PoolInv'
<1> USE DEF PoolInv
<1> DEFINE i == call[c].id
           timer == (entry[i].state = "up" /\ entry[i].key \notin Pinned)
           new == [entry[i] EXCEPT !.active = entry[i].active - 1, !.timer = timer]
           en == [entry EXCEPT ![i] = new]
           o  == Touch(older, i)
<1>1. /\ call[c].at \in {"use", "refused"}
      /\ evictOverflow(entries, en, o)
      /\ call' = [call EXCEPT ![c] = NoCall] /\ calls' = calls
  BY DEF Finish, At
<1>2. i \in Made /\ i \in Id /\ entry[i].state # "creating"
  BY <1>1 DEF Held, At, Made
<1>3. entry[i] \in EntryRecord
  BY <1>2 DEF Shapes
<1>4. /\ new \in EntryRecord /\ new.key = entry[i].key /\ new.state = entry[i].state
      /\ new.active = entry[i].active - 1 /\ new.timer = timer
  <2>1. entry[i].active - 1 \in Int
    BY <1>3 DEF EntryRecord
  <2>2. timer \in BOOLEAN
    OBVIOUS
  <2> HIDE DEF i, timer
  <2>3. /\ new \in EntryRecord /\ new.key = entry[i].key /\ new.state = entry[i].state
        /\ new.active = entry[i].active - 1
    BY <1>3, <2>1, <2>2 DEF EntryRecord
  <2>4. new.timer = timer
    BY <1>3 DEF EntryRecord
  <2> QED
    BY <2>3, <2>4, Zenon
<1> HIDE DEF new
<1>5. /\ en \in [Id -> EntryRecord]
      /\ \A j \in Id : /\ en[j].key = entry[j].key /\ en[j].state = entry[j].state
                       /\ j # i => en[j] = entry[j]
      /\ en[i].active = entry[i].active - 1 /\ en[i].timer = timer
  BY <1>2, <1>4 DEF Shapes
<1> HIDE DEF en, o
<1>6. MovesOn(entries, en)
  BY <1>1, <1>5, EvictingMovesOn DEF evictOverflow, Shapes
<1>7. /\ call' \in [Caller -> CallRecord] /\ call'[c] = NoCall
      /\ \A d \in Caller \ {c} : call'[d] = call[d]
  BY <1>1 DEF Shapes, NoCall, CallRecord, Places
<1>8. Shapes'
  BY <1>1, <1>6, <1>7 DEF Shapes, MovesOn
<1>9. Made' = Made
  BY <1>5, <1>6 DEF Made, MovesOn
<1>10. Ensuring' = Ensuring
  BY <1>1, <1>7 DEF Ensuring, At, NoCall
<1>11. Held'
  BY <1>5, <1>6, <1>7, <1>9 DEF Held, At, NoCall, MovesOn, Made
<1>12. Pooled'
  BY <1>5, <1>6, <1>9 DEF Pooled, MovesOn, Made
<1>13. ASSUME NEW j \in Id
       PROVE  entry'[j].active = Cardinality(Using(j)')
  <2>1. CASE j = i
    <3>1. Using(j)' = Using(j) \ {c} /\ c \in Using(j)
      BY <1>1, <1>7, <2>1 DEF Using, HeldBy, At, NoCall, None, Id
    <3>2. Cardinality(Using(j) \ {c}) = Cardinality(Using(j)) - 1
      BY <3>1, Finite, FS_RemoveElement
    <3>3. entry'[j].active = Cardinality(Using(j)) - 1
      BY <1>5, <1>6, <2>1 DEF Counted, MovesOn
    <3> QED
      BY <3>1, <3>2, <3>3
  <2>2. CASE j # i
    <3>1. Using(j)' = Using(j)
      BY <1>1, <1>7, <2>2 DEF Using, HeldBy, At, NoCall, None, Id
    <3>2. entry'[j].active = Cardinality(Using(j))
      BY <1>5, <1>6, <2>2 DEF Counted, MovesOn
    <3> QED
      BY <3>1, <3>2
  <2> QED
    BY <2>1, <2>2
<1>14. Counted'
  BY <1>13 DEF Counted
<1>15. Bounded'
  BY <1>1, <1>9, <1>10 DEF Bounded
<1>16. IdleHasTimer'
  <2> SUFFICES ASSUME NEW j \in Id, entry'[j].state = "up", entry'[j].active = 0,
                      entry'[j].key \notin Pinned
               PROVE  entry'[j].timer
    BY DEF IdleHasTimer
  <2>1. /\ en[j].state = "up" /\ entry'[j].timer = en[j].timer
        /\ en[j].active = 0 /\ en[j].key \notin Pinned
    BY <1>6 DEF MovesOn
  <2>2. CASE j = i
    BY <1>2, <1>5, <2>1, <2>2
  <2>3. CASE j # i
    BY <1>5, <2>1, <2>3 DEF IdleHasTimer
  <2> QED
    BY <2>2, <2>3
<1> QED
  BY <1>8, <1>11, <1>12, <1>14, <1>15, <1>16

------------------------------------------------------------------------------
LEMMA Step == PoolInv /\ [Next]_vars => PoolInv'
<1> SUFFICES ASSUME PoolInv, [Next]_vars PROVE PoolInv'
  OBVIOUS
<1>1. ASSUME NEW c \in Caller, CallStep(c) PROVE PoolInv'
  BY <1>1, BeginStep, ensureEntryStep, ResumeStep, withServerStep, FinishStep DEF CallStep
<1>2. ASSUME NEW i \in Id, Created(i) \/ CreateFails(i) \/ Closed(i) \/ IdleTimer(i)
      PROVE  PoolInv'
  BY <1>2, CreatedStep, CreateFailsStep, ClosedStep, IdleTimerStep
<1>3. ASSUME NEW l \in loops, EvictNext(l) PROVE PoolInv'
  BY <1>3, EvictNextStep
<1>4. CASE UNCHANGED vars
  BY <1>4 DEF vars, pool, PoolInv, Shapes, Held, Pooled, Counted, Bounded, IdleHasTimer,
              Made, Ensuring, Using, HeldBy, At
<1> QED
  BY <1>1, <1>2, <1>3, <1>4 DEF Next

\* The pool's bookkeeping: each key leads to an entry of that key, and
\* entry.active (mcp-gateway.ts, withServer) counts exactly the calls between
\* its increment and the finally block, however evictions interleave.
THEOREM TypeCorrect == Spec => []TypeOK
<1>1. PoolInv => TypeOK
  BY DEF PoolInv, TypeOK, Shapes, Pooled, Counted, Using
<1> QED
  BY Start, Step, <1>1, PTL DEF Spec

\* A warm bundle that nobody uses and that is not pinned has a running idle
\* timer (scheduleIdleDisconnect), so that no server process is left behind.
THEOREM IdleTimed == Spec => []IdleHasTimer
<1>1. PoolInv => IdleHasTimer
  BY DEF PoolInv
<1> QED
  BY Start, Step, <1>1, PTL DEF Spec

------------------------------------------------------------------------------
(* The overflow is in use. *)

\* The keys of warm bundles are finitely many: each has an entry of its own.
LEMMA WarmFinite ==
    ASSUME NEW es \in [Key -> Id \cup {None}], NEW en \in [Id -> EntryRecord],
           \A k \in Key : es[k] # None => en[es[k]].key = k
    PROVE  IsFiniteSet(Warm(es, en)) /\ Cardinality(Warm(es, en)) \in Nat
<1> DEFINE W == Warm(es, en)
           f == [k \in W |-> es[k]]
<1>1. \A k \in W : k \in Key /\ es[k] \in Id /\ en[es[k]].key = k
  BY DEF Warm
<1>2. f \in Injection(W, Id)
  BY <1>1 DEF Injection, IsInjective
<1>3. IsFiniteSet(W)
  <2> HIDE DEF f, W
  <2> QED
    BY <1>2, Finite, FS_Injection
<1> QED
  BY <1>3, FS_CardinalityType

\* OverflowInUse of a pool es with entries en.
InUse(es, en) ==
    Cardinality(Warm(es, en)) > maxWarm =>
        \A k \in Warm(es, en) \ Pinned : en[es[k]].active > 0

\* Fewer bundles are warm, and no count has gone down.
LEMMA Shrinking ==
    ASSUME NEW es, NEW en, NEW es2, NEW en2, InUse(es, en),
           IsFiniteSet(Warm(es, en)),
           Warm(es2, en2) \in SUBSET Warm(es, en),
           \A k \in Warm(es2, en2) :
               es2[k] = es[k] /\ (en[es[k]].active > 0 => en2[es[k]].active > 0)
    PROVE  InUse(es2, en2)
<1>1. Cardinality(Warm(es2, en2)) <= Cardinality(Warm(es, en))
  BY FS_Subset
<1>2. Cardinality(Warm(es2, en2)) \in Nat /\ Cardinality(Warm(es, en)) \in Nat
  BY FS_Subset, FS_CardinalityType
<1>3. CASE Cardinality(Warm(es2, en2)) > maxWarm
  <2>1. Cardinality(Warm(es, en)) > maxWarm
    BY <1>1, <1>2, <1>3, PoolAssumption
  <2>2. \A k \in Warm(es, en) \ Pinned : en[es[k]].active > 0
    BY <2>1 DEF InUse
  <2> QED
    BY <2>2 DEF InUse
<1> QED
  BY <1>3 DEF InUse

LEMMA PoolShape ==
    ASSUME PoolInv
    PROVE  /\ entries \in [Key -> Id \cup {None}] /\ entry \in [Id -> EntryRecord]
           /\ \A k \in Key : entries[k] # None => entry[entries[k]].key = k
           /\ \A i \in Id : entry[i].active \in Nat
BY Finite DEF PoolInv, Shapes, Pooled, Counted

\* What a step may do that makes no bundle: each that is warm after it was warm
\* before it under the same key, and is in use if it was.
OnlyCloses ==
    \A k \in Key : entries'[k] # None /\ entry'[entries'[k]].state = "up" =>
        /\ entries'[k] = entries[k] /\ entry[entries[k]].state = "up"
        /\ entry[entries[k]].active > 0 => entry'[entries[k]].active > 0

LEMMA ClosingKeeps ==
    ASSUME PoolInv, OverflowInUse, OnlyCloses
    PROVE  OverflowInUse'
<1>1. InUse(entries, entry) /\ IsFiniteSet(Warm(entries, entry))
  BY PoolShape, WarmFinite DEF InUse, OverflowInUse
<1>2. Warm(entries', entry') \in SUBSET Warm(entries, entry)
  BY DEF Warm, OnlyCloses
<1>3. \A k \in Warm(entries', entry') :
         entries'[k] = entries[k]
            /\ (entry[entries[k]].active > 0 => entry'[entries[k]].active > 0)
  BY DEF Warm, OnlyCloses
<1>4. InUse(entries', entry')
  BY <1>1, <1>2, <1>3, Shrinking
<1> QED
  BY <1>4 DEF InUse, OverflowInUse, Warm

\* evictOverflow, called when at most one warm bundle more than before can be idle.
LEMMA EvictingKeeps ==
    ASSUME NEW es \in [Key -> Id \cup {None}], NEW en \in [Id -> EntryRecord], NEW o,
           evictOverflow(es, en, o),
           \A k \in Key : es[k] # None => en[es[k]].key = k,
           \A i \in Id : en[i].active \in Nat,
           \A i \in Id : en[i].state = "up" => en[i].key \in Key,
           NEW last \in Id,
           Cardinality(Warm(es, en)) > maxWarm + 1 =>
               \A k \in Warm(es, en) \ Pinned : es[k] # last => en[es[k]].active > 0
    PROVE  InUse(entries', entry')
<1> DEFINE W == Warm(es, en)
<1>1. IsFiniteSet(W) /\ Cardinality(W) \in Nat
  BY WarmFinite
<1>2. CASE Cardinality(W) <= maxWarm /\ entries' = es /\ entry' = en
  BY <1>1, <1>2, PoolAssumption DEF InUse
<1>3. CASE Candidates(es, en) = {} /\ entries' = es /\ entry' = en
  <2>1. ASSUME NEW k \in W \ Pinned PROVE en[es[k]].active > 0
    <3>1. es[k] \in Id /\ en[es[k]].key = k /\ en[es[k]].state = "up"
      BY DEF Warm
    <3>2. ~ Evictable(es, en, es[k])
      BY <1>3, <3>1 DEF Candidates
    <3>3. en[es[k]].active # 0
      BY <3>1, <3>2 DEF Evictable
    <3> QED
      BY <3>1, <3>3
  <2> QED
    BY <1>3, <2>1 DEF InUse
<1>4. ASSUME NEW i \in Candidates(es, en),
             entries' = Dropped(es, en, i), entry' = Closing(en, i)
      PROVE  InUse(entries', entry')
  <2> DEFINE k0 == en[i].key
  <2>1. /\ i \in Id /\ en[i].state = "up" /\ es[k0] = i /\ en[i].active = 0
        /\ k0 \in Key \ Pinned
    BY DEF Candidates, Evictable
  <2>2. k0 \in W
    BY <2>1 DEF Warm, Id, None
  <2>3. /\ \A k \in Key : entries'[k] = IF k = k0 THEN None ELSE es[k]
        /\ \A j \in Id \ {i} : entry'[j] = en[j]
    BY <1>4, <2>1 DEF Dropped, Closing
  <2>4. \A k \in Key \ {k0} : es[k] # i
    BY <2>1 DEF None, Id
  <2>5. Warm(entries', entry') = W \ {k0}
    BY <2>3, <2>4 DEF Warm
  <2>6. Cardinality(W \ {k0}) = Cardinality(W) - 1
    BY <1>1, <2>2, FS_RemoveElement
  <2>7. ASSUME Cardinality(W \ {k0}) > maxWarm, NEW k \in (W \ {k0}) \ Pinned
        PROVE  entry'[entries'[k]].active > 0
    <3>1. Cardinality(W) > maxWarm + 1
      BY <1>1, <2>6, <2>7, PoolAssumption
    <3>2. \A j \in W \ Pinned : es[j] # last => en[es[j]].active > 0
      BY <3>1
    <3>3. es[k0] = last
      BY <2>1, <2>2, <3>2
    <3>4. es[k] # i /\ es[k] # last /\ k \in Key /\ es[k] \in Id
      BY <2>1, <2>4, <3>3 DEF Warm
    <3>5. en[es[k]].active > 0
      BY <3>2, <3>4
    <3> QED
      BY <2>3, <3>4, <3>5
  <2> HIDE DEF k0, W
  <2> QED
    BY <2>5, <2>7 DEF InUse
<1> QED
  BY <1>2, <1>3, <1>4 DEF evictOverflow, EvictFrom

\* A new bundle is the only one that can be idle while others are over the limit.
LEMMA CreatedKeeps ==
    ASSUME PoolInv, OverflowInUse, NEW i \in Id, Created(i) PROVE OverflowInUse'
<1> DEFINE en == [entry EXCEPT ![i].state = "up", ![i].timer = entry[i].key \notin Pinned]
           W  == Warm(entries, entry)
           o  == Touch(older, i)
<1>1. evictOverflow(entries, en, o) /\ entry[i].state = "creating"
  BY DEF Created
<1>2. en = [entry EXCEPT ![i] = [entry[i] EXCEPT !.state = "up",
                                        !.timer = entry[i].key \notin Pinned]]
  OBVIOUS
<1>3. /\ en \in [Id -> EntryRecord] /\ en[i].state = "up"
      /\ \A j \in Id : en[j].key = entry[j].key /\ en[j].active = entry[j].active
      /\ \A j \in Id \ {i} : en[j] = entry[j]
  BY <1>2, PoolShape DEF EntryRecord, States
<1> HIDE DEF en, o
<1>4. /\ \A k \in Key : entries[k] # None => en[entries[k]].key = k
      /\ \A j \in Id : en[j].active \in Nat
  BY <1>3, PoolShape DEF None, Id
<1>5. \A j \in Id : en[j].state = "up" => en[j].key \in Key
  BY <1>1, <1>3 DEF PoolInv, Pooled, Made
<1>6. Warm(entries, en) \subseteq W \cup {entry[i].key}
  BY <1>3, PoolShape DEF Warm, None, Id
<1>7. ASSUME Cardinality(Warm(entries, en)) > maxWarm + 1,
             NEW k \in Warm(entries, en) \ Pinned, entries[k] # i
      PROVE  en[entries[k]].active > 0
  <2>1. k \in W /\ entries[k] \in Id
    BY <1>3, <1>7, PoolShape DEF Warm, None, Id
  <2>2. IsFiniteSet(W) /\ Cardinality(W) \in Nat
    BY PoolShape, WarmFinite
  <2>3. IsFiniteSet(Warm(entries, en)) /\ Cardinality(Warm(entries, en)) \in Nat
    BY <1>3, <1>4, PoolShape, WarmFinite
  <2>4. Cardinality(Warm(entries, en)) <= Cardinality(W) + 1
    <3> HIDE DEF W
    <3> DEFINE x == entry[i].key
               V == W \cup {x}
    <3>1. /\ IsFiniteSet(V) /\ Cardinality(V) \in Nat
          /\ Cardinality(V) <= Cardinality(W) + 1
      <4> HIDE DEF x
      <4>1. /\ IsFiniteSet(V)
            /\ Cardinality(V) = IF x \in W THEN Cardinality(W) ELSE Cardinality(W) + 1
        BY <2>2, FS_AddElement
      <4> QED
        BY <2>2, <4>1
    <3>2. Cardinality(Warm(entries, en)) <= Cardinality(V)
      BY <1>6, <3>1, FS_Subset
    <3> HIDE DEF V
    <3> QED
      BY <2>2, <2>3, <3>1, <3>2
  <2>5. Cardinality(W) > maxWarm
    BY <1>7, <2>2, <2>3, <2>4, PoolAssumption
  <2>6. entry[entries[k]].active > 0
    BY <1>7, <2>1, <2>5 DEF OverflowInUse
  <2> QED
    BY <1>3, <2>1, <2>6
<1>8. InUse(entries', entry')
  BY <1>1, <1>3, <1>4, <1>5, <1>7, PoolShape, EvictingKeeps
<1> QED
  BY <1>8 DEF InUse, OverflowInUse, Warm

\* The bundle a call releases is the only one that can be idle while others are
\* over the limit.
LEMMA FinishKeeps ==
    ASSUME PoolInv, OverflowInUse, NEW c \in Caller, Finish(c) PROVE OverflowInUse'
<1> DEFINE i == call[c].id
           timer == (entry[i].state = "up" /\ entry[i].key \notin Pinned)
           new == [entry[i] EXCEPT !.active = entry[i].active - 1, !.timer = timer]
           en == [entry EXCEPT ![i] = new]
           o  == Touch(older, i)
           W  == Warm(entries, entry)
<1>1. call[c].at \in {"use", "refused"} /\ evictOverflow(entries, en, o)
  BY DEF Finish, At
<1>2. i \in Id /\ entry[i] \in EntryRecord
  BY <1>1, PoolShape DEF PoolInv, Held, At, Made
<1>3. entry[i].active - 1 \in Nat
  <2>1. c \in Using(i)
    BY <1>1 DEF Using, HeldBy, At
  <2>2. entry[i].active \in Nat /\ entry[i].active # 0
    BY <1>2, <2>1, Finite, FS_EmptySet DEF PoolInv, Counted
  <2> HIDE DEF i
  <2> QED
    BY <2>2
<1>4. new \in EntryRecord /\ new.key = entry[i].key /\ new.state = entry[i].state
         /\ new.active = entry[i].active - 1
  <2>1. timer \in BOOLEAN /\ entry[i].active - 1 \in Int
    BY <1>3
  <2> HIDE DEF i, timer
  <2> QED
    BY <1>2, <2>1 DEF EntryRecord
<1> HIDE DEF new, i
<1>5. /\ en \in [Id -> EntryRecord]
      /\ \A j \in Id : en[j].key = entry[j].key /\ en[j].state = entry[j].state
      /\ \A j \in Id \ {i} : en[j] = entry[j]
      /\ en[i].active = entry[i].active - 1
  BY <1>2, <1>4, PoolShape
<1> HIDE DEF en, o
<1>6. /\ \A k \in Key : entries[k] # None => en[entries[k]].key = k
      /\ \A j \in Id : en[j].active \in Nat
  BY <1>3, <1>5, PoolShape DEF None, Id
<1>7. \A j \in Id : en[j].state = "up" => en[j].key \in Key
  BY <1>5 DEF PoolInv, Pooled, Made
<1>8. Warm(entries, en) = W
  BY <1>5, PoolShape DEF Warm, None, Id
<1>9. ASSUME Cardinality(Warm(entries, en)) > maxWarm + 1,
             NEW k \in Warm(entries, en) \ Pinned, entries[k] # i
      PROVE  en[entries[k]].active > 0
  <2>1. k \in W /\ entries[k] \in Id
    BY <1>8, PoolShape DEF Warm, None, Id
  <2>2. Cardinality(W) \in Nat
    BY PoolShape, WarmFinite
  <2>3. Cardinality(W) > maxWarm
    BY <1>8, <1>9, <2>2, PoolAssumption
  <2>4. entry[entries[k]].active > 0
    BY <1>8, <1>9, <2>1, <2>3 DEF OverflowInUse
  <2> QED
    BY <1>5, <1>9, <2>1, <2>4
<1>10. InUse(entries', entry')
  BY <1>1, <1>2, <1>5, <1>6, <1>7, <1>9, PoolShape, EvictingKeeps
<1> QED
  BY <1>10 DEF InUse, OverflowInUse, Warm

LEMMA IdleTimerKeeps ==
    ASSUME PoolInv, OverflowInUse, NEW i \in Id, IdleTimer(i) PROVE OverflowInUse'
<1>1. CASE entry' = [entry EXCEPT ![i].timer = FALSE] /\ entries' = entries
  <2>1. \A j \in Id : entry'[j].state = entry[j].state /\ entry'[j].active = entry[j].active
    BY <1>1, PoolShape DEF EntryRecord
  <2>2. OnlyCloses
    BY <1>1, <2>1, PoolShape DEF OnlyCloses, None, Id
  <2> QED
    BY <2>2, ClosingKeeps
<1>2. CASE entries' = Dropped(entries, entry, i) /\ entry' = Closing(entry, i)
  <2>1. entry' = [entry EXCEPT ![i] = [entry[i] EXCEPT !.timer = FALSE,
                     !.state = IF entry[i].state = "up" THEN "closing" ELSE entry[i].state]]
    BY <1>2 DEF Closing
  <2>2. \A j \in Id : /\ entry'[j].state = "up" => entry[j].state = "up"
                      /\ entry'[j].active = entry[j].active
    BY <2>1, PoolShape DEF EntryRecord
  <2>3. OnlyCloses
    BY <1>2, <2>2, PoolShape DEF OnlyCloses, Dropped, None, Id
  <2> QED
    BY <2>3, ClosingKeeps
<1> QED
  BY <1>1, <1>2 DEF IdleTimer

LEMMA EvictNextKeeps ==
    ASSUME PoolInv, OverflowInUse, NEW l, EvictNext(l) PROVE OverflowInUse'
<1>1. MovesOn(entries, entry)
  BY PoolShape, EvictingMovesOn DEF EvictNext
<1>2. OnlyCloses
  BY <1>1, PoolShape DEF MovesOn, OnlyCloses, None, Id
<1> QED
  BY <1>2, ClosingKeeps

LEMMA ClosedKeeps ==
    ASSUME PoolInv, OverflowInUse, NEW i \in Id, Closed(i) \/ CreateFails(i)
    PROVE  OverflowInUse'
<1>1. PICK s \in {"closed", "failed"} :
         entry' = [entry EXCEPT ![i] = [entry[i] EXCEPT !.state = s]]
  BY DEF Closed, CreateFails
<1>2. \A j \in Id : /\ entry'[j].state = "up" => entry[j].state = "up"
                    /\ entry'[j].active = entry[j].active
  BY <1>1, PoolShape DEF EntryRecord
<1>3. entries' = entries \/ entries' = Dropped(entries, entry, i)
  BY DEF Closed, CreateFails
<1>4. OnlyCloses
  BY <1>2, <1>3, PoolShape DEF OnlyCloses, Dropped, None, Id
<1> QED
  BY <1>4, ClosingKeeps

LEMMA BeginKeeps ==
    ASSUME PoolInv, OverflowInUse, NEW c \in Caller, Begin(c) PROVE OverflowInUse'
<1>1. PICK old \in SUBSET Id :
        /\ entries' = [j \in Key |-> IF entries[j] \in old THEN None ELSE entries[j]]
        /\ entry' = [i \in Id |-> IF i \in old
                        THEN [entry[i] EXCEPT !.state = "closing", !.timer = FALSE]
                        ELSE entry[i]]
  BY DEF Begin, Candidates
<1>2. \A i \in Id : /\ entry'[i].state = "up" => entry[i].state = "up"
                    /\ entry'[i].active = entry[i].active
  <2> TAKE i \in Id
  <2>1. CASE i \in old
    <3>1. entry[i] \in EntryRecord
      BY PoolShape
    <3>2. entry'[i] = [entry[i] EXCEPT !.state = "closing", !.timer = FALSE]
      BY <1>1, <2>1
    <3> QED
      BY <3>1, <3>2 DEF EntryRecord
  <2>2. CASE i \notin old
    BY <1>1, <2>2
  <2> QED
    BY <2>1, <2>2
<1>3. \A k \in Key : entries'[k] \in {entries[k], None}
  BY <1>1
<1>4. OnlyCloses
  BY <1>2, <1>3, PoolShape DEF OnlyCloses, None, Id
<1> QED
  BY <1>4, ClosingKeeps

\* A call gets an entry, new ones are not warm yet.
LEMMA ensureEntryKeeps ==
    ASSUME PoolInv, OverflowInUse, NEW c \in Caller, ensureEntry(c) PROVE OverflowInUse'
<1> DEFINE k == call[c].key
           f == FreshId
<1>1. CASE UNCHANGED <<entries, entry>>
  <2>1. OnlyCloses
    BY <1>1, PoolShape DEF OnlyCloses
  <2> QED
    BY <2>1, ClosingKeeps
<1>2. CASE /\ entries' = [entries EXCEPT ![k] = f]
           /\ entry' = [entry EXCEPT ![f] =
                           [key |-> k, state |-> "creating", active |-> 0, timer |-> FALSE]]
  <2>1. f \in Id \ Made
    BY FreshExists DEF ensureEntry
  <2> HIDE DEF f
  <2>2. entry'[f].state = "creating" /\ \A i \in Id \ {f} : entry'[i] = entry[i]
    BY <1>2, <2>1, PoolShape
  <2>3. \A j \in Key : entries'[j] \in {entries[j], f}
    BY <1>2, PoolShape
  <2>4. OnlyCloses
    BY <2>2, <2>3, PoolShape DEF OnlyCloses, None, Id
  <2> QED
    BY <2>4, ClosingKeeps
<1> QED
  BY <1>1, <1>2 DEF ensureEntry

LEMMA withServerKeeps ==
    ASSUME PoolInv, OverflowInUse, NEW c \in Caller, withServer(c) PROVE OverflowInUse'
<1> DEFINE i == call[c].id
<1>1. i \in Id
  BY DEF withServer, PoolInv, Held, At, Made
<1>2. /\ entries' = entries
      /\ entry' = [entry EXCEPT ![i] =
                      [entry[i] EXCEPT !.active = entry[i].active + 1, !.timer = FALSE]]
  BY DEF withServer
<1> HIDE DEF i
<1>3. \A j \in Id : entry'[j].state = entry[j].state /\ entry'[j].active >= entry[j].active
  BY <1>1, <1>2, PoolShape DEF EntryRecord
<1>4. \A j \in Id : entry[j].active > 0 => entry'[j].active > 0
  BY <1>1, <1>2, PoolShape DEF EntryRecord
<1>5. OnlyCloses
  BY <1>2, <1>3, <1>4, PoolShape DEF OnlyCloses, None, Id
<1> QED
  BY <1>5, ClosingKeeps

LEMMA OverflowStep == PoolInv /\ OverflowInUse /\ [Next]_vars => OverflowInUse'
<1> SUFFICES ASSUME PoolInv, OverflowInUse, [Next]_vars PROVE OverflowInUse'
  OBVIOUS
<1>1. ASSUME UNCHANGED <<entries, entry>> PROVE OverflowInUse'
  BY <1>1 DEF OverflowInUse, Warm
<1>2. ASSUME NEW c \in Caller, CallStep(c) PROVE OverflowInUse'
  BY <1>1, <1>2, BeginKeeps, ensureEntryKeeps, withServerKeeps, FinishKeeps
     DEF CallStep, Resume, pool
<1>3. ASSUME NEW i \in Id, Created(i) \/ CreateFails(i) \/ Closed(i) \/ IdleTimer(i)
      PROVE  OverflowInUse'
  BY <1>3, CreatedKeeps, ClosedKeeps, IdleTimerKeeps
<1>4. ASSUME NEW l \in loops, EvictNext(l) PROVE OverflowInUse'
  BY <1>4, EvictNextKeeps
<1>5. CASE UNCHANGED vars
  BY <1>1, <1>5 DEF vars, pool
<1> QED
  BY <1>2, <1>3, <1>4, <1>5 DEF Next

\* More bundles than maxWarm are warm (mcp-gateway.ts, evictOverflow) only while
\* every one of them is pinned or in use by a call, although the evictions under
\* way hold lists of candidates that were made before they waited.
THEOREM OverflowBounded == Spec => []OverflowInUse
<1>1. Init => OverflowInUse
  <2> SUFFICES ASSUME Init PROVE OverflowInUse
    OBVIOUS
  <2>1. Warm(entries, entry) = {}
    BY DEF Init, Warm
  <2> QED
    BY <2>1 DEF OverflowInUse
<1>2. Spec => []PoolInv
  BY Start, Step, PTL DEF Spec
<1> QED
  BY <1>1, <1>2, OverflowStep, PTL DEF Spec

------------------------------------------------------------------------------
(* What closes a bundle. *)

\* Only the bundle of a server that is not pinned has a timer or is listed by an
\* eviction that waits.
Unpinned ==
    /\ \A i \in Id : entry[i].timer => entry[i].key \notin Pinned
    /\ \A l \in loops : \A i \in l.rest : i \in Made /\ entry[i].key \notin Pinned

\* Why the bundle of i may be closed in this step.
MayClose(i) ==
    /\ entry[i].key \notin Pinned
    /\ entry'[i].active = 0 \/ \E l \in loops : i \in l.rest

\* What a step does that keeps Unpinned and closes nothing it may not.
Careful ==
    /\ \A i \in Made : i \in Made' /\ entry'[i].key = entry[i].key
    /\ \A i \in Id : entry'[i].timer => entry'[i].key \notin Pinned
    /\ \A l \in loops' : \A i \in l.rest : i \in Made /\ entry[i].key \notin Pinned
    /\ \A i \in Id : entry[i].state = "up" /\ entry'[i].state # "up" => MayClose(i)

LEMMA CarefulKeeps ==
    ASSUME Careful
    PROVE  Unpinned'
BY DEF Careful, Unpinned

\* A turn of an eviction closes a bundle it listed, and lists no more than before.
LEMMA EvictingCloses ==
    ASSUME NEW es \in [Key -> Id \cup {None}], NEW en \in [Id -> EntryRecord],
           NEW cs \in SUBSET Id, NEW o, NEW others, EvictFrom(es, en, cs, o, others)
    PROVE  /\ \A i \in Id : /\ entry'[i].key = en[i].key /\ entry'[i].active = en[i].active
                            /\ entry'[i].state = "unused" <=> en[i].state = "unused"
                            /\ entry'[i].timer => en[i].timer
                            /\ en[i].state = "up" /\ entry'[i].state # "up" => i \in cs
           /\ \A l \in loops' : l \in others \/ l.rest \subseteq cs
<1>1. CASE entry' = en /\ loops' = others
  BY <1>1
<1>2. ASSUME NEW h \in cs, entry' = Closing(en, h),
             NEW ord, loops' = others \cup {[wait |-> h, rest |-> cs \ {h}, order |-> ord]}
      PROVE  /\ \A i \in Id : /\ entry'[i].key = en[i].key /\ entry'[i].active = en[i].active
                              /\ entry'[i].state = "unused" <=> en[i].state = "unused"
                              /\ entry'[i].timer => en[i].timer
                              /\ en[i].state = "up" /\ entry'[i].state # "up" => i \in cs
             /\ \A l \in loops' : l \in others \/ l.rest \subseteq cs
  <2>1. \A l \in loops' : l \in others \/ l.rest \subseteq cs
    BY <1>2
  <2>2. \A i \in Id : i # h => entry'[i] = en[i]
    BY <1>2 DEF Closing
  <2>3. h \in Id /\ en[h] \in EntryRecord
    OBVIOUS
  <2>4. entry'[h] = [en[h] EXCEPT !.timer = FALSE,
                        !.state = IF en[h].state = "up" THEN "closing" ELSE en[h].state]
    BY <1>2, <2>3 DEF Closing
  <2>5. /\ entry'[h].key = en[h].key /\ entry'[h].active = en[h].active
        /\ entry'[h].state = "unused" <=> en[h].state = "unused"
        /\ entry'[h].timer = FALSE
    BY <2>3, <2>4 DEF EntryRecord
  <2> QED
    BY <2>1, <2>2, <2>5
<1>3. \/ entry' = en /\ loops' = others
      \/ \E h \in cs : /\ entry' = Closing(en, h)
                       /\ \E ord : loops' = others \cup
                              {[wait |-> h, rest |-> cs \ {h}, order |-> ord]}
  BY DEF EvictFrom
<1> QED
  BY <1>1, <1>2, <1>3

\* evictOverflow, called when en differs from entry in no closed bundle.
LEMMA OverflowCareful ==
    ASSUME PoolInv, Unpinned, NEW en \in [Id -> EntryRecord], NEW o,
           evictOverflow(entries, en, o),
           \A i \in Id : /\ en[i].key = entry[i].key
                         /\ en[i].state = "unused" <=> entry[i].state = "unused"
                         /\ en[i].timer => entry[i].key \notin Pinned
                         /\ entry[i].state = "up" => en[i].state = "up"
    PROVE  Careful
<1> DEFINE cs == Candidates(entries, en)
<1>1. \A i \in cs : i \in Id /\ en[i].state = "up" /\ en[i].active = 0 /\ en[i].key \notin Pinned
  BY DEF Candidates, Evictable
<1>2. EvictFrom(entries, en, cs, o, loops) /\ cs \in SUBSET Id
  BY <1>1 DEF evictOverflow
<1>3. entries \in [Key -> Id \cup {None}]
  BY DEF PoolInv, Shapes
<1> HIDE DEF cs
<1>4. /\ \A i \in Id : /\ entry'[i].key = en[i].key /\ entry'[i].active = en[i].active
                       /\ entry'[i].state = "unused" <=> en[i].state = "unused"
                       /\ entry'[i].timer => en[i].timer
                       /\ en[i].state = "up" /\ entry'[i].state # "up" => i \in cs
      /\ \A l \in loops' : l \in loops \/ l.rest \subseteq cs
  BY <1>2, <1>3, EvictingCloses
<1>5. \A i \in Made : i \in Made' /\ entry'[i].key = entry[i].key
  BY <1>4 DEF Made
<1>6. \A i \in Id : entry'[i].timer => entry'[i].key \notin Pinned
  BY <1>4
<1>7. \A i \in cs : i \in Made /\ entry[i].key \notin Pinned
  BY <1>1 DEF Made
<1>8. \A l \in loops' : \A i \in l.rest : i \in Made /\ entry[i].key \notin Pinned
  BY <1>4, <1>7 DEF Unpinned
<1>9. \A i \in Id : entry[i].state = "up" /\ entry'[i].state # "up" => MayClose(i)
  BY <1>1, <1>4 DEF MayClose
<1> QED
  BY <1>5, <1>6, <1>8, <1>9 DEF Careful

LEMMA CreatedCareful ==
    ASSUME PoolInv, Unpinned, NEW i \in Id, Created(i) PROVE Careful
<1> DEFINE en == [entry EXCEPT ![i].state = "up", ![i].timer = entry[i].key \notin Pinned]
           o  == Touch(older, i)
<1>1. evictOverflow(entries, en, o) /\ entry[i].state = "creating"
  BY DEF Created
<1>2. en = [entry EXCEPT ![i] = [entry[i] EXCEPT !.state = "up",
                                        !.timer = entry[i].key \notin Pinned]]
  OBVIOUS
<1>3. /\ en \in [Id -> EntryRecord] /\ en[i].state = "up" /\ en[i].key = entry[i].key
      /\ en[i].timer = (entry[i].key \notin Pinned)
      /\ \A j \in Id \ {i} : en[j] = entry[j]
  BY <1>2, PoolShape DEF EntryRecord, States
<1> HIDE DEF en, o
<1>4. \A j \in Id : /\ en[j].key = entry[j].key
                    /\ en[j].state = "unused" <=> entry[j].state = "unused"
                    /\ en[j].timer => entry[j].key \notin Pinned
                    /\ entry[j].state = "up" => en[j].state = "up"
  BY <1>1, <1>3 DEF Unpinned
<1> QED
  BY <1>1, <1>3, <1>4, OverflowCareful

LEMMA FinishCareful ==
    ASSUME PoolInv, Unpinned, NEW c \in Caller, Finish(c) PROVE Careful
<1> DEFINE i == call[c].id
           timer == (entry[i].state = "up" /\ entry[i].key \notin Pinned)
           new == [entry[i] EXCEPT !.active = entry[i].active - 1, !.timer = timer]
           en == [entry EXCEPT ![i] = new]
           o  == Touch(older, i)
<1>1. call[c].at \in {"use", "refused"} /\ evictOverflow(entries, en, o)
  BY DEF Finish, At
<1>2. i \in Id /\ entry[i] \in EntryRecord
  BY <1>1, PoolShape DEF PoolInv, Held, At, Made
<1>3. new \in EntryRecord /\ new.key = entry[i].key /\ new.state = entry[i].state
         /\ (new.timer => entry[i].key \notin Pinned)
  <2>1. timer \in BOOLEAN /\ (timer => entry[i].key \notin Pinned)
    OBVIOUS
  <2> HIDE DEF i, timer
  <2>2. new.key = entry[i].key /\ new.state = entry[i].state /\ new.timer = timer
    BY <1>2 DEF EntryRecord
  <2>3. entry[i].active - 1 \in Int
    BY <1>2 DEF EntryRecord
  <2>4. new \in EntryRecord
    BY <1>2, <2>1, <2>3 DEF EntryRecord
  <2> QED
    BY <2>1, <2>2, <2>4
<1> HIDE DEF new, i
<1>4. /\ en \in [Id -> EntryRecord] /\ en[i] = new
      /\ \A j \in Id \ {i} : en[j] = entry[j]
  BY <1>2, <1>3, PoolShape
<1> HIDE DEF en, o
<1>5. \A j \in Id : /\ en[j].key = entry[j].key
                    /\ en[j].state = "unused" <=> entry[j].state = "unused"
                    /\ en[j].timer => entry[j].key \notin Pinned
                    /\ entry[j].state = "up" => en[j].state = "up"
  BY <1>2, <1>3, <1>4 DEF Unpinned
<1> QED
  BY <1>1, <1>4, <1>5, OverflowCareful

LEMMA EvictNextCareful ==
    ASSUME PoolInv, Unpinned, NEW l \in loops, EvictNext(l) PROVE Careful
<1>1. /\ EvictFrom(entries, entry, l.rest, l.order, loops \ {l})
      /\ entries \in [Key -> Id \cup {None}] /\ entry \in [Id -> EntryRecord]
  BY PoolShape DEF EvictNext
<1>2. \A i \in l.rest : i \in Made /\ i \in Id /\ entry[i].key \notin Pinned
  BY DEF Unpinned, Made
<1>3. /\ \A i \in Id : /\ entry'[i].key = entry[i].key /\ entry'[i].active = entry[i].active
                       /\ entry'[i].state = "unused" <=> entry[i].state = "unused"
                       /\ entry'[i].timer => entry[i].timer
                       /\ entry[i].state = "up" /\ entry'[i].state # "up" => i \in l.rest
      /\ \A m \in loops' : m \in loops \ {l} \/ m.rest \subseteq l.rest
  <2>1. l.rest \in SUBSET Id
    BY <1>2
  <2> QED
    BY <1>1, <2>1, EvictingCloses
<1>4. \A i \in Made : i \in Made' /\ entry'[i].key = entry[i].key
  BY <1>3 DEF Made
<1>5. \A i \in Id : entry'[i].timer => entry'[i].key \notin Pinned
  BY <1>3 DEF Unpinned
<1>6. \A m \in loops' : \A i \in m.rest : i \in Made /\ entry[i].key \notin Pinned
  BY <1>2, <1>3 DEF Unpinned
<1>7. \A i \in Id : entry[i].state = "up" /\ entry'[i].state # "up" => MayClose(i)
  BY <1>2, <1>3 DEF MayClose
<1> QED
  BY <1>4, <1>5, <1>6, <1>7 DEF Careful

\* Steps that leave the evictions alone.
LEMMA LoopsAlone ==
    ASSUME Unpinned, UNCHANGED loops,
           \A i \in Made : i \in Made' /\ entry'[i].key = entry[i].key,
           \A i \in Id : entry'[i].timer => entry'[i].key \notin Pinned,
           \A i \in Id : entry[i].state = "up" /\ entry'[i].state # "up" => MayClose(i)
    PROVE  Careful
BY DEF Careful, Unpinned

LEMMA IdleTimerCareful ==
    ASSUME PoolInv, Unpinned, NEW i \in Id, IdleTimer(i) PROVE Careful
<1>1. PICK s \in {entry[i].state, "closing"} :
         /\ entry' = [entry EXCEPT ![i] = [entry[i] EXCEPT !.timer = FALSE, !.state = s]]
         /\ s # entry[i].state => entry[i].state = "up" /\ ~ entry[i].active > 0
  <2>1. CASE entry[i].active > 0 \/ entry[i].state # "up"
    <3>1. entry' = [entry EXCEPT ![i] = [entry[i] EXCEPT !.timer = FALSE]]
      BY <2>1 DEF IdleTimer
    <3>2. entry[i] \in EntryRecord
      BY PoolShape
    <3>3. [entry[i] EXCEPT !.timer = FALSE]
             = [entry[i] EXCEPT !.timer = FALSE, !.state = entry[i].state]
      BY <3>2 DEF EntryRecord
    <3> QED
      BY <3>1, <3>3
  <2>2. CASE ~ (entry[i].active > 0 \/ entry[i].state # "up")
    BY <2>2 DEF IdleTimer, Closing
  <2> QED
    BY <2>1, <2>2
<1>2. entry[i].timer /\ UNCHANGED loops /\ entry[i].active \in Nat
  BY PoolShape DEF IdleTimer
<1>3. /\ \A j \in Id \ {i} : entry'[j] = entry[j]
      /\ entry'[i].key = entry[i].key /\ entry'[i].active = entry[i].active
      /\ entry'[i].timer = FALSE /\ entry'[i].state = s
  BY <1>1, PoolShape DEF EntryRecord
<1>4. \A j \in Made : j \in Made' /\ entry'[j].key = entry[j].key
  BY <1>1, <1>3 DEF Made
<1>5. \A j \in Id : entry'[j].timer => entry'[j].key \notin Pinned
  BY <1>3 DEF Unpinned
<1>6. \A j \in Id : entry[j].state = "up" /\ entry'[j].state # "up" => MayClose(j)
  BY <1>1, <1>2, <1>3 DEF MayClose, Unpinned
<1> QED
  BY <1>2, <1>4, <1>5, <1>6, LoopsAlone

Spare(i) == entry[i].active = 0 /\ entry[i].key \notin Pinned
Shut(e)  == [e EXCEPT !.state = "closing", !.timer = FALSE]

LEMMA ShutFields ==
    ASSUME NEW e \in EntryRecord
    PROVE  /\ Shut(e).key = e.key /\ Shut(e).active = e.active
           /\ Shut(e).state = "closing" /\ Shut(e).timer = FALSE
BY DEF Shut, EntryRecord

LEMMA BeginCareful ==
    ASSUME PoolInv, Unpinned, NEW c \in Caller, Begin(c) PROVE Careful
<1>1. PICK old \in SUBSET Id :
        /\ entry' = [i \in Id |-> IF i \in old THEN Shut(entry[i]) ELSE entry[i]]
        /\ \A i \in old : Spare(i)
        /\ UNCHANGED <<older, loops>>
  <2>1. PICK k \in Key, last \in Id \cup {None} :
           LET old == {i \in Candidates(entries, entry) :
                          (i = last \/ <<i, last>> \in older) /\ ~ BeingHanded(i)}
           IN  /\ entry' = [i \in Id |-> IF i \in old THEN Shut(entry[i]) ELSE entry[i]]
               /\ UNCHANGED <<older, loops>>
    BY Zenon DEF Begin, Shut
  <2> DEFINE old == {i \in Candidates(entries, entry) :
                        (i = last \/ <<i, last>> \in older) /\ ~ BeingHanded(i)}
  <2>2. \A i \in old : i \in Id /\ Spare(i)
    BY DEF Candidates, Evictable, Spare
  <2>3. /\ entry' = [i \in Id |-> IF i \in old THEN Shut(entry[i]) ELSE entry[i]]
        /\ UNCHANGED <<older, loops>>
    BY <2>1
  <2> HIDE DEF old
  <2>4. old \in SUBSET Id
    BY <2>2
  <2> QED
    BY <2>2, <2>3, <2>4
<1>2. /\ \A i \in Id \ old : entry'[i] = entry[i]
      /\ \A i \in old : entry'[i] = Shut(entry[i])
  BY <1>1
<1>3. UNCHANGED loops
  BY <1>1
<1>4. \A i \in old : Spare(i)
  BY <1>1
<1>5. \A i \in old : /\ entry'[i].key = entry[i].key /\ entry'[i].active = entry[i].active
                     /\ entry'[i].state = "closing" /\ entry'[i].timer = FALSE
  <2> TAKE i \in old
  <2>1. entry[i] \in EntryRecord /\ entry'[i] = Shut(entry[i])
    BY <1>2, PoolShape
  <2> QED
    BY <2>1, ShutFields
<1>6. \A i \in Made : i \in Made' /\ entry'[i].key = entry[i].key
  BY <1>2, <1>5 DEF Made
<1>7. \A i \in Id : entry'[i].timer => entry'[i].key \notin Pinned
  BY <1>2, <1>5 DEF Unpinned
<1>8. \A i \in Id : entry[i].state = "up" /\ entry'[i].state # "up" => MayClose(i)
  BY <1>2, <1>4, <1>5 DEF MayClose, Spare
<1> QED
  BY <1>3, <1>6, <1>7, <1>8, LoopsAlone

\* Steps that change one entry and close no bundle.
LEMMA EntryCareful ==
    ASSUME Unpinned, UNCHANGED loops, NEW i \in Id, NEW new,
           entry \in [Id -> EntryRecord], entry' = [entry EXCEPT ![i] = new],
           i \in Made => new.key = entry[i].key, new.state # "unused",
           new.timer => entry[i].timer /\ new.key = entry[i].key,
           entry[i].state = "up" => new.state = "up"
    PROVE  Careful
<1>1. entry'[i] = new /\ \A j \in Id \ {i} : entry'[j] = entry[j]
  OBVIOUS
<1>2. \A j \in Made : j \in Made' /\ entry'[j].key = entry[j].key
  BY <1>1 DEF Made
<1>3. \A j \in Id : entry'[j].timer => entry'[j].key \notin Pinned
  BY <1>1 DEF Unpinned
<1>4. \A j \in Id : entry[j].state = "up" => entry'[j].state = "up"
  BY <1>1
<1> QED
  BY <1>2, <1>3, <1>4, LoopsAlone

LEMMA ClosedCareful ==
    ASSUME PoolInv, Unpinned, NEW i \in Id, Closed(i) \/ CreateFails(i) PROVE Careful
<1>1. PICK s \in {"closed", "failed"} :
         /\ entry' = [entry EXCEPT ![i] = [entry[i] EXCEPT !.state = s]]
         /\ entry[i].state \in {"closing", "creating"} /\ UNCHANGED loops
  BY DEF Closed, CreateFails
<1> PICK new : new = [entry[i] EXCEPT !.state = s]
  OBVIOUS
<1>2. new.key = entry[i].key /\ new.timer = entry[i].timer /\ new.state = s
  BY PoolShape DEF EntryRecord
<1> QED
  BY <1>1, <1>2, PoolShape, EntryCareful

LEMMA withServerCareful ==
    ASSUME PoolInv, Unpinned, NEW c \in Caller, withServer(c) PROVE Careful
<1> PICK i : i = call[c].id
  OBVIOUS
<1>1. i \in Id /\ i \in Made /\ UNCHANGED loops
  BY DEF withServer, PoolInv, Held, At, Made
<1> PICK new : new = [entry[i] EXCEPT !.active = entry[i].active + 1, !.timer = FALSE]
  OBVIOUS
<1>2. entry' = [entry EXCEPT ![i] = new]
  BY DEF withServer
<1>3. new.key = entry[i].key /\ new.timer = FALSE /\ new.state = entry[i].state
  BY <1>1, PoolShape DEF EntryRecord
<1>4. new.state # "unused"
  BY <1>1, <1>3 DEF Made
<1> QED
  BY <1>1, <1>2, <1>3, <1>4, PoolShape, EntryCareful

LEMMA ensureEntryCareful ==
    ASSUME PoolInv, Unpinned, NEW c \in Caller, ensureEntry(c) PROVE Careful
<1>1. CASE UNCHANGED <<entry, loops>>
  BY <1>1 DEF Careful, Unpinned, Made
<1>2. CASE /\ entry' = [entry EXCEPT ![FreshId] =
                           [key |-> call[c].key, state |-> "creating",
                            active |-> 0, timer |-> FALSE]]
           /\ UNCHANGED loops
  <2> PICK f, new : /\ f = FreshId
                    /\ new = [key |-> call[c].key, state |-> "creating",
                              active |-> 0, timer |-> FALSE]
    OBVIOUS
  <2>1. f \in Id \ Made
    BY FreshExists DEF ensureEntry
  <2>2. new.state = "creating" /\ new.timer = FALSE /\ entry[f].state # "up"
    BY <2>1 DEF Made
  <2> QED
    BY <1>2, <2>1, <2>2, PoolShape, EntryCareful
<1> QED
  BY <1>1, <1>2 DEF ensureEntry

LEMMA AnyStepCareful ==
    ASSUME PoolInv, Unpinned, [Next]_vars PROVE Careful
<1>1. ASSUME UNCHANGED <<entry, loops>> PROVE Careful
  BY <1>1 DEF Careful, Unpinned, Made
<1>2. ASSUME NEW c \in Caller, CallStep(c) PROVE Careful
  BY <1>1, <1>2, BeginCareful, ensureEntryCareful, withServerCareful, FinishCareful
     DEF CallStep, Resume, pool
<1>3. ASSUME NEW i \in Id, Created(i) \/ CreateFails(i) \/ Closed(i) \/ IdleTimer(i)
      PROVE  Careful
  BY <1>3, CreatedCareful, ClosedCareful, IdleTimerCareful
<1>4. ASSUME NEW l \in loops, EvictNext(l) PROVE Careful
  BY <1>4, EvictNextCareful
<1>5. CASE UNCHANGED vars
  BY <1>1, <1>5 DEF vars, pool
<1> QED
  BY <1>2, <1>3, <1>4, <1>5 DEF Next

\* Timers, evictions and the turns of an eviction that waited (mcp-gateway.ts,
\* scheduleIdleDisconnect, evictExpired, evictOverflow) close no bundle of a pinned
\* server, and none that a call is counted active on unless a waiting eviction had
\* listed it while it was idle.
THEOREM ClosesIdleBundles == Spec => ClosesOnlyIdle
<1>1. Init => Unpinned
  BY DEF Init, Unpinned, Blank
<1>2. PoolInv /\ Unpinned /\ [Next]_vars => Unpinned'
  BY AnyStepCareful, CarefulKeeps
<1>3. PoolInv /\ Unpinned /\ [Next]_vars =>
        [\A i \in Id : entry[i].state = "up" /\ entry'[i].state # "up" =>
            /\ entry[i].key \notin Pinned
            /\ entry'[i].active = 0 \/ \E l \in loops : i \in l.rest]_vars
  BY AnyStepCareful DEF Careful, MayClose
<1>4. Spec => []PoolInv
  BY Start, Step, PTL DEF Spec
<1> QED
  BY <1>1, <1>2, <1>3, <1>4, PTL DEF Spec, ClosesOnlyIdle
==============================================================================
