------------------------------- MODULE McpPool -------------------------------
(***************************************************************************)
(* The warm pool of MCP server bundles in the agent sidecar                *)
(* (agent-sidecar/src/tools/mcp-gateway.ts, McpGatewayWarmPool): one entry *)
(* per workspace and server, created on the first call, shared by          *)
(* concurrent calls, evicted when too many are warm or one is idle long.   *)
(*                                                                         *)
(* Code between two awaits is one step.  A bundle is a group of server     *)
(* processes; closing one takes time, and the loop that evicts the         *)
(* overflow waits for it before it looks at the next candidate.            *)
(***************************************************************************)
EXTENDS Integers, FiniteSets

CONSTANTS
    Key,       \* pool keys: workspace and server name
    Pinned,    \* keys of pinnedServers: never evicted
    Caller,    \* tool calls that may be under way at the same time
    maxWarm,
    MaxCalls   \* bound: calls ever made

ASSUME PoolAssumption ==
    /\ Pinned \subseteq Key
    /\ IsFiniteSet(Caller)
    /\ maxWarm \in Nat /\ MaxCalls \in Nat

VARIABLES
    entries,  \* [Key -> Id or None]: the pool
    entry,    \* [Id -> Entry]: every entry object made
    older,    \* the pairs <<i, j>> of entries, i.lastUsedAt before j.lastUsedAt
    loops,    \* evictOverflow calls that wait for a bundle to close
    call,     \* [Caller -> Call]: where each call stands
    calls     \* calls made

pool == <<entries, entry, older>>
vars == <<pool, loops, call, calls>>

None == 0
Id   == 1 .. MaxCalls          \* a call makes at most one entry
NoCall == [at |-> "idle", id |-> None, key |-> "none", expired |-> {}]

Blank == [key |-> "none", state |-> "unused", active |-> 0, timer |-> FALSE]

\* state: unused, creating, up (entry.bundle is set), closing, closed, failed.
Warm(es, en) == {k \in Key : es[k] # None /\ en[es[k]].state = "up"}
At(c, place) == call[c].at = place
HeldBy(id)   == {c \in Caller : call[c].id = id}

\* Created or looked up for a caller that has not counted itself active yet: only
\* microtasks away, so its lastUsedAt is too recent to expire.
BeingHanded(id) == \E c \in HeldBy(id) : At(c, "wait") \/ At(c, "got")

Evictable(es, en, id) ==
    /\ en[id].state = "up" /\ es[en[id].key] = id
    /\ en[id].active = 0 /\ en[id].key \notin Pinned

Candidates(es, en) == {i \in Id : Evictable(es, en, i)}

\* lastUsedAt becomes the present time, later than that of any other entry.
Touch(o, id) == {p \in o : p[1] # id} \cup {<<i, id>> : i \in Id \ {id}}

\* disconnectEntry up to its await: the key leaves the pool whatever entry is
\* under it, the bundle begins to close.
Dropped(es, en, id) == [es EXCEPT ![en[id].key] = None]
Closing(en, id) ==
    [en EXCEPT ![id].timer = FALSE,
               ![id].state = IF @ = "up" THEN "closing" ELSE @]

\* One turn of the loop of evictOverflow: of the candidates cs that are left, in the
\* order o they were sorted in, the oldest goes.
EvictFrom(es, en, cs, o, others) ==
    \/ /\ Cardinality(Warm(es, en)) > maxWarm
       /\ \E i \in cs :
             /\ \A j \in cs \ {i} : <<i, j>> \in o
             /\ entries' = Dropped(es, en, i)
             /\ entry' = Closing(en, i)
             /\ loops' = others \cup
                   {[wait |-> i, rest |-> cs \ {i}, order |-> o \cap (cs \ {i}) \X (cs \ {i})]}
    \/ /\ Cardinality(Warm(es, en)) <= maxWarm \/ cs = {}
       /\ entries' = es /\ entry' = en /\ loops' = others

evictOverflow(es, en, o) == EvictFrom(es, en, Candidates(es, en), o, loops)

\* The loop goes on once the bundle it closed is closed; the candidates and their order
\* are those of its start.
EvictNext(l) ==
    /\ entry[l.wait].state # "closing"
    /\ EvictFrom(entries, entry, l.rest, l.order, loops \ {l})
    /\ UNCHANGED <<older, call, calls>>

Closed(id) ==
    /\ entry[id].state = "closing"
    /\ entry' = [entry EXCEPT ![id].state = "closed"]
    /\ UNCHANGED <<entries, older, loops, call, calls>>

-----------------------------------------------------------------------------
(* A call: ensureEntry, then withServer.                                    *)

\* evictExpired: the entries longest idle have passed their ttl; the call goes on
\* when their bundles are closed.
Begin(c) ==
    \E k \in Key, last \in Id \cup {None} :
        LET old == {i \in Candidates(entries, entry) :
                       (i = last \/ <<i, last>> \in older) /\ ~ BeingHanded(i)}
        IN  /\ At(c, "idle") /\ calls < MaxCalls
            /\ calls' = calls + 1
            /\ entries' = [j \in Key |-> IF entries[j] \in old THEN None ELSE entries[j]]
            /\ entry' = [i \in Id |-> IF i \in old
                            THEN [entry[i] EXCEPT !.state = "closing", !.timer = FALSE]
                            ELSE entry[i]]
            /\ call' = [call EXCEPT ![c] =
                  [at |-> "ensure", id |-> None, key |-> k, expired |-> old]]
            /\ UNCHANGED <<older, loops>>

Holding(c, place, id) ==
    [call EXCEPT ![c] = [at |-> place, id |-> id, key |-> call[c].key, expired |-> {}]]

FreshId == CHOOSE i \in Id : entry[i].state = "unused"

ensureEntry(c) ==
    LET k  == call[c].key
        id == entries[k]
    IN  /\ At(c, "ensure")
        /\ \A i \in call[c].expired : entry[i].state = "closed"
        /\ \/ /\ id # None /\ entry[id].state = "up"
              /\ older' = Touch(older, id)
              /\ call' = Holding(c, "got", id)
              /\ UNCHANGED <<entries, entry>>
           \/ /\ id # None /\ entry[id].state = "creating"
              /\ call' = Holding(c, "wait", id)
              /\ UNCHANGED <<entries, entry, older>>
           \/ /\ id = None
              /\ entries' = [entries EXCEPT ![k] = FreshId]
              /\ entry' = [entry EXCEPT ![FreshId] =
                              [key |-> k, state |-> "creating", active |-> 0, timer |-> FALSE]]
              /\ older' = Touch(older, FreshId)
              /\ call' = Holding(c, "wait", FreshId)
        /\ UNCHANGED <<loops, calls>>

\* Wrong on purpose: a new bundle does not evict another.
CreatedUnbounded(id) ==
    /\ entry[id].state = "creating"
    /\ entry' = [entry EXCEPT ![id].state = "up", ![id].timer = entry[id].key \notin Pinned]
    /\ older' = Touch(older, id)
    /\ UNCHANGED <<entries, loops, call, calls>>

\* createBundle resolves: the entry is warm, gets its idle timer, and the
\* overflow is evicted before any waiting call goes on.
Created(id) ==
    /\ entry[id].state = "creating"
    /\ LET en == [entry EXCEPT ![id].state = "up", ![id].timer = entry[id].key \notin Pinned]
           o  == Touch(older, id)
       IN  evictOverflow(entries, en, o) /\ older' = o
    /\ UNCHANGED <<call, calls>>

\* createBundle rejects: the key is free again, the waiting calls fail.
CreateFails(id) ==
    /\ entry[id].state = "creating"
    /\ entries' = Dropped(entries, entry, id)
    /\ entry' = [entry EXCEPT ![id].state = "failed"]
    /\ call' = [c \in Caller |-> IF call[c].id = id THEN NoCall ELSE call[c]]
    /\ UNCHANGED <<older, loops, calls>>

Resume(c) ==
    /\ At(c, "wait") /\ entry[call[c].id].state # "creating"
    /\ call' = [call EXCEPT ![c].at = "got"]
    /\ UNCHANGED <<pool, loops, calls>>

\* The first half of withServer: the entry is counted active; without a bundle
\* the call is bound to fail.
withServer(c) ==
    /\ At(c, "got")
    /\ entry' = [entry EXCEPT ![call[c].id].active = @ + 1, ![call[c].id].timer = FALSE]
    /\ call' = [call EXCEPT ![c].at = IF entry[call[c].id].state = "up" THEN "use" ELSE "refused"]
    /\ UNCHANGED <<entries, older, loops, calls>>

\* Wrong on purpose: a refused call stays counted.
FinishUncounted(c) ==
    /\ At(c, "use") \/ At(c, "refused")
    /\ LET id == call[c].id
           en == [entry EXCEPT ![id].active = IF At(c, "use") THEN @ - 1 ELSE @,
                     ![id].timer = (entry[id].state = "up" /\ entry[id].key \notin Pinned)]
           o  == Touch(older, id)
       IN  evictOverflow(entries, en, o) /\ older' = o
    /\ call' = [call EXCEPT ![c] = NoCall]
    /\ UNCHANGED calls

\* Wrong on purpose: the timer that withServer stopped is not started again.
FinishUntimed(c) ==
    /\ At(c, "use") \/ At(c, "refused")
    /\ LET id == call[c].id
           en == [entry EXCEPT ![id].active = @ - 1]
           o  == Touch(older, id)
       IN  evictOverflow(entries, en, o) /\ older' = o
    /\ call' = [call EXCEPT ![c] = NoCall]
    /\ UNCHANGED calls

\* Its finally block, whether the tool answered, failed, timed out or was refused.
Finish(c) ==
    /\ At(c, "use") \/ At(c, "refused")
    /\ LET id == call[c].id
           en == [entry EXCEPT ![id].active = @ - 1,
                     ![id].timer = (entry[id].state = "up" /\ entry[id].key \notin Pinned)]
           o  == Touch(older, id)
       IN  evictOverflow(entries, en, o) /\ older' = o
    /\ call' = [call EXCEPT ![c] = NoCall]
    /\ UNCHANGED calls

\* Wrong on purpose: a timer that a call started closes the bundle another one uses.
IdleTimerUnchecked(id) ==
    /\ entry[id].timer /\ ~ BeingHanded(id)
    /\ IF entry[id].state # "up"
       THEN entry' = [entry EXCEPT ![id].timer = FALSE] /\ UNCHANGED entries
       ELSE entries' = Dropped(entries, entry, id) /\ entry' = Closing(entry, id)
    /\ UNCHANGED <<older, loops, call, calls>>

\* scheduleIdleDisconnect's timer fires and does not start again.
IdleTimer(id) ==
    /\ entry[id].timer /\ ~ BeingHanded(id)
    /\ IF entry[id].active > 0 \/ entry[id].state # "up"
       THEN entry' = [entry EXCEPT ![id].timer = FALSE] /\ UNCHANGED entries
       ELSE entries' = Dropped(entries, entry, id) /\ entry' = Closing(entry, id)
    /\ UNCHANGED <<older, loops, call, calls>>

-----------------------------------------------------------------------------
Init ==
    /\ entries = [k \in Key |-> None]
    /\ entry = [i \in Id |-> Blank]
    /\ older = {} /\ loops = {}
    /\ call = [c \in Caller |-> NoCall]
    /\ calls = 0

CallStep(c) == Begin(c) \/ ensureEntry(c) \/ Resume(c) \/ withServer(c) \/ Finish(c)

Next ==
    \/ \E c \in Caller : CallStep(c)
    \/ \E i \in Id : Created(i) \/ CreateFails(i) \/ Closed(i) \/ IdleTimer(i)
    \/ \E l \in loops : EvictNext(l)

Spec == Init /\ [][Next]_vars

-----------------------------------------------------------------------------
(* Properties.                                                              *)

\* The pool leads each key to an entry of that key, and activeCount is the number
\* of calls between its increment and the finally block of withServer.
TypeOK ==
    /\ entries \in [Key -> Id \cup {None}]
    /\ \A i \in Id : entry[i].active = Cardinality({c \in HeldBy(i) : At(c, "use") \/ At(c, "refused")})
    /\ \A k \in Key : entries[k] # None => entry[entries[k]].key = k

\* An idle bundle has a timer that will close it.
IdleHasTimer ==
    \A i \in Id : entry[i].state = "up" /\ entry[i].active = 0 /\ entry[i].key \notin Pinned
        => entry[i].timer

\* More bundles than maxWarm are warm only while each of them is pinned or counted
\* active: evictOverflow runs whenever that could change, and the idle bundle it
\* takes first is enough, whatever other evictions are waiting.
OverflowInUse ==
    Cardinality(Warm(entries, entry)) > maxWarm =>
        \A k \in Warm(entries, entry) \ Pinned : entry[entries[k]].active > 0

\* Whatever closes a bundle, a timer, an eviction or its later turns, its server is
\* not pinned and no call is counted active on it; only the turns of an eviction
\* that waited take a bundle that came into use after it was listed.
ClosesOnlyIdle ==
    [][\A i \in Id : entry[i].state = "up" /\ entry'[i].state # "up" =>
          /\ entry[i].key \notin Pinned
          /\ entry'[i].active = 0 \/ \E l \in loops : i \in l.rest]_vars
=============================================================================
