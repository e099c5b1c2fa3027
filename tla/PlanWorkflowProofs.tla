-------------------------- MODULE PlanWorkflowProofs --------------------------
(***************************************************************************)
(* Proofs about PlanWorkflow, for any number of requests, versions, steps, *)
(* tool calls and faults.                                                  *)
(*                                                                         *)
(* PlanInv is the inductive invariant.  It says of every request where its *)
(* current call stands (Placed) and that a call that needs a decision, an  *)
(* approval or a started step either has it behind it or still has the     *)
(* call that brings it before it in its program (Ready); of every log,     *)
(* what its events presuppose (LegalSteps); and of every row, that it      *)
(* shows nothing the log does not hold (Shows).                            *)
(***************************************************************************)
EXTENDS PlanWorkflow, TLAPS, SequenceTheorems, WellFoundedInduction, NaturalsInduction

Words == {"none", "completed", "failed", "rejected", "passed", "needs_replan",
          "plan_approval", "validator_needs_replan", "tool_external_wait"}
Arg == [step : 0 .. Steps, word : Words]

CallType == ActiveCalls \cup RecordCalls
               \cup {"approve", "finish", "ensure", "createRecord", "readRecord", "stream"}

StepTypes == {"startStep", "completeStep", "failStep", "stream"}

\* A call, or an event, with an argument it can have.
LegalCall(c) ==
    /\ c \in [type : CallType, arg : Arg] /\ c = Mk(c.type, c.arg)
    /\ c.type = "ensure" => c = Ensure
    /\ c.type \in StepTypes => \E s \in Step : c.arg = At(s)
    /\ c.type = "finishRecord" => c.arg \in {Word("completed"), Word("failed")}
    /\ c.type = "finish" => c.arg \in {Word("completed"), Word("failed"), Word("rejected")}

LegalEvent(e) ==
    /\ e \in [type : EventTypes, arg : Arg] /\ e = Mk(e.type, e.arg)
    /\ e.type \in {"StepStarted", "StepCompleted", "StepFailed"} => \E s \in Step : e.arg = At(s)
    /\ e.type = "PlanFinished" =>
          e.arg \in {Word("completed"), Word("failed"), Word("rejected")}
    /\ e.type = "PlanApproved" => e.arg = None

LegalLog(log) == log \in Seq([type : EventTypes, arg : Arg]) /\ \A i \in 1 .. Len(log) : LegalEvent(log[i])

Row ==
    [exists : {TRUE}, rev : Nat, status : RowStatus,
     phase : {"approval_gate", "execute_plan", "validate_result", "replan", "finish"},
     current : 0 .. Steps,
     completed : SUBSET Step, failed : SUBSET Step, cursor : 0 .. Steps,
     approved : BOOLEAN, rejected : BOOLEAN, suspend : Words, validator : Words \cup {"pending"}]

Place == {"call", "update_record", "insert", "append", "row", "events", "revision", "update", "done"}

JobRecord ==
    [kind : Kinds, v : Version, arg : Arg, todo : Seq([type : CallType, arg : Arg]),
     at : Place, stage : {"gate", "run", "catch"}, made : Version \cup {0}, beats : Nat,
     expected : RecordStatus, new : Seq([type : EventTypes, arg : Arg]),
     base : Row \cup {NoRow}, seen : Nat, rev : Nat]

-------------------------------------------------------------------------------
(* Lemmas about data *)

LEMMA Smallest ==
    ASSUME NEW S \in SUBSET Nat, S # {}
    PROVE  \E x \in S : \A y \in S : x <= y
<1>1. PICK x \in S : \A y \in S : <<y, x>> \notin OpToRel(<, Nat)
  BY NatLessThanWellFounded, WFMin
<1>2. \A y \in S : ~ (y < x)
  BY <1>1 DEF OpToRel
<1> QED
  BY <1>2

LEMMA Largest ==
    ASSUME NEW n \in Nat, NEW S \in SUBSET (1..n), S # {}
    PROVE  \E x \in S : \A y \in S : y <= x
<1> DEFINE R == {n - y : y \in S}
<1>1. \A y \in S : y \in Int /\ n - y \in Nat
  OBVIOUS
<1>2. R \in SUBSET Nat /\ R # {}
  BY <1>1
<1>3. PICK r \in R : \A q \in R : r <= q
  BY <1>2, Smallest
<1>4. PICK x \in S : r = n - x
  OBVIOUS
<1>5. \A y \in S : n - x <= n - y
  BY <1>3, <1>4
<1> QED
  BY <1>1, <1>5

\* The cursor is the last completed step.
LEMMA CursorIsLast ==
    ASSUME NEW done \in SUBSET Step, done # {}
    PROVE  Cursor(done) \in done /\ \A t \in done : t <= Cursor(done)
<1>1. \E s \in done : \A t \in done : t <= s
  BY PlanAssumption, Largest DEF Step
<1>2. PICK c : c = CHOOSE s \in done : \A t \in done : t <= s
  OBVIOUS
<1>3. c \in done /\ \A t \in done : t <= c
  BY <1>1, <1>2
<1> QED
  BY <1>2, <1>3 DEF Cursor

LEMMA CursorType ==
    ASSUME NEW done \in SUBSET Step
    PROVE  Cursor(done) \in 0 .. Steps
<1>1. CASE done = {}
  BY <1>1, PlanAssumption DEF Cursor
<1>2. CASE done # {}
  <2>1. Cursor(done) \in done
    BY <1>2, CursorIsLast
  <2>2. Cursor(done) \in Step
    BY <2>1
  <2> QED
    BY <2>2, PlanAssumption DEF Step
<1> QED
  BY <1>1, <1>2

-------------------------------------------------------------------------------
(* The projection.  Replay is a recursive function: that it exists is a matter *)
(* of induction on the length of the log, that is of a smallest counterexample. *)

IsReplay(g, state, log, n) ==
    g = [i \in 0 .. n |-> IF i = 0 THEN state ELSE ApplyEvent(g[i - 1], log[i])]

LEMMA ReplayExists ==
    ASSUME NEW state, NEW log, NEW n \in Nat
    PROVE  \E g : IsReplay(g, state, log, n)
<1> DEFINE Bad == {k \in Nat : ~ \E g : IsReplay(g, state, log, k)}
<1> SUFFICES ASSUME Bad # {} PROVE FALSE
  OBVIOUS
<1>1. PICK k \in Bad : \A m \in Bad : k <= m
  <2> HIDE DEF Bad
  <2>1. Bad \subseteq Nat
    BY DEF Bad
  <2> QED
    BY <2>1, Smallest
<1>2. k # 0
  <2>1. IsReplay([i \in 0 .. 0 |-> state], state, log, 0)
    BY DEF IsReplay
  <2> QED
    BY <2>1
<1>3. k - 1 \in Nat /\ ~ (k <= k - 1)
  BY <1>2
<1>4. k - 1 \notin Bad
  BY <1>1, <1>3
<1>5. PICK g : IsReplay(g, state, log, k - 1)
  BY <1>3, <1>4
<1> DEFINE h == [i \in 0 .. k |-> IF i = k THEN ApplyEvent(g[k - 1], log[k]) ELSE g[i]]
<1>6. IsReplay(h, state, log, k)
  <2>1. ASSUME NEW i \in 0 .. k
        PROVE  h[i] = IF i = 0 THEN state ELSE ApplyEvent(h[i - 1], log[i])
    <3>1. CASE i = k
      BY <3>1, <1>2, <1>3
    <3>2. CASE i = 0
      BY <3>2, <1>2, <1>3, <1>5 DEF IsReplay
    <3>3. CASE i # k /\ i # 0
      <4>1. i \in 0 .. k - 1 /\ i - 1 \in 0 .. k /\ i - 1 # k
        BY <3>3
      <4>2. g[i] = ApplyEvent(g[i - 1], log[i])
        BY <1>5, <4>1, <3>3 DEF IsReplay
      <4> QED
        BY <4>1, <4>2, <3>3
    <3> QED
      BY <3>1, <3>2, <3>3
  <2>2. h = [i \in 0 .. k |-> h[i]]
    OBVIOUS
  <2> HIDE DEF h
  <2> QED
    BY <2>1, <2>2 DEF IsReplay
<1> QED
  BY <1>1, <1>6

LEMMA ReplaySteps ==
    ASSUME NEW state, NEW log, Len(log) \in Nat
    PROVE  /\ Replay(state, log)[0] = state
           /\ \A i \in 1 .. Len(log) :
                 Replay(state, log)[i] = ApplyEvent(Replay(state, log)[i - 1], log[i])
<1>1. IsReplay(Replay(state, log), state, log, Len(log))
  <2>1. \E g : IsReplay(g, state, log, Len(log))
    BY ReplayExists
  <2>2. IsReplay(CHOOSE g : IsReplay(g, state, log, Len(log)), state, log, Len(log))
    BY <2>1
  <2> QED
    BY <2>2 DEF Replay, IsReplay
<1> QED
  BY <1>1 DEF IsReplay

\* An event keeps the type of a row.
LEMMA ApplyEventType ==
    ASSUME NEW p \in Row, NEW e, LegalEvent(e)
    PROVE  ApplyEvent(p, e) \in Row
<1>1. CASE e.type = "StepCompleted"
  <2>1. PICK s \in Step : e.arg = At(s)
    BY <1>1 DEF LegalEvent
  <2>2. e.arg.step = s
    BY <2>1 DEF At
  <2>3. p.completed \cup {s} \in SUBSET Step /\ p.failed \ {s} \in SUBSET Step
    BY DEF Row
  <2>4. Cursor(p.completed \cup {s}) \in 0 .. Steps
    BY <2>3, CursorType
  <2>5. 0 \in 0 .. Steps
    BY PlanAssumption
  <2>6. StepCompleted(p, s) \in Row
    BY <2>3, <2>4, <2>5 DEF StepCompleted, Row
  <2> QED
    BY <1>1, <2>2, <2>6 DEF ApplyEvent
<1>2. CASE e.type \in {"StepStarted", "StepFailed"}
  <2>1. PICK s \in Step : e.arg = At(s)
    BY <1>2 DEF LegalEvent
  <2>2. e.arg.step = s
    BY <2>1 DEF At
  <2>3. s \in 0 .. Steps /\ p.failed \cup {s} \in SUBSET Step
    BY PlanAssumption DEF Row, Step
  <2> QED
    BY <1>2, <2>2, <2>3 DEF ApplyEvent, Row, RowStatus
<1>3. CASE e.type = "PlanFinished"
  <2>1. e.arg.word \in RowStatus
    BY <1>3 DEF LegalEvent, Word, RowStatus
  <2> QED
    BY <1>3, <2>1 DEF ApplyEvent, Row
<1>4. CASE e.type \in {"PlanGenerated", "PlanApproved", "Heartbeat"}
  BY <1>4 DEF ApplyEvent, Row, RowStatus
<1>5. CASE e.type \in {"ValidatorReported", "ReplanIssued", "Suspended", "Resumed"}
  <2>1. e.arg.word \in Words
    BY DEF LegalEvent, Arg
  <2>2. CASE e.type = "Suspended"
    BY <2>1, <2>2 DEF ApplyEvent, Row
  <2>3. CASE e.type = "ValidatorReported"
    BY <2>1, <2>3 DEF ApplyEvent, Row
  <2>4. CASE e.type \in {"ReplanIssued", "Resumed"}
    BY <2>4 DEF ApplyEvent, Row, Words
  <2> QED
    BY <1>5, <2>2, <2>3, <2>4
<1> QED
  BY <1>1, <1>2, <1>3, <1>4, <1>5 DEF LegalEvent, EventTypes

\* Every row a replay goes through is a row.
LEMMA ReplayType ==
    ASSUME NEW state \in Row, NEW log, LegalLog(log)
    PROVE  \A i \in 0 .. Len(log) : Replay(state, log)[i] \in Row
<1> DEFINE R == Replay(state, log)
<1>1. Len(log) \in Nat
  BY DEF LegalLog
<1>2. /\ R[0] = state
      /\ \A i \in 1 .. Len(log) : R[i] = ApplyEvent(R[i - 1], log[i])
  BY <1>1, ReplaySteps
<1> HIDE DEF R
<1> DEFINE Bad == {i \in 0 .. Len(log) : R[i] \notin Row}
<1> SUFFICES ASSUME Bad # {} PROVE FALSE
  BY DEF R
<1>3. Bad \in SUBSET Nat
  BY <1>1
<1>4. PICK k \in Bad : \A m \in Bad : k <= m
  <2> HIDE DEF Bad
  <2> QED
    BY <1>3, Smallest
<1>5. k \in 1 .. Len(log) /\ k - 1 \in 0 .. Len(log) /\ ~ (k <= k - 1)
  BY <1>1, <1>2, <1>4
<1>6. R[k - 1] \in Row
  BY <1>4, <1>5
<1>7. LegalEvent(log[k])
  BY <1>5 DEF LegalLog
<1>8. R[k] \in Row
  BY <1>2, <1>5, <1>6, <1>7, ApplyEventType
<1> QED
  BY <1>4, <1>8
-------------------------------------------------------------------------------
(* What a log says *)

HasEvent(log, e) == \E i \in 1 .. Len(log) : log[i] = e

\* The plan was approved, or reported as completed.
Backed(log) ==
    HasEvent(log, Mk("PlanApproved", None)) \/ HasEvent(log, Mk("PlanFinished", Word("completed")))

Begun(log, arg) == HasEvent(log, Mk("StepStarted", arg))

\* A row shows no acceptance and no completed step that the log does not hold.
Shows(p, log) ==
    /\ p.status \in Accepted => Backed(log)
    /\ \A s \in p.completed : HasEvent(log, Mk("StepCompleted", At(s)))

\* log, or a longer one.
Extends(long, log) ==
    /\ Len(log) <= Len(long)
    /\ \A i \in 1 .. Len(log) : long[i] = log[i]

LEMMA ApplyShows ==
    ASSUME NEW log, LegalLog(log), NEW p \in Row, Shows(p, log),
           NEW e, LegalEvent(e), HasEvent(log, e),
           e.type = "StepStarted" => Backed(log)
    PROVE  Shows(ApplyEvent(p, e), log)
<1> USE DEF Shows
<1>1. CASE e.type = "StepCompleted"
  <2>1. PICK s \in Step : e.arg = At(s)
    BY <1>1 DEF LegalEvent
  <2>2. e.arg.step = s
    BY <2>1 DEF At
  <2>3. HasEvent(log, Mk("StepCompleted", At(s)))
    BY <1>1, <2>1 DEF LegalEvent
  <2>4. ApplyEvent(p, e) = StepCompleted(p, s)
    BY <1>1, <2>2 DEF ApplyEvent
  <2>5. /\ StepCompleted(p, s).status = p.status
        /\ StepCompleted(p, s).completed = p.completed \cup {s}
    BY DEF StepCompleted, Row
  <2> QED
    BY <2>3, <2>4, <2>5
<1>2. CASE e.type = "PlanApproved"
  <2>1. Backed(log)
    BY <1>2 DEF LegalEvent, Backed
  <2>2. ApplyEvent(p, e).completed = p.completed
    BY <1>2 DEF ApplyEvent, Row
  <2> QED
    BY <2>1, <2>2
<1>3. CASE e.type = "StepStarted"
  <2>1. ApplyEvent(p, e).completed = p.completed
    BY <1>3 DEF ApplyEvent, Row
  <2> QED
    BY <2>1, <1>3
<1>4. CASE e.type = "PlanFinished"
  <2>1. /\ ApplyEvent(p, e).completed = p.completed
        /\ ApplyEvent(p, e).status = e.arg.word
    BY <1>4 DEF ApplyEvent, Row
  <2>2. CASE e.arg = Word("completed")
    <3>1. Backed(log)
      BY <1>4, <2>2 DEF LegalEvent, Backed
    <3> QED
      BY <2>1, <3>1
  <2>3. CASE e.arg \in {Word("failed"), Word("rejected")}
    <3>1. e.arg.word \notin Accepted
      BY <2>3 DEF Word, Accepted
    <3> QED
      BY <2>1, <3>1
  <2> QED
    BY <1>4, <2>2, <2>3 DEF LegalEvent
<1>5. CASE e.type \in {"PlanGenerated", "StepFailed"}
  <2>1. /\ ApplyEvent(p, e).completed = p.completed
        /\ ApplyEvent(p, e).status \notin Accepted
    BY <1>5 DEF ApplyEvent, Row, Accepted
  <2> QED
    BY <2>1
<1>6. CASE e.type \in {"ValidatorReported", "ReplanIssued", "Suspended", "Resumed", "Heartbeat"}
  <2>1. /\ ApplyEvent(p, e).completed = p.completed
        /\ ApplyEvent(p, e).status = p.status
    BY <1>6 DEF ApplyEvent, Row
  <2> QED
    BY <2>1
<1> QED
  BY <1>1, <1>2, <1>3, <1>4, <1>5, <1>6 DEF LegalEvent, EventTypes

\* A projection of a part of the log, from a state that shows no more than the log
\* holds, shows no more either.
LEMMA ProjectionShows ==
    ASSUME NEW log, LegalLog(log), NEW part, LegalLog(part), Extends(log, part),
           NEW state \in Row,
           \A s \in state.completed : HasEvent(log, Mk("StepCompleted", At(s))),
           \A i \in 1 .. Len(log) : log[i].type = "StepStarted" => Backed(log)
    PROVE  projectWorkflow(state, part) \in Row /\ Shows(projectWorkflow(state, part), log)
<1> DEFINE R == Replay(Afresh(state), part)
<1>1. Len(part) \in Nat /\ Len(log) \in Nat
  BY DEF LegalLog
<1>2. Afresh(state) \in Row
  <2>1. 0 \in 0 .. Steps
    BY PlanAssumption
  <2> QED
    BY <2>1 DEF Afresh, Row, RowStatus
<1>3. Shows(Afresh(state), log)
  <2>1. Afresh(state).completed = state.completed /\ Afresh(state).status = "waiting_approval"
    BY DEF Afresh, Row
  <2> QED
    BY <2>1 DEF Shows, Accepted
<1>4. /\ R[0] = Afresh(state)
      /\ \A i \in 1 .. Len(part) : R[i] = ApplyEvent(R[i - 1], part[i])
  BY <1>1, ReplaySteps
<1>5. \A i \in 0 .. Len(part) : R[i] \in Row
  BY <1>2, ReplayType
<1> HIDE DEF R
<1> DEFINE Bad == {i \in 0 .. Len(part) : ~ Shows(R[i], log)}
<1>6. Bad = {}
  <2> SUFFICES ASSUME Bad # {} PROVE FALSE
    OBVIOUS
  <2>1. Bad \in SUBSET Nat
    BY <1>1
  <2>2. PICK k \in Bad : \A m \in Bad : k <= m
    <3> HIDE DEF Bad
    <3> QED
      BY <2>1, Smallest
  <2>3. k \in 1 .. Len(part) /\ k - 1 \in 0 .. Len(part) /\ ~ (k <= k - 1)
    BY <1>1, <1>3, <1>4, <2>2
  <2>4. Shows(R[k - 1], log)
    BY <2>2, <2>3
  <2>5. LegalEvent(part[k])
    BY <2>3 DEF LegalLog
  <2>6. k \in 1 .. Len(log) /\ part[k] = log[k]
    BY <1>1, <2>3 DEF Extends
  <2>7. HasEvent(log, part[k])
    BY <2>6 DEF HasEvent
  <2>8. part[k].type = "StepStarted" => Backed(log)
    BY <2>6
  <2>9. Shows(R[k], log)
    BY <1>4, <1>5, <2>3, <2>4, <2>5, <2>7, <2>8, ApplyShows
  <2> QED
    BY <2>2, <2>9
<1>7. projectWorkflow(state, part) = R[Len(part)]
  BY DEF projectWorkflow, R
<1>8. Len(part) \in 0 .. Len(part)
  BY <1>1
<1> QED
  BY <1>5, <1>6, <1>7, <1>8

\* What a log holds, a longer one holds.
LEMMA ExtendsKeeps ==
    ASSUME NEW log, NEW long, Extends(long, log), Len(log) \in Nat, Len(long) \in Nat
    PROVE  /\ \A e : HasEvent(log, e) => HasEvent(long, e)
           /\ Backed(log) => Backed(long)
           /\ \A arg : Begun(log, arg) => Begun(long, arg)
           /\ \A p : Shows(p, log) => Shows(p, long)
<1>1. \A e : HasEvent(log, e) => HasEvent(long, e)
  BY DEF HasEvent, Extends
<1>2. Backed(log) => Backed(long)
  BY <1>1 DEF Backed
<1>3. \A arg : Begun(log, arg) => Begun(long, arg)
  BY <1>1 DEF Begun
<1>4. \A p : Shows(p, log) => Shows(p, long)
  BY <1>1, <1>2 DEF Shows
<1> QED
  BY <1>1, <1>2, <1>3, <1>4

-------------------------------------------------------------------------------
(* The invariant *)

\* Somebody decided on the record; it was given to an execution.
Decided(status) == status \notin {"none", "pending_approval"}
Ran(status)     == status \in {"executing", "completed", "failed"}

\* Every call of some types has D behind it, or a call of the other types before it.
Waits(todo, types, D, others) ==
    \A p \in 1 .. Len(todo) : todo[p].type \in types =>
        D \/ \E q \in 1 .. p - 1 : todo[q].type \in others

Ready(j, status, log) ==
    /\ \A p \in 1 .. Len(j.todo) :
          /\ LegalCall(j.todo[p])
          /\ j.todo[p].type \in {"startStep", "stream"} => j.kind = "execute" /\ j.todo[p].arg = j.arg
          /\ j.todo[p].type = "readRecord" => j.kind # "execute"
          /\ j.todo[p].type \in {"completeStep", "failStep"} => Begun(log, j.todo[p].arg)
    /\ Waits(j.todo, {"approve"}, Decided(status), {"approveRecord", "prepareRecord"})
    /\ Waits(j.todo, {"startStep", "stream"}, Ran(status), {"prepareRecord"})
    /\ Waits(j.todo, {"startStep"}, Backed(log), {"approve"})
    /\ Waits(j.todo, {"stream"}, Begun(log, j.arg), {"startStep"})
    /\ j.stage # "gate" => j.kind = "execute" /\ Begun(log, j.arg)
    /\ j.kind = "execute" => \E s \in Step : j.arg = At(s)
    /\ j.kind # "plan" => status # "none"
    /\ j.kind = "plan" => \A p \in 1 .. Len(j.todo) : j.todo[p].type \in {"createRecord", "ensure"}

Target(j) == IF j.kind = "replan" /\ j.made # 0 /\ Head(j.todo) = Ensure THEN j.made ELSE j.v

WorkflowCalls == ActiveCalls \cup {"approve", "finish"}

\* Where a job stands; w and log are those of its target, own is the log of its version.
Placed(j, w, log, own) ==
    /\ j.at # "done" => j.todo # <<>>
    /\ j.at = "update_record" => /\ Head(j.todo).type \in RecordCalls
                                 /\ NextStatus(Head(j.todo), j.expected) \notin {"same", "error"}
    /\ j.at = "insert" => Head(j.todo) = Ensure
    /\ j.at = "append" => /\ Head(j.todo).type \in WorkflowCalls
                          /\ \E word \in Words : j.new = NewEvents(Head(j.todo), [suspend |-> word])
    /\ j.at \in {"append", "row", "events", "revision", "update"} => w.exists
    /\ j.at \in {"row", "events", "revision", "update"} =>
          /\ Head(j.todo).type \in WorkflowCalls \cup {"ensure"}
          /\ Head(j.todo).type = "approve" => Backed(own)
          /\ Head(j.todo).type = "startStep" => Begun(own, j.arg)
    /\ j.at \in {"events", "revision", "update"} =>
          /\ j.base \in Row
          /\ \A s \in j.base.completed : HasEvent(log, Mk("StepCompleted", At(s)))
    /\ j.at \in {"revision", "update"} => j.seen <= Len(log)

JobSafe(j, records, logs, rows) ==
    \/ j = Idle
    \/ /\ j \in JobRecord
       /\ Ready(j, records[j.v], logs[j.v])
       /\ Placed(j, rows[Target(j)], logs[Target(j)], logs[j.v])

\* What a log presupposes.
LegalSteps(log) ==
    \A i \in 1 .. Len(log) :
        /\ log[i].type = "StepStarted" =>
              \E k \in 1 .. i - 1 :
                 log[k] \in {Mk("PlanApproved", None), Mk("PlanFinished", Word("completed"))}
        /\ log[i].type \in {"StepCompleted", "StepFailed"} =>
              \E k \in 1 .. i - 1 : log[k] = Mk("StepStarted", log[i].arg)

LogSafe(v) ==
    /\ LegalLog(events[v]) /\ LegalSteps(events[v])
    /\ \A i \in 1 .. Len(events[v]) :
          /\ events[v][i].type = "PlanApproved" => Decided(record[v])
          /\ events[v][i].type = "StepStarted" => Ran(record[v])
    /\ row[v].exists <=> events[v] # <<>>
    /\ row[v].exists => row[v] \in Row /\ Shows(row[v], events[v])

PlanTypes ==
    /\ record \in [Version -> RecordStatus]
    /\ events \in [Version -> Seq([type : EventTypes, arg : Arg])]
    /\ row \in [Version -> Row \cup {NoRow}]
    /\ job \in [Request -> JobRecord \cup {Idle}]

PlanInv ==
    /\ PlanTypes
    /\ \A v \in Version : LogSafe(v)
    /\ \A r \in Request : JobSafe(job[r], record, events, row)

-------------------------------------------------------------------------------
(* Lemmas about jobs *)

LEMMA WaitsTail ==
    ASSUME NEW C, NEW todo \in Seq(C), todo # <<>>, NEW types, NEW others, NEW D, NEW D2,
           Waits(todo, types, D, others), D => D2, Head(todo).type \in others => D2
    PROVE  Waits(Tail(todo), types, D2, others)
<1>1. /\ Len(todo) \in Nat /\ Len(Tail(todo)) = Len(todo) - 1
      /\ \A p \in 1 .. Len(Tail(todo)) : Tail(todo)[p] = todo[p + 1]
      /\ Head(todo) = todo[1]
  OBVIOUS
<1> SUFFICES ASSUME NEW p \in 1 .. Len(Tail(todo)), Tail(todo)[p].type \in types, ~ D2
             PROVE  \E q \in 1 .. p - 1 : Tail(todo)[q].type \in others
  BY DEF Waits
<1>2. p + 1 \in 1 .. Len(todo) /\ todo[p + 1].type \in types
  BY <1>1
<1>3. PICK q \in 1 .. (p + 1) - 1 : todo[q].type \in others
  BY <1>2 DEF Waits
<1>4. q # 1
  BY <1>1, <1>3
<1>5. q - 1 \in 1 .. p - 1 /\ q - 1 \in 1 .. Len(Tail(todo)) /\ (q - 1) + 1 = q
  BY <1>1, <1>4
<1> QED
  BY <1>1, <1>3, <1>5

LEMMA WaitsKept ==
    ASSUME NEW todo, NEW types, NEW others, NEW D, NEW D2, Waits(todo, types, D, others), D => D2
    PROVE  Waits(todo, types, D2, others)
BY DEF Waits

LEMMA ReadyKept ==
    ASSUME NEW j, NEW status, NEW log, NEW status2, NEW log2,
           Ready(j, status, log),
           Decided(status) => Decided(status2), Ran(status) => Ran(status2),
           status # "none" => status2 # "none",
           Extends(log2, log), Len(log) \in Nat, Len(log2) \in Nat
    PROVE  Ready(j, status2, log2)
<1>1. /\ Backed(log) => Backed(log2)
      /\ \A arg : Begun(log, arg) => Begun(log2, arg)
  BY ExtendsKeeps
<1> QED
  BY <1>1, WaitsKept DEF Ready

\* The call at the head is done.
LEMMA ReadyAfterCall ==
    ASSUME NEW j \in JobRecord, NEW status, NEW log, Ready(j, status, log), j.todo # <<>>,
           Head(j.todo).type \in {"approveRecord", "prepareRecord"} => Decided(status),
           Head(j.todo).type = "prepareRecord" => Ran(status),
           Head(j.todo).type = "approve" => Backed(log),
           Head(j.todo).type = "startStep" => Begun(log, j.arg)
    PROVE  /\ AfterCall(j) \in JobRecord
           /\ Ready(AfterCall(j), status, log)
           /\ AfterCall(j).at \in {"call", "done"}
           /\ AfterCall(j).at = "call" => AfterCall(j).todo # <<>>
<1>1. /\ j.todo \in Seq([type : CallType, arg : Arg])
      /\ Tail(j.todo) \in Seq([type : CallType, arg : Arg])
      /\ Len(j.todo) \in Nat /\ Len(Tail(j.todo)) = Len(j.todo) - 1
      /\ \A p \in 1 .. Len(Tail(j.todo)) : p + 1 \in 1 .. Len(j.todo) /\ Tail(j.todo)[p] = j.todo[p + 1]
  BY DEF JobRecord
<1>2. /\ AfterCall(j).todo = Tail(j.todo)
      /\ AfterCall(j).at = IF Len(j.todo) = 1 THEN "done" ELSE "call"
      /\ AfterCall(j).kind = j.kind /\ AfterCall(j).arg = j.arg /\ AfterCall(j).stage = j.stage
  BY DEF AfterCall, JobRecord
<1>3. AfterCall(j) \in JobRecord
  BY <1>1 DEF AfterCall, JobRecord, Place
<1>4. Waits(Tail(j.todo), {"approve"}, Decided(status), {"approveRecord", "prepareRecord"})
  BY <1>1, WaitsTail DEF Ready
<1>5. Waits(Tail(j.todo), {"startStep", "stream"}, Ran(status), {"prepareRecord"})
  BY <1>1, WaitsTail DEF Ready
<1>6. Waits(Tail(j.todo), {"startStep"}, Backed(log), {"approve"})
  BY <1>1, WaitsTail DEF Ready
<1>7. Waits(Tail(j.todo), {"stream"}, Begun(log, j.arg), {"startStep"})
  BY <1>1, WaitsTail DEF Ready
<1>8. Ready(AfterCall(j), status, log)
  BY <1>1, <1>2, <1>4, <1>5, <1>6, <1>7 DEF Ready
<1>9. ASSUME Len(j.todo) # 1 PROVE Tail(j.todo) # <<>>
  <2>1. Len(Tail(j.todo)) # 0
    BY <1>1, <1>9
  <2>2. Len(<<>>) = 0
    OBVIOUS
  <2> QED
    BY <2>1, <2>2, Zenon
<1> QED
  BY <1>2, <1>3, <1>8, <1>9, Zenon

\* A program of one call.
LEMMA OneCall ==
    ASSUME NEW c, LegalCall(c)
    PROVE  /\ <<c>> \in Seq([type : CallType, arg : Arg])
           /\ <<c>> # <<>> /\ Len(<<c>>) = 1 /\ <<c>>[1] = c
<1>1. c \in [type : CallType, arg : Arg]
  BY DEF LegalCall
<1>2. Len(<<c>>) = 1 /\ Len(<<>>) = 0
  OBVIOUS
<1>3. <<c>> # <<>>
  BY <1>2, Zenon
<1> QED
  BY <1>1, <1>2, <1>3

LEMMA ReadyOne ==
    ASSUME NEW f, NEW status, NEW log, NEW c, LegalCall(c), f.todo = <<c>>,
           c.type \notin {"approve", "startStep", "stream", "readRecord"},
           c.type \in {"completeStep", "failStep"} => Begun(log, c.arg),
           f.stage # "gate" => Begun(log, f.arg),
           f.kind = "execute" /\ \E s \in Step : f.arg = At(s), status # "none"
    PROVE  Ready(f, status, log)
<1>1. \A p \in 1 .. Len(f.todo) : f.todo[p] = c
  BY OneCall
<1>2. \A types, others : c.type \notin types => \A D : Waits(f.todo, types, D, others)
  BY <1>1 DEF Waits
<1> QED
  BY <1>1, <1>2 DEF Ready

-------------------------------------------------------------------------------
(* How the stores change *)

\* The decisions on a record stay, logs grow, rows stay.
Grows ==
    \A v \in Version :
        /\ Decided(record[v]) => Decided(record'[v])
        /\ Ran(record[v]) => Ran(record'[v])
        /\ record[v] # "none" => record'[v] # "none"
        /\ Len(events'[v]) \in Nat /\ Extends(events'[v], events[v])
        /\ row[v].exists => row'[v].exists

LEMMA JobKept ==
    ASSUME PlanInv, Grows, NEW j, JobSafe(j, record, events, row)
    PROVE  JobSafe(j, record', events', row')
<1>1. CASE j = Idle
  BY <1>1 DEF JobSafe
<1>2. CASE j # Idle
  <2>1. /\ j \in JobRecord
        /\ Ready(j, record[j.v], events[j.v])
        /\ Placed(j, row[Target(j)], events[Target(j)], events[j.v])
    BY <1>2 DEF JobSafe
  <2>2. j.v \in Version /\ Target(j) \in Version
    BY <2>1 DEF JobRecord, Target
  <2>3. \A v \in Version : Len(events[v]) \in Nat
    BY DEF PlanInv, PlanTypes
  <2>4. Ready(j, record'[j.v], events'[j.v])
    BY <2>1, <2>2, <2>3, ReadyKept DEF Grows
  <2>5. \A v \in Version :
           /\ Backed(events[v]) => Backed(events'[v])
           /\ \A arg : Begun(events[v], arg) => Begun(events'[v], arg)
           /\ \A e : HasEvent(events[v], e) => HasEvent(events'[v], e)
           /\ Len(events[v]) <= Len(events'[v])
    BY <2>3, ExtendsKeeps DEF Grows, Extends
  <2>6. row[Target(j)].exists => row'[Target(j)].exists
    BY <2>2 DEF Grows
  <2>7. \A n \in Nat : n <= Len(events[Target(j)]) => n <= Len(events'[Target(j)])
    BY <2>2, <2>3, <2>5 DEF Grows
  <2>8. j.seen \in Nat
    BY <2>1 DEF JobRecord
  <2>9. Placed(j, row'[Target(j)], events'[Target(j)], events'[j.v])
    BY <2>1, <2>2, <2>5, <2>6, <2>7, <2>8 DEF Placed
  <2> QED
    BY <2>1, <2>4, <2>9 DEF JobSafe
<1> QED
  BY <1>1, <1>2

\* What an action has to show: the stores stay right and grow, and the job of the
\* request that acts is right.
LEMMA StepKeeps ==
    ASSUME PlanInv, NEW r \in Request, NEW j, job' = [job EXCEPT ![r] = j],
           Grows, (record \in [Version -> RecordStatus])',
           (events \in [Version -> Seq([type : EventTypes, arg : Arg])])',
           (row \in [Version -> Row \cup {NoRow}])',
           \A v \in Version : LogSafe(v)',
           JobSafe(j, record', events', row')
    PROVE  PlanInv'
<1>1. ASSUME NEW q \in Request PROVE JobSafe(job'[q], record', events', row')
  <2>1. CASE q # r
    <3>1. JobSafe(job[q], record, events, row)
      BY DEF PlanInv
    <3>2. JobSafe(job[q], record', events', row')
      BY <3>1, JobKept
    <3> QED
      BY <2>1, <3>2 DEF PlanInv, PlanTypes
  <2>2. CASE q = r
    BY <2>2 DEF PlanInv, PlanTypes
  <2> QED
    BY <2>1, <2>2
<1>2. j \in JobRecord \cup {Idle}
  BY DEF JobSafe
<1>3. job' \in [Request -> JobRecord \cup {Idle}]
  BY <1>2 DEF PlanInv, PlanTypes
<1>4. PlanTypes'
  BY <1>3 DEF PlanTypes
<1> QED
  BY <1>1, <1>4 DEF PlanInv

\* Of an action that leaves the stores alone, only the second.
LEMMA JobStepKeeps ==
    ASSUME PlanInv, UNCHANGED <<record, events, row>>,
           NEW r \in Request, NEW j, job' = [job EXCEPT ![r] = j],
           JobSafe(j, record, events, row)
    PROVE  PlanInv'
<1>1. Grows
  BY DEF Grows, Extends, PlanInv, PlanTypes
<1>2. \A v \in Version : LogSafe(v)'
  BY DEF PlanInv, LogSafe
<1>3. /\ (record \in [Version -> RecordStatus])'
      /\ (events \in [Version -> Seq([type : EventTypes, arg : Arg])])'
      /\ (row \in [Version -> Row \cup {NoRow}])'
  BY DEF PlanInv, PlanTypes
<1>4. JobSafe(j, record', events', row')
  BY Zenon
<1> QED
  BY <1>1, <1>2, <1>3, <1>4, StepKeeps

\* A busy request has a job that is right.
LEMMA BusyJob ==
    ASSUME PlanInv, NEW r \in Request, Busy(r)
    PROVE  /\ job[r] \in JobRecord
           /\ job[r].v \in Version /\ Target(job[r]) \in Version
           /\ Ready(job[r], record[job[r].v], events[job[r].v])
           /\ Placed(job[r], row[Target(job[r])], events[Target(job[r])], events[job[r].v])
<1>1. job[r] # Idle
  BY DEF Busy, Idle
<1>2. JobSafe(job[r], record, events, row)
  BY DEF PlanInv
<1>3. job[r] \in JobRecord
  BY <1>1, <1>2 DEF JobSafe
<1>4. job[r].v \in Version /\ Target(job[r]) \in Version
  BY <1>3 DEF JobRecord, Target
<1> QED
  BY <1>1, <1>2, <1>3, <1>4 DEF JobSafe

\* A call throws.
LEMMA FailedSafe ==
    ASSUME PlanInv, NEW r \in Request, Busy(r)
    PROVE  JobSafe(Failed(job[r]), record, events, row)
<1> DEFINE j == job[r]
<1> DEFINE todo == <<Mk("failStep", j.arg)>>
<1>1. /\ j \in JobRecord /\ Ready(j, record[j.v], events[j.v])
  BY BusyJob
<1>2. CASE j.kind = "execute" /\ j.stage = "run"
  <2> DEFINE f == [j EXCEPT !.stage = "catch", !.at = "call", !.todo = todo]
  <2>1. Failed(j) = f
    BY <1>2 DEF Failed
  <2>2. LegalCall(Mk("failStep", j.arg))
    <3>1. PICK s \in Step : j.arg = At(s)
      BY <1>1, <1>2 DEF Ready
    <3>2. j.arg \in Arg
      BY <1>1 DEF JobRecord
    <3> QED
      BY <3>1, <3>2 DEF LegalCall, Mk, CallType, ActiveCalls, StepTypes
  <2>3. Mk("failStep", j.arg).type = "failStep" /\ Mk("failStep", j.arg).arg = j.arg
    BY DEF Mk
  <2>4. todo \in Seq([type : CallType, arg : Arg]) /\ todo # <<>>
    BY <2>2, OneCall
  <2>5. /\ f \in JobRecord
        /\ f.todo = <<Mk("failStep", j.arg)>> /\ f.kind = j.kind /\ f.arg = j.arg /\ f.v = j.v
        /\ f.stage = "catch" /\ f.at = "call"
    <3> HIDE DEF todo
    <3>1. f \in JobRecord
      BY <1>1, <2>4 DEF JobRecord, Place
    <3>2. /\ f.todo = todo /\ f.kind = j.kind /\ f.arg = j.arg /\ f.v = j.v
          /\ f.stage = "catch" /\ f.at = "call"
      BY <1>1 DEF JobRecord
    <3> QED
      BY <3>1, <3>2 DEF todo
  <2>6. Begun(events[j.v], j.arg)
    BY <1>1, <1>2 DEF Ready
  <2>7. j.kind = "execute" /\ (\E s \in Step : j.arg = At(s)) /\ record[j.v] # "none"
    BY <1>1, <1>2 DEF Ready
  <2>8. f.todo # <<>>
    BY <2>4, <2>5
  <2> HIDE DEF f, todo
  <2>9. Ready(f, record[f.v], events[f.v])
    BY <2>2, <2>3, <2>5, <2>6, <2>7, ReadyOne
  <2> QED
    BY <2>1, <2>5, <2>8, <2>9 DEF JobSafe, Placed
<1>3. CASE ~ (j.kind = "execute" /\ j.stage = "run")
  BY <1>3 DEF Failed, JobSafe
<1> QED
  BY <1>2, <1>3

\* The current call is done, without a change of the stores.
LEMMA AfterSafe ==
    ASSUME PlanInv, NEW r \in Request, Running(r),
           Call(r).type \in {"approveRecord", "prepareRecord"} => Decided(record[job[r].v]),
           Call(r).type = "prepareRecord" => Ran(record[job[r].v]),
           Call(r).type = "approve" => Backed(events[job[r].v]),
           Call(r).type = "startStep" => Begun(events[job[r].v], job[r].arg)
    PROVE  JobSafe(AfterCall(job[r]), record, events, row)
<1> DEFINE j == job[r]
<1>1. /\ j \in JobRecord /\ Ready(j, record[j.v], events[j.v]) /\ j.todo # <<>>
  BY BusyJob DEF Running, Placed
<1>2. /\ AfterCall(j) \in JobRecord
      /\ Ready(AfterCall(j), record[j.v], events[j.v])
      /\ AfterCall(j).at \in {"call", "done"}
      /\ AfterCall(j).at = "call" => AfterCall(j).todo # <<>>
  BY <1>1, ReadyAfterCall DEF Call
<1>3. AfterCall(j).v = j.v
  BY <1>1 DEF AfterCall, JobRecord
<1> HIDE DEF j
<1>4. JobSafe(AfterCall(j), record, events, row)
  BY <1>2, <1>3 DEF JobSafe, Placed
<1> QED
  BY <1>4 DEF j

-------------------------------------------------------------------------------
(* Every action keeps the invariant: the requests *)

LEMMA ReadySame ==
    ASSUME NEW j, NEW f, NEW status, NEW log, Ready(j, status, log),
           f.todo = j.todo, f.kind = j.kind, f.arg = j.arg, f.stage = j.stage
    PROVE  Ready(f, status, log)
BY DEF Ready

LEMMA NextStatusRuns ==
    ASSUME NEW c, c.type \in RecordCalls, LegalCall(c), NEW status \in RecordStatus,
           NextStatus(c, status) \notin {"same", "error"}
    PROVE  /\ NextStatus(c, status) \in RecordStatus
           /\ Decided(NextStatus(c, status))
           /\ Ran(status) => Ran(NextStatus(c, status))
           /\ c.type = "prepareRecord" => Ran(NextStatus(c, status))
<1>1. CASE c.type = "approveRecord"
  BY <1>1 DEF NextStatus, RecordStatus, Decided, Ran, Accepted
<1>2. CASE c.type = "rejectRecord"
  BY <1>2 DEF NextStatus, RecordStatus, Decided, Ran
<1>3. CASE c.type = "finishRecord"
  <2>1. c.arg.word \in {"completed", "failed"}
    BY <1>3 DEF LegalCall, Word
  <2> QED
    BY <1>3, <2>1 DEF NextStatus, RecordStatus, Decided, Ran
<1>4. CASE c.type = "prepareRecord"
  BY <1>4 DEF NextStatus, RecordStatus, Decided, Ran
<1> QED
  BY <1>1, <1>2, <1>3, <1>4 DEF RecordCalls

\* The call at the head is a legal one.
LEMMA HeadIsLegal ==
    ASSUME PlanInv, NEW r \in Request, Running(r)
    PROVE  /\ LegalCall(Call(r)) /\ Call(r) = job[r].todo[1] /\ 1 \in 1 .. Len(job[r].todo)
           /\ job[r].todo # <<>> /\ job[r].todo \in Seq([type : CallType, arg : Arg])
<1>1. /\ job[r] \in JobRecord /\ Ready(job[r], record[job[r].v], events[job[r].v])
      /\ job[r].todo # <<>>
  BY BusyJob DEF Running, Placed
<1>2. job[r].todo \in Seq([type : CallType, arg : Arg])
  BY <1>1 DEF JobRecord
<1>3. Head(job[r].todo) = job[r].todo[1] /\ 1 \in 1 .. Len(job[r].todo)
  BY <1>1, <1>2
<1> QED
  BY <1>1, <1>2, <1>3 DEF Call, Ready

LEMMA ReadRecordKeeps ==
    ASSUME PlanInv, NEW r \in Request, ReadRecord(r)
    PROVE  PlanInv'
<1> DEFINE j == job[r]
           status == record[j.v]
           next == NextStatus(Call(r), status)
<1>1. /\ Running(r) /\ Busy(r) /\ Call(r).type \in RecordCalls
      /\ UNCHANGED <<record, events, row>>
  BY DEF ReadRecord, Running
<1>2. /\ j \in JobRecord /\ j.v \in Version /\ Ready(j, record[j.v], events[j.v]) /\ j.todo # <<>>
  BY <1>1, BusyJob, HeadIsLegal
<1>3. status \in RecordStatus
  BY <1>2 DEF PlanInv, PlanTypes
<1>4. CASE next = "same"
  <2>1. Call(r).type = "approveRecord" => Decided(status)
    BY <1>3, <1>4 DEF NextStatus, Decided, Accepted, RecordStatus
  <2>2. Call(r).type = "prepareRecord" => Decided(status) /\ Ran(status)
    BY <1>3, <1>4 DEF NextStatus, Decided, Ran, RecordStatus
  <2>3. Call(r).type \notin {"approve", "startStep"}
    BY <1>1 DEF RecordCalls
  <2>4. JobSafe(AfterCall(job[r]), record, events, row)
    BY <1>1, <2>1, <2>2, <2>3, AfterSafe
  <2>5. job' = [job EXCEPT ![r] = AfterCall(job[r])]
    BY <1>4 DEF ReadRecord, Advance
  <2> QED
    BY <1>1, <2>4, <2>5, JobStepKeeps
<1>5. CASE next = "error"
  <2>1. job' = [job EXCEPT ![r] = Failed(job[r])]
    BY <1>5 DEF ReadRecord, Throw
  <2> QED
    BY <1>1, <2>1, FailedSafe, JobStepKeeps
<1>6. CASE next \notin {"same", "error"}
  <2> DEFINE f == [j EXCEPT !.at = "update_record", !.expected = status]
  <2>1. job' = [job EXCEPT ![r] = f]
    BY <1>6 DEF ReadRecord, PlanInv, PlanTypes
  <2>2. f \in JobRecord
    BY <1>2, <1>3 DEF JobRecord, Place
  <2>3. /\ f.todo = j.todo /\ f.kind = j.kind /\ f.arg = j.arg /\ f.v = j.v
        /\ f.stage = j.stage /\ f.at = "update_record" /\ f.expected = status
    BY <1>2 DEF JobRecord
  <2> HIDE DEF f
  <2>4. Ready(f, record[f.v], events[f.v])
    BY <1>2, <2>3, ReadySame
  <2>5. Head(f.todo) = Call(r)
    BY <2>3 DEF Call
  <2>6. JobSafe(f, record, events, row)
    BY <1>1, <1>2, <1>6, <2>2, <2>3, <2>4, <2>5 DEF JobSafe, Placed
  <2> QED
    BY <1>1, <2>1, <2>6, JobStepKeeps
<1> QED
  BY <1>4, <1>5, <1>6

LEMMA UpdatePlanStatusKeeps ==
    ASSUME PlanInv, NEW r \in Request, updatePlanStatus(r)
    PROVE  PlanInv'
<1> DEFINE j == job[r]
           next == NextStatus(Call(r), j.expected)
<1>1. Running(r) /\ Busy(r) /\ UNCHANGED <<events, row>> /\ j.at = "update_record"
  BY DEF updatePlanStatus, Running
<1>2. /\ j \in JobRecord /\ j.v \in Version /\ Ready(j, record[j.v], events[j.v]) /\ j.todo # <<>>
      /\ LegalCall(Call(r))
  BY <1>1, BusyJob, HeadIsLegal
<1>3. CASE record[j.v] # j.expected
  <2>1. job' = [job EXCEPT ![r] = Failed(job[r])] /\ UNCHANGED record
    BY <1>3 DEF updatePlanStatus, Throw
  <2> QED
    BY <1>1, <2>1, FailedSafe, JobStepKeeps
<1>4. CASE record[j.v] = j.expected
  <2>1. record' = [record EXCEPT ![j.v] = next] /\ job' = [job EXCEPT ![r] = AfterCall(job[r])]
    BY <1>4 DEF updatePlanStatus, Advance
  <2>2. Call(r).type \in RecordCalls /\ next \notin {"same", "error"}
    BY <1>1, BusyJob DEF Placed, Call
  <2>3. j.expected \in RecordStatus
    BY <1>2 DEF JobRecord
  <2>4. /\ next \in RecordStatus /\ Decided(next)
        /\ Ran(j.expected) => Ran(next)
        /\ Call(r).type = "prepareRecord" => Ran(next)
    BY <1>2, <2>2, <2>3, NextStatusRuns
  <2>5. /\ record' \in [Version -> RecordStatus] /\ record'[j.v] = next
        /\ \A v \in Version : /\ Decided(record[v]) => Decided(record'[v])
                              /\ Ran(record[v]) => Ran(record'[v])
                              /\ record[v] # "none" => record'[v] # "none"
    <3>1. record \in [Version -> RecordStatus] /\ j.v \in Version
      BY <1>2 DEF PlanInv, PlanTypes
    <3>2. Decided(next) /\ (Ran(record[j.v]) => Ran(next)) /\ next \in RecordStatus /\ next # "none"
      BY <1>4, <2>4 DEF Decided
    <3> HIDE DEF next, j
    <3>3. record'[j.v] = next /\ \A v \in Version : v # j.v => record'[v] = record[v]
      BY <2>1, <3>1 DEF j
    <3>4. record' \in [Version -> RecordStatus]
      BY <2>1, <3>1, <3>2
    <3> QED
      BY <3>1, <3>2, <3>3, <3>4
  <2>6. Grows
    BY <1>1, <2>5 DEF Grows, Extends, PlanInv, PlanTypes
  <2>7. \A v \in Version : LogSafe(v)'
    BY <1>1, <2>5 DEF PlanInv, LogSafe
  <2>8. Ready(j, record'[j.v], events[j.v])
    BY <1>1, <1>2, <2>6, ReadyKept DEF Grows, PlanInv, PlanTypes
  <2>9. /\ AfterCall(j) \in JobRecord
        /\ Ready(AfterCall(j), record'[j.v], events[j.v])
        /\ AfterCall(j).at \in {"call", "done"}
        /\ AfterCall(j).at = "call" => AfterCall(j).todo # <<>>
    <3>1. /\ Head(j.todo).type \notin {"approve", "startStep"}
          /\ Head(j.todo).type = "prepareRecord" => Ran(record'[j.v])
          /\ Decided(record'[j.v])
      BY <2>2, <2>4, <2>5 DEF Call, RecordCalls
    <3> HIDE DEF j
    <3>2. j \in JobRecord /\ j.todo # <<>>
      BY <1>2
    <3> QED
      BY <2>8, <3>1, <3>2, ReadyAfterCall
  <2>10. AfterCall(j).v = j.v
    BY <1>2 DEF AfterCall, JobRecord
  <2>11. JobSafe(AfterCall(job[r]), record', events', row')
    <3> HIDE DEF j
    <3>1. JobSafe(AfterCall(j), record', events', row')
      BY <1>1, <2>9, <2>10 DEF JobSafe, Placed
    <3> QED
      BY <3>1 DEF j
  <2>12. /\ (record \in [Version -> RecordStatus])'
         /\ (events \in [Version -> Seq([type : EventTypes, arg : Arg])])'
         /\ (row \in [Version -> Row \cup {NoRow}])'
    BY <1>1, <2>5 DEF PlanInv, PlanTypes
  <2> QED
    BY <2>1, <2>6, <2>7, <2>11, <2>12, StepKeeps
<1> QED
  BY <1>3, <1>4

LEMMA CreatePendingPlanKeeps ==
    ASSUME PlanInv, NEW r \in Request, createPendingPlan(r)
    PROVE  PlanInv'
<1> DEFINE j == job[r]
<1>1. /\ Running(r) /\ Busy(r) /\ UNCHANGED <<events, row>>
      /\ Call(r).type = "createRecord"
  BY DEF createPendingPlan, Running
<1>2. /\ j \in JobRecord /\ j.v \in Version /\ Ready(j, record[j.v], events[j.v]) /\ j.todo # <<>>
  BY <1>1, BusyJob, HeadIsLegal
<1>3. PICK v \in Version :
         /\ {u \in Version : record[u] # "none"} = 1 .. v - 1
         /\ record' = [record EXCEPT ![v] = "pending_approval"]
         /\ job' = [job EXCEPT ![r] = [AfterCall(job[r]) EXCEPT
                        !.made = v, !.v = IF job[r].kind = "plan" THEN v ELSE @]]
  BY DEF createPendingPlan
<1>4. record[v] = "none"
  <2>1. v \in Int /\ v \notin 1 .. v - 1
    BY PlanAssumption DEF Version
  <2> QED
    BY <1>3, <2>1
<1>5. record \in [Version -> RecordStatus]
  BY DEF PlanInv, PlanTypes
<1>6. record'[v] = "pending_approval" /\ \A u \in Version : u # v => record'[u] = record[u]
  BY <1>3, <1>5
<1>7. \A u \in Version : /\ Decided(record[u]) => Decided(record'[u])
                         /\ Ran(record[u]) => Ran(record'[u])
                         /\ record[u] # "none" => record'[u] # "none"
  <2>1. ~ Decided(record[v]) /\ ~ Ran(record[v])
    BY <1>4 DEF Decided, Ran
  <2> QED
    BY <1>6, <2>1
<1>8. Grows
  BY <1>1, <1>7 DEF Grows, Extends, PlanInv, PlanTypes
<1>9. \A u \in Version : LogSafe(u)'
  BY <1>1, <1>7 DEF PlanInv, LogSafe
<1> DEFINE a == AfterCall(j)
           f == [a EXCEPT !.made = v, !.v = IF j.kind = "plan" THEN v ELSE @]
<1>10. job' = [job EXCEPT ![r] = f]
  BY <1>3
<1>11. /\ a \in JobRecord /\ Ready(a, record[j.v], events[j.v])
       /\ a.at \in {"call", "done"} /\ (a.at = "call" => a.todo # <<>>)
  <2>1. Head(j.todo).type \notin {"approveRecord", "prepareRecord", "approve", "startStep"}
    BY <1>1 DEF Call
  <2>2. j \in JobRecord /\ Ready(j, record[j.v], events[j.v]) /\ j.todo # <<>>
    BY <1>2
  <2> HIDE DEF j
  <2> QED
    BY <2>1, <2>2, ReadyAfterCall
<1>12. a.v = j.v /\ a.kind = j.kind
  BY <1>2 DEF AfterCall, JobRecord
<1>13. Ready(a, record'[j.v], events'[j.v])
  BY <1>1, <1>2, <1>8, <1>11, ReadyKept DEF Grows, PlanInv, PlanTypes
<1> HIDE DEF a
<1>14. /\ f \in JobRecord
       /\ f.todo = a.todo /\ f.kind = a.kind /\ f.arg = a.arg /\ f.stage = a.stage /\ f.at = a.at
       /\ f.v = IF j.kind = "plan" THEN v ELSE a.v
  BY <1>2, <1>11 DEF JobRecord
<1> HIDE DEF f
<1>15. Ready(f, record'[f.v], events'[f.v])
  <2>1. CASE j.kind # "plan"
    BY <1>12, <1>13, <1>14, <2>1, ReadySame
  <2>2. CASE j.kind = "plan"
    <3>1. \A p \in 1 .. Len(f.todo) : LegalCall(f.todo[p]) /\ f.todo[p].type \in {"createRecord", "ensure"}
      BY <1>11, <1>12, <1>14, <2>2 DEF Ready
    <3>2. f.stage = "gate" /\ f.kind = "plan"
      BY <1>11, <1>12, <1>14, <2>2 DEF Ready
    <3> QED
      BY <3>1, <3>2 DEF Ready, Waits
  <2> QED
    BY <2>1, <2>2
<1>16. JobSafe(f, record', events', row')
  BY <1>11, <1>14, <1>15 DEF JobSafe, Placed
<1>17. /\ (record \in [Version -> RecordStatus])'
       /\ (events \in [Version -> Seq([type : EventTypes, arg : Arg])])'
       /\ (row \in [Version -> Row \cup {NoRow}])'
  BY <1>1, <1>3, <1>5 DEF PlanInv, PlanTypes, RecordStatus
<1> QED
  BY <1>8, <1>9, <1>10, <1>16, <1>17, StepKeeps

\* The program of a request that approves the workflow of its record again.
Again(todo) == <<Ensure>> \o Approve \o SubSeq(todo, 3, Len(todo))

LEMMA AgainCalls ==
    ASSUME NEW C, NEW todo \in Seq(C), Ensure \in C, Mk("approve", None) \in C
    PROVE  /\ Again(todo) \in Seq(C) /\ Again(todo) # <<>>
           /\ \A p \in 1 .. Len(Again(todo)) :
                 \/ Again(todo)[p] \in {Ensure, Mk("approve", None)}
                 \/ \E q \in 1 .. Len(todo) : Again(todo)[p] = todo[q]
<1> DEFINE rest == SubSeq(todo, 3, Len(todo))
           first == <<Ensure>> \o Approve
           more == Again(todo)
<1>1. /\ rest \in Seq(C) /\ Len(rest) \in Nat
      /\ \A p \in 1 .. Len(rest) : p + 2 \in 1 .. Len(todo) /\ rest[p] = todo[p + 2]
  OBVIOUS
<1>2. /\ first \in Seq(C) /\ Len(first) = 3
      /\ \A p \in 1 .. 3 : first[p] \in {Ensure, Mk("approve", None)}
  BY DEF Approve
<1>3. more = first \o rest
  BY DEF Again
<1> HIDE DEF rest, first, more
<1>4. /\ first \o rest \in Seq(C) /\ Len(first \o rest) = Len(first) + Len(rest)
      /\ \A p \in 1 .. Len(first) + Len(rest) :
            (first \o rest)[p] = IF p <= Len(first) THEN first[p] ELSE rest[p - Len(first)]
  <2>1. first \in Seq(C) /\ rest \in Seq(C)
    BY <1>1, <1>2
  <2> QED
    BY <2>1, ConcatProperties, Zenon
<1>5. /\ more \in Seq(C) /\ Len(more) = Len(first) + Len(rest)
      /\ \A p \in 1 .. Len(first) + Len(rest) :
            more[p] = IF p <= Len(first) THEN first[p] ELSE rest[p - Len(first)]
  BY <1>3, <1>4, Zenon
<1>6. more # <<>>
  <2>1. Len(more) # 0
    BY <1>1, <1>2, <1>5
  <2>2. Len(<<>>) = 0
    OBVIOUS
  <2> QED
    BY <2>1, <2>2, Zenon
<1>7. ASSUME NEW p \in 1 .. Len(more)
      PROVE  \/ more[p] \in {Ensure, Mk("approve", None)}
             \/ \E q \in 1 .. Len(todo) : more[p] = todo[q]
  <2>1. CASE p <= 3
    BY <1>1, <1>2, <1>5, <2>1
  <2>2. CASE ~ (p <= 3)
    <3>1. more[p] = rest[p - 3] /\ p - 3 \in 1 .. Len(rest)
      BY <1>1, <1>2, <1>5, <2>2
    <3> QED
      BY <1>1, <3>1
  <2> QED
    BY <2>1, <2>2
<1> QED
  BY <1>5, <1>6, <1>7 DEF more

LEMMA GetPlanKeeps ==
    ASSUME PlanInv, NEW r \in Request, getPlan(r)
    PROVE  PlanInv'
<1> DEFINE j == job[r]
           more == Again(j.todo)
<1>1. /\ Running(r) /\ Busy(r) /\ UNCHANGED <<record, events, row>>
      /\ Call(r).type = "readRecord"
  BY DEF getPlan, Running
<1>2. /\ j \in JobRecord /\ j.v \in Version /\ Ready(j, record[j.v], events[j.v])
      /\ j.todo # <<>> /\ j.todo \in Seq([type : CallType, arg : Arg])
  BY <1>1, BusyJob, HeadIsLegal
<1>3. CASE record[j.v] \in {"pending_approval", "rejected"}
  <2>1. job' = [job EXCEPT ![r] = [AfterCall(job[r]) EXCEPT !.todo = Tail(job[r].todo)]]
    BY <1>3 DEF getPlan
  <2>2. [AfterCall(job[r]) EXCEPT !.todo = Tail(job[r].todo)] = AfterCall(job[r])
    BY <1>2 DEF AfterCall, JobRecord
  <2>3. JobSafe(AfterCall(job[r]), record, events, row)
    BY <1>1, AfterSafe
  <2> QED
    BY <1>1, <2>1, <2>2, <2>3, JobStepKeeps
<1>4. CASE record[j.v] \notin {"pending_approval", "rejected"}
  <2> DEFINE f == [AfterCall(j) EXCEPT !.todo = more]
  <2>1. job' = [job EXCEPT ![r] = f]
    BY <1>4 DEF getPlan, Again
  <2>2. LegalCall(Ensure) /\ LegalCall(Mk("approve", None))
    BY PlanAssumption DEF LegalCall, Ensure, Mk, None, CallType, Arg, Words, StepTypes, ActiveCalls, StepCalls
  <2>3. /\ more \in Seq([type : CallType, arg : Arg]) /\ more # <<>>
        /\ \A p \in 1 .. Len(more) :
              \/ more[p] \in {Ensure, Mk("approve", None)}
              \/ \E q \in 1 .. Len(j.todo) : more[p] = j.todo[q]
    <3>1. Ensure \in [type : CallType, arg : Arg] /\ Mk("approve", None) \in [type : CallType, arg : Arg]
      BY <2>2 DEF LegalCall
    <3>2. j.todo \in Seq([type : CallType, arg : Arg])
      BY <1>2
    <3> HIDE DEF j
    <3> QED
      BY <3>1, <3>2, AgainCalls
  <2> HIDE DEF more
  <2>4. /\ f \in JobRecord /\ f.todo = more /\ f.kind = j.kind /\ f.arg = j.arg /\ f.v = j.v
        /\ f.stage = j.stage /\ f.at \in {"call", "done"}
    BY <1>2, <2>3 DEF AfterCall, JobRecord, Place
  <2> HIDE DEF f
  <2>5. /\ Ensure.type = "ensure" /\ Mk("approve", None).type = "approve"
    BY DEF Ensure, Mk
  <2>6. j.kind # "execute" /\ j.kind # "plan"
    BY <1>1, <1>2, HeadIsLegal DEF Ready
  <2>7. Decided(record[j.v])
    <3>1. record[j.v] # "none"
      BY <1>2, <2>6 DEF Ready
    <3> QED
      BY <1>4, <3>1 DEF Decided
  <2>8. Ready(f, record[j.v], events[j.v])
    <3>1. \A p \in 1 .. Len(more) :
             /\ LegalCall(more[p])
             /\ more[p].type \notin {"startStep", "stream"}
             /\ more[p].type \in {"completeStep", "failStep"} => Begun(events[j.v], more[p].arg)
      BY <1>2, <2>2, <2>3, <2>5, <2>6 DEF Ready
    <3> QED
      BY <1>2, <2>4, <2>6, <2>7, <3>1 DEF Ready, Waits
  <2>9. JobSafe(f, record, events, row)
    BY <2>3, <2>4, <2>8 DEF JobSafe, Placed
  <2> QED
    BY <1>1, <2>1, <2>9, JobStepKeeps
<1> QED
  BY <1>3, <1>4

-------------------------------------------------------------------------------
(* Every action keeps the invariant: the workflow store *)

LEMMA OnIsTarget ==
    ASSUME NEW r \in Request
    PROVE  On(r) = Target(job[r])
BY DEF On, Target, Call

\* A call that is not createForPlan is about the version of its request.
LEMMA OnOwnVersion ==
    ASSUME NEW r \in Request, Call(r).type # "ensure"
    PROVE  On(r) = job[r].v
<1>1. Ensure.type = "ensure"
  BY DEF Ensure, Mk
<1> QED
  BY <1>1 DEF On

\* A job that only moves to another place of its call.
LEMMA MovedJob ==
    ASSUME PlanInv, NEW r \in Request, Running(r),
           NEW at \in Place \ {"done"}, NEW f, f \in JobRecord,
           f.kind = job[r].kind, f.v = job[r].v, f.arg = job[r].arg, f.todo = job[r].todo,
           f.stage = job[r].stage, f.made = job[r].made, f.at = at
    PROVE  /\ Ready(f, record[f.v], events[f.v]) /\ f.v \in Version
           /\ Target(f) = Target(job[r]) /\ Target(f) = On(r) /\ On(r) \in Version
           /\ Head(f.todo) = Call(r) /\ f.todo # <<>>
<1>1. Busy(r)
  BY DEF Running
<1>2. Ready(f, record[f.v], events[f.v])
  BY <1>1, BusyJob, ReadySame
<1>3. Target(f) = Target(job[r])
  BY DEF Target
<1> QED
  BY <1>1, <1>2, <1>3, BusyJob, HeadIsLegal, OnIsTarget DEF Call

LEMMA LookForRowKeeps ==
    ASSUME PlanInv, NEW r \in Request, LookForRow(r)
    PROVE  PlanInv'
<1> DEFINE j == job[r]
           f == [j EXCEPT !.at = "insert"]
<1>1. Running(r) /\ Call(r) = Ensure /\ UNCHANGED <<record, events, row>>
  BY DEF LookForRow
<1>2. Ensure.type = "ensure"
  BY DEF Ensure, Mk
<1>3. CASE row[On(r)].exists
  <2>1. job' = [job EXCEPT ![r] = AfterCall(job[r])]
    BY <1>3 DEF LookForRow, Advance
  <2> QED
    BY <1>1, <1>2, <2>1, AfterSafe, JobStepKeeps
<1>4. CASE ~ row[On(r)].exists
  <2>1. job' = [job EXCEPT ![r] = f]
    BY <1>4 DEF LookForRow, Goto
  <2>2. j \in JobRecord
    BY <1>1, BusyJob DEF Running
  <2>3. /\ f \in JobRecord /\ f.kind = j.kind /\ f.v = j.v /\ f.arg = j.arg /\ f.todo = j.todo
        /\ f.stage = j.stage /\ f.made = j.made /\ f.at = "insert"
    BY <2>2 DEF JobRecord, Place
  <2> HIDE DEF f
  <2>4. Ready(f, record[f.v], events[f.v]) /\ Head(f.todo) = Call(r) /\ f.todo # <<>>
    BY <1>1, <2>3, MovedJob DEF Place
  <2>5. JobSafe(f, record, events, row)
    BY <1>1, <2>3, <2>4 DEF JobSafe, Placed
  <2> QED
    BY <1>1, <2>1, <2>5, JobStepKeeps
<1> QED
  BY <1>3, <1>4

LEMMA InitialState ==
           /\ createInitialState \in Row
           /\ createInitialState.status = "waiting_approval"
           /\ createInitialState.completed = {}
<1>1. 0 \in 0 .. Steps
  BY PlanAssumption
<1> QED
  BY <1>1 DEF createInitialState, Row, RowStatus, Words

FirstEvents == <<Mk("PlanGenerated", None), Mk("Suspended", Word("plan_approval"))>>

LEMMA FirstEventsLegal ==
           /\ LegalLog(FirstEvents) /\ FirstEvents # <<>> /\ Len(FirstEvents) = 2
           /\ \A i \in 1 .. 2 : FirstEvents[i].type \in {"PlanGenerated", "Suspended"}
<1>1. LegalEvent(Mk("PlanGenerated", None)) /\ LegalEvent(Mk("Suspended", Word("plan_approval")))
  BY PlanAssumption DEF LegalEvent, Mk, None, Word, EventTypes, Arg, Words
<1>2. /\ Mk("PlanGenerated", None) \in [type : EventTypes, arg : Arg]
      /\ Mk("Suspended", Word("plan_approval")) \in [type : EventTypes, arg : Arg]
  BY <1>1 DEF LegalEvent
<1>3. Mk("PlanGenerated", None).type = "PlanGenerated" /\ Mk("Suspended", Word("plan_approval")).type = "Suspended"
  BY DEF Mk
<1>4. /\ Len(FirstEvents) = 2 /\ FirstEvents \in Seq([type : EventTypes, arg : Arg])
      /\ FirstEvents[1] = Mk("PlanGenerated", None)
      /\ FirstEvents[2] = Mk("Suspended", Word("plan_approval"))
  BY <1>2 DEF FirstEvents
<1>5. Len(<<>>) = 0
  OBVIOUS
<1>6. FirstEvents # <<>>
  <2> SUFFICES ASSUME FirstEvents = <<>> PROVE FALSE
    OBVIOUS
  <2>1. Len(FirstEvents) = 0
    BY <1>5
  <2> HIDE DEF FirstEvents
  <2>2. Len(FirstEvents) = 2
    BY <1>4
  <2> QED
    BY <2>1, <2>2
<1>7. \A i \in 1 .. 2 : LegalEvent(FirstEvents[i]) /\ FirstEvents[i].type \in {"PlanGenerated", "Suspended"}
  <2> TAKE i \in 1 .. 2
  <2>1. i = 1 \/ i = 2
    OBVIOUS
  <2> QED
    BY <1>1, <1>3, <1>4, <2>1
<1> QED
  BY <1>4, <1>6, <1>7 DEF LegalLog

LEMMA CreateForPlanKeeps ==
    ASSUME PlanInv, NEW r \in Request, createForPlan(r)
    PROVE  PlanInv'
<1> DEFINE j == job[r]
           f == [j EXCEPT !.at = "row"]
<1>1. Running(r) /\ Busy(r) /\ j.at = "insert" /\ UNCHANGED record
  BY DEF createForPlan, Running
<1> PICK t \in Version : t = On(r)
  BY <1>1, BusyJob, OnIsTarget
<1>2. j \in JobRecord /\ Call(r) = Ensure
  BY <1>1, BusyJob DEF Placed, Call
<1>3. CASE row[t].exists
  <2>1. job' = [job EXCEPT ![r] = Failed(job[r])] /\ UNCHANGED <<row, events>>
    BY <1>3 DEF createForPlan, Throw
  <2> QED
    BY <1>1, <2>1, FailedSafe, JobStepKeeps
<1>4. CASE ~ row[t].exists
  <2>1. /\ row' = [row EXCEPT ![t] = createInitialState]
        /\ events' = [events EXCEPT ![t] = FirstEvents]
        /\ job' = [job EXCEPT ![r] = f]
    BY <1>4 DEF createForPlan, Goto, FirstEvents
  <2>2. /\ f \in JobRecord /\ f.kind = j.kind /\ f.v = j.v /\ f.arg = j.arg /\ f.todo = j.todo
        /\ f.stage = j.stage /\ f.made = j.made /\ f.at = "row"
    BY <1>2 DEF JobRecord, Place
  <2> HIDE DEF f
  <2>3. /\ Ready(f, record[f.v], events[f.v]) /\ f.v \in Version
        /\ Target(f) = t /\ t \in Version
        /\ Head(f.todo) = Call(r) /\ f.todo # <<>>
    BY <1>1, <2>2, MovedJob DEF Place
  <2>4. /\ row \in [Version -> Row \cup {NoRow}]
        /\ events \in [Version -> Seq([type : EventTypes, arg : Arg])]
    BY DEF PlanInv, PlanTypes
  <2>5. /\ row'[t] = createInitialState /\ \A v \in Version : v # t => row'[v] = row[v]
        /\ events'[t] = FirstEvents /\ \A v \in Version : v # t => events'[v] = events[v]
    BY <2>1, <2>3, <2>4
  <2>6. events[t] = <<>> /\ Len(events[t]) = 0
    BY <1>4, <2>3 DEF PlanInv, LogSafe
  <2>7. createInitialState.exists
    BY DEF createInitialState
  <2>8. Grows
    <3>1. \A v \in Version : Len(events[v]) \in Nat
      BY <2>4
    <3>2. Extends(events'[t], events[t]) /\ Len(events'[t]) \in Nat /\ row'[t].exists
      BY <2>5, <2>6, <2>7, FirstEventsLegal DEF Extends
    <3>3. \A v \in Version : v # t => Extends(events'[v], events[v])
      BY <2>5, <3>1 DEF Extends
    <3> QED
      BY <1>1, <2>5, <3>1, <3>2, <3>3 DEF Grows
  <2>9. LogSafe(t)'
    <3>1. LegalLog(events'[t]) /\ LegalSteps(events'[t])
      BY <2>5, FirstEventsLegal DEF LegalSteps
    <3>2. \A i \in 1 .. Len(events'[t]) : events'[t][i].type \notin {"PlanApproved", "StepStarted"}
      BY <2>5, FirstEventsLegal
    <3>3. row'[t] \in Row /\ Shows(row'[t], events'[t])
      BY <2>5, InitialState DEF Shows, Accepted
    <3> QED
      BY <2>5, <2>7, <3>1, <3>2, <3>3, FirstEventsLegal DEF LogSafe
  <2>10. \A v \in Version : LogSafe(v)'
    <3>1. \A v \in Version : v # t => LogSafe(v)'
      BY <1>1, <2>5 DEF PlanInv, LogSafe
    <3> QED
      BY <2>9, <3>1
  <2>11. Ready(f, record'[f.v], events'[f.v])
    BY <1>1, <2>3, <2>4, <2>8, ReadyKept DEF Grows
  <2>12. JobSafe(f, record', events', row')
    <3>1. Ensure.type = "ensure"
      BY DEF Ensure, Mk
    <3> QED
      BY <1>2, <2>2, <2>3, <2>5, <2>7, <2>11, <3>1 DEF JobSafe, Placed
  <2>13. /\ (record \in [Version -> RecordStatus])'
         /\ (events \in [Version -> Seq([type : EventTypes, arg : Arg])])'
         /\ (row \in [Version -> Row \cup {NoRow}])'
    <3>1. FirstEvents \in Seq([type : EventTypes, arg : Arg])
      BY FirstEventsLegal DEF LegalLog
    <3>2. events' \in [Version -> Seq([type : EventTypes, arg : Arg])]
      BY <2>1, <2>4, <3>1
    <3>3. row' \in [Version -> Row \cup {NoRow}]
      BY <2>1, <2>4, InitialState
    <3>4. record' \in [Version -> RecordStatus]
      BY <1>1 DEF PlanInv, PlanTypes
    <3> QED
      BY <3>2, <3>3, <3>4
  <2> QED
    BY <2>1, <2>8, <2>10, <2>12, <2>13, StepKeeps
<1> QED
  BY <1>3, <1>4

LEMMA OneEvent ==
    ASSUME NEW x
    PROVE  /\ <<x>> \o <<>> = <<x>> /\ Len(<<x>>) = 1 /\ <<x>>[1] = x
           /\ \A S : x \in S => <<x>> \in Seq(S)
OBVIOUS

LEMMA TwoEvents ==
    ASSUME NEW x, NEW y
    PROVE  /\ <<x>> \o <<y>> = <<x, y>>
           /\ Len(<<x, y>>) = 2 /\ <<x, y>>[1] = x /\ <<x, y>>[2] = y
           /\ \A S : x \in S /\ y \in S => <<x, y>> \in Seq(S)
<1>1. <<x>> \in Seq({x, y}) /\ <<y>> \in Seq({x, y}) /\ <<x, y>> \in Seq({x, y})
  OBVIOUS
<1>2. Len(<<x>> \o <<y>>) = 2 /\ <<x>> \o <<y>> \in Seq({x, y})
  BY <1>1
<1>3. (<<x>> \o <<y>>)[1] = x /\ (<<x>> \o <<y>>)[2] = y
  BY <1>1
<1>4. Len(<<x, y>>) = 2 /\ <<x, y>>[1] = x /\ <<x, y>>[2] = y
  OBVIOUS
<1>5. \A i \in 1 .. 2 : (<<x>> \o <<y>>)[i] = <<x, y>>[i]
  BY <1>3
<1>6. <<x>> \o <<y>> = <<x, y>>
  BY <1>1, <1>2, <1>4, <1>5, SeqEqual
<1>7. \A S : x \in S /\ y \in S => <<x, y>> \in Seq(S)
  OBVIOUS
<1> QED
  BY <1>4, <1>6, <1>7

\* An event that a call may append.
OfCall(c, e) ==
    /\ LegalEvent(e)
    /\ e.type = "PlanApproved" => c.type = "approve"
    /\ e.type = "StepStarted" => c.type = "startStep"
    /\ e.type \in {"StepCompleted", "StepFailed"} =>
          c.type \in {"completeStep", "failStep"} /\ e.arg = c.arg

LogOfCall(c, log, e) ==
    /\ LegalLog(log) /\ HasEvent(log, e)
    /\ \A i \in 1 .. Len(log) : OfCall(c, log[i])

LEMMA ShortLogs ==
    ASSUME NEW c, NEW e, OfCall(c, e)
    PROVE  /\ LogOfCall(c, <<e>>, e)
           /\ \A d : OfCall(c, d) => LogOfCall(c, <<e, d>>, e)
<1>1. \A d : OfCall(c, d) => d \in [type : EventTypes, arg : Arg] /\ LegalEvent(d)
  BY DEF OfCall, LegalEvent
<1>2. LogOfCall(c, <<e>>, e)
  BY <1>1, OneEvent DEF LogOfCall, LegalLog, HasEvent
<1>3. ASSUME NEW d, OfCall(c, d)
      PROVE  LogOfCall(c, <<e, d>>, e)
  <2>1. <<e, d>> \in Seq([type : EventTypes, arg : Arg])
    BY <1>1, <1>3, TwoEvents
  <2>2. Len(<<e, d>>) = 2 /\ \A i \in 1 .. 2 : <<e, d>>[i] \in {e, d}
    OBVIOUS
  <2>3. HasEvent(<<e, d>>, e)
    BY TwoEvents DEF HasEvent
  <2> QED
    BY <1>1, <1>3, <2>1, <2>2, <2>3 DEF LogOfCall, LegalLog
<1> QED
  BY <1>2, <1>3

\* The events a call appends, when the row it read is suspended for a reason.
Appended(c, word) == NewEvents(c, [suspend |-> word])

LEMMA NewEventsLegal ==
    ASSUME NEW c, LegalCall(c), c.type \in WorkflowCalls, NEW word \in Words
    PROVE  /\ \E e : LogOfCall(c, Appended(c, word), e)
           /\ c.type = "approve" => LogOfCall(c, Appended(c, word), Mk("PlanApproved", None))
           /\ c.type = "startStep" => LogOfCall(c, Appended(c, word), Mk("StepStarted", c.arg))
<1>1. c.arg \in Arg /\ None \in Arg /\ (\A w \in Words : Word(w) \in Arg)
  BY PlanAssumption DEF LegalCall, Arg, None, Word, Words
<1>2. \A type, arg : Mk(type, arg).type = type /\ Mk(type, arg).arg = arg
  BY DEF Mk
<1>3. \A type \in EventTypes, arg \in Arg :
         type \notin {"StepStarted", "StepCompleted", "StepFailed", "PlanFinished", "PlanApproved"}
         => OfCall(c, Mk(type, arg))
  BY <1>2 DEF OfCall, LegalEvent, Mk
<1>4. OfCall(c, Mk("Heartbeat", None))
  BY <1>1, <1>3 DEF EventTypes
<1>5. CASE c.type = "approve"
  <2>1. \/ Appended(c, word) = <<Mk("PlanApproved", None)>>
        \/ Appended(c, word) = <<Mk("PlanApproved", None), Mk("Resumed", None)>>
    <3>1. Appended(c, word) = <<Mk("PlanApproved", None)>>
                                  \o (IF word = "none" THEN <<>> ELSE <<Mk("Resumed", None)>>)
      BY <1>5 DEF Appended, NewEvents
    <3> QED
      BY <3>1, OneEvent, TwoEvents, Zenon
  <2>2. OfCall(c, Mk("PlanApproved", None))
    BY <1>1, <1>2, <1>5 DEF OfCall, LegalEvent, LegalCall, EventTypes, StepTypes, Mk
  <2>3. OfCall(c, Mk("Resumed", None))
    BY <1>1, <1>3 DEF EventTypes, Words
  <2>4. LogOfCall(c, Appended(c, word), Mk("PlanApproved", None))
    BY <2>1, <2>2, <2>3, ShortLogs, Zenon
  <2> QED
    BY <1>5, <2>4
<1>6. CASE c.type = "finish"
  <2>1. Appended(c, word) = <<Mk("PlanFinished", c.arg)>>
    BY <1>6 DEF Appended, NewEvents
  <2>2. OfCall(c, Mk("PlanFinished", c.arg))
    BY <1>1, <1>2, <1>6 DEF OfCall, LegalEvent, LegalCall, EventTypes, StepTypes, Mk
  <2>4. LogOfCall(c, Appended(c, word), Mk("PlanFinished", c.arg))
    BY <2>1, <2>2, ShortLogs, Zenon
  <2> QED
    BY <1>6, <2>4
<1>7. CASE c.type = "startStep"
  <2>1. Appended(c, word) = <<Mk("StepStarted", c.arg), Mk("Heartbeat", None)>>
    BY <1>7 DEF Appended, NewEvents
  <2>2. OfCall(c, Mk("StepStarted", c.arg))
    BY <1>1, <1>2, <1>7 DEF OfCall, LegalEvent, LegalCall, EventTypes, StepTypes, Mk
  <2>4. LogOfCall(c, Appended(c, word), Mk("StepStarted", c.arg))
    BY <1>4, <2>1, <2>2, ShortLogs, Zenon
  <2> QED
    BY <1>7, <2>4
<1>8. CASE c.type = "completeStep"
  <2>1. Appended(c, word) = <<Mk("StepCompleted", c.arg), Mk("Heartbeat", None)>>
    BY <1>8 DEF Appended, NewEvents
  <2>2. OfCall(c, Mk("StepCompleted", c.arg))
    BY <1>1, <1>2, <1>8 DEF OfCall, LegalEvent, LegalCall, EventTypes, StepTypes, Mk
  <2>4. LogOfCall(c, Appended(c, word), Mk("StepCompleted", c.arg))
    BY <1>4, <2>1, <2>2, ShortLogs, Zenon
  <2> QED
    BY <1>8, <2>4
<1>9. CASE c.type = "failStep"
  <2>1. Appended(c, word) = <<Mk("StepFailed", c.arg)>>
    BY <1>9 DEF Appended, NewEvents
  <2>2. OfCall(c, Mk("StepFailed", c.arg))
    BY <1>1, <1>2, <1>9 DEF OfCall, LegalEvent, LegalCall, EventTypes, StepTypes, Mk
  <2>4. LogOfCall(c, Appended(c, word), Mk("StepFailed", c.arg))
    BY <2>1, <2>2, ShortLogs, Zenon
  <2> QED
    BY <1>9, <2>4
<1>10. CASE c.type = "heartbeat"
  <2>1. Appended(c, word) = <<Mk("Heartbeat", None)>>
    BY <1>10 DEF Appended, NewEvents
  <2>2. OfCall(c, Mk("Heartbeat", None))
    BY <1>1, <1>3 DEF EventTypes, Words
  <2>4. LogOfCall(c, Appended(c, word), Mk("Heartbeat", None))
    BY <2>1, <2>2, ShortLogs, Zenon
  <2> QED
    BY <1>10, <2>4
<1>11. CASE c.type = "suspend"
  <2>1. Appended(c, word) = <<Mk("Suspended", Word("tool_external_wait"))>>
    BY <1>11 DEF Appended, NewEvents
  <2>2. OfCall(c, Mk("Suspended", Word("tool_external_wait")))
    BY <1>1, <1>3 DEF EventTypes, Words
  <2>4. LogOfCall(c, Appended(c, word), Mk("Suspended", Word("tool_external_wait")))
    BY <2>1, <2>2, ShortLogs, Zenon
  <2> QED
    BY <1>11, <2>4
<1>12. CASE c.type = "reportValidator"
  <2>1. \/ Appended(c, word) = <<Mk("ValidatorReported", c.arg)>>
        \/ Appended(c, word) = <<Mk("ValidatorReported", c.arg), Mk("Suspended", Word("validator_needs_replan"))>>
    BY <1>12, OneEvent, TwoEvents DEF Appended, NewEvents
  <2>2. OfCall(c, Mk("ValidatorReported", c.arg))
    BY <1>1, <1>3 DEF EventTypes, Words
  <2>3. OfCall(c, Mk("Suspended", Word("validator_needs_replan")))
    BY <1>1, <1>3 DEF EventTypes, Words
  <2>4. LogOfCall(c, Appended(c, word), Mk("ValidatorReported", c.arg))
    BY <2>1, <2>2, <2>3, ShortLogs, Zenon
  <2> QED
    BY <1>12, <2>4
<1>13. CASE c.type = "issueReplan"
  <2>1. Appended(c, word) = <<Mk("ReplanIssued", None)>>
    BY <1>13 DEF Appended, NewEvents
  <2>2. OfCall(c, Mk("ReplanIssued", None))
    BY <1>1, <1>3 DEF EventTypes, Words
  <2>4. LogOfCall(c, Appended(c, word), Mk("ReplanIssued", None))
    BY <2>1, <2>2, ShortLogs, Zenon
  <2> QED
    BY <1>13, <2>4
<1> QED
  BY <1>5, <1>6, <1>7, <1>8, <1>9, <1>10, <1>11, <1>12, <1>13
     DEF WorkflowCalls, ActiveCalls, StepCalls

LEMMA ReadRowKeeps ==
    ASSUME PlanInv, NEW r \in Request, ReadRow(r)
    PROVE  PlanInv'
<1> DEFINE j == job[r]
           call == Call(r)
           w == row[On(r)]
           f == [j EXCEPT !.at = "append", !.new = NewEvents(call, w)]
<1>1. /\ Running(r) /\ Busy(r) /\ j.at = "call" /\ call.type \in WorkflowCalls
      /\ UNCHANGED <<record, events, row>>
  BY DEF ReadRow, Running, WorkflowCalls
<1>2. /\ j \in JobRecord /\ j.v \in Version /\ Ready(j, record[j.v], events[j.v])
      /\ LegalCall(call) /\ call = j.todo[1] /\ 1 \in 1 .. Len(j.todo)
  BY <1>1, BusyJob, HeadIsLegal
<1>3. On(r) = j.v
  BY <1>1, OnOwnVersion DEF WorkflowCalls, ActiveCalls, StepCalls
<1>4. CASE ~ w.exists \/ (call.type \in ActiveCalls /\ w.status \notin ACTIVE_STATUSES)
  <2>1. job' = [job EXCEPT ![r] = Failed(job[r])]
    BY <1>4 DEF ReadRow, Throw
  <2> QED
    BY <1>1, <2>1, FailedSafe, JobStepKeeps
<1>5. CASE /\ w.exists /\ ~ (call.type \in ActiveCalls /\ w.status \notin ACTIVE_STATUSES)
           /\ ReturnsEarly(call, w)
  <2>1. job' = [job EXCEPT ![r] = AfterCall(job[r])]
    BY <1>5 DEF ReadRow, Advance
  <2>2. /\ w \in Row /\ Shows(w, events[j.v]) /\ LegalSteps(events[j.v])
    BY <1>2, <1>3, <1>5 DEF PlanInv, LogSafe
  <2>3. call.type = "approve" => Backed(events[j.v])
    BY <1>5, <2>2 DEF ReturnsEarly, StepCalls, Shows
  <2>4. call.type = "startStep" => Begun(events[j.v], j.arg)
    <3> SUFFICES ASSUME call.type = "startStep" PROVE Begun(events[j.v], j.arg)
      OBVIOUS
    <3>1. PICK s \in Step : call.arg = At(s)
      BY <1>2 DEF LegalCall, StepTypes
    <3>2. s \in w.completed
      BY <1>5, <3>1 DEF ReturnsEarly, At
    <3>3. PICK i \in 1 .. Len(events[j.v]) : events[j.v][i] = Mk("StepCompleted", At(s))
      BY <2>2, <3>2 DEF Shows, HasEvent
    <3>4. events[j.v][i].type = "StepCompleted" /\ events[j.v][i].arg = At(s)
      BY <3>3 DEF Mk
    <3>5. PICK k \in 1 .. i - 1 : events[j.v][k] = Mk("StepStarted", At(s))
      BY <2>2, <3>4 DEF LegalSteps
    <3>6. k \in 1 .. Len(events[j.v])
      BY <1>2 DEF PlanInv, PlanTypes
    <3>7. j.arg = At(s)
      BY <1>2, <3>1 DEF Ready
    <3> QED
      BY <3>5, <3>6, <3>7 DEF Begun, HasEvent
  <2>5. call.type \notin {"approveRecord", "prepareRecord"}
    BY <1>1 DEF WorkflowCalls, ActiveCalls, StepCalls
  <2> QED
    BY <1>1, <2>1, <2>3, <2>4, <2>5, AfterSafe, JobStepKeeps
<1>6. CASE /\ w.exists /\ ~ (call.type \in ActiveCalls /\ w.status \notin ACTIVE_STATUSES)
           /\ ~ ReturnsEarly(call, w)
  <2>1. job' = [job EXCEPT ![r] = f]
    BY <1>6 DEF ReadRow, PlanInv, PlanTypes
  <2>2. w \in Row
    BY <1>2, <1>3, <1>6 DEF PlanInv, LogSafe
  <2>3. w.suspend \in Words
    BY <2>2 DEF Row
  <2>4. NewEvents(call, w) = Appended(call, w.suspend)
    BY DEF Appended, NewEvents
  <2>5. NewEvents(call, w) \in Seq([type : EventTypes, arg : Arg])
    BY <1>1, <1>2, <2>3, <2>4, NewEventsLegal DEF LogOfCall, LegalLog
  <2>6. /\ f \in JobRecord /\ f.kind = j.kind /\ f.v = j.v /\ f.arg = j.arg /\ f.todo = j.todo
        /\ f.stage = j.stage /\ f.made = j.made /\ f.at = "append"
        /\ f.new = Appended(call, w.suspend)
    BY <1>2, <2>4, <2>5 DEF JobRecord, Place
  <2> HIDE DEF f
  <2>7. Ready(f, record[f.v], events[f.v]) /\ Target(f) = On(r) /\ Head(f.todo) = call /\ f.todo # <<>>
    BY <1>1, <2>6, MovedJob DEF Place
  <2>8. JobSafe(f, record, events, row)
    BY <1>1, <1>6, <2>3, <2>6, <2>7 DEF JobSafe, Placed, Appended
  <2> QED
    BY <1>1, <2>1, <2>8, JobStepKeeps
<1> QED
  BY <1>4, <1>5, <1>6

\* long is log with new behind it.
IsCat(C, log, new, long) ==
    /\ long \in Seq(C) /\ Len(long) = Len(log) + Len(new)
    /\ Len(log) \in Nat /\ Len(new) \in Nat
    /\ \A i \in 1 .. Len(log) : long[i] = log[i]
    /\ \A i \in 1 .. Len(long) :
          i \notin 1 .. Len(log) =>
             i - Len(log) \in 1 .. Len(new) /\ long[i] = new[i - Len(log)]

LEMMA Appending ==
    ASSUME NEW C, NEW log \in Seq(C), NEW new \in Seq(C)
    PROVE  IsCat(C, log, new, log \o new)
<1>1. /\ log \o new \in Seq(C) /\ Len(log \o new) = Len(log) + Len(new)
      /\ \A p \in 1 .. Len(log) + Len(new) :
            (log \o new)[p] = IF p <= Len(log) THEN log[p] ELSE new[p - Len(log)]
  BY ConcatProperties, Zenon
<1>2. Len(log) \in Nat /\ Len(new) \in Nat
  OBVIOUS
<1>3. PICK all : all = log \o new
  OBVIOUS
<1>4. /\ all \in Seq(C) /\ Len(all) = Len(log) + Len(new)
      /\ \A p \in 1 .. Len(log) + Len(new) :
            all[p] = IF p <= Len(log) THEN log[p] ELSE new[p - Len(log)]
  BY <1>1, <1>3, Zenon
<1>5. IsCat(C, log, new, all)
  BY <1>2, <1>4 DEF IsCat
<1> QED
  BY <1>3, <1>5, Zenon

\* Events that presuppose nothing the log does not hold.
MayFollow(log, new) ==
    /\ LegalLog(new)
    /\ \A i \in 1 .. Len(new) :
          /\ new[i].type = "StepStarted" => Backed(log)
          /\ new[i].type \in {"StepCompleted", "StepFailed"} => Begun(log, new[i].arg)

\* A legal log that consists of two parts.
Joined(log, new, long) ==
    /\ LegalLog(long) /\ LegalSteps(long) /\ Extends(long, log) /\ Len(long) \in Nat
    /\ log # <<>> => long # <<>>
    /\ \A e : HasEvent(new, e) => HasEvent(long, e)
    /\ \A i \in 1 .. Len(long) :
          \/ \E k \in 1 .. Len(log) : long[i] = log[k]
          \/ \E k \in 1 .. Len(new) : long[i] = new[k]

LEMMA LongerLog ==
    ASSUME NEW log, LegalLog(log), LegalSteps(log), NEW new, MayFollow(log, new),
           NEW long, long = log \o new
    PROVE  Joined(log, new, long)
<1> USE DEF MayFollow
<1> DEFINE C == [type : EventTypes, arg : Arg]
<1>1. log \in Seq(C) /\ new \in Seq(C)
  BY DEF LegalLog
<1>0. IsCat(C, log, new, long)
  BY <1>1, Appending, Zenon
<1>2. /\ long \in Seq(C) /\ Len(long) = Len(log) + Len(new)
      /\ Len(log) \in Nat /\ Len(new) \in Nat
      /\ \A i \in 1 .. Len(log) : long[i] = log[i]
      /\ \A i \in 1 .. Len(long) :
            i \notin 1 .. Len(log) =>
               i - Len(log) \in 1 .. Len(new) /\ long[i] = new[i - Len(log)]
  BY <1>0 DEF IsCat
<1>3. LegalLog(long)
  <2>1. \A i \in 1 .. Len(long) : LegalEvent(long[i])
    BY <1>2 DEF LegalLog
  <2> QED
    BY <1>2, <2>1 DEF LegalLog
<1>4. Extends(long, log)
  BY <1>2 DEF Extends
<1>5. ASSUME NEW i \in 1 .. Len(long)
      PROVE  /\ long[i].type = "StepStarted" =>
                   \E k \in 1 .. i - 1 :
                      long[k] \in {Mk("PlanApproved", None), Mk("PlanFinished", Word("completed"))}
             /\ long[i].type \in {"StepCompleted", "StepFailed"} =>
                   \E k \in 1 .. i - 1 : long[k] = Mk("StepStarted", long[i].arg)
  <2>1. CASE i \in 1 .. Len(log)
    <3>1. long[i] = log[i] /\ \A k \in 1 .. i - 1 : k \in 1 .. Len(log) /\ long[k] = log[k]
      BY <1>2, <2>1
    <3> QED
      BY <2>1, <3>1 DEF LegalSteps
  <2>2. CASE i \notin 1 .. Len(log)
    <3>1. i - Len(log) \in 1 .. Len(new) /\ long[i] = new[i - Len(log)]
      BY <1>2, <2>2
    <3>2. \A k \in 1 .. Len(log) : k \in 1 .. i - 1 /\ long[k] = log[k]
      BY <1>2, <2>2
    <3>3. long[i].type = "StepStarted" => Backed(log)
      BY <3>1
    <3>4. long[i].type \in {"StepCompleted", "StepFailed"} => Begun(log, long[i].arg)
      BY <3>1
    <3> QED
      BY <3>2, <3>3, <3>4 DEF Backed, Begun, HasEvent
  <2> QED
    BY <2>1, <2>2
<1>6. log # <<>> => long # <<>>
  <2> SUFFICES ASSUME log # <<>> PROVE long # <<>>
    OBVIOUS
  <2>1. Len(log) # 0 /\ Len(<<>>) = 0
    BY <1>1
  <2>2. Len(long) # 0
    BY <1>2, <2>1
  <2> QED
    BY <2>1, <2>2, Zenon
<1>7. ASSUME NEW k \in 1 .. Len(new)
      PROVE  \E i \in 1 .. Len(long) : long[i] = new[k]
  <2>1. /\ k + Len(log) \in 1 .. Len(long) /\ k + Len(log) \notin 1 .. Len(log)
        /\ (k + Len(log)) - Len(log) = k
    BY <1>2
  <2> QED
    BY <1>2, <2>1
<1>8. \A e : HasEvent(new, e) => HasEvent(long, e)
  BY <1>7 DEF HasEvent
<1>9. \A i \in 1 .. Len(long) :
         \/ \E k \in 1 .. Len(log) : long[i] = log[k]
         \/ \E k \in 1 .. Len(new) : long[i] = new[k]
  BY <1>2
<1>10. LegalSteps(long)
  BY <1>5 DEF LegalSteps
<1>11. Len(long) \in Nat
  BY <1>2
<1> QED
  BY <1>3, <1>4, <1>6, <1>8, <1>9, <1>10, <1>11 DEF Joined

\* What the call at the head needs is behind it.
LEMMA HeadIsReady ==
    ASSUME PlanInv, NEW r \in Request, Running(r)
    PROVE  /\ Call(r).type = "approve" => Decided(record[job[r].v])
           /\ Call(r).type \in {"startStep", "stream"} =>
                 Ran(record[job[r].v]) /\ Call(r).arg = job[r].arg /\ job[r].kind = "execute"
           /\ Call(r).type = "startStep" => Backed(events[job[r].v])
           /\ Call(r).type = "stream" => Begun(events[job[r].v], job[r].arg)
           /\ Call(r).type \in {"completeStep", "failStep"} => Begun(events[job[r].v], Call(r).arg)
<1>1. Ready(job[r], record[job[r].v], events[job[r].v])
  BY BusyJob DEF Running
<1>2. Call(r) = job[r].todo[1] /\ 1 \in 1 .. Len(job[r].todo)
  BY HeadIsLegal
<1>3. ~ \E q \in 1 .. 1 - 1 : TRUE
  OBVIOUS
<1> QED
  BY <1>1, <1>2, <1>3 DEF Ready, Waits

LEMMA AppendEventsKeeps ==
    ASSUME PlanInv, NEW r \in Request, appendEvents(r)
    PROVE  PlanInv'
<1> DEFINE j == job[r]
           f == [j EXCEPT !.at = "row", !.new = <<>>]
           C == [type : EventTypes, arg : Arg]
<1>1. Running(r) /\ Busy(r) /\ j.at = "append" /\ UNCHANGED <<record, row>>
  BY DEF appendEvents, Running
<1> PICK t \in Version : t = j.v
  BY <1>1, BusyJob
<1>2. /\ j \in JobRecord /\ Call(r).type \in WorkflowCalls /\ row[Target(j)].exists
      /\ \E word \in Words : j.new = NewEvents(Call(r), [suspend |-> word])
  BY <1>1, BusyJob DEF Placed, Call
<1>3. On(r) = t /\ Target(j) = t
  BY <1>2, OnOwnVersion, OnIsTarget DEF WorkflowCalls, ActiveCalls, StepCalls
<1>4. PICK word \in Words : j.new = Appended(Call(r), word)
  BY <1>2 DEF Appended
<1>5. LegalCall(Call(r))
  BY <1>1, HeadIsLegal
<1>6. PICK e : LogOfCall(Call(r), j.new, e)
  BY <1>2, <1>4, <1>5, NewEventsLegal
<1>7. /\ Call(r).type = "approve" => HasEvent(j.new, Mk("PlanApproved", None))
      /\ Call(r).type = "startStep" => HasEvent(j.new, Mk("StepStarted", j.arg))
  BY <1>1, <1>2, <1>4, <1>5, NewEventsLegal, HeadIsReady DEF LogOfCall
<1>8. LegalLog(j.new) /\ \A i \in 1 .. Len(j.new) : OfCall(Call(r), j.new[i])
  BY <1>6 DEF LogOfCall
<1>9. /\ job' = [job EXCEPT ![r] = f]
      /\ events' = [events EXCEPT ![t] = events[t] \o j.new]
  BY <1>3 DEF appendEvents
<1>10. /\ f \in JobRecord /\ f.kind = j.kind /\ f.v = j.v /\ f.arg = j.arg /\ f.todo = j.todo
       /\ f.stage = j.stage /\ f.made = j.made /\ f.at = "row"
  <2>1. <<>> \in Seq(C)
    OBVIOUS
  <2> QED
    BY <1>2, <2>1 DEF JobRecord, Place
<1>11. LogSafe(t) /\ events \in [Version -> Seq(C)] /\ row[t].exists
  BY <1>2, <1>3 DEF PlanInv, PlanTypes
<1>12. \A i \in 1 .. Len(j.new) :
          /\ j.new[i].type = "PlanApproved" => Decided(record[t])
          /\ j.new[i].type = "StepStarted" => Ran(record[t]) /\ Backed(events[t])
          /\ j.new[i].type \in {"StepCompleted", "StepFailed"} => Begun(events[t], j.new[i].arg)
  BY <1>1, <1>8, HeadIsReady DEF OfCall
<1>13. PICK long : long = events[t] \o j.new
  OBVIOUS
<1>15. /\ events' = [events EXCEPT ![t] = long]
       /\ events'[t] = long /\ \A v \in Version : v # t => events'[v] = events[v]
  BY <1>9, <1>11, <1>13, Zenon
<1>14. Joined(events[t], j.new, long)
  <2>1. LegalLog(events[t]) /\ LegalSteps(events[t])
    BY <1>11 DEF LogSafe
  <2>2. MayFollow(events[t], j.new)
    BY <1>8, <1>12 DEF MayFollow
  <2> QED
    BY <1>13, <2>1, <2>2, LongerLog, Zenon
<1> HIDE DEF f
<1>16. \A i \in 1 .. Len(long) :
          /\ long[i].type = "PlanApproved" => Decided(record[t])
          /\ long[i].type = "StepStarted" => Ran(record[t])
  BY <1>11, <1>12, <1>14 DEF LogSafe, Joined
<1>17. events[t] # <<>> /\ long # <<>> /\ row[t] \in Row /\ Shows(row[t], long)
  <2>1. events[t] # <<>> /\ row[t] \in Row /\ Shows(row[t], events[t])
    BY <1>11 DEF LogSafe
  <2>2. Shows(row[t], long)
    BY <1>11, <1>14, <2>1, ExtendsKeeps DEF Joined
  <2> QED
    BY <1>14, <2>1, <2>2 DEF Joined
<1>18. LogSafe(t)'
  BY <1>1, <1>11, <1>15, <1>14, <1>16, <1>17 DEF LogSafe, Joined
<1>19. \A v \in Version : LogSafe(v)'
  <2>1. \A v \in Version : v # t => LogSafe(v)'
    BY <1>1, <1>15 DEF PlanInv, LogSafe
  <2> QED
    BY <1>18, <2>1
<1>20. Grows
  <2>1. \A v \in Version : Len(events[v]) \in Nat /\ Extends(events[v], events[v])
    BY <1>11 DEF Extends
  <2>2. \A v \in Version : Len(events'[v]) \in Nat /\ Extends(events'[v], events[v])
    BY <1>15, <1>14, <2>1 DEF Joined
  <2> QED
    BY <1>1, <2>2 DEF Grows
<1>21. /\ Ready(f, record[f.v], events[f.v]) /\ Target(f) = t
       /\ Head(f.todo) = Call(r) /\ f.todo # <<>>
  BY <1>1, <1>3, <1>10, MovedJob DEF Place
<1>22. Ready(f, record'[t], events'[t])
  BY <1>10, <1>11, <1>20, <1>21, ReadyKept DEF Grows
<1>23. /\ Call(r).type = "approve" => Backed(long)
       /\ Call(r).type = "startStep" => Begun(long, j.arg)
  BY <1>7, <1>14 DEF Backed, Begun, Joined
<1>24. JobSafe(f, record', events', row')
  BY <1>1, <1>2, <1>10, <1>11, <1>15, <1>21, <1>22, <1>23 DEF JobSafe, Placed
<1>25. /\ (record \in [Version -> RecordStatus])'
       /\ (events \in [Version -> Seq([type : EventTypes, arg : Arg])])'
       /\ (row \in [Version -> Row \cup {NoRow}])'
  <2>1. events' \in [Version -> Seq(C)]
    <3>1. long \in Seq(C)
      BY <1>14 DEF LegalLog, Joined
    <3> QED
      BY <1>11, <1>15, <3>1
  <2> QED
    BY <1>1, <2>1 DEF PlanInv, PlanTypes
<1> QED
  BY <1>9, <1>19, <1>20, <1>24, <1>25, StepKeeps

LEMMA ReadStateKeeps ==
    ASSUME PlanInv, NEW r \in Request, ReadState(r)
    PROVE  PlanInv'
<1> DEFINE j == job[r]
           f == [j EXCEPT !.at = "events", !.base = row[On(r)]]
<1>1. Running(r) /\ Busy(r) /\ j.at = "row" /\ UNCHANGED <<record, events, row>>
  BY DEF ReadState, Running
<1> PICK t \in Version : t = On(r)
  BY <1>1, BusyJob, OnIsTarget
<1>2. /\ j \in JobRecord /\ Placed(j, row[t], events[t], events[j.v])
  BY <1>1, BusyJob, OnIsTarget
<1>3. row[t] \in Row /\ \A s \in row[t].completed : HasEvent(events[t], Mk("StepCompleted", At(s)))
  BY <1>1, <1>2 DEF Placed, PlanInv, LogSafe, Shows
<1>4. job' = [job EXCEPT ![r] = f]
  BY DEF ReadState, PlanInv, PlanTypes
<1>5. /\ f \in JobRecord /\ f.kind = j.kind /\ f.v = j.v /\ f.arg = j.arg /\ f.todo = j.todo
      /\ f.stage = j.stage /\ f.made = j.made /\ f.at = "events" /\ f.base = row[t]
  BY <1>2, <1>3 DEF JobRecord, Place
<1> HIDE DEF f
<1>6. Ready(f, record[f.v], events[f.v]) /\ Target(f) = t /\ f.todo # <<>>
  BY <1>1, <1>5, MovedJob DEF Place
<1>7. JobSafe(f, record, events, row)
  BY <1>1, <1>2, <1>3, <1>5, <1>6 DEF JobSafe, Placed
<1> QED
  BY <1>1, <1>4, <1>7, JobStepKeeps

LEMMA ListEventsKeeps ==
    ASSUME PlanInv, NEW r \in Request, listEvents(r)
    PROVE  PlanInv'
<1> DEFINE j == job[r]
           f == [j EXCEPT !.at = "revision", !.seen = Len(events[On(r)])]
<1>1. Running(r) /\ Busy(r) /\ j.at = "events" /\ UNCHANGED <<record, events, row>>
  BY DEF listEvents, Running
<1> PICK t \in Version : t = On(r)
  BY <1>1, BusyJob, OnIsTarget
<1>2. /\ j \in JobRecord /\ Placed(j, row[t], events[t], events[j.v])
  BY <1>1, BusyJob, OnIsTarget
<1>3. Len(events[t]) \in Nat
  BY DEF PlanInv, PlanTypes
<1>4. job' = [job EXCEPT ![r] = f]
  BY DEF listEvents, PlanInv, PlanTypes
<1>5. /\ f \in JobRecord /\ f.kind = j.kind /\ f.v = j.v /\ f.arg = j.arg /\ f.todo = j.todo
      /\ f.stage = j.stage /\ f.made = j.made /\ f.at = "revision" /\ f.base = j.base
      /\ f.seen = Len(events[t])
  BY <1>2, <1>3 DEF JobRecord, Place
<1> HIDE DEF f
<1>6. Ready(f, record[f.v], events[f.v]) /\ Target(f) = t /\ f.todo # <<>>
  BY <1>1, <1>5, MovedJob DEF Place
<1>7. JobSafe(f, record, events, row)
  BY <1>1, <1>2, <1>3, <1>5, <1>6 DEF JobSafe, Placed
<1> QED
  BY <1>1, <1>4, <1>7, JobStepKeeps

LEMMA ReadRevisionKeeps ==
    ASSUME PlanInv, NEW r \in Request, readRevision(r)
    PROVE  PlanInv'
<1> DEFINE j == job[r]
           f == [j EXCEPT !.at = "update", !.rev = row[On(r)].rev]
<1>1. Running(r) /\ Busy(r) /\ j.at = "revision" /\ UNCHANGED <<record, events, row>>
  BY DEF readRevision, Running
<1> PICK t \in Version : t = On(r)
  BY <1>1, BusyJob, OnIsTarget
<1>2. /\ j \in JobRecord /\ Placed(j, row[t], events[t], events[j.v])
  BY <1>1, BusyJob, OnIsTarget
<1>3. row[t].rev \in Nat
  <2>1. row[t] \in Row
    BY <1>1, <1>2 DEF Placed, PlanInv, LogSafe
  <2> QED
    BY <2>1 DEF Row
<1>4. job' = [job EXCEPT ![r] = f]
  BY DEF readRevision, PlanInv, PlanTypes
<1>5. /\ f \in JobRecord /\ f.kind = j.kind /\ f.v = j.v /\ f.arg = j.arg /\ f.todo = j.todo
      /\ f.stage = j.stage /\ f.made = j.made /\ f.at = "update" /\ f.base = j.base
      /\ f.seen = j.seen
  BY <1>2, <1>3 DEF JobRecord, Place
<1> HIDE DEF f
<1>6. Ready(f, record[f.v], events[f.v]) /\ Target(f) = t /\ f.todo # <<>>
  BY <1>1, <1>5, MovedJob DEF Place
<1>7. JobSafe(f, record, events, row)
  BY <1>1, <1>2, <1>5, <1>6 DEF JobSafe, Placed
<1> QED
  BY <1>1, <1>4, <1>7, JobStepKeeps

\* The part of a log that was read.
LEMMA PartOfLog ==
    ASSUME NEW log, LegalLog(log), NEW n \in 0 .. Len(log)
    PROVE  /\ LegalLog(SubSeq(log, 1, n)) /\ Extends(log, SubSeq(log, 1, n))
           /\ Len(SubSeq(log, 1, n)) = n
           /\ \A i \in 1 .. n : SubSeq(log, 1, n)[i] = log[i]
<1> DEFINE C == [type : EventTypes, arg : Arg]
<1>1. log \in Seq(C) /\ Len(log) \in Nat
  BY DEF LegalLog
<1>2. PICK part : part = SubSeq(log, 1, n)
  OBVIOUS
<1>3. /\ part \in Seq(C)
      /\ Len(part) = IF 1 <= n THEN n - 1 + 1 ELSE 0
      /\ \A i \in 1 .. n - 1 + 1 : part[i] = log[1 + i - 1]
  <2> HIDE DEF C
  <2>1. 1 \in Int /\ n \in Int /\ \A i \in 1 .. n : log[i] \in C
    BY <1>1
  <2>2. /\ SubSeq(log, 1, n) \in Seq(C)
        /\ Len(SubSeq(log, 1, n)) = IF 1 <= n THEN n - 1 + 1 ELSE 0
        /\ \A i \in 1 .. n - 1 + 1 : SubSeq(log, 1, n)[i] = log[1 + i - 1]
    BY <2>1, SubSeqProperties
  <2> QED
    BY <1>2, <2>2, Zenon
<1>4. Len(part) = n /\ \A i \in 1 .. n : part[i] = log[i] /\ i \in 1 .. Len(log)
  BY <1>1, <1>3
<1>5. LegalLog(part) /\ Extends(log, part)
  BY <1>1, <1>3, <1>4 DEF LegalLog, Extends
<1> QED
  BY <1>2, <1>4, <1>5

LEMMA NextRevision ==
    ASSUME NEW p \in Row, NEW n \in Nat
    PROVE  /\ [p EXCEPT !.rev = n] \in Row /\ [p EXCEPT !.rev = n].exists
           /\ [p EXCEPT !.rev = n].status = p.status
           /\ [p EXCEPT !.rev = n].completed = p.completed
BY DEF Row

LEMMA ReprojectKeeps ==
    ASSUME PlanInv, NEW r \in Request, reproject(r)
    PROVE  PlanInv'
<1> DEFINE j == job[r]
           f == [AfterCall(j) EXCEPT !.base = NoRow, !.seen = 0, !.rev = 0]
<1>1. Running(r) /\ Busy(r) /\ j.at = "update" /\ UNCHANGED <<record, events>>
  BY DEF reproject, Running
<1> PICK t \in Version : t = On(r)
  BY <1>1, BusyJob, OnIsTarget
<1>2. /\ j \in JobRecord /\ Placed(j, row[t], events[t], events[j.v]) /\ j.todo # <<>>
      /\ j.v \in Version /\ Ready(j, record[j.v], events[j.v])
  BY <1>1, BusyJob, OnIsTarget, HeadIsLegal
<1>3. job' = [job EXCEPT ![r] = f]
  BY DEF reproject
<1>4. LogSafe(t) /\ row[t].exists
  BY <1>1, <1>2 DEF PlanInv, Placed
<1>5. j.seen \in 0 .. Len(events[t]) /\ Len(events[t]) \in Nat
  BY <1>1, <1>2 DEF Placed, JobRecord, PlanInv, PlanTypes
<1> PICK part : part = SubSeq(events[t], 1, j.seen)
  OBVIOUS
<1>6. LegalLog(part) /\ Extends(events[t], part) /\ LegalLog(events[t])
  BY <1>4, <1>5, PartOfLog DEF LogSafe
<1>7. \A i \in 1 .. Len(events[t]) : events[t][i].type = "StepStarted" => Backed(events[t])
  <2> SUFFICES ASSUME NEW i \in 1 .. Len(events[t]), events[t][i].type = "StepStarted"
               PROVE  Backed(events[t])
    OBVIOUS
  <2>1. PICK k \in 1 .. i - 1 :
           events[t][k] \in {Mk("PlanApproved", None), Mk("PlanFinished", Word("completed"))}
    BY <1>4 DEF LogSafe, LegalSteps
  <2>2. k \in 1 .. Len(events[t])
    BY <1>5
  <2> QED
    BY <2>1, <2>2 DEF Backed, HasEvent
<1>8. /\ j.base \in Row
      /\ \A s \in j.base.completed : HasEvent(events[t], Mk("StepCompleted", At(s)))
  BY <1>1, <1>2 DEF Placed
<1> DEFINE p == projectWorkflow(j.base, part)
           w == [p EXCEPT !.rev = row[t].rev + 1]
<1>9. p \in Row /\ Shows(p, events[t])
  BY <1>6, <1>7, <1>8, ProjectionShows
<1> HIDE DEF p
<1>10. row[t].rev \in Nat
  BY <1>4 DEF LogSafe, Row
<1>11. w \in Row /\ w.exists /\ Shows(w, events[t])
  <2>1. row[t].rev + 1 \in Nat
    BY <1>10
  <2>2. /\ w \in Row /\ w.exists
        /\ w.status = p.status /\ w.completed = p.completed
    BY <1>9, <2>1, NextRevision
  <2> HIDE DEF w
  <2> QED
    BY <1>9, <2>2 DEF Shows
<1>12. row' = [row EXCEPT ![t] = w] \/ row' = row
  BY DEF reproject, p
<1> HIDE DEF w
<1>13. /\ row' \in [Version -> Row \cup {NoRow}]
       /\ row'[t] \in Row /\ row'[t].exists /\ Shows(row'[t], events[t])
       /\ \A v \in Version : v # t => row'[v] = row[v]
  <2>1. row \in [Version -> Row \cup {NoRow}] /\ row[t] \in Row /\ Shows(row[t], events[t])
    BY <1>4 DEF PlanInv, PlanTypes, LogSafe
  <2> QED
    BY <1>4, <1>11, <1>12, <2>1
<1>14. LogSafe(t)'
  BY <1>1, <1>4, <1>13 DEF LogSafe
<1>15. \A v \in Version : LogSafe(v)'
  <2>1. \A v \in Version : v # t => LogSafe(v)'
    BY <1>1, <1>13 DEF PlanInv, LogSafe
  <2> QED
    BY <1>14, <2>1
<1>16. Grows
  <2>1. \A v \in Version : Len(events[v]) \in Nat /\ Extends(events[v], events[v])
    BY DEF PlanInv, PlanTypes, Extends
  <2>2. \A v \in Version : row[v].exists => row'[v].exists
    BY <1>13
  <2> QED
    BY <1>1, <2>1, <2>2 DEF Grows
<1>17. /\ Head(j.todo).type \notin {"approveRecord", "prepareRecord"}
       /\ Head(j.todo).type = "approve" => Backed(events[j.v])
       /\ Head(j.todo).type = "startStep" => Begun(events[j.v], j.arg)
  BY <1>1, <1>2 DEF Placed, WorkflowCalls, ActiveCalls, StepCalls
<1>18. /\ AfterCall(j) \in JobRecord
       /\ Ready(AfterCall(j), record[j.v], events[j.v])
       /\ AfterCall(j).at \in {"call", "done"}
       /\ AfterCall(j).at = "call" => AfterCall(j).todo # <<>>
  <2> HIDE DEF j
  <2> QED
    BY <1>2, <1>17, ReadyAfterCall
<1>19. /\ f \in JobRecord /\ f.todo = AfterCall(j).todo /\ f.kind = AfterCall(j).kind
       /\ f.arg = AfterCall(j).arg /\ f.stage = AfterCall(j).stage /\ f.at = AfterCall(j).at
       /\ f.v = j.v
  <2>1. AfterCall(j).v = j.v
    BY <1>2 DEF AfterCall, JobRecord
  <2> QED
    BY <1>18, <2>1 DEF JobRecord
<1> HIDE DEF f
<1>20. Ready(f, record[j.v], events[j.v])
  BY <1>18, <1>19, ReadySame
<1>21. JobSafe(f, record', events', row')
  BY <1>1, <1>18, <1>19, <1>20 DEF JobSafe, Placed
<1>22. /\ (record \in [Version -> RecordStatus])'
       /\ (events \in [Version -> Seq([type : EventTypes, arg : Arg])])'
       /\ (row \in [Version -> Row \cup {NoRow}])'
  BY <1>1, <1>13 DEF PlanInv, PlanTypes
<1> QED
  BY <1>3, <1>15, <1>16, <1>21, <1>22, StepKeeps

-------------------------------------------------------------------------------
(* Every action keeps the invariant: the stream, the faults *)

LEMMA Released ==
    ASSUME PlanInv, NEW r \in Request, job' = [job EXCEPT ![r] = Idle],
           UNCHANGED <<record, events, row>>
    PROVE  PlanInv'
<1>1. JobSafe(Idle, record, events, row)
  BY DEF JobSafe
<1> QED
  BY <1>1, JobStepKeeps

LEMMA StreamNeverStartsKeeps ==
    ASSUME PlanInv, NEW r \in Request, StreamNeverStarts(r)
    PROVE  PlanInv'
BY Released DEF StreamNeverStarts

LEMMA AnswerKeeps ==
    ASSUME PlanInv, NEW r \in Request, Answer(r)
    PROVE  PlanInv'
BY Released DEF Answer

LEMMA StatementFailsKeeps ==
    ASSUME PlanInv, NEW r \in Request, StatementFails(r)
    PROVE  PlanInv'
<1>1. Busy(r) /\ job' = [job EXCEPT ![r] = Failed(job[r])] /\ UNCHANGED <<record, events, row>>
  BY DEF StatementFails, Running, Throw
<1> QED
  BY <1>1, FailedSafe, JobStepKeeps

LEMMA KilledKeeps ==
    ASSUME PlanInv, Killed
    PROVE  PlanInv'
<1>1. /\ UNCHANGED <<record, events, row>>
      /\ job' = [r \in Request |-> Idle]
  BY DEF Killed
<1>2. /\ \A v \in Version : LogSafe(v)'
      /\ \A r \in Request : JobSafe(job'[r], record', events', row')
  BY <1>1 DEF PlanInv, LogSafe, JobSafe
<1> QED
  BY <1>1, <1>2 DEF PlanInv, PlanTypes

LEMMA StreamIsBacked ==
    ASSUME PlanInv, NEW r \in Request, Streaming(r)
    PROVE  /\ job[r].kind = "execute" /\ (\E s \in Step : job[r].arg = At(s))
           /\ Decided(record[job[r].v]) /\ Ran(record[job[r].v])
           /\ Begun(events[job[r].v], job[r].arg) /\ Backed(events[job[r].v])
<1>1. Running(r) /\ Busy(r) /\ Call(r).type = "stream"
  BY DEF Streaming, Running
<1>2. Ran(record[job[r].v]) /\ Begun(events[job[r].v], job[r].arg) /\ job[r].kind = "execute"
  BY <1>1, HeadIsReady
<1>3. Decided(record[job[r].v])
  BY <1>2 DEF Ran, Decided
<1>4. job[r].v \in Version /\ \E s \in Step : job[r].arg = At(s)
  BY <1>1, <1>2, BusyJob DEF Ready
<1>5. Backed(events[job[r].v])
  <2>1. PICK i \in 1 .. Len(events[job[r].v]) : events[job[r].v][i] = Mk("StepStarted", job[r].arg)
    BY <1>2 DEF Begun, HasEvent
  <2>2. LegalSteps(events[job[r].v]) /\ events[job[r].v][i].type = "StepStarted"
    BY <1>4, <2>1 DEF PlanInv, LogSafe, Mk
  <2>3. PICK k \in 1 .. i - 1 : events[job[r].v][k] \in
             {Mk("PlanApproved", None), Mk("PlanFinished", Word("completed"))}
    BY <2>2 DEF LegalSteps
  <2>4. k \in 1 .. Len(events[job[r].v])
    BY <1>4 DEF PlanInv, PlanTypes
  <2> QED
    BY <2>3, <2>4 DEF Backed, HasEvent
<1> QED
  BY <1>2, <1>3, <1>4, <1>5

\* more is the program with a call before it.
CallBefore(C, c, todo, more) ==
    /\ more \in Seq(C) /\ more # <<>>
    /\ \A p \in 1 .. Len(more) : more[p] = c \/ \E q \in 1 .. Len(todo) : more[p] = todo[q]

LEMMA Prepended ==
    ASSUME NEW C, NEW c \in C, NEW todo \in Seq(C), NEW more, more = <<c>> \o todo
    PROVE  CallBefore(C, c, todo, more)
<1>0. PICK one : one = <<c>>
  OBVIOUS
<1>1. one \in Seq(C) /\ Len(one) = 1 /\ one[1] = c
  BY <1>0, OneEvent
<1>2. IsCat(C, one, todo, more)
  <2>1. more = one \o todo
    BY <1>0
  <2> QED
    BY <1>1, <2>1, Appending, Zenon
<1>3. /\ more \in Seq(C) /\ Len(more) = 1 + Len(todo) /\ Len(todo) \in Nat
      /\ \A i \in 1 .. 1 : more[i] = one[i]
      /\ \A i \in 1 .. Len(more) :
            i \notin 1 .. 1 => i - 1 \in 1 .. Len(todo) /\ more[i] = todo[i - 1]
  BY <1>1, <1>2, Zenon DEF IsCat
<1>4. more # <<>>
  <2>1. Len(more) # 0 /\ Len(<<>>) = 0
    BY <1>3
  <2> QED
    BY <2>1, Zenon
<1>5. ASSUME NEW p \in 1 .. Len(more)
      PROVE  more[p] = c \/ \E q \in 1 .. Len(todo) : more[p] = todo[q]
  <2>1. CASE p = 1
    BY <1>1, <1>3, <2>1
  <2>2. CASE p # 1
    BY <1>3, <2>2
  <2> QED
    BY <2>1, <2>2
<1> QED
  BY <1>3, <1>4, <1>5, Zenon DEF CallBefore

LEMMA ToolCallKeeps ==
    ASSUME PlanInv, NEW r \in Request, ToolCall(r)
    PROVE  PlanInv'
<1> DEFINE j == job[r]
           C == [type : CallType, arg : Arg]
           beat == Mk("heartbeat", None)
<1>0. PICK more : more = <<beat>> \o j.todo
  OBVIOUS
<1> DEFINE f == [j EXCEPT !.todo = more, !.beats = j.beats + 1, !.stage = "run"]
<1>1. Streaming(r) /\ Running(r) /\ Busy(r) /\ j.at = "call" /\ UNCHANGED <<record, events, row>>
  BY DEF ToolCall, Streaming, Running
<1>2. /\ j \in JobRecord /\ j.v \in Version /\ Ready(j, record[j.v], events[j.v])
      /\ j.todo \in Seq(C)
  BY <1>1, BusyJob, HeadIsLegal
<1>3. LegalCall(beat) /\ beat.type = "heartbeat" /\ beat \in C
  BY PlanAssumption DEF LegalCall, Mk, None, CallType, ActiveCalls, StepTypes, Arg, Words
<1>4. /\ more \in Seq(C) /\ more # <<>>
      /\ \A p \in 1 .. Len(more) : more[p] = beat \/ \E q \in 1 .. Len(j.todo) : more[p] = j.todo[q]
  <2>1. CallBefore(C, beat, j.todo, more)
    <3> HIDE DEF beat, j, C
    <3> QED
      BY <1>0, <1>2, <1>3, Prepended, Zenon
  <2> HIDE DEF beat
  <2> QED
    BY <2>1, Zenon DEF CallBefore
<1>5. job' = [job EXCEPT ![r] = f]
  BY <1>0 DEF ToolCall, PlanInv, PlanTypes
<1>6. /\ f \in JobRecord /\ f.kind = j.kind /\ f.v = j.v /\ f.arg = j.arg /\ f.todo = more
      /\ f.stage = "run" /\ f.at = "call"
  <2>1. j.beats + 1 \in Nat
    BY <1>2 DEF JobRecord
  <2>2. PICK beats \in Nat : beats = j.beats + 1
    BY <2>1
  <2>3. f = [j EXCEPT !.todo = more, !.beats = beats, !.stage = "run"]
    BY <2>2
  <2> HIDE DEF f
  <2>4. more \in Seq([type : CallType, arg : Arg])
    BY <1>4
  <2> QED
    BY <1>1, <1>2, <2>3, <2>4 DEF JobRecord
<1> HIDE DEF f, beat
<1>7. /\ f.kind = "execute" /\ (\E s \in Step : f.arg = At(s)) /\ record[j.v] # "none"
      /\ Decided(record[j.v]) /\ Ran(record[j.v])
      /\ Begun(events[j.v], f.arg) /\ Backed(events[j.v])
  BY <1>1, <1>6, StreamIsBacked DEF Decided
<1>8. \A p \in 1 .. Len(more) :
         /\ LegalCall(more[p])
         /\ more[p].type \in {"startStep", "stream"} => more[p].arg = f.arg
         /\ more[p].type # "readRecord"
         /\ more[p].type \in {"completeStep", "failStep"} => Begun(events[j.v], more[p].arg)
  BY <1>2, <1>3, <1>4, <1>6, <1>7 DEF Ready
<1>9. Ready(f, record[j.v], events[j.v])
  BY <1>6, <1>7, <1>8 DEF Ready, Waits
<1>10. JobSafe(f, record, events, row)
  BY <1>4, <1>6, <1>9 DEF JobSafe, Placed
<1> QED
  BY <1>1, <1>5, <1>10, JobStepKeeps

LEMMA StreamEndsKeeps ==
    ASSUME PlanInv, NEW r \in Request, StreamEnds(r)
    PROVE  PlanInv'
<1> DEFINE j == job[r]
<1>1. Streaming(r) /\ Running(r) /\ Busy(r) /\ j.at = "call" /\ UNCHANGED <<record, events, row>>
  BY DEF StreamEnds, Streaming, Running
<1> PICK end \in {"failStep", "suspend", "completeStep"} :
            job' = [job EXCEPT ![r].todo = <<Mk(end, job[r].arg)>>, ![r].stage = "run"]
  BY DEF StreamEnds
<1>2. /\ j \in JobRecord /\ j.v \in Version
  BY <1>1, BusyJob
<1>3. /\ j.kind = "execute" /\ (\E s \in Step : j.arg = At(s))
      /\ Begun(events[j.v], j.arg) /\ record[j.v] # "none"
  BY <1>1, StreamIsBacked DEF Decided
<1> DEFINE c == Mk(end, j.arg)
           f == [j EXCEPT !.todo = <<c>>, !.stage = "run"]
<1>4. LegalCall(c) /\ c.type = end /\ c.arg = j.arg
  <2>1. j.arg \in Arg
    BY <1>2 DEF JobRecord
  <2> QED
    BY <1>3, <2>1 DEF LegalCall, Mk, CallType, ActiveCalls, StepCalls, StepTypes
<1>5. job' = [job EXCEPT ![r] = f]
  BY DEF PlanInv, PlanTypes
<1> HIDE DEF c
<1>6. <<c>> \in Seq([type : CallType, arg : Arg]) /\ <<c>> # <<>>
  BY <1>4, OneCall
<1> PICK todo : todo = <<c>>
  OBVIOUS
<1>7. /\ f \in JobRecord /\ f.kind = j.kind /\ f.v = j.v /\ f.arg = j.arg /\ f.todo = todo
      /\ f.stage = "run" /\ f.at = "call" /\ todo # <<>>
  <2>1. todo \in Seq([type : CallType, arg : Arg]) /\ todo # <<>>
    BY <1>6
  <2>2. f = [j EXCEPT !.todo = todo, !.stage = "run"]
    OBVIOUS
  <2> HIDE DEF f
  <2> QED
    BY <1>1, <1>2, <2>1, <2>2 DEF JobRecord
<1> HIDE DEF f
<1>8. Ready(f, record[j.v], events[j.v])
  BY <1>3, <1>4, <1>7, ReadyOne
<1>9. JobSafe(f, record, events, row)
  BY <1>7, <1>8 DEF JobSafe, Placed
<1> QED
  BY <1>1, <1>5, <1>9, JobStepKeeps

-------------------------------------------------------------------------------
(* A request begins *)

\* A request that begins: its calls are legal and in the right order.
Fresh(kind, arg, todo) ==
    /\ todo \in Seq([type : CallType, arg : Arg]) /\ todo # <<>>
    /\ \A p \in 1 .. Len(todo) :
          /\ LegalCall(todo[p])
          /\ todo[p].type \in {"startStep", "stream"} => kind = "execute" /\ todo[p].arg = arg
          /\ todo[p].type = "readRecord" => kind # "execute"
          /\ todo[p].type \notin {"completeStep", "failStep"}
          /\ kind = "plan" => todo[p].type \in {"createRecord", "ensure"}
    /\ Waits(todo, {"approve"}, FALSE, {"approveRecord", "prepareRecord"})
    /\ Waits(todo, {"startStep", "stream"}, FALSE, {"prepareRecord"})
    /\ Waits(todo, {"startStep"}, FALSE, {"approve"})
    /\ Waits(todo, {"stream"}, FALSE, {"startStep"})

LEMMA OneAndTwo ==
    ASSUME NEW a, NEW b, NEW c
    PROVE  <<a>> \o <<b, c>> = <<a, b, c>>
<1> DEFINE S == {a, b, c}
<1>1. <<a>> \in Seq(S) /\ <<b, c>> \in Seq(S) /\ <<a, b, c>> \in Seq(S)
  OBVIOUS
<1>2. PICK s : s = <<a>> \o <<b, c>>
  OBVIOUS
<1>3. PICK t : t = <<a, b, c>>
  OBVIOUS
<1>4. s \in Seq(S) /\ Len(s) = 3 /\ t \in Seq(S) /\ Len(t) = 3
  BY <1>1, <1>2, <1>3
<1>5. s[1] = a /\ s[2] = b /\ s[3] = c
  BY <1>1, <1>2
<1>6. t[1] = a /\ t[2] = b /\ t[3] = c
  BY <1>3
<1>7. ASSUME NEW i \in 1 .. 3 PROVE s[i] = t[i]
  <2>1. i = 1 \/ i = 2 \/ i = 3
    OBVIOUS
  <2> QED
    BY <1>5, <1>6, <2>1, Zenon
<1> HIDE DEF S
<1>8. s = t
  BY <1>4, <1>7, SeqEqual
<1> QED
  BY <1>2, <1>3, <1>8, Zenon

LEMMA TwoAndTwo ==
    ASSUME NEW a, NEW b, NEW c, NEW d
    PROVE  <<a, b>> \o <<c, d>> = <<a, b, c, d>>
<1> DEFINE S == {a, b, c, d}
<1>1. <<a, b>> \in Seq(S) /\ <<c, d>> \in Seq(S) /\ <<a, b, c, d>> \in Seq(S)
  OBVIOUS
<1>2. PICK s : s = <<a, b>> \o <<c, d>>
  OBVIOUS
<1>3. PICK t : t = <<a, b, c, d>>
  OBVIOUS
<1>4. s \in Seq(S) /\ Len(s) = 4 /\ t \in Seq(S) /\ Len(t) = 4
  BY <1>1, <1>2, <1>3
<1>5. s[1] = a /\ s[2] = b /\ s[3] = c /\ s[4] = d
  BY <1>1, <1>2
<1>6. t[1] = a /\ t[2] = b /\ t[3] = c /\ t[4] = d
  BY <1>3
<1>7. ASSUME NEW i \in 1 .. 4 PROVE s[i] = t[i]
  <2>1. i = 1 \/ i = 2 \/ i = 3 \/ i = 4
    OBVIOUS
  <2> QED
    BY <1>5, <1>6, <2>1, Zenon
<1> HIDE DEF S
<1>8. s = t
  BY <1>4, <1>7, SeqEqual
<1> QED
  BY <1>2, <1>3, <1>8, Zenon

LEMMA FourAndTwo ==
    ASSUME NEW a, NEW b, NEW c, NEW d, NEW e, NEW f
    PROVE  <<a, b, c, d>> \o <<e, f>> = <<a, b, c, d, e, f>>
<1> DEFINE S == {a, b, c, d, e, f}
<1>1. <<a, b, c, d>> \in Seq(S) /\ <<e, f>> \in Seq(S) /\ <<a, b, c, d, e, f>> \in Seq(S)
  OBVIOUS
<1>2. PICK s : s = <<a, b, c, d>> \o <<e, f>>
  OBVIOUS
<1>3. PICK t : t = <<a, b, c, d, e, f>>
  OBVIOUS
<1>4. s \in Seq(S) /\ Len(s) = 6 /\ t \in Seq(S) /\ Len(t) = 6
  BY <1>1, <1>2, <1>3
<1>5. s[1] = a /\ s[2] = b /\ s[3] = c /\ s[4] = d /\ s[5] = e /\ s[6] = f
  BY <1>1, <1>2
<1>6. t[1] = a /\ t[2] = b /\ t[3] = c /\ t[4] = d /\ t[5] = e /\ t[6] = f
  BY <1>3
<1>7. ASSUME NEW i \in 1 .. 6 PROVE s[i] = t[i]
  <2>1. i = 1 \/ i = 2 \/ i = 3 \/ i = 4 \/ i = 5 \/ i = 6
    OBVIOUS
  <2> QED
    BY <1>5, <1>6, <2>1, Zenon
<1> HIDE DEF S
<1>8. s = t
  BY <1>4, <1>7, SeqEqual
<1> QED
  BY <1>2, <1>3, <1>8, Zenon

LEMMA Programs ==
    ASSUME NEW arg
    PROVE  /\ Program("plan", arg) = <<Mk("createRecord", None), Ensure>>
           /\ Program("approve", arg) = <<Mk("approveRecord", None), Ensure, Mk("approve", None)>>
           /\ Program("reject", arg) =
                 <<Mk("rejectRecord", None), Ensure, Mk("finish", Word("rejected"))>>
           /\ Program("finish", arg) = <<Mk("finishRecord", arg), Mk("finish", arg)>>
           /\ Program("execute", arg) =
                 <<Mk("prepareRecord", None), Ensure, Ensure, Mk("approve", None),
                   Mk("startStep", arg), Mk("stream", arg)>>
           /\ Program("validate", arg) =
                 <<Mk("readRecord", None), Ensure, Mk("reportValidator", arg)>>
           /\ Program("replan", arg) =
                 <<Mk("readRecord", None), Ensure, Mk("createRecord", None), Ensure,
                   Mk("issueReplan", None)>>
<1>1. /\ Program("plan", arg) = <<Mk("createRecord", None), Ensure>>
      /\ Program("reject", arg) = <<Mk("rejectRecord", None), Ensure, Mk("finish", Word("rejected"))>>
      /\ Program("finish", arg) = <<Mk("finishRecord", arg), Mk("finish", arg)>>
      /\ Program("validate", arg) = <<Mk("readRecord", None), Ensure, Mk("reportValidator", arg)>>
  BY DEF Program
<1>2. Program("replan", arg) =
         <<Mk("readRecord", None), Ensure, Mk("createRecord", None), Ensure, Mk("issueReplan", None)>>
  BY DEF Program
<1>3. Program("approve", arg) = <<Mk("approveRecord", None), Ensure, Mk("approve", None)>>
  <2>1. Program("approve", arg) = <<Mk("approveRecord", None)>> \o <<Ensure, Mk("approve", None)>>
    BY DEF Program, Approve
  <2> QED
    BY <2>1, OneAndTwo, Zenon
<1>4. Program("execute", arg) =
         <<Mk("prepareRecord", None), Ensure, Ensure, Mk("approve", None),
           Mk("startStep", arg), Mk("stream", arg)>>
  <2>1. Program("execute", arg) =
           (<<Mk("prepareRecord", None), Ensure>> \o <<Ensure, Mk("approve", None)>>)
              \o <<Mk("startStep", arg), Mk("stream", arg)>>
    BY DEF Program, Approve
  <2>2. <<Mk("prepareRecord", None), Ensure>> \o <<Ensure, Mk("approve", None)>>
           = <<Mk("prepareRecord", None), Ensure, Ensure, Mk("approve", None)>>
    BY TwoAndTwo, Zenon
  <2>3. <<Mk("prepareRecord", None), Ensure, Ensure, Mk("approve", None)>>
           \o <<Mk("startStep", arg), Mk("stream", arg)>>
        = <<Mk("prepareRecord", None), Ensure, Ensure, Mk("approve", None),
            Mk("startStep", arg), Mk("stream", arg)>>
    <3>1. \A a, b, c, d : <<a, b, b, c>> \o <<d, Mk("stream", arg)>> = <<a, b, b, c, d, Mk("stream", arg)>>
      BY FourAndTwo
    <3> QED
      BY <3>1
  <2> QED
    BY <2>1, <2>2, <2>3, Zenon
<1> QED
  BY <1>1, <1>2, <1>3, <1>4, Zenon

LEMMA ProgramsAreFresh ==
    ASSUME NEW kind \in Kinds, NEW arg \in Arguments(kind)
    PROVE  Fresh(kind, arg, Program(kind, arg))
<1>1. None \in Arg /\ (\A s \in Step : At(s) \in Arg) /\ (\A w \in Words : Word(w) \in Arg)
  BY PlanAssumption DEF Arg, None, At, Word, Words, Step
<1>2. \A type, a : Mk(type, a).type = type /\ Mk(type, a).arg = a
  BY DEF Mk
<1>3. \A type \in CallType, a \in Arg :
         type \notin StepTypes \cup {"ensure", "finishRecord", "finish"} => LegalCall(Mk(type, a))
  BY <1>2 DEF LegalCall, Mk
<1>4. LegalCall(Ensure) /\ Ensure.type = "ensure"
  BY <1>1, <1>2 DEF LegalCall, Ensure, Mk, CallType, StepTypes, ActiveCalls, StepCalls
<1>5. \A c : LegalCall(c) => c \in [type : CallType, arg : Arg]
  BY DEF LegalCall
<1>6. CASE kind = "plan"
  <2>1. PICK a :
           /\ a = Mk("createRecord", None)
    BY Zenon
  <2>2. /\ LegalCall(a)
        /\ a.type = "createRecord"
    BY <1>1, <1>2, <1>3, <2>1 DEF CallType, StepTypes, ActiveCalls, RecordCalls, StepCalls
  <2>3. Program(kind, arg) = <<a, Ensure>>
    BY <1>6, <2>1, Programs
  <2>4. PICK todo : todo = <<a, Ensure>>
    OBVIOUS
  <2>5. /\ todo \in Seq([type : CallType, arg : Arg]) /\ Len(todo) = 2
        /\ todo[1] = a /\ todo[2] = Ensure
    BY <1>4, <1>5, <2>2, <2>4
  <2>6. todo # <<>>
    BY <2>4
  <2>7. \A p \in 1 .. 2 : p = 1 \/ p = 2
    OBVIOUS
  <2>8. Fresh(kind, arg, todo)
    BY <1>4, <1>6, <2>2, <2>5, <2>6, <2>7 DEF Fresh, Waits
  <2> QED
    BY <2>3, <2>4, <2>8, Zenon
<1>7. CASE kind = "approve"
  <2>1. PICK a, b :
           /\ a = Mk("approveRecord", None)
           /\ b = Mk("approve", None)
    BY Zenon
  <2>2. /\ LegalCall(a) /\ LegalCall(b)
        /\ a.type = "approveRecord" /\ b.type = "approve"
    BY <1>1, <1>2, <1>3, <2>1 DEF CallType, StepTypes, ActiveCalls, RecordCalls, StepCalls
  <2>3. Program(kind, arg) = <<a, Ensure, b>>
    BY <1>7, <2>1, Programs
  <2>4. PICK todo : todo = <<a, Ensure, b>>
    OBVIOUS
  <2>5. /\ todo \in Seq([type : CallType, arg : Arg]) /\ Len(todo) = 3
        /\ todo[1] = a /\ todo[2] = Ensure /\ todo[3] = b
    BY <1>4, <1>5, <2>2, <2>4
  <2>6. todo # <<>>
    BY <2>4
  <2>7. \A p \in 1 .. 3 : p = 1 \/ p = 2 \/ p = 3
    OBVIOUS
  <2>8. Fresh(kind, arg, todo)
    BY <1>4, <1>7, <2>2, <2>5, <2>6, <2>7 DEF Fresh, Waits
  <2> QED
    BY <2>3, <2>4, <2>8, Zenon
<1>8. CASE kind = "reject"
  <2>1. PICK a, b :
           /\ a = Mk("rejectRecord", None)
           /\ b = Mk("finish", Word("rejected"))
    BY Zenon
  <2>2. /\ LegalCall(a) /\ LegalCall(b)
        /\ a.type = "rejectRecord" /\ b.type = "finish"
    BY <1>1, <1>2, <1>3, <2>1
       DEF LegalCall, Mk, CallType, StepTypes, ActiveCalls, RecordCalls, StepCalls, Words
  <2>3. Program(kind, arg) = <<a, Ensure, b>>
    BY <1>8, <2>1, Programs
  <2>4. PICK todo : todo = <<a, Ensure, b>>
    OBVIOUS
  <2>5. /\ todo \in Seq([type : CallType, arg : Arg]) /\ Len(todo) = 3
        /\ todo[1] = a /\ todo[2] = Ensure /\ todo[3] = b
    BY <1>4, <1>5, <2>2, <2>4
  <2>6. todo # <<>>
    BY <2>4
  <2>7. \A p \in 1 .. 3 : p = 1 \/ p = 2 \/ p = 3
    OBVIOUS
  <2>8. Fresh(kind, arg, todo)
    BY <1>4, <1>8, <2>2, <2>5, <2>6, <2>7 DEF Fresh, Waits
  <2> QED
    BY <2>3, <2>4, <2>8, Zenon
<1>9. CASE kind = "finish"
  <2>1. PICK a, b :
           /\ a = Mk("finishRecord", arg)
           /\ b = Mk("finish", arg)
    BY Zenon
  <2>2. /\ LegalCall(a) /\ LegalCall(b)
        /\ a.type = "finishRecord" /\ b.type = "finish"
    <3>1. arg \in {Word("completed"), Word("failed")}
      BY <1>9 DEF Arguments
    <3>2. arg \in Arg
      BY <1>1, <3>1 DEF Words
    <3> QED
      BY <1>1, <1>2, <1>3, <2>1, <3>1, <3>2
         DEF LegalCall, Mk, CallType, StepTypes, ActiveCalls, RecordCalls, StepCalls
  <2>3. Program(kind, arg) = <<a, b>>
    BY <1>9, <2>1, Programs
  <2>4. PICK todo : todo = <<a, b>>
    OBVIOUS
  <2>5. /\ todo \in Seq([type : CallType, arg : Arg]) /\ Len(todo) = 2
        /\ todo[1] = a /\ todo[2] = b
    BY <1>4, <1>5, <2>2, <2>4
  <2>6. todo # <<>>
    BY <2>4
  <2>7. \A p \in 1 .. 2 : p = 1 \/ p = 2
    OBVIOUS
  <2>8. Fresh(kind, arg, todo)
    BY <1>4, <1>9, <2>2, <2>5, <2>6, <2>7 DEF Fresh, Waits
  <2> QED
    BY <2>3, <2>4, <2>8, Zenon
<1>10. CASE kind = "execute"
  <2>1. PICK a, b, c, d :
           /\ a = Mk("prepareRecord", None)
           /\ b = Mk("approve", None)
           /\ c = Mk("startStep", arg)
           /\ d = Mk("stream", arg)
    BY Zenon
  <2>2. /\ LegalCall(a) /\ LegalCall(b) /\ LegalCall(c) /\ LegalCall(d)
        /\ a.type = "prepareRecord" /\ b.type = "approve" /\ c.type = "startStep" /\ d.type = "stream"
        /\ c.arg = arg /\ d.arg = arg
    <3>1. \E s \in Step : arg = At(s)
      BY <1>10 DEF Arguments
    <3>2. arg \in Arg
      BY <1>1, <3>1 DEF Words
    <3> QED
      BY <1>1, <1>2, <1>3, <2>1, <3>1, <3>2
         DEF LegalCall, Mk, CallType, StepTypes, ActiveCalls, RecordCalls, StepCalls
  <2>3. Program(kind, arg) = <<a, Ensure, Ensure, b, c, d>>
    BY <1>10, <2>1, Programs
  <2>4. PICK todo : todo = <<a, Ensure, Ensure, b, c, d>>
    OBVIOUS
  <2>5. /\ todo \in Seq([type : CallType, arg : Arg]) /\ Len(todo) = 6
        /\ todo[1] = a /\ todo[2] = Ensure /\ todo[3] = Ensure /\ todo[4] = b /\ todo[5] = c /\ todo[6] = d
    BY <1>4, <1>5, <2>2, <2>4
  <2>6. todo # <<>>
    BY <2>4
  <2>7. \A p \in 1 .. 6 : p = 1 \/ p = 2 \/ p = 3 \/ p = 4 \/ p = 5 \/ p = 6
    OBVIOUS
  <2>8. Fresh(kind, arg, todo)
    BY <1>4, <1>10, <2>2, <2>5, <2>6, <2>7 DEF Fresh, Waits
  <2> QED
    BY <2>3, <2>4, <2>8, Zenon
<1>11. CASE kind = "validate"
  <2>1. PICK a, b :
           /\ a = Mk("readRecord", None)
           /\ b = Mk("reportValidator", arg)
    BY Zenon
  <2>2. /\ LegalCall(a) /\ LegalCall(b)
        /\ a.type = "readRecord" /\ b.type = "reportValidator"
    <3>1. arg \in {Word("passed"), Word("needs_replan")}
      BY <1>11 DEF Arguments
    <3>2. arg \in Arg
      BY <1>1, <3>1 DEF Words
    <3> QED
      BY <1>1, <1>2, <1>3, <2>1, <3>1, <3>2
         DEF LegalCall, Mk, CallType, StepTypes, ActiveCalls, RecordCalls, StepCalls
  <2>3. Program(kind, arg) = <<a, Ensure, b>>
    BY <1>11, <2>1, Programs
  <2>4. PICK todo : todo = <<a, Ensure, b>>
    OBVIOUS
  <2>5. /\ todo \in Seq([type : CallType, arg : Arg]) /\ Len(todo) = 3
        /\ todo[1] = a /\ todo[2] = Ensure /\ todo[3] = b
    BY <1>4, <1>5, <2>2, <2>4
  <2>6. todo # <<>>
    BY <2>4
  <2>7. \A p \in 1 .. 3 : p = 1 \/ p = 2 \/ p = 3
    OBVIOUS
  <2>8. Fresh(kind, arg, todo)
    BY <1>4, <1>11, <2>2, <2>5, <2>6, <2>7 DEF Fresh, Waits
  <2> QED
    BY <2>3, <2>4, <2>8, Zenon
<1>12. CASE kind = "replan"
  <2>1. PICK a, b, c :
           /\ a = Mk("readRecord", None)
           /\ b = Mk("createRecord", None)
           /\ c = Mk("issueReplan", None)
    BY Zenon
  <2>2. /\ LegalCall(a) /\ LegalCall(b) /\ LegalCall(c)
        /\ a.type = "readRecord" /\ b.type = "createRecord" /\ c.type = "issueReplan"
    BY <1>1, <1>2, <1>3, <2>1 DEF CallType, StepTypes, ActiveCalls, RecordCalls, StepCalls
  <2>3. Program(kind, arg) = <<a, Ensure, b, Ensure, c>>
    BY <1>12, <2>1, Programs
  <2>4. PICK todo : todo = <<a, Ensure, b, Ensure, c>>
    OBVIOUS
  <2>5. /\ todo \in Seq([type : CallType, arg : Arg]) /\ Len(todo) = 5
        /\ todo[1] = a /\ todo[2] = Ensure /\ todo[3] = b /\ todo[4] = Ensure /\ todo[5] = c
    BY <1>4, <1>5, <2>2, <2>4
  <2>6. todo # <<>>
    BY <2>4
  <2>7. \A p \in 1 .. 5 : p = 1 \/ p = 2 \/ p = 3 \/ p = 4 \/ p = 5
    OBVIOUS
  <2>8. Fresh(kind, arg, todo)
    BY <1>4, <1>12, <2>2, <2>5, <2>6, <2>7 DEF Fresh, Waits
  <2> QED
    BY <2>3, <2>4, <2>8, Zenon
<1> QED
  BY <1>6, <1>7, <1>8, <1>9, <1>10, <1>11, <1>12 DEF Kinds

LEMMA BeginKeeps ==
    ASSUME PlanInv, NEW r \in Request, Begin(r)
    PROVE  PlanInv'
<1>1. PICK kind \in Kinds, v \in Version : \E arg \in Arguments(kind) :
         /\ kind # "plan" => record[v] # "none"
         /\ job' = [job EXCEPT ![r] =
               [kind |-> kind, v |-> v, arg |-> arg, todo |-> Program(kind, arg),
                at |-> "call", stage |-> "gate", made |-> 0, beats |-> 0,
                expected |-> "none", new |-> <<>>, base |-> NoRow, seen |-> 0, rev |-> 0]]
         /\ UNCHANGED <<record, events, row>>
  BY DEF Begin
<1>2. PICK arg \in Arguments(kind) :
         /\ kind # "plan" => record[v] # "none"
         /\ job' = [job EXCEPT ![r] =
               [kind |-> kind, v |-> v, arg |-> arg, todo |-> Program(kind, arg),
                at |-> "call", stage |-> "gate", made |-> 0, beats |-> 0,
                expected |-> "none", new |-> <<>>, base |-> NoRow, seen |-> 0, rev |-> 0]]
         /\ UNCHANGED <<record, events, row>>
  BY <1>1
<1>3. PICK todo : todo = Program(kind, arg)
  OBVIOUS
<1>4. Fresh(kind, arg, todo)
  BY <1>3, ProgramsAreFresh, Zenon
<1> DEFINE f == [kind |-> kind, v |-> v, arg |-> arg, todo |-> todo,
                 at |-> "call", stage |-> "gate", made |-> 0, beats |-> 0,
                 expected |-> "none", new |-> <<>>, base |-> NoRow, seen |-> 0, rev |-> 0]
<1>5. job' = [job EXCEPT ![r] = f]
  BY <1>2, <1>3
<1>6. arg \in Arg /\ (kind = "execute" => \E s \in Step : arg = At(s))
  BY PlanAssumption DEF Arguments, Arg, Kinds, Word, At, None, Words, Step
<1>7. /\ f \in JobRecord /\ f.kind = kind /\ f.v = v /\ f.arg = arg /\ f.todo = todo
      /\ f.stage = "gate" /\ f.at = "call" /\ todo # <<>>
  <2>1. <<>> \in Seq([type : EventTypes, arg : Arg])
    OBVIOUS
  <2> QED
    BY <1>4, <1>6, <2>1 DEF Fresh, JobRecord, Place, RecordStatus
<1> HIDE DEF f
<1>8. Ready(f, record[v], events[v])
  <2>1. /\ Waits(todo, {"approve"}, Decided(record[v]), {"approveRecord", "prepareRecord"})
        /\ Waits(todo, {"startStep", "stream"}, Ran(record[v]), {"prepareRecord"})
        /\ Waits(todo, {"startStep"}, Backed(events[v]), {"approve"})
        /\ Waits(todo, {"stream"}, Begun(events[v], arg), {"startStep"})
    BY <1>4, WaitsKept DEF Fresh
  <2> QED
    BY <1>2, <1>4, <1>6, <1>7, <2>1 DEF Fresh, Ready
<1>9. JobSafe(f, record, events, row)
  BY <1>7, <1>8 DEF JobSafe, Placed
<1> QED
  BY <1>2, <1>5, <1>9, JobStepKeeps

-------------------------------------------------------------------------------
LEMMA InitKeeps ==
    ASSUME Init
    PROVE  PlanInv
<1>1. PlanTypes
  BY DEF Init, PlanTypes, RecordStatus
<1>2. ASSUME NEW v \in Version PROVE LogSafe(v)
  <2>1. events[v] = <<>> /\ row[v] = NoRow /\ record[v] = "none"
    BY DEF Init
  <2>2. Len(events[v]) = 0 /\ events[v] \in Seq([type : EventTypes, arg : Arg])
    BY <2>1
  <2> QED
    BY <2>1, <2>2 DEF LogSafe, LegalLog, LegalSteps, NoRow
<1>3. \A r \in Request : JobSafe(job[r], record, events, row)
  BY DEF Init, JobSafe
<1> QED
  BY <1>1, <1>2, <1>3 DEF PlanInv

LEMMA NextKeeps ==
    ASSUME PlanInv, [Next]_vars
    PROVE  PlanInv'
<1>1. CASE UNCHANGED vars
  <2>1. \A v \in Version : LogSafe(v)'
    BY <1>1 DEF vars, PlanInv, LogSafe
  <2>2. \A r \in Request : JobSafe(job'[r], record', events', row')
    BY <1>1 DEF vars, PlanInv
  <2> QED
    BY <1>1, <2>1, <2>2 DEF vars, PlanInv, PlanTypes
<1>2. CASE Killed
  BY <1>2, KilledKeeps
<1>3. ASSUME NEW r \in Request, StoreStep(r) PROVE PlanInv'
  <2>1. CASE ReadRecord(r) \/ updatePlanStatus(r) \/ createPendingPlan(r) \/ getPlan(r)
    BY <2>1, ReadRecordKeeps, UpdatePlanStatusKeeps, CreatePendingPlanKeeps, GetPlanKeeps
  <2>2. CASE LookForRow(r) \/ createForPlan(r) \/ ReadRow(r) \/ appendEvents(r)
    BY <2>2, LookForRowKeeps, CreateForPlanKeeps, ReadRowKeeps, AppendEventsKeeps
  <2>3. CASE ReadState(r) \/ listEvents(r) \/ readRevision(r) \/ reproject(r)
    BY <2>3, ReadStateKeeps, ListEventsKeeps, ReadRevisionKeeps, ReprojectKeeps
  <2> QED
    BY <1>3, <2>1, <2>2, <2>3 DEF StoreStep
<1>4. ASSUME NEW r \in Request,
             \/ Begin(r) \/ Answer(r) \/ StreamNeverStarts(r)
             \/ ToolCall(r) \/ StreamEnds(r) \/ StatementFails(r)
      PROVE  PlanInv'
  BY <1>4, BeginKeeps, AnswerKeeps, StreamNeverStartsKeeps, ToolCallKeeps, StreamEndsKeeps,
     StatementFailsKeeps
<1> QED
  BY <1>1, <1>2, <1>3, <1>4 DEF Next

\* PlanInv holds throughout: whatever requests arrive, statement by statement, and
\* whatever fails, every job, log and row of plan-store.ts and
\* plan-workflow-store.ts stays in order.
THEOREM Inductive == Spec => []PlanInv
<1> QED
  BY InitKeeps, NextKeeps, PTL DEF Spec

\* The stores keep their shape, and a version has a row exactly when it has events
\* (createForPlan inserts both in one transaction).
THEOREM TypeCorrect == Spec => []TypeOK
<1>1. PlanInv => TypeOK
  <2> SUFFICES ASSUME PlanInv PROVE TypeOK
    OBVIOUS
  <2>1. ASSUME NEW v \in Version
        PROVE  /\ \A i \in 1 .. Len(events[v]) : events[v][i].type \in EventTypes
               /\ row[v].exists = (events[v] # <<>>)
               /\ row[v].exists => row[v].status \in RowStatus
    <3>1. LogSafe(v) /\ row[v] \in Row \cup {NoRow}
      BY DEF PlanInv, PlanTypes
    <3>2. \A i \in 1 .. Len(events[v]) : events[v][i].type \in EventTypes
      BY <3>1 DEF LogSafe, LegalLog, LegalEvent
    <3>3. row[v].exists = TRUE \/ row[v].exists = FALSE
      <4>1. CASE row[v] \in Row
        BY <4>1 DEF Row
      <4>2. CASE row[v] = NoRow
        BY <4>2 DEF NoRow
      <4> QED
        BY <3>1, <4>1, <4>2
    <3>4. row[v].exists => row[v].status \in RowStatus
      BY <3>1 DEF LogSafe, Row
    <3>5. row[v].exists = (events[v] # <<>>)
      BY <3>1, <3>3 DEF LogSafe
    <3> QED
      BY <3>2, <3>4, <3>5
  <2>2. ASSUME NEW r \in Request, Busy(r) PROVE job[r].kind \in Kinds /\ job[r].v \in Version
    BY <2>2, BusyJob DEF JobRecord
  <2> QED
    BY <2>1, <2>2 DEF TypeOK, PlanInv, PlanTypes
<1> QED
  BY <1>1, Inductive, PTL

\* A step starts only after the plan was approved or reported as completed, and
\* ends only after it started, in every log that plan-workflow-store.ts writes, for
\* any number of concurrent requests, failed statements and restarts.
THEOREM LogLegal == Spec => []LogIsLegal
<1>1. PlanInv => LogIsLegal
  <2> SUFFICES ASSUME PlanInv, NEW v \in Version, NEW i \in 1 .. Len(events[v])
               PROVE  /\ Logged(v, i, "StepStarted") =>
                            \/ Before(v, i, "PlanApproved", None)
                            \/ Before(v, i, "PlanFinished", Word("completed"))
                      /\ events[v][i].type \in {"StepCompleted", "StepFailed"}
                            => Before(v, i, "StepStarted", events[v][i].arg)
    BY DEF LogIsLegal
  <2>1. LegalSteps(events[v])
    BY DEF PlanInv, LogSafe
  <2> QED
    BY <2>1 DEF LegalSteps, Logged, Before
<1> QED
  BY <1>1, Inductive, PTL

\* The gate of execution.ts: no approval is logged for a record nobody decided on,
\* and a version whose record is rejected has no started step and no running stream.
THEOREM Gate == Spec => []GateHolds
<1>1. PlanInv => GateHolds
  <2> SUFFICES ASSUME PlanInv, NEW v \in Version
               PROVE  /\ record[v] = "pending_approval"
                            => \A i \in 1 .. Len(events[v]) : ~ Logged(v, i, "PlanApproved")
                      /\ record[v] = "rejected" =>
                            /\ \A i \in 1 .. Len(events[v]) : ~ Logged(v, i, "StepStarted")
                            /\ \A r \in Request : ~ (Streaming(r) /\ job[r].v = v)
    BY DEF GateHolds
  <2>1. LogSafe(v)
    BY DEF PlanInv
  <2>2. ASSUME NEW r \in Request, Streaming(r) /\ job[r].v = v PROVE record[v] # "rejected"
    BY <2>2, StreamIsBacked DEF Ran
  <2> QED
    BY <2>1, <2>2 DEF LogSafe, Logged, Decided, Ran
<1> QED
  BY <1>1, Inductive, PTL

-------------------------------------------------------------------------------
(* What a step does to the records *)

LEMMA NextStatusMovesForward ==
    ASSUME NEW c, c.type \in RecordCalls, LegalCall(c), NEW status \in RecordStatus,
           status # "none", NextStatus(c, status) \notin {"same", "error"}
    PROVE  NextStatus(c, status) \in MayBecome(status)
<1>1. CASE c.type = "approveRecord"
  BY <1>1 DEF NextStatus, MayBecome, RecordStatus, Accepted
<1>2. CASE c.type = "rejectRecord"
  BY <1>2 DEF NextStatus, MayBecome, RecordStatus
<1>3. CASE c.type = "finishRecord"
  <2>1. c.arg.word \in {"completed", "failed"}
    BY <1>3 DEF LegalCall, Word
  <2> QED
    BY <1>3, <2>1 DEF NextStatus, MayBecome, RecordStatus
<1>4. CASE c.type = "prepareRecord"
  BY <1>4 DEF NextStatus, MayBecome, RecordStatus
<1> QED
  BY <1>1, <1>2, <1>3, <1>4 DEF RecordCalls

\* A request is about a version that exists when it updates the record of it.
LEMMA UpdateMovesForward ==
    ASSUME PlanInv, NEW r \in Request, updatePlanStatus(r), NEW v \in Version,
           record'[v] # record[v]
    PROVE  record'[v] \in MayBecome(record[v])
<1>1. /\ Running(r) /\ Busy(r) /\ job[r].at = "update_record"
      /\ record' = record \/ (/\ record[job[r].v] = job[r].expected
                              /\ record' = [record EXCEPT ![job[r].v] =
                                               NextStatus(Call(r), job[r].expected)])
  BY DEF updatePlanStatus, Running
<1>2. /\ job[r] \in JobRecord /\ job[r].v \in Version
      /\ Ready(job[r], record[job[r].v], events[job[r].v])
      /\ LegalCall(Call(r))
  BY <1>1, BusyJob, HeadIsLegal
<1>3. /\ Call(r).type \in RecordCalls
      /\ NextStatus(Call(r), job[r].expected) \notin {"same", "error"}
  BY <1>1, BusyJob DEF Placed, Call
<1>4. record \in [Version -> RecordStatus]
  BY DEF PlanInv, PlanTypes
<1>5. v = job[r].v /\ record[v] = job[r].expected /\ record'[v] = NextStatus(Call(r), record[v])
  BY <1>1, <1>2, <1>4
<1>6. record[v] # "none"
  <2>1. job[r].kind # "plan" => record[job[r].v] # "none"
    BY <1>2 DEF Ready
  <2>2. /\ job[r].todo[1].type \in RecordCalls /\ 1 \in 1 .. Len(job[r].todo)
    BY <1>1, <1>3, HeadIsLegal
  <2>3. job[r].kind = "plan" => job[r].todo[1].type \in {"createRecord", "ensure"}
    BY <1>2, <2>2 DEF Ready
  <2> QED
    BY <1>5, <2>1, <2>2, <2>3 DEF RecordCalls
<1> QED
  BY <1>2, <1>3, <1>4, <1>5, <1>6, NextStatusMovesForward

LEMMA CreateMovesForward ==
    ASSUME PlanInv, NEW r \in Request, createPendingPlan(r), NEW v \in Version,
           record'[v] # record[v]
    PROVE  record'[v] \in MayBecome(record[v])
<1>1. PICK u \in Version :
         /\ {w \in Version : record[w] # "none"} = 1 .. u - 1
         /\ record' = [record EXCEPT ![u] = "pending_approval"]
  BY DEF createPendingPlan
<1>2. record[u] = "none"
  <2>1. u \in Int /\ u \notin 1 .. u - 1
    BY PlanAssumption DEF Version
  <2> QED
    BY <1>1, <2>1
<1>3. record \in [Version -> RecordStatus]
  BY DEF PlanInv, PlanTypes
<1>4. v = u /\ record[v] = "none" /\ record'[v] = "pending_approval"
  BY <1>1, <1>2, <1>3
<1> QED
  BY <1>4 DEF MayBecome

LEMMA RecordsMoveForward ==
    ASSUME PlanInv, [Next]_vars, NEW v \in Version, record'[v] # record[v]
    PROVE  record'[v] \in MayBecome(record[v])
<1>1. record' # record
  OBVIOUS
<1>2. ~ UNCHANGED vars /\ ~ Killed
  BY <1>1 DEF vars, Killed
<1>3. PICK r \in Request :
         \/ Begin(r) \/ Answer(r) \/ StoreStep(r)
         \/ StreamNeverStarts(r) \/ ToolCall(r) \/ StreamEnds(r) \/ StatementFails(r)
  BY <1>2 DEF Next
<1>4. StoreStep(r)
  BY <1>1, <1>3 DEF Begin, Answer, StreamNeverStarts, ToolCall, StreamEnds, StatementFails
<1>5. updatePlanStatus(r) \/ createPendingPlan(r)
  BY <1>1, <1>4 DEF StoreStep, ReadRecord, getPlan, LookForRow, createForPlan, ReadRow,
     appendEvents, ReadState, listEvents, readRevision, reproject
<1> QED
  BY <1>5, UpdateMovesForward, CreateMovesForward

\* updatePlanStatus writes only over the status that was read, so the record of a
\* version moves forward only, whatever requests read it at the same time: none
\* undoes a rejection, a completion or a failure that another one recorded.
THEOREM DecisionsKept == Spec => DecisionsStand
<1>1. PlanInv /\ [Next]_vars =>
          [\A v \in Version : record'[v] # record[v] => record'[v] \in MayBecome(record[v])]_vars
  BY RecordsMoveForward
<1> QED
  BY <1>1, Inductive, PTL DEF Spec, DecisionsStand
=============================================================================
