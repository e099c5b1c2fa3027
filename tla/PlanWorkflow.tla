----------------------------- MODULE PlanWorkflow -----------------------------
(***************************************************************************)
(* The plan mode of the agent sidecar: the plan records                    *)
(* (agent-sidecar/src/engines/plan/plan-store.ts), the event log and its   *)
(* projected row (plan-workflow-store.ts), and the requests that drive     *)
(* both (plan.ts, execution.ts, validation.ts).                            *)
(*                                                                         *)
(* A request is a list of store calls; each call is one to five database   *)
(* statements with an await between any two, so requests interleave        *)
(* statement by statement.  A statement or a transaction is atomic.  The   *)
(* sidecar may be killed, and a statement may fail, between any two.       *)
(***************************************************************************)
EXTENDS Integers, Sequences, FiniteSets

CONSTANTS
    Request,      \* requests the server may serve at the same time
    Steps,        \* steps of every plan version: 1 .. Steps
    MaxVersion,   \* bound: versions of the plan
    MaxRequests,  \* bound: requests ever served
    MaxBeats,     \* bound: tool calls of one execution
    MaxFaults     \* bound: failed statements and killed sidecars

ASSUME PlanAssumption ==
    /\ Steps \in Nat \ {0}
    /\ {MaxVersion, MaxRequests, MaxBeats, MaxFaults} \subseteq Nat

VARIABLES
    record,  \* [Version -> status]: agent_plan_records
    events,  \* [Version -> Seq(Event)]: agent_plan_workflow_events
    row,     \* [Version -> Row]: agent_plan_workflow_runs
    job,     \* [Request -> Job]: what each request does next
    served, faults

vars == <<record, events, row, job, served, faults>>

Version == 1 .. MaxVersion
Step    == 1 .. Steps

RecordStatus == {"none", "pending_approval", "approved", "rejected",
                 "executing", "completed", "failed"}
RowStatus    == {"waiting_approval", "approved", "executing",
                 "completed", "failed", "rejected"}
ACTIVE_STATUSES == {"waiting_approval", "approved", "executing"}
Accepted        == {"approved", "executing", "completed"}

\* What an event, a call or a request carries: a step, or a word (a status, a
\* reason, a report), or nothing.
None      == [step |-> 0, word |-> "none"]
At(s)     == [step |-> s, word |-> "none"]
Word(w)   == [step |-> 0, word |-> w]
Mk(type, arg) == [type |-> type, arg |-> arg]

-----------------------------------------------------------------------------
(* The projection of an event log onto the row.                            *)

NoRow == [exists |-> FALSE, rev |-> 0]

createInitialState ==
    [exists |-> TRUE, rev |-> 0, status |-> "waiting_approval", phase |-> "approval_gate",
     current |-> 0, completed |-> {}, failed |-> {}, cursor |-> 0,
     approved |-> FALSE, rejected |-> FALSE, suspend |-> "none", validator |-> "pending"]

\* executionCursor: one past the last step, in plan order, that is completed.
Cursor(done) == IF done = {} THEN 0 ELSE CHOOSE s \in done : \A t \in done : t <= s

\* Wrong on purpose: the cursor counts the completions instead of looking for the
\* last completed step.
StepCompletedCounted(p, s) ==
    LET done   == p.completed \cup {s}
        cursor == p.cursor + 1
    IN  [p EXCEPT !.completed = done, !.failed = @ \ {s}, !.cursor = cursor,
                  !.current = IF @ = s THEN 0 ELSE @,
                  !.phase = IF cursor >= Steps THEN "validate_result" ELSE @]

StepCompleted(p, s) ==
    LET done   == p.completed \cup {s}
        cursor == Cursor(done)
    IN  [p EXCEPT !.completed = done, !.failed = @ \ {s}, !.cursor = cursor,
                  !.current = IF @ = s THEN 0 ELSE @,
                  !.phase = IF cursor >= Steps THEN "validate_result" ELSE @]

ApplyEvent(p, e) ==
    CASE e.type = "PlanGenerated" ->
           [p EXCEPT !.status = "waiting_approval", !.phase = "approval_gate"]
      [] e.type = "PlanApproved" ->
           [p EXCEPT !.status = "approved", !.phase = "execute_plan", !.approved = TRUE]
      [] e.type = "StepStarted" ->
           [p EXCEPT !.status = "executing", !.phase = "execute_plan", !.current = e.arg.step]
      [] e.type = "StepCompleted" -> StepCompleted(p, e.arg.step)
      [] e.type = "StepFailed" ->
           [p EXCEPT !.status = "failed", !.phase = "execute_plan", !.failed = @ \cup {e.arg.step}]
      [] e.type = "ValidatorReported" ->
           [p EXCEPT !.phase = "validate_result", !.validator = e.arg.word]
      [] e.type = "ReplanIssued" -> [p EXCEPT !.phase = "replan"]
      [] e.type = "Suspended" ->
           [p EXCEPT !.suspend = e.arg.word,
                     !.phase = IF e.arg.word = "validator_needs_replan" THEN "replan" ELSE @]
      [] e.type = "Resumed" -> [p EXCEPT !.suspend = "none"]
      [] e.type = "PlanFinished" ->
           [p EXCEPT !.status = e.arg.word, !.phase = "finish", !.rejected = (e.arg.word = "rejected")]
      [] OTHER -> p   \* Heartbeat moves only lastHeartbeatAt

\* The rows that the events of a log lead to, one after the other.
Replay(state, log) ==
    LET p[i \in 0 .. Len(log)] == IF i = 0 THEN state ELSE ApplyEvent(p[i - 1], log[i])
    IN  p

\* The columns start afresh, the state object is the one the row already holds.
Afresh(state) ==
    [state EXCEPT !.status = "waiting_approval", !.phase = "approval_gate", !.current = 0]

projectWorkflow(state, log) == Replay(Afresh(state), log)[Len(log)]

-----------------------------------------------------------------------------
(* Requests: a kind, the version they are about, and the calls left to make. *)
(* at: where the current call stands; base: the row a projection starts      *)
(* from; seen: the events it read; rev: the revision it read; expected: the  *)
(* status a record had when it was read; new: the events to append.          *)

Idle == [kind |-> "idle"]
Kinds == {"plan", "approve", "reject", "finish", "execute", "validate", "replan"}

Busy(r) == job[r].kind # "idle"
Running(r) == Busy(r) /\ job[r].at # "done"

Ensure  == Mk("ensure", None)    \* createForPlan
Approve == <<Ensure, Mk("approve", None)>>

\* Wrong on purpose: an execution does not log the approval of its record.
ProgramUnapproved(kind, arg) ==
    CASE kind = "plan"     -> <<Mk("createRecord", None), Ensure>>
      [] kind = "approve"  -> <<Mk("approveRecord", None)>> \o Approve
      [] kind = "reject"   -> <<Mk("rejectRecord", None), Ensure, Mk("finish", Word("rejected"))>>
      [] kind = "finish"   -> <<Mk("finishRecord", arg), Mk("finish", arg)>>
      [] kind = "execute"  -> <<Mk("prepareRecord", None), Ensure,
                                Mk("startStep", arg), Mk("stream", arg)>>
      [] kind = "validate" -> <<Mk("readRecord", None), Ensure, Mk("reportValidator", arg)>>
      [] kind = "replan"   -> <<Mk("readRecord", None), Ensure,
                                Mk("createRecord", None), Ensure, Mk("issueReplan", None)>>

\* The calls of a request, as far as they are known when it arrives.
Program(kind, arg) ==
    CASE kind = "plan"     -> <<Mk("createRecord", None), Ensure>>
      [] kind = "approve"  -> <<Mk("approveRecord", None)>> \o Approve
      [] kind = "reject"   -> <<Mk("rejectRecord", None), Ensure, Mk("finish", Word("rejected"))>>
      [] kind = "finish"   -> <<Mk("finishRecord", arg), Mk("finish", arg)>>
      [] kind = "execute"  -> <<Mk("prepareRecord", None), Ensure>> \o Approve
                                  \o <<Mk("startStep", arg), Mk("stream", arg)>>
      [] kind = "validate" -> <<Mk("readRecord", None), Ensure, Mk("reportValidator", arg)>>
      [] kind = "replan"   -> <<Mk("readRecord", None), Ensure,
                                Mk("createRecord", None), Ensure, Mk("issueReplan", None)>>

Arguments(kind) ==
    CASE kind = "finish"   -> {Word("completed"), Word("failed")}
      [] kind = "execute"  -> {At(s) : s \in Step}
      [] kind = "validate" -> {Word("passed"), Word("needs_replan")}
      [] OTHER             -> {None}

Call(r) == Head(job[r].todo)

\* The version a call is about: replan turns to the version it created and back.
On(r) == IF job[r].kind = "replan" /\ job[r].made # 0 /\ Call(r) = Ensure
         THEN job[r].made ELSE job[r].v

AfterCall(j) == [j EXCEPT !.todo = Tail(@), !.at = IF Len(j.todo) = 1 THEN "done" ELSE "call"]
Advance(r) == job' = [job EXCEPT ![r] = AfterCall(@)]
Goto(r, at) == job' = [job EXCEPT ![r].at = at]

\* A call throws: an execution past its gate records the failure, best effort;
\* any other request answers with an error.
Failed(j) ==
    IF j.kind = "execute" /\ j.stage = "run"
    THEN [j EXCEPT !.stage = "catch", !.at = "call", !.todo = <<Mk("failStep", j.arg)>>]
    ELSE Idle
Throw(r) == job' = [job EXCEPT ![r] = Failed(@)]

Begin(r) ==
    \E kind \in Kinds, v \in Version : \E arg \in Arguments(kind) :
        /\ ~ Busy(r) /\ served < MaxRequests
        /\ kind = "plan" => v = 1   \* the version is chosen by the store
        /\ kind # "plan" => record[v] # "none"
        /\ job' = [job EXCEPT ![r] =
              [kind |-> kind, v |-> v, arg |-> arg, todo |-> Program(kind, arg),
               at |-> "call", stage |-> "gate", made |-> 0, beats |-> 0,
               expected |-> "none", new |-> <<>>, base |-> NoRow, seen |-> 0, rev |-> 0]]
        /\ served' = served + 1
        /\ UNCHANGED <<record, events, row, faults>>

Answer(r) ==
    /\ Busy(r) /\ job[r].at = "done"
    /\ job' = [job EXCEPT ![r] = Idle]
    /\ UNCHANGED <<record, events, row, served, faults>>

-----------------------------------------------------------------------------
(* plan-store.ts.  The update of a record is a compare-and-set on the       *)
(* status read a statement earlier.                                         *)

\* The status a call moves a record to, "same" when it returns it as it is,
\* "error" when it refuses.
NextStatus(call, status) ==
    CASE call.type = "approveRecord" ->
           IF status \in Accepted THEN "same"
           ELSE IF status = "pending_approval" THEN "approved" ELSE "error"
      [] call.type = "rejectRecord" ->
           IF status = "rejected" THEN "same"
           ELSE IF status \in {"executing", "completed", "failed"} THEN "error" ELSE "rejected"
      [] call.type = "finishRecord" ->
           IF status = call.arg.word THEN "same"
           ELSE IF status \in {"rejected", "completed", "failed"} THEN "error" ELSE call.arg.word
      [] call.type = "prepareRecord" ->
           IF status = "executing" THEN "same"
           ELSE IF status = "approved" THEN "executing" ELSE "error"

RecordCalls == {"approveRecord", "rejectRecord", "finishRecord", "prepareRecord"}

ReadRecord(r) ==
    /\ Running(r) /\ job[r].at = "call" /\ Call(r).type \in RecordCalls
    /\ LET status == record[job[r].v]
           next   == NextStatus(Call(r), status)
       IN  CASE next = "same"  -> Advance(r)
             [] next = "error" -> Throw(r)
             [] OTHER -> job' = [job EXCEPT ![r].at = "update_record", ![r].expected = status]
    /\ UNCHANGED <<record, events, row, served, faults>>

\* Wrong on purpose: the status is written whatever the record has become.
updatePlanStatusUnchecked(r) ==
    /\ Running(r) /\ job[r].at = "update_record"
    /\ record' = [record EXCEPT ![job[r].v] = NextStatus(Call(r), job[r].expected)]
    /\ Advance(r)
    /\ UNCHANGED <<events, row, served, faults>>

updatePlanStatus(r) ==
    /\ Running(r) /\ job[r].at = "update_record"
    /\ LET v == job[r].v
       IN  IF record[v] = job[r].expected
           THEN /\ record' = [record EXCEPT ![v] = NextStatus(Call(r), job[r].expected)]
                /\ Advance(r)
           ELSE Throw(r) /\ UNCHANGED record
    /\ UNCHANGED <<events, row, served, faults>>

\* createPendingPlan: the version is the highest one plus one, in one transaction.
createPendingPlan(r) ==
    /\ Running(r) /\ job[r].at = "call" /\ Call(r).type = "createRecord"
    /\ \E v \in Version :
          /\ {u \in Version : record[u] # "none"} = 1 .. v - 1
          /\ record' = [record EXCEPT ![v] = "pending_approval"]
          /\ job' = [job EXCEPT ![r] = [AfterCall(job[r]) EXCEPT
                        !.made = v, !.v = IF job[r].kind = "plan" THEN v ELSE @]]
    /\ UNCHANGED <<events, row, served, faults>>

\* validatePlan and replanPlan: read the record, approve its workflow unless the
\* record is pending or rejected.
getPlan(r) ==
    /\ Running(r) /\ job[r].at = "call" /\ Call(r).type = "readRecord"
    /\ job' = [job EXCEPT ![r] = [AfterCall(job[r]) EXCEPT
          !.todo = IF record[job[r].v] \in {"pending_approval", "rejected"}
                   THEN Tail(job[r].todo)
                   ELSE <<Ensure>> \o Approve \o SubSeq(job[r].todo, 3, Len(job[r].todo))]]
    /\ UNCHANGED <<record, events, row, served, faults>>

-----------------------------------------------------------------------------
(* plan-workflow-store.ts.                                                  *)

\* createForPlan: nothing to do when the row is there.
LookForRow(r) ==
    /\ Running(r) /\ job[r].at = "call" /\ Call(r) = Ensure
    /\ IF row[On(r)].exists THEN Advance(r) ELSE Goto(r, "insert")
    /\ UNCHANGED <<record, events, row, served, faults>>

\* Wrong on purpose: the row is inserted before its events are.
createForPlanWithoutEvents(r) ==
    /\ Running(r) /\ job[r].at = "insert"
    /\ IF row[On(r)].exists
       THEN Throw(r) /\ UNCHANGED row
       ELSE row' = [row EXCEPT ![On(r)] = createInitialState] /\ Goto(r, "row")
    /\ UNCHANGED <<record, events, served, faults>>

\* The row and its first two events, in one transaction; (plan_id, plan_version)
\* is unique.
createForPlan(r) ==
    /\ Running(r) /\ job[r].at = "insert"
    /\ IF row[On(r)].exists
       THEN Throw(r) /\ UNCHANGED <<row, events>>
       ELSE /\ row' = [row EXCEPT ![On(r)] = createInitialState]
            /\ events' = [events EXCEPT ![On(r)] =
                             <<Mk("PlanGenerated", None), Mk("Suspended", Word("plan_approval"))>>]
            /\ Goto(r, "row")
    /\ UNCHANGED <<record, served, faults>>

StepCalls   == {"startStep", "completeStep"}
ActiveCalls == StepCalls \cup {"failStep", "heartbeat", "suspend", "reportValidator", "issueReplan"}

\* Wrong on purpose: any finished row ends a finish early.
ReturnsEarlyWhenOver(call, w) ==
    \/ call.type = "approve" /\ w.status \in Accepted
    \/ call.type = "finish"  /\ w.status \notin ACTIVE_STATUSES
    \/ call.type \in StepCalls /\ call.arg.step \in w.completed

\* Whether a call returns the row it read without an event.
ReturnsEarly(call, w) ==
    \/ call.type = "approve" /\ w.status \in Accepted
    \/ call.type = "finish"  /\ w.status = call.arg.word
    \/ call.type \in StepCalls /\ call.arg.step \in w.completed

\* The events a call appends, from the row it read.
NewEvents(call, w) ==
    CASE call.type = "approve" ->
           <<Mk("PlanApproved", None)>>
               \o (IF w.suspend = "none" THEN <<>> ELSE <<Mk("Resumed", None)>>)
      [] call.type = "finish"       -> <<Mk("PlanFinished", call.arg)>>
      [] call.type = "startStep"    -> <<Mk("StepStarted", call.arg), Mk("Heartbeat", None)>>
      [] call.type = "completeStep" -> <<Mk("StepCompleted", call.arg), Mk("Heartbeat", None)>>
      [] call.type = "failStep"     -> <<Mk("StepFailed", call.arg)>>
      [] call.type = "heartbeat"    -> <<Mk("Heartbeat", None)>>
      [] call.type = "suspend"      -> <<Mk("Suspended", Word("tool_external_wait"))>>
      [] call.type = "reportValidator" ->
           <<Mk("ValidatorReported", call.arg)>>
               \o (IF call.arg = Word("needs_replan")
                   THEN <<Mk("Suspended", Word("validator_needs_replan"))>> ELSE <<>>)
      [] call.type = "issueReplan" -> <<Mk("ReplanIssued", None)>>

\* getWorkflow or getActiveWorkflow, then the early returns.
ReadRow(r) ==
    /\ Running(r) /\ job[r].at = "call"
    /\ Call(r).type \in ActiveCalls \cup {"approve", "finish"}
    /\ LET call == Call(r)
           w    == row[On(r)]
       IN  IF ~ w.exists \/ (call.type \in ActiveCalls /\ w.status \notin ACTIVE_STATUSES)
           THEN Throw(r)
           ELSE IF ReturnsEarly(call, w)
           THEN Advance(r)
           ELSE job' = [job EXCEPT ![r].at = "append", ![r].new = NewEvents(call, w)]
    /\ UNCHANGED <<record, events, row, served, faults>>

appendEvents(r) ==
    /\ Running(r) /\ job[r].at = "append"
    /\ events' = [events EXCEPT ![On(r)] = @ \o job[r].new]
    /\ job' = [job EXCEPT ![r].at = "row", ![r].new = <<>>]
    /\ UNCHANGED <<record, row, served, faults>>

\* reproject: the row, the events and the revision are read one after the other.
ReadState(r) ==
    /\ Running(r) /\ job[r].at = "row"
    /\ job' = [job EXCEPT ![r].at = "events", ![r].base = row[On(r)]]
    /\ UNCHANGED <<record, events, row, served, faults>>

listEvents(r) ==
    /\ Running(r) /\ job[r].at = "events"
    /\ job' = [job EXCEPT ![r].at = "revision", ![r].seen = Len(events[On(r)])]
    /\ UNCHANGED <<record, events, row, served, faults>>

readRevision(r) ==
    /\ Running(r) /\ job[r].at = "revision"
    /\ job' = [job EXCEPT ![r].at = "update", ![r].rev = row[On(r)].rev]
    /\ UNCHANGED <<record, events, row, served, faults>>

\* UPDATE ... WHERE revision = expected; a lost race is not retried.
reproject(r) ==
    /\ Running(r) /\ job[r].at = "update"
    /\ LET v == On(r)
           log == SubSeq(events[v], 1, job[r].seen)
       IN  row' = IF row[v].rev = job[r].rev
                  THEN [row EXCEPT ![v] =
                          [projectWorkflow(job[r].base, log) EXCEPT !.rev = row[v].rev + 1]]
                  ELSE row
    /\ job' = [job EXCEPT ![r] = [AfterCall(job[r]) EXCEPT
                  !.base = NoRow, !.seen = 0, !.rev = 0]]
    /\ UNCHANGED <<record, events, served, faults>>

-----------------------------------------------------------------------------
(* execution.ts: the agent works on the step between startStep and the call  *)
(* that ends it.                                                             *)

Streaming(r) == Running(r) /\ job[r].at = "call" /\ Call(r).type = "stream"

\* Without a model, or with its tools unreachable, the request ends before the
\* stream begins and before its failure handler is in place.
StreamNeverStarts(r) ==
    /\ Streaming(r) /\ job[r].stage = "gate"
    /\ job' = [job EXCEPT ![r] = Idle]
    /\ UNCHANGED <<record, events, row, served, faults>>

\* A tool call of the stream sends a heartbeat and the stream goes on.
ToolCall(r) ==
    /\ Streaming(r) /\ job[r].beats < MaxBeats
    /\ job' = [job EXCEPT ![r].todo = <<Mk("heartbeat", None)>> \o @,
                          ![r].beats = @ + 1, ![r].stage = "run"]
    /\ UNCHANGED <<record, events, row, served, faults>>

\* The stream ends: with an error, waiting for an approval, or done.
StreamEnds(r) ==
    /\ Streaming(r)
    /\ \E end \in {"failStep", "suspend", "completeStep"} :
          job' = [job EXCEPT ![r].todo = <<Mk(end, job[r].arg)>>, ![r].stage = "run"]
    /\ UNCHANGED <<record, events, row, served, faults>>

-----------------------------------------------------------------------------
(* Faults.                                                                  *)

\* A statement fails without effect: SQLITE_BUSY, a full disk.
StatementFails(r) ==
    /\ Running(r) /\ faults < MaxFaults
    /\ Throw(r)
    /\ faults' = faults + 1
    /\ UNCHANGED <<record, events, row, served>>

\* The sidecar is killed: every request is gone, the database stays.
Killed ==
    /\ faults < MaxFaults /\ \E r \in Request : Busy(r)
    /\ job' = [r \in Request |-> Idle]
    /\ faults' = faults + 1
    /\ UNCHANGED <<record, events, row, served>>

-----------------------------------------------------------------------------
Init ==
    /\ record = [v \in Version |-> "none"]
    /\ events = [v \in Version |-> <<>>]
    /\ row = [v \in Version |-> NoRow]
    /\ job = [r \in Request |-> Idle]
    /\ served = 0 /\ faults = 0

StoreStep(r) ==
    \/ ReadRecord(r) \/ updatePlanStatus(r) \/ createPendingPlan(r) \/ getPlan(r)
    \/ LookForRow(r) \/ createForPlan(r) \/ ReadRow(r) \/ appendEvents(r)
    \/ ReadState(r) \/ listEvents(r) \/ readRevision(r) \/ reproject(r)

Next ==
    \/ \E r \in Request :
          \/ Begin(r) \/ Answer(r) \/ StoreStep(r)
          \/ StreamNeverStarts(r) \/ ToolCall(r) \/ StreamEnds(r) \/ StatementFails(r)
    \/ Killed

Spec == Init /\ [][Next]_vars
-----------------------------------------------------------------------------
(* Properties.                                                              *)

EventTypes == {"PlanGenerated", "PlanApproved", "StepStarted", "StepCompleted", "StepFailed",
               "ValidatorReported", "ReplanIssued", "Suspended", "Resumed", "Heartbeat",
               "PlanFinished"}

\* Every variable keeps its shape; a version has a row when it has events.
TypeOK ==
    /\ record \in [Version -> RecordStatus]
    /\ \A v \in Version :
          /\ \A i \in 1 .. Len(events[v]) : events[v][i].type \in EventTypes
          /\ row[v].exists = (events[v] # <<>>)
          /\ row[v].exists => row[v].status \in RowStatus
    /\ \A r \in Request : Busy(r) => job[r].kind \in Kinds /\ job[r].v \in Version

Logged(v, i, type) == events[v][i].type = type
Before(v, i, type, arg) == \E j \in 1 .. i - 1 : events[v][j] = Mk(type, arg)

\* The log of a version tells a legal story however the requests interleave: a
\* step starts only after the plan was approved or reported as completed, and ends
\* only after it started.  (The report alone is enough: a row that a stale
\* reprojection brings back to waiting_approval takes calls again.)
LogIsLegal ==
    \A v \in Version : \A i \in 1 .. Len(events[v]) :
        /\ Logged(v, i, "StepStarted") =>
              \/ Before(v, i, "PlanApproved", None)
              \/ Before(v, i, "PlanFinished", Word("completed"))
        /\ events[v][i].type \in {"StepCompleted", "StepFailed"}
              => Before(v, i, "StepStarted", events[v][i].arg)

\* The gate of execution.ts: no approval is logged for a record nobody decided,
\* and a rejected version never ran and is not running.
GateHolds ==
    \A v \in Version :
        /\ record[v] = "pending_approval"
              => \A i \in 1 .. Len(events[v]) : ~ Logged(v, i, "PlanApproved")
        /\ record[v] = "rejected" =>
              /\ \A i \in 1 .. Len(events[v]) : ~ Logged(v, i, "StepStarted")
              /\ \A r \in Request : ~ (Streaming(r) /\ job[r].v = v)

\* The statuses a record may take next.
MayBecome(status) ==
    CASE status = "none"             -> {"pending_approval"}
      [] status = "pending_approval" -> {"approved", "rejected", "completed", "failed"}
      [] status = "approved"         -> {"rejected", "executing", "completed", "failed"}
      [] status = "executing"        -> {"completed", "failed"}
      [] OTHER                       -> {}

\* Two requests may both have read a record before either updates it: whichever
\* updates second must not undo what the first decided.  A record only moves
\* forward, runs only once it was approved, and keeps its last decision.
DecisionsStand ==
    [][\A v \in Version : record'[v] # record[v] => record'[v] \in MayBecome(record[v])]_vars

Projected(v, n) == projectWorkflow(createInitialState, SubSeq(events[v], 1, n))
SameRow(w, p) == [w EXCEPT !.rev = 0] = [p EXCEPT !.rev = 0]

\* reproject starts from the state object of a row it read earlier, so events are
\* applied to a state that holds them already; the row is still what some prefix
\* of the log, from the beginning, gives.
RowIsAPrefix ==
    \A v \in Version : row[v].exists =>
        \E n \in 0 .. Len(events[v]) : SameRow(row[v], Projected(v, n))

\* An approval, rejection or finish that answers without an error has reached the
\* row as well as the record, whatever an earlier attempt left half done.
DecisionReachesBoth ==
    \A r \in Request : Busy(r) /\ job[r].at = "done" =>
        /\ job[r].kind = "approve" => row[job[r].v].status \in Accepted
        /\ job[r].kind = "reject"  => row[job[r].v].status = "rejected"
        /\ job[r].kind = "finish"  => row[job[r].v].status = job[r].arg.word

\* "any concurrent reproject converges to the same state in the end": without
\* faults, once no request is left, the row is the projection of the whole log.
RowConverges ==
    (faults = 0 /\ \A r \in Request : ~ Busy(r)) =>
        \A v \in Version : row[v].exists => SameRow(row[v], Projected(v, Len(events[v])))
=============================================================================
