----------------------------- MODULE PlanRowProofs -----------------------------
(***************************************************************************)
(* Proofs about what the row of a plan shows, from the invariant of        *)
(* PlanWorkflowProofs.                                                     *)
(*                                                                         *)
(* reproject applies a log to the state object of a row it read earlier,   *)
(* which holds the effects of a first part of that log already.  Absorbed  *)
(* says that this makes no difference: from the end of that part on, the   *)
(* replay goes through the same rows as one from the beginning.  RowInv    *)
(* says that every row, and every row a projection starts from, is what    *)
(* some prefix of the log leads to.                                        *)
(*                                                                         *)
(* DecisionInv follows a decision to the row: once its events are in the   *)
(* log, every projection of the whole log shows it, and as long as no      *)
(* other request makes a call about the version the log that was read is   *)
(* the whole log and the revision that was read is the one of the row.     *)
(***************************************************************************)
EXTENDS PlanWorkflowProofs

\* What the first n events of a log lead to.
Projection(log, n) == Replay(Afresh(createInitialState), log)[n]

\* The same row but for its revision.
Agree(p, q) ==
    /\ p.status = q.status /\ p.phase = q.phase /\ p.current = q.current
    /\ p.completed = q.completed /\ p.failed = q.failed /\ p.cursor = q.cursor
    /\ p.approved = q.approved /\ p.rejected = q.rejected
    /\ p.suspend = q.suspend /\ p.validator = q.validator

LEMMA AgreeIsSame ==
    ASSUME NEW p \in Row, NEW q \in Row, Agree(p, q)
    PROVE  SameRow(p, q)
<1>1. p.exists = q.exists
  BY DEF Row
<1>2. /\ p.status = q.status /\ p.phase = q.phase /\ p.current = q.current
      /\ p.completed = q.completed /\ p.failed = q.failed /\ p.cursor = q.cursor
      /\ p.approved = q.approved /\ p.rejected = q.rejected
      /\ p.suspend = q.suspend /\ p.validator = q.validator
  BY DEF Agree
<1> QED
  BY <1>1, <1>2 DEF SameRow, Row

LEMMA AgreeTrans ==
    ASSUME NEW p, NEW q, NEW s, Agree(p, q), Agree(q, s)
    PROVE  Agree(p, s) /\ Agree(s, p)
BY DEF Agree

-------------------------------------------------------------------------------
(* What an event does to a row, field by field. *)

\* The same was written to both, or nothing.
Alike(a, b, a2, b2) == a2 = b2 \/ (a2 = a /\ b2 = b)

WritesAlike(p, q, p2, q2) ==
    /\ Alike(p.status, q.status, p2.status, q2.status)
    /\ Alike(p.phase, q.phase, p2.phase, q2.phase)
    /\ Alike(p.current, q.current, p2.current, q2.current)
    /\ Alike(p.approved, q.approved, p2.approved, q2.approved)
    /\ Alike(p.rejected, q.rejected, p2.rejected, q2.rejected)
    /\ Alike(p.suspend, q.suspend, p2.suspend, q2.suspend)
    /\ Alike(p.validator, q.validator, p2.validator, q2.validator)
    /\ \A t \in Step : Alike(t \in p.failed, t \in q.failed, t \in p2.failed, t \in q2.failed)

\* An event other than StepCompleted writes values that do not depend on the row.
LEMMA EventWrites ==
    ASSUME NEW e, LegalEvent(e), e.type # "StepCompleted", NEW p \in Row, NEW q \in Row
    PROVE  /\ WritesAlike(p, q, ApplyEvent(p, e), ApplyEvent(q, e))
           /\ ApplyEvent(p, e).completed = p.completed /\ ApplyEvent(p, e).cursor = p.cursor
<1> USE DEF WritesAlike, Alike
<1>1. CASE e.type \in {"PlanGenerated", "PlanApproved"}
  BY <1>1 DEF ApplyEvent, Row
<1>2. CASE e.type = "StepStarted"
  BY <1>2 DEF ApplyEvent, Row
<1>3. CASE e.type = "StepFailed"
  <2> DEFINE x == e.arg.step
  <2>1. /\ ApplyEvent(p, e) = [p EXCEPT !.status = "failed", !.phase = "execute_plan",
                                       !.failed = p.failed \cup {x}]
        /\ ApplyEvent(q, e) = [q EXCEPT !.status = "failed", !.phase = "execute_plan",
                                       !.failed = q.failed \cup {x}]
    BY <1>3 DEF ApplyEvent
  <2>2. /\ ApplyEvent(p, e).failed = p.failed \cup {x}
        /\ ApplyEvent(q, e).failed = q.failed \cup {x}
    BY <2>1 DEF Row
  <2>3. \A t \in Step : Alike(t \in p.failed, t \in q.failed,
                             t \in ApplyEvent(p, e).failed, t \in ApplyEvent(q, e).failed)
    BY <2>2
  <2> HIDE DEF x
  <2> QED
    BY <2>1, <2>3 DEF Row
<1>4. CASE e.type \in {"ValidatorReported", "ReplanIssued"}
  BY <1>4 DEF ApplyEvent, Row
<1>5. CASE e.type \in {"Suspended", "Resumed"}
  BY <1>5 DEF ApplyEvent, Row
<1>6. CASE e.type \in {"PlanFinished", "Heartbeat"}
  BY <1>6 DEF ApplyEvent, Row
<1> QED
  BY <1>1, <1>2, <1>3, <1>4, <1>5, <1>6 DEF LegalEvent, EventTypes

\* What StepCompleted writes.
CompletedTo(p, x, p2) ==
    /\ p2.status = p.status /\ p2.completed = p.completed \cup {x}
    /\ p2.failed = p.failed \ {x} /\ p2.cursor = Cursor(p.completed \cup {x})
    /\ p2.current = IF p.current = x THEN 0 ELSE p.current
    /\ p2.phase = IF p2.cursor >= Steps THEN "validate_result" ELSE p.phase
    /\ p2.approved = p.approved /\ p2.rejected = p.rejected
    /\ p2.suspend = p.suspend /\ p2.validator = p.validator

LEMMA StepCompletedWrites ==
    ASSUME NEW p \in Row, NEW x \in Step
    PROVE  CompletedTo(p, x, StepCompleted(p, x))
BY DEF CompletedTo, StepCompleted, Row

\* A step that was completed.
LEMMA CompletedStep ==
    ASSUME NEW e, LegalEvent(e), e.type = "StepCompleted"
    PROVE  e.arg.step \in Step /\ \A p : ApplyEvent(p, e) = StepCompleted(p, e.arg.step)
<1>1. PICK s \in Step : e.arg = At(s)
  BY DEF LegalEvent
<1>2. e.arg.step = s
  BY <1>1 DEF At
<1> QED
  BY <1>2 DEF ApplyEvent

LEMMA AgreeStep ==
    ASSUME NEW p \in Row, NEW q \in Row, Agree(p, q), NEW e, LegalEvent(e)
    PROVE  Agree(ApplyEvent(p, e), ApplyEvent(q, e))
<1>1. CASE e.type = "StepCompleted"
  <2> DEFINE s == e.arg.step
  <2>1. s \in Step /\ ApplyEvent(p, e) = StepCompleted(p, s)
           /\ ApplyEvent(q, e) = StepCompleted(q, s)
    BY <1>1, CompletedStep
  <2> HIDE DEF s
  <2>2. CompletedTo(p, s, StepCompleted(p, s)) /\ CompletedTo(q, s, StepCompleted(q, s))
    BY <2>1, StepCompletedWrites
  <2>3. Agree(StepCompleted(p, s), StepCompleted(q, s))
    BY <2>2 DEF Agree, CompletedTo
  <2> QED
    BY <2>1, <2>3
<1>2. CASE e.type # "StepCompleted"
  <2> DEFINE p2 == ApplyEvent(p, e)
             q2 == ApplyEvent(q, e)
  <2>1. /\ WritesAlike(p, q, p2, q2)
        /\ p2.completed = p.completed /\ p2.cursor = p.cursor
        /\ q2.completed = q.completed /\ q2.cursor = q.cursor
        /\ p2 \in Row /\ q2 \in Row
    BY <1>2, EventWrites, ApplyEventType
  <2> HIDE DEF p2, q2
  <2>2. \A t \in Step : t \in p2.failed <=> t \in q2.failed
    BY <2>1 DEF WritesAlike, Alike, Agree
  <2>3. p2.failed = q2.failed
    BY <2>1, <2>2 DEF Row
  <2> QED
    BY <2>1, <2>3 DEF WritesAlike, Alike, Agree, p2, q2
<1> QED
  BY <1>1, <1>2

-------------------------------------------------------------------------------
(* A replay from a row that holds a first part of the log already. *)

\* s: the row the replay is at; f: the one a replay from the beginning is at; d: what
\* that first part leads to.  Each field of s is that of f, or still that of d.
Between(s, f, d) ==
    /\ s.status = f.status /\ s.current = f.current
    /\ s.completed = d.completed /\ f.completed \subseteq d.completed
    /\ s.cursor = Cursor(d.completed) /\ f.cursor = Cursor(f.completed)
    /\ s.approved \in {f.approved, d.approved} /\ s.rejected \in {f.rejected, d.rejected}
    /\ s.suspend \in {f.suspend, d.suspend} /\ s.validator \in {f.validator, d.validator}
    /\ \A t \in Step : (t \in s.failed) \in {(t \in f.failed), (t \in d.failed)}
    /\ s.phase = f.phase \/ Steps \in d.completed \ f.completed

LEMMA LastCompleted ==
    ASSUME NEW done \in SUBSET Step
    PROVE  Cursor(done) >= Steps <=> Steps \in done
<1>1. CASE done = {}
  BY <1>1, PlanAssumption DEF Cursor
<1>2. CASE done # {}
  <2>1. Cursor(done) \in done /\ \A t \in done : t <= Cursor(done)
    BY <1>2, CursorIsLast
  <2>2. Cursor(done) \in 1 .. Steps
    BY <2>1 DEF Step
  <2> QED
    BY <2>1, <2>2, PlanAssumption
<1> QED
  BY <1>1, <1>2

LEMMA BetweenStep ==
    ASSUME NEW s \in Row, NEW f \in Row, NEW d \in Row, Between(s, f, d), NEW e, LegalEvent(e),
           e.type = "StepCompleted" => e.arg.step \in d.completed
    PROVE  Between(ApplyEvent(s, e), ApplyEvent(f, e), d)
<1> DEFINE s2 == ApplyEvent(s, e)
           f2 == ApplyEvent(f, e)
<1>1. CASE e.type = "StepCompleted"
  <2> DEFINE x == e.arg.step
  <2>1. x \in Step /\ s2 = StepCompleted(s, x) /\ f2 = StepCompleted(f, x) /\ x \in d.completed
    BY <1>1, CompletedStep
  <2> HIDE DEF x
  <2>2. CompletedTo(s, x, s2)
    BY <2>1, StepCompletedWrites
  <2>3. CompletedTo(f, x, f2)
    BY <2>1, StepCompletedWrites
  <2> HIDE DEF s2, f2
  <2>4. s2.completed = d.completed /\ f2.completed \subseteq d.completed
    BY <2>1, <2>2, <2>3 DEF Between, CompletedTo
  <2>5. f2.completed \in SUBSET Step /\ d.completed \in SUBSET Step
    BY <2>1, <2>3 DEF Row, CompletedTo
  <2>6. s2.cursor = Cursor(d.completed) /\ f2.cursor = Cursor(f2.completed)
    BY <2>2, <2>3, <2>4 DEF CompletedTo
  <2>7. s2.cursor >= Steps <=> Steps \in d.completed
    BY <2>5, <2>6, LastCompleted
  <2>8. f2.cursor >= Steps <=> Steps \in f2.completed
    BY <2>5, <2>6, LastCompleted
  <2>9. s2.phase = f2.phase \/ Steps \in d.completed \ f2.completed
    BY <2>2, <2>3, <2>4, <2>7, <2>8 DEF Between, CompletedTo
  <2>10. \A t \in Step : (t \in s2.failed) \in {(t \in f2.failed), (t \in d.failed)}
    BY <2>1, <2>2, <2>3 DEF Between, CompletedTo
  <2> QED
    BY <2>2, <2>3, <2>4, <2>6, <2>9, <2>10 DEF Between, CompletedTo, s2, f2
<1>2. CASE e.type # "StepCompleted"
  <2>1. /\ WritesAlike(s, f, s2, f2)
        /\ s2.completed = s.completed /\ s2.cursor = s.cursor
        /\ f2.completed = f.completed /\ f2.cursor = f.cursor
    BY <1>2, EventWrites
  <2> HIDE DEF s2, f2
  <2>2. \A t \in Step : (t \in s2.failed) \in {(t \in f2.failed), (t \in d.failed)}
    BY <2>1 DEF WritesAlike, Alike, Between
  <2>3. s2.status = f2.status /\ s2.current = f2.current
    BY <2>1 DEF WritesAlike, Alike, Between
  <2>4. s2.phase = f2.phase \/ Steps \in d.completed \ f2.completed
    BY <2>1 DEF WritesAlike, Alike, Between
  <2> QED
    BY <2>1, <2>2, <2>3, <2>4 DEF WritesAlike, Alike, Between, s2, f2
<1> QED
  BY <1>1, <1>2

\* Replays of logs with the same beginning go through the same rows.
LEMMA SameBeginning ==
    ASSUME NEW state, NEW log, NEW long, Len(log) \in Nat, Len(long) \in Nat, Extends(long, log)
    PROVE  \A i \in 0 .. Len(log) : Replay(state, log)[i] = Replay(state, long)[i]
<1> DEFINE R == Replay(state, log)
           S == Replay(state, long)
           Bad == {i \in 0 .. Len(log) : R[i] # S[i]}
<1>1. /\ R[0] = state /\ S[0] = state
      /\ \A i \in 1 .. Len(log) : R[i] = ApplyEvent(R[i - 1], log[i])
      /\ \A i \in 1 .. Len(long) : S[i] = ApplyEvent(S[i - 1], long[i])
  BY ReplaySteps
<1> HIDE DEF R, S
<1> SUFFICES ASSUME Bad # {} PROVE FALSE
  BY DEF R, S
<1>2. PICK k \in Bad : \A m \in Bad : k <= m
  <2>1. Bad \in SUBSET Nat
    OBVIOUS
  <2> HIDE DEF Bad
  <2> QED
    BY <2>1, Smallest
<1>3. k \in 1 .. Len(log) /\ k - 1 \in 0 .. Len(log) /\ ~ (k <= k - 1)
  BY <1>1, <1>2
<1>4. R[k - 1] = S[k - 1]
  BY <1>2, <1>3
<1>5. k \in 1 .. Len(long) /\ long[k] = log[k]
  BY <1>3 DEF Extends
<1>6. R[k] = S[k]
  BY <1>1, <1>3, <1>4, <1>5
<1> QED
  BY <1>2, <1>6

\* What a replay has completed stays completed; the cursor follows.
Progress(R, log, n) ==
    /\ \A i \in 0 .. n : R[i].cursor = Cursor(R[i].completed)
    /\ \A i \in 0 .. n : R[i].completed \subseteq R[n].completed
    /\ \A i \in 1 .. n : log[i].type = "StepCompleted" => log[i].arg.step \in R[n].completed

\* A sequence of rows of which each comes from the one before.
IsRun(R, log) ==
    /\ Len(log) \in Nat /\ LegalLog(log)
    /\ \A i \in 0 .. Len(log) : R[i] \in Row
    /\ \A i \in 1 .. Len(log) : R[i] = ApplyEvent(R[i - 1], log[i])

LEMMA ReplayIsRun ==
    ASSUME NEW state \in Row, NEW log, LegalLog(log)
    PROVE  IsRun(Replay(state, log), log) /\ Replay(state, log)[0] = state
<1>1. Len(log) \in Nat
  BY DEF LegalLog
<1>2. \A i \in 0 .. Len(log) : Replay(state, log)[i] \in Row
  BY ReplayType
<1>3. /\ Replay(state, log)[0] = state
      /\ \A i \in 1 .. Len(log) : Replay(state, log)[i] = ApplyEvent(Replay(state, log)[i - 1], log[i])
  BY <1>1, ReplaySteps
<1> QED
  BY <1>1, <1>2, <1>3 DEF IsRun

LEMMA RunProgresses ==
    ASSUME NEW R, NEW log, IsRun(R, log), R[0].completed = {}, R[0].cursor = 0
    PROVE  \A n \in 0 .. Len(log) : Progress(R, log, n)
<1> DEFINE Bad == {n \in 0 .. Len(log) : ~ Progress(R, log, n)}
<1> SUFFICES ASSUME Bad # {} PROVE FALSE
  OBVIOUS
<1>0. Len(log) \in Nat
  BY DEF IsRun
<1>1. PICK k \in Bad : \A m \in Bad : k <= m
  <2>1. Bad \in SUBSET Nat
    BY <1>0
  <2> HIDE DEF Bad
  <2> QED
    BY <2>1, Smallest
<1>2. k # 0
  <2>1. Progress(R, log, 0)
    BY DEF Progress, Cursor
  <2> QED
    BY <1>1, <2>1
<1>3. k \in 1 .. Len(log) /\ k - 1 \in 0 .. Len(log) /\ ~ (k <= k - 1)
  BY <1>0, <1>1, <1>2
<1>4. Progress(R, log, k - 1)
  BY <1>1, <1>3
<1>5. /\ R[k] = ApplyEvent(R[k - 1], log[k]) /\ R[k - 1] \in Row /\ R[k] \in Row
      /\ LegalEvent(log[k])
  BY <1>3 DEF IsRun, LegalLog
<1>6. /\ R[k].cursor = Cursor(R[k].completed) /\ R[k - 1].completed \subseteq R[k].completed
      /\ log[k].type = "StepCompleted" => log[k].arg.step \in R[k].completed
  <2>1. CASE log[k].type = "StepCompleted"
    <3>1. log[k].arg.step \in Step /\ R[k] = StepCompleted(R[k - 1], log[k].arg.step)
      BY <1>5, <2>1, CompletedStep
    <3>2. CompletedTo(R[k - 1], log[k].arg.step, R[k])
      BY <1>5, <3>1, StepCompletedWrites
    <3> QED
      BY <3>2 DEF CompletedTo
  <2>2. CASE log[k].type # "StepCompleted"
    <3>1. R[k].completed = R[k - 1].completed /\ R[k].cursor = R[k - 1].cursor
      BY <1>5, <2>2, EventWrites
    <3>2. R[k - 1].cursor = Cursor(R[k - 1].completed)
      BY <1>3, <1>4 DEF Progress
    <3> QED
      BY <2>2, <3>1, <3>2
  <2> QED
    BY <2>1, <2>2
<1>7. \A i \in 0 .. k : i = k \/ i \in 0 .. k - 1
  BY <1>3
<1>8. \A i \in 1 .. k : i = k \/ i \in 1 .. k - 1
  BY <1>3
<1>9. \A i \in 0 .. k : R[i].cursor = Cursor(R[i].completed)
  BY <1>4, <1>6, <1>7 DEF Progress
<1>10. \A i \in 0 .. k : R[i].completed \subseteq R[k].completed
  BY <1>4, <1>6, <1>7 DEF Progress
<1>11. \A i \in 1 .. k : log[i].type = "StepCompleted" => log[i].arg.step \in R[k].completed
  BY <1>4, <1>6, <1>8 DEF Progress
<1>12. Progress(R, log, k)
  BY <1>9, <1>10, <1>11 DEF Progress
<1> QED
  BY <1>1, <1>12

\* Up to the end of the part that d holds, the replay from d is between.
LEMMA RunBetween ==
    ASSUME NEW S, NEW F, NEW log, IsRun(S, log), IsRun(F, log), NEW n \in 0 .. Len(log),
           NEW d \in Row, Agree(d, F[n]), Progress(F, log, n), Between(S[0], F[0], d)
    PROVE  \A i \in 0 .. n : Between(S[i], F[i], d)
<1> DEFINE Bad == {i \in 0 .. n : ~ Between(S[i], F[i], d)}
<1> SUFFICES ASSUME Bad # {} PROVE FALSE
  OBVIOUS
<1>0. Len(log) \in Nat
  BY DEF IsRun
<1>1. PICK k \in Bad : \A m \in Bad : k <= m
  <2>1. Bad \in SUBSET Nat
    BY <1>0
  <2> HIDE DEF Bad
  <2> QED
    BY <2>1, Smallest
<1>2. k \in 1 .. n /\ k - 1 \in 0 .. n /\ ~ (k <= k - 1) /\ k \in 1 .. Len(log)
         /\ k - 1 \in 0 .. Len(log)
  BY <1>0, <1>1
<1>3. Between(S[k - 1], F[k - 1], d)
  BY <1>1, <1>2
<1>4. /\ S[k] = ApplyEvent(S[k - 1], log[k]) /\ F[k] = ApplyEvent(F[k - 1], log[k])
      /\ S[k - 1] \in Row /\ F[k - 1] \in Row /\ LegalEvent(log[k])
  BY <1>2 DEF IsRun, LegalLog
<1>5. log[k].type = "StepCompleted" => log[k].arg.step \in d.completed
  BY <1>2 DEF Progress, Agree
<1>6. Between(S[k], F[k], d)
  BY <1>3, <1>4, <1>5, BetweenStep
<1> QED
  BY <1>1, <1>6

\* From there on, it goes through the rows of a replay from the beginning.
LEMMA RunAgrees ==
    ASSUME NEW S, NEW F, NEW log, IsRun(S, log), IsRun(F, log), NEW n \in 0 .. Len(log),
           Agree(S[n], F[n])
    PROVE  \A i \in n .. Len(log) : Agree(S[i], F[i])
<1> DEFINE Bad == {i \in n .. Len(log) : ~ Agree(S[i], F[i])}
<1> SUFFICES ASSUME Bad # {} PROVE FALSE
  OBVIOUS
<1>0. Len(log) \in Nat
  BY DEF IsRun
<1>1. PICK k \in Bad : \A m \in Bad : k <= m
  <2>1. Bad \in SUBSET Nat
    BY <1>0
  <2> HIDE DEF Bad
  <2> QED
    BY <2>1, Smallest
<1>2. k \in 1 .. Len(log) /\ k - 1 \in n .. Len(log) /\ ~ (k <= k - 1) /\ k - 1 \in 0 .. Len(log)
  BY <1>0, <1>1
<1>3. Agree(S[k - 1], F[k - 1])
  BY <1>1, <1>2
<1>4. /\ S[k] = ApplyEvent(S[k - 1], log[k]) /\ F[k] = ApplyEvent(F[k - 1], log[k])
      /\ S[k - 1] \in Row /\ F[k - 1] \in Row /\ LegalEvent(log[k])
  BY <1>2 DEF IsRun, LegalLog
<1>5. Agree(S[k], F[k])
  BY <1>3, <1>4, AgreeStep
<1> QED
  BY <1>1, <1>5

LEMMA AfreshFields ==
    ASSUME NEW d \in Row
    PROVE  /\ Afresh(d) \in Row
           /\ Afresh(d).status = "waiting_approval" /\ Afresh(d).phase = "approval_gate"
           /\ Afresh(d).current = 0
           /\ Afresh(d).completed = d.completed /\ Afresh(d).failed = d.failed
           /\ Afresh(d).cursor = d.cursor /\ Afresh(d).approved = d.approved
           /\ Afresh(d).rejected = d.rejected /\ Afresh(d).suspend = d.suspend
           /\ Afresh(d).validator = d.validator
<1>1. 0 \in 0 .. Steps
  BY PlanAssumption
<1> QED
  BY <1>1 DEF Afresh, Row, RowStatus

\* The projection of a log from a row that holds the first n events already is the
\* projection from the beginning.
LEMMA Absorbed ==
    ASSUME NEW log, LegalLog(log), NEW n \in 0 .. Len(log),
           NEW d \in Row, Agree(d, Projection(log, n))
    PROVE  Agree(projectWorkflow(d, log), Projection(log, Len(log)))
<1> DEFINE S == Replay(Afresh(d), log)
           F == Replay(Afresh(createInitialState), log)
<1>1. Afresh(d) \in Row /\ Afresh(createInitialState) \in Row
  BY AfreshFields, InitialState
<1>2. IsRun(S, log) /\ S[0] = Afresh(d)
  BY <1>1, ReplayIsRun
<1>3. IsRun(F, log) /\ F[0] = Afresh(createInitialState)
  BY <1>1, ReplayIsRun
<1>4. F[n] = Projection(log, n) /\ F[Len(log)] = Projection(log, Len(log))
      /\ S[Len(log)] = projectWorkflow(d, log)
  BY DEF Projection, projectWorkflow
<1> HIDE DEF S, F
<1>5. createInitialState.cursor = 0
  BY DEF createInitialState
<1>6. F[0].completed = {} /\ F[0].cursor = 0
  BY <1>3, <1>5, AfreshFields, InitialState
<1>0. Len(log) \in Nat /\ n \in 0 .. n /\ 0 \in 0 .. Len(log)
  BY DEF LegalLog
<1>7. Progress(F, log, n) /\ Progress(F, log, 0)
  <2>1. \A m \in 0 .. Len(log) : Progress(F, log, m)
    BY <1>3, <1>6, RunProgresses
  <2> QED
    BY <1>0, <2>1
<1>8. Agree(d, F[n])
  BY <1>4
<1>9. Between(S[0], F[0], d)
  <2>1. d.cursor = Cursor(d.completed)
    BY <1>7, <1>8 DEF Progress, Agree
  <2>2. F[0].cursor = Cursor(F[0].completed)
    BY <1>7 DEF Progress
  <2>3. F[0].status = "waiting_approval" /\ F[0].phase = "approval_gate" /\ F[0].current = 0
    BY <1>3, AfreshFields, InitialState
  <2>4. \A t \in Step : (t \in S[0].failed) = (t \in d.failed)
    BY <1>2, AfreshFields
  <2> QED
    BY <1>2, <1>6, <2>1, <2>2, <2>3, <2>4, AfreshFields DEF Between
<1>10. Between(S[n], F[n], d)
  <2>1. \A i \in 0 .. n : Between(S[i], F[i], d)
    BY <1>2, <1>3, <1>7, <1>8, <1>9, RunBetween
  <2> QED
    BY <1>0, <2>1
<1>11. S[n] \in Row /\ F[n] \in Row
  BY <1>2, <1>3 DEF IsRun
<1>12. Agree(S[n], F[n])
  <2>1. \A t \in Step : t \in S[n].failed <=> t \in F[n].failed
    BY <1>8, <1>10 DEF Between, Agree
  <2>2. S[n].failed = F[n].failed
    BY <1>11, <2>1 DEF Row
  <2>3. F[n].cursor = Cursor(F[n].completed)
    BY <1>7 DEF Progress, IsRun
  <2> QED
    BY <1>8, <1>10, <2>2, <2>3 DEF Between, Agree
<1>13. Agree(S[Len(log)], F[Len(log)])
  BY <1>2, <1>3, <1>12, RunAgrees DEF IsRun
<1> QED
  BY <1>4, <1>13

-------------------------------------------------------------------------------
(* The invariant of the rows. *)

\* p is what some prefix of the log leads to, one of at most m events.
Holds(p, log, m) ==
    \E n \in 0 .. Len(log) : n <= m /\ Agree(p, Projection(log, n))

Projecting == {"events", "revision", "update"}

\* A projection under way starts from a row that holds no more than it has read.
BaseHolds(j, log) ==
    j.at \in Projecting => Holds(j.base, log, IF j.at = "events" THEN Len(log) ELSE j.seen)

RowInv ==
    /\ \A v \in Version : row[v].exists => Holds(row[v], events[v], Len(events[v]))
    /\ \A r \in Request : job[r] = Idle \/ BaseHolds(job[r], events[Target(job[r])])

LEMMA SameProjection ==
    ASSUME NEW log, NEW long, Len(log) \in Nat, Len(long) \in Nat, Extends(long, log)
    PROVE  \A i \in 0 .. Len(log) : Projection(log, i) = Projection(long, i)
<1>1. PICK state : state = Afresh(createInitialState)
  OBVIOUS
<1>2. \A i \in 0 .. Len(log) : Replay(state, log)[i] = Replay(state, long)[i]
  BY SameBeginning
<1> QED
  BY <1>1, <1>2 DEF Projection

LEMMA HoldsKept ==
    ASSUME NEW p, NEW log, NEW m \in Nat, Holds(p, log, m),
           NEW long, Extends(long, log), Len(log) \in Nat, Len(long) \in Nat,
           NEW k \in Nat, m <= k
    PROVE  Holds(p, long, k)
<1>1. PICK n \in 0 .. Len(log) : n <= m /\ Agree(p, Projection(log, n))
  BY DEF Holds
<1>2. Projection(log, n) = Projection(long, n)
  BY SameBeginning DEF Projection
<1>3. n \in 0 .. Len(long) /\ n <= k
  BY <1>1 DEF Extends
<1> QED
  BY <1>1, <1>2, <1>3 DEF Holds

LogsGrow ==
    \A v \in Version : /\ Len(events[v]) \in Nat /\ Len(events'[v]) \in Nat
                       /\ Extends(events'[v], events[v])

LEMMA BaseKept ==
    ASSUME PlanInv, LogsGrow, NEW j \in JobRecord, BaseHolds(j, events[Target(j)])
    PROVE  BaseHolds(j, events'[Target(j)])
<1> DEFINE t == Target(j)
           m == IF j.at = "events" THEN Len(events[t]) ELSE j.seen
           k == IF j.at = "events" THEN Len(events'[t]) ELSE j.seen
<1>1. t \in Version /\ j.seen \in Nat
  BY DEF JobRecord, Target
<1>2. /\ Extends(events'[t], events[t]) /\ Len(events[t]) \in Nat /\ Len(events'[t]) \in Nat
      /\ m \in Nat /\ k \in Nat /\ m <= k
  BY <1>1 DEF LogsGrow, Extends
<1> HIDE DEF t, m, k
<1>3. ASSUME Holds(j.base, events[t], m) PROVE Holds(j.base, events'[t], k)
  BY <1>2, <1>3, HoldsKept
<1> QED
  BY <1>3 DEF BaseHolds, t, m, k

\* What an action has to show: logs grow, a row it writes holds a prefix, and a
\* projection of its request starts from one.
LEMMA RowStepKeeps ==
    ASSUME PlanInv, RowInv, LogsGrow,
           NEW r \in Request, NEW j, job' = [job EXCEPT ![r] = j],
           j = Idle \/ BaseHolds(j, events'[Target(j)]),
           \A v \in Version : row'[v].exists =>
               row'[v] = row[v] \/ Holds(row'[v], events'[v], Len(events'[v]))
    PROVE  RowInv'
<1>1. ASSUME NEW v \in Version, row'[v].exists
      PROVE  Holds(row'[v], events'[v], Len(events'[v]))
  <2>1. CASE row'[v] = row[v]
    <3>1. Holds(row[v], events[v], Len(events[v]))
      BY <1>1, <2>1 DEF RowInv
    <3>2. /\ Extends(events'[v], events[v]) /\ Len(events[v]) \in Nat /\ Len(events'[v]) \in Nat
          /\ Len(events[v]) <= Len(events'[v])
      BY DEF LogsGrow, Extends
    <3>3. Holds(row[v], events'[v], Len(events'[v]))
      BY <3>1, <3>2, HoldsKept
    <3> QED
      BY <2>1, <3>3
  <2> QED
    BY <1>1, <2>1
<1>2. ASSUME NEW q \in Request
      PROVE  job'[q] = Idle \/ BaseHolds(job'[q], events'[Target(job'[q])])
  <2>1. CASE q = r
    <3>1. job'[q] = j
      BY <2>1 DEF PlanInv, PlanTypes
    <3> QED
      BY <3>1
  <2>2. CASE q # r /\ job[q] # Idle
    <3>1. job'[q] = job[q] /\ job[q] \in JobRecord
      BY <2>2 DEF PlanInv, PlanTypes
    <3>2. BaseHolds(job[q], events[Target(job[q])])
      BY <2>2 DEF RowInv
    <3>3. BaseHolds(job[q], events'[Target(job[q])])
      BY <3>1, <3>2, BaseKept
    <3> QED
      BY <3>1, <3>3
  <2>3. CASE q # r /\ job[q] = Idle
    BY <2>3 DEF PlanInv, PlanTypes
  <2> QED
    BY <2>1, <2>2, <2>3
<1> QED
  BY <1>1, <1>2 DEF RowInv, Target

LEMMA LogsStay ==
    ASSUME PlanInv, UNCHANGED events
    PROVE  LogsGrow
BY DEF LogsGrow, Extends, PlanInv, PlanTypes

-------------------------------------------------------------------------------
(* Every action keeps the invariant of the rows. *)

\* An action that leaves logs and rows alone and does not begin a projection.
Settles(r) ==
    /\ UNCHANGED <<events, row>>
    /\ \E j : job' = [job EXCEPT ![r] = j] /\ (j = Idle \/ j.at \notin Projecting)

LEMMA SettlesKeeps ==
    ASSUME PlanInv, RowInv, NEW r \in Request, Settles(r)
    PROVE  RowInv'
<1>1. PICK j : job' = [job EXCEPT ![r] = j] /\ (j = Idle \/ j.at \notin Projecting)
  BY DEF Settles
<1>2. LogsGrow
  BY LogsStay DEF Settles
<1>3. j = Idle \/ BaseHolds(j, events'[Target(j)])
  BY <1>1 DEF BaseHolds
<1> QED
  BY <1>1, <1>2, <1>3, RowStepKeeps DEF Settles

LEMMA FailedPlace ==
    ASSUME NEW j \in JobRecord
    PROVE  Failed(j) = Idle \/ Failed(j).at = "call"
BY DEF Failed, JobRecord

LEMMA AfterCallPlace ==
    ASSUME NEW j \in JobRecord
    PROVE  AfterCall(j).at \in {"call", "done"}
BY DEF AfterCall, JobRecord

LEMMA RunningJob ==
    ASSUME PlanInv, NEW r \in Request, Busy(r)
    PROVE  job[r] \in JobRecord /\ job[r] # Idle
BY BusyJob DEF Busy, Idle

LEMMA Settling ==
    ASSUME PlanInv, NEW r \in Request,
           \/ ReadRecord(r) \/ updatePlanStatus(r) \/ LookForRow(r) \/ ReadRow(r)
           \/ Answer(r) \/ StreamNeverStarts(r) \/ StatementFails(r)
    PROVE  Settles(r)
<1>1. Busy(r)
  BY DEF ReadRecord, updatePlanStatus, LookForRow, ReadRow, Answer, StreamNeverStarts, Streaming,
         StatementFails, Running
<1>2. job[r] \in JobRecord
  BY <1>1, RunningJob
<1> DEFINE j == job[r]
<1>3. ASSUME job' = [job EXCEPT ![r] = Idle] \/ job' = [job EXCEPT ![r] = Failed(j)]
                \/ job' = [job EXCEPT ![r] = AfterCall(j)],
             UNCHANGED <<events, row>>
      PROVE  Settles(r)
  BY <1>2, <1>3, FailedPlace, AfterCallPlace DEF Settles, Projecting
<1>4. ASSUME NEW f, job' = [job EXCEPT ![r] = f], f.at \notin Projecting, UNCHANGED <<events, row>>
      PROVE  Settles(r)
  BY <1>4 DEF Settles
<1>5. CASE Answer(r) \/ StreamNeverStarts(r) \/ StatementFails(r) \/ updatePlanStatus(r)
  BY <1>3, <1>5 DEF Answer, StreamNeverStarts, StatementFails, updatePlanStatus, Throw, Advance
<1>6. CASE ReadRecord(r)
  <2> DEFINE f == [j EXCEPT !.at = "update_record", !.expected = record[job[r].v]]
  <2>1. f.at \notin Projecting
    BY <1>2 DEF JobRecord, Projecting
  <2>2. UNCHANGED <<events, row>>
    BY <1>6 DEF ReadRecord
  <2>3. job' = [job EXCEPT ![r] = Failed(j)] \/ job' = [job EXCEPT ![r] = AfterCall(j)]
           \/ job' = [job EXCEPT ![r] = f]
    BY <1>6 DEF ReadRecord, Throw, Advance
  <2> HIDE DEF f, j
  <2> QED
    BY <1>3, <1>4, <2>1, <2>2, <2>3
<1>7. CASE LookForRow(r)
  <2> DEFINE f == [j EXCEPT !.at = "insert"]
  <2>1. f.at \notin Projecting
    BY <1>2 DEF JobRecord, Projecting
  <2>2. UNCHANGED <<events, row>>
    BY <1>7 DEF LookForRow
  <2>3. job' = [job EXCEPT ![r] = AfterCall(j)] \/ job' = [job EXCEPT ![r] = f]
    BY <1>7 DEF LookForRow, Goto, Advance
  <2> HIDE DEF f, j
  <2> QED
    BY <1>3, <1>4, <2>1, <2>2, <2>3
<1>8. CASE ReadRow(r)
  <2> DEFINE f == [j EXCEPT !.at = "append", !.new = NewEvents(Call(r), row[On(r)])]
  <2>1. f.at \notin Projecting
    BY <1>2 DEF JobRecord, Projecting
  <2>2. UNCHANGED <<events, row>>
    BY <1>8 DEF ReadRow
  <2>3. job' = [job EXCEPT ![r] = Failed(j)] \/ job' = [job EXCEPT ![r] = AfterCall(j)]
           \/ job' = [job EXCEPT ![r] = f]
    BY <1>8 DEF ReadRow, Throw, Advance
  <2> HIDE DEF f, j
  <2> QED
    BY <1>3, <1>4, <2>1, <2>2, <2>3
<1> QED
  BY <1>5, <1>6, <1>7, <1>8

LEMMA SettlingToo ==
    ASSUME PlanInv, NEW r \in Request,
           Begin(r) \/ createPendingPlan(r) \/ getPlan(r) \/ ToolCall(r) \/ StreamEnds(r)
    PROVE  Settles(r)
<1>1. CASE Begin(r)
  <2>1. PICK kind \in Kinds, v \in Version : \E arg \in Arguments(kind) :
           /\ job' = [job EXCEPT ![r] =
                 [kind |-> kind, v |-> v, arg |-> arg, todo |-> Program(kind, arg),
                  at |-> "call", stage |-> "gate", made |-> 0, beats |-> 0,
                  expected |-> "none", new |-> <<>>, base |-> NoRow, seen |-> 0, rev |-> 0]]
           /\ UNCHANGED <<events, row>>
    BY <1>1 DEF Begin
  <2>2. PICK arg \in Arguments(kind) :
           /\ job' = [job EXCEPT ![r] =
                 [kind |-> kind, v |-> v, arg |-> arg, todo |-> Program(kind, arg),
                  at |-> "call", stage |-> "gate", made |-> 0, beats |-> 0,
                  expected |-> "none", new |-> <<>>, base |-> NoRow, seen |-> 0, rev |-> 0]]
           /\ UNCHANGED <<events, row>>
    BY <2>1
  <2> DEFINE f == [kind |-> kind, v |-> v, arg |-> arg, todo |-> Program(kind, arg),
                  at |-> "call", stage |-> "gate", made |-> 0, beats |-> 0,
                  expected |-> "none", new |-> <<>>, base |-> NoRow, seen |-> 0, rev |-> 0]
  <2>3. f.at \notin Projecting
    BY DEF Projecting
  <2>4. job' = [job EXCEPT ![r] = f]
    BY <2>2
  <2> HIDE DEF f
  <2> QED
    BY <2>2, <2>3, <2>4 DEF Settles
<1>2. CASE createPendingPlan(r)
  <2>1. job[r] \in JobRecord
    BY <1>2, RunningJob DEF createPendingPlan, Running
  <2>2. AfterCall(job[r]).at \notin Projecting
    BY <2>1, AfterCallPlace DEF Projecting
  <2> DEFINE a == AfterCall(job[r])
  <2> HIDE DEF a
  <2>3. UNCHANGED <<events, row>>
           /\ \E m, v : job' = [job EXCEPT ![r] = [a EXCEPT !.made = m, !.v = v]]
    <3>1. PICK v \in Version : job' = [job EXCEPT ![r] = [a EXCEPT
              !.made = v, !.v = IF job[r].kind = "plan" THEN v ELSE a.v]]
      BY <1>2 DEF createPendingPlan, a
    <3> QED
      BY <1>2, <3>1 DEF createPendingPlan
  <2>4. PICK m, v : job' = [job EXCEPT ![r] = [a EXCEPT !.made = m, !.v = v]]
    BY <2>3
  <2>5. [a EXCEPT !.made = m, !.v = v].at \notin Projecting
    BY <2>1, <2>2 DEF a, AfterCall, JobRecord
  <2> QED
    BY <2>3, <2>4, <2>5 DEF Settles
<1>3. CASE getPlan(r)
  <2>1. job[r] \in JobRecord
    BY <1>3, RunningJob DEF getPlan, Running
  <2>2. AfterCall(job[r]).at \notin Projecting
    BY <2>1, AfterCallPlace DEF Projecting
  <2>3. UNCHANGED <<events, row>>
           /\ \E todo : job' = [job EXCEPT ![r] = [AfterCall(job[r]) EXCEPT !.todo = todo]]
    BY <1>3 DEF getPlan
  <2>4. PICK todo : job' = [job EXCEPT ![r] = [AfterCall(job[r]) EXCEPT !.todo = todo]]
    BY <2>3
  <2>5. [AfterCall(job[r]) EXCEPT !.todo = todo].at \notin Projecting
    BY <2>1, <2>2 DEF AfterCall, JobRecord
  <2> QED
    BY <2>3, <2>4, <2>5 DEF Settles
<1>4. CASE ToolCall(r)
  <2> DEFINE f == [job[r] EXCEPT !.todo = <<Mk("heartbeat", None)>> \o job[r].todo,
                                 !.beats = job[r].beats + 1, !.stage = "run"]
  <2>1. job[r] \in JobRecord /\ job[r].at = "call" /\ UNCHANGED <<events, row>>
    BY <1>4, RunningJob DEF ToolCall, Streaming, Running
  <2>2. job' = [job EXCEPT ![r] = f]
    BY <1>4 DEF ToolCall, PlanInv, PlanTypes
  <2>3. f.at \notin Projecting
    BY <2>1 DEF JobRecord, Projecting
  <2> HIDE DEF f
  <2> QED
    BY <2>1, <2>2, <2>3 DEF Settles
<1>5. CASE StreamEnds(r)
  <2>1. job[r] \in JobRecord /\ job[r].at = "call" /\ UNCHANGED <<events, row>>
    BY <1>5, RunningJob DEF StreamEnds, Streaming, Running
  <2>2. PICK end : job' = [job EXCEPT ![r].todo = <<Mk(end, job[r].arg)>>, ![r].stage = "run"]
    BY <1>5 DEF StreamEnds
  <2> DEFINE f == [job[r] EXCEPT !.todo = <<Mk(end, job[r].arg)>>, !.stage = "run"]
  <2>3. job' = [job EXCEPT ![r] = f]
    BY <2>2 DEF PlanInv, PlanTypes
  <2>4. f.at \notin Projecting
    BY <2>1 DEF JobRecord, Projecting
  <2> HIDE DEF f
  <2> QED
    BY <2>1, <2>3, <2>4 DEF Settles
<1> QED
  BY <1>1, <1>2, <1>3, <1>4, <1>5

LEMMA ReadingKeeps ==
    ASSUME PlanInv, RowInv, NEW r \in Request, ReadState(r) \/ listEvents(r) \/ readRevision(r)
    PROVE  RowInv'
<1> DEFINE j == job[r]
<1>1. Running(r) /\ Busy(r) /\ UNCHANGED <<events, row>>
  BY DEF ReadState, listEvents, readRevision, Running
<1> PICK t \in Version : t = On(r)
  BY <1>1, BusyJob, OnIsTarget
<1>2. /\ j \in JobRecord /\ j # Idle /\ Target(j) = t /\ Placed(j, row[t], events[t], events[j.v])
  BY <1>1, BusyJob, RunningJob, OnIsTarget
<1>3. LogsGrow
  BY <1>1, LogsStay
<1>4. BaseHolds(j, events[t])
  BY <1>2 DEF RowInv
<1>5. CASE ReadState(r)
  <2> DEFINE f == [j EXCEPT !.at = "events", !.base = row[t]]
  <2>1. j.at = "row" /\ job' = [job EXCEPT ![r] = f]
    BY <1>5 DEF ReadState, PlanInv, PlanTypes
  <2>2. /\ f.at = "events" /\ f.base = row[t] /\ f.kind = j.kind /\ f.v = j.v
        /\ f.todo = j.todo /\ f.made = j.made
    BY <1>2 DEF JobRecord
  <2>3. Holds(row[t], events[t], Len(events[t]))
    BY <1>2, <2>1 DEF Placed, RowInv
  <2> HIDE DEF f
  <2>4. Target(f) = t
    BY <1>2, <2>2 DEF Target
  <2>5. BaseHolds(f, events'[Target(f)])
    BY <1>1, <2>2, <2>3, <2>4 DEF BaseHolds
  <2> QED
    BY <1>1, <1>3, <2>1, <2>5, RowStepKeeps
<1>6. CASE listEvents(r)
  <2> DEFINE f == [j EXCEPT !.at = "revision", !.seen = Len(events[t])]
  <2>1. j.at = "events" /\ job' = [job EXCEPT ![r] = f]
    BY <1>6 DEF listEvents, PlanInv, PlanTypes
  <2>2. /\ f.at = "revision" /\ f.base = j.base /\ f.seen = Len(events[t]) /\ f.kind = j.kind
        /\ f.v = j.v /\ f.todo = j.todo /\ f.made = j.made
    BY <1>2 DEF JobRecord
  <2>3. Holds(j.base, events[t], Len(events[t]))
    BY <1>4, <2>1 DEF BaseHolds, Projecting
  <2> HIDE DEF f
  <2>4. Target(f) = t
    BY <1>2, <2>2 DEF Target
  <2>5. BaseHolds(f, events'[Target(f)])
    BY <1>1, <2>2, <2>3, <2>4 DEF BaseHolds
  <2> QED
    BY <1>1, <1>3, <2>1, <2>5, RowStepKeeps
<1>7. CASE readRevision(r)
  <2> DEFINE f == [j EXCEPT !.at = "update", !.rev = row[t].rev]
  <2>1. j.at = "revision" /\ job' = [job EXCEPT ![r] = f]
    BY <1>7 DEF readRevision, PlanInv, PlanTypes
  <2>2. /\ f.at = "update" /\ f.base = j.base /\ f.seen = j.seen /\ f.kind = j.kind
        /\ f.v = j.v /\ f.todo = j.todo /\ f.made = j.made
    BY <1>2 DEF JobRecord
  <2>3. Holds(j.base, events[t], j.seen)
    BY <1>4, <2>1 DEF BaseHolds, Projecting
  <2> HIDE DEF f
  <2>4. Target(f) = t
    BY <1>2, <2>2 DEF Target
  <2>5. BaseHolds(f, events'[Target(f)])
    BY <1>1, <2>2, <2>3, <2>4 DEF BaseHolds
  <2> QED
    BY <1>1, <1>3, <2>1, <2>5, RowStepKeeps
<1> QED
  BY <1>5, <1>6, <1>7

LEMMA FirstProjection ==
    ASSUME NEW log, LegalLog(log)
    PROVE  Holds(createInitialState, log, Len(log))
<1>1. Len(log) \in Nat
  BY DEF LegalLog
<1>2. Projection(log, 0) = Afresh(createInitialState)
  BY <1>1, ReplaySteps DEF Projection
<1>3. /\ createInitialState.phase = "approval_gate" /\ createInitialState.current = 0
      /\ createInitialState.status = "waiting_approval"
  BY DEF createInitialState
<1>4. Agree(createInitialState, Projection(log, 0))
  BY <1>2, <1>3, InitialState, AfreshFields DEF Agree
<1> QED
  BY <1>1, <1>4 DEF Holds

LEMMA CreatingKeeps ==
    ASSUME PlanInv, RowInv, NEW r \in Request, createForPlan(r)
    PROVE  RowInv'
<1> DEFINE f == [job[r] EXCEPT !.at = "row"]
<1>1. Running(r) /\ Busy(r) /\ job[r] \in JobRecord
  BY RunningJob DEF createForPlan, Running
<1> PICK t \in Version : t = On(r)
  BY <1>1, BusyJob, OnIsTarget
<1>2. CASE row[t].exists
  <2>1. job' = [job EXCEPT ![r] = Failed(job[r])] /\ UNCHANGED <<row, events>>
    BY <1>2 DEF createForPlan, Throw
  <2>2. Settles(r)
    BY <1>1, <2>1, FailedPlace DEF Settles, Projecting
  <2> QED
    BY <2>2, SettlesKeeps
<1>3. CASE ~ row[t].exists
  <2>1. /\ row' = [row EXCEPT ![t] = createInitialState]
        /\ events' = [events EXCEPT ![t] = FirstEvents]
        /\ job' = [job EXCEPT ![r] = f]
    BY <1>3 DEF createForPlan, Goto, FirstEvents
  <2>2. f.at \notin Projecting
    BY <1>1 DEF JobRecord, Projecting
  <2>3. row \in [Version -> Row \cup {NoRow}] /\ \A v \in Version : Len(events[v]) \in Nat
    BY DEF PlanInv, PlanTypes
  <2>4. /\ row'[t] = createInitialState /\ \A v \in Version : v # t => row'[v] = row[v]
        /\ events'[t] = FirstEvents /\ \A v \in Version : v # t => events'[v] = events[v]
    BY <2>1, <2>3 DEF PlanInv, PlanTypes
  <2>5. events[t] = <<>> /\ Len(events[t]) = 0
    BY <1>3 DEF PlanInv, LogSafe
  <2>6. LegalLog(FirstEvents) /\ Len(FirstEvents) \in Nat
    BY FirstEventsLegal
  <2>7. LogsGrow
    <3>1. Extends(events'[t], events[t])
      BY <2>4, <2>5, <2>6 DEF Extends
    <3>2. \A v \in Version : v # t => Extends(events'[v], events[v])
      BY <2>3, <2>4 DEF Extends
    <3> QED
      BY <2>3, <2>4, <2>6, <3>1, <3>2 DEF LogsGrow
  <2>8. Holds(row'[t], events'[t], Len(events'[t]))
    BY <2>4, <2>6, FirstProjection
  <2>9. BaseHolds(f, events'[Target(f)])
    BY <2>2 DEF BaseHolds
  <2> HIDE DEF f
  <2> QED
    BY <2>1, <2>4, <2>7, <2>8, <2>9, RowStepKeeps
<1> QED
  BY <1>2, <1>3

LEMMA CatExtends ==
    ASSUME NEW C, NEW log, NEW new, NEW long, IsCat(C, log, new, long)
    PROVE  Extends(long, log) /\ Len(long) \in Nat
BY DEF IsCat, Extends

LEMMA AppendingKeeps ==
    ASSUME PlanInv, RowInv, NEW r \in Request, appendEvents(r)
    PROVE  RowInv'
<1> DEFINE C == [type : EventTypes, arg : Arg]
           f == [job[r] EXCEPT !.at = "row", !.new = <<>>]
<1>1. Running(r) /\ Busy(r) /\ UNCHANGED row /\ job[r] \in JobRecord
  BY RunningJob DEF appendEvents, Running
<1> PICK t \in Version : t = On(r)
  BY <1>1, BusyJob, OnIsTarget
<1>2. job' = [job EXCEPT ![r] = f] /\ f.at \notin Projecting
  BY <1>1 DEF appendEvents, PlanInv, PlanTypes, JobRecord, Projecting
<1>3. events[t] \in Seq(C) /\ job[r].new \in Seq(C) /\ events \in [Version -> Seq(C)]
  BY <1>1 DEF PlanInv, PlanTypes, JobRecord
<1>4. PICK long : long = events[t] \o job[r].new
  OBVIOUS
<1> HIDE DEF C, f
<1>5. IsCat(C, events[t], job[r].new, long)
  BY <1>3, <1>4, Appending, Zenon
<1>6. Extends(long, events[t]) /\ Len(long) \in Nat
  BY <1>5, CatExtends
<1>7. events' = [events EXCEPT ![t] = long]
  BY <1>4 DEF appendEvents
<1>8. LogsGrow
  <2>1. \A v \in Version : Len(events[v]) \in Nat /\ Extends(events[v], events[v])
    BY <1>3 DEF Extends
  <2>2. events'[t] = long /\ \A v \in Version : v # t => events'[v] = events[v]
    BY <1>3, <1>7
  <2> QED
    BY <1>6, <2>1, <2>2 DEF LogsGrow
<1>9. BaseHolds(f, events'[Target(f)])
  BY <1>2 DEF BaseHolds
<1> QED
  BY <1>1, <1>2, <1>8, <1>9, RowStepKeeps

\* The row a projection writes: the state it started from holds no more than the
\* part of the log it read.
LEMMA ProjectingKeeps ==
    ASSUME PlanInv, RowInv, NEW r \in Request, reproject(r)
    PROVE  RowInv'
<1> DEFINE j == job[r]
           f == [AfterCall(j) EXCEPT !.base = NoRow, !.seen = 0, !.rev = 0]
<1>1. Running(r) /\ Busy(r) /\ j.at = "update" /\ UNCHANGED events
  BY DEF reproject, Running
<1> PICK t \in Version : t = On(r)
  BY <1>1, BusyJob, OnIsTarget
<1>2. /\ j \in JobRecord /\ j # Idle /\ Target(j) = t /\ Placed(j, row[t], events[t], events[j.v])
  BY <1>1, BusyJob, RunningJob, OnIsTarget
<1>0. LogsGrow
  BY <1>1, LogsStay
<1>3. LogSafe(t) /\ row[t].exists /\ Len(events[t]) \in Nat
  BY <1>1, <1>2 DEF PlanInv, PlanTypes, Placed
<1>4. j.seen \in 0 .. Len(events[t]) /\ j.base \in Row
  BY <1>1, <1>2 DEF Placed, JobRecord, PlanInv, PlanTypes
<1> PICK part : part = SubSeq(events[t], 1, j.seen)
  OBVIOUS
<1>5. LegalLog(part) /\ Extends(events[t], part) /\ Len(part) = j.seen /\ LegalLog(events[t])
  BY <1>3, <1>4, PartOfLog DEF LogSafe
<1>6. PICK n \in 0 .. Len(events[t]) : n <= j.seen /\ Agree(j.base, Projection(events[t], n))
  <2>1. BaseHolds(j, events[t])
    BY <1>2 DEF RowInv
  <2>2. Holds(j.base, events[t], j.seen)
    BY <1>1, <2>1 DEF BaseHolds, Projecting
  <2> QED
    BY <2>2 DEF Holds
<1>7. \A i \in 0 .. Len(part) : Projection(part, i) = Projection(events[t], i)
  <2>1. Len(part) \in Nat
    BY <1>3, <1>4, <1>5
  <2> QED
    BY <1>3, <1>5, <2>1, SameProjection
<1>8. n \in 0 .. Len(part) /\ Len(part) \in 0 .. Len(part)
  BY <1>4, <1>5, <1>6
<1> DEFINE p == projectWorkflow(j.base, part)
           w == [p EXCEPT !.rev = row[t].rev + 1]
<1>9. Agree(p, Projection(events[t], j.seen))
  <2>1. Agree(j.base, Projection(part, n))
    BY <1>6, <1>7, <1>8
  <2>2. Agree(p, Projection(part, Len(part)))
    BY <1>4, <1>5, <1>8, <2>1, Absorbed
  <2> QED
    BY <1>5, <1>7, <1>8, <2>2
<1>10. p \in Row
  <2>1. Afresh(j.base) \in Row
    BY <1>4, AfreshFields
  <2>2. Replay(Afresh(j.base), part)[Len(part)] \in Row
    BY <1>5, <1>8, <2>1, ReplayType
  <2> QED
    BY <2>2 DEF projectWorkflow
<1> HIDE DEF p
<1>11. Agree(w, p)
  BY <1>10 DEF Row, Agree
<1>12. Holds(w, events'[t], Len(events'[t]))
  BY <1>1, <1>4, <1>9, <1>11, AgreeTrans DEF Holds
<1>13. row' = [row EXCEPT ![t] = w] \/ row' = row
  BY DEF reproject, p
<1> HIDE DEF w
<1>14. /\ row'[t] = w \/ row'[t] = row[t]
       /\ \A v \in Version : v # t => row'[v] = row[v]
  BY <1>13 DEF PlanInv, PlanTypes
<1>15. job' = [job EXCEPT ![r] = f]
  BY DEF reproject
<1>16. f.at \notin Projecting
  <2>1. AfterCall(j).at \in {"call", "done"} /\ f.at = AfterCall(j).at
    BY <1>2, AfterCallPlace DEF AfterCall, JobRecord
  <2> QED
    BY <2>1 DEF Projecting
<1>17. BaseHolds(f, events'[Target(f)])
  BY <1>16 DEF BaseHolds
<1> HIDE DEF f
<1> QED
  BY <1>0, <1>12, <1>14, <1>15, <1>17, RowStepKeeps

-------------------------------------------------------------------------------
LEMMA RowInit ==
    ASSUME Init
    PROVE  RowInv
BY DEF Init, RowInv, NoRow

LEMMA RowNext ==
    ASSUME PlanInv, RowInv, [Next]_vars
    PROVE  RowInv'
<1>1. CASE UNCHANGED vars
  BY <1>1 DEF vars, RowInv, Holds, Projection, BaseHolds, Target
<1>2. CASE Killed
  <2>1. UNCHANGED <<events, row>> /\ job' = [r \in Request |-> Idle]
    BY <1>2 DEF Killed
  <2>2. \A r \in Request : job'[r] = Idle
    BY <2>1
  <2>3. \A v \in Version : row'[v].exists => Holds(row'[v], events'[v], Len(events'[v]))
    BY <2>1 DEF RowInv
  <2> QED
    BY <2>2, <2>3 DEF RowInv
<1>3. ASSUME NEW r \in Request, StoreStep(r) PROVE RowInv'
  <2>1. CASE ReadRecord(r) \/ updatePlanStatus(r) \/ LookForRow(r) \/ ReadRow(r)
    BY <2>1, Settling, SettlesKeeps
  <2>2. CASE createPendingPlan(r) \/ getPlan(r)
    BY <2>2, SettlingToo, SettlesKeeps
  <2>3. CASE createForPlan(r) \/ appendEvents(r) \/ reproject(r)
    BY <2>3, CreatingKeeps, AppendingKeeps, ProjectingKeeps
  <2>4. CASE ReadState(r) \/ listEvents(r) \/ readRevision(r)
    BY <2>4, ReadingKeeps
  <2> QED
    BY <1>3, <2>1, <2>2, <2>3, <2>4 DEF StoreStep
<1>4. ASSUME NEW r \in Request,
             \/ Begin(r) \/ Answer(r) \/ StreamNeverStarts(r)
             \/ ToolCall(r) \/ StreamEnds(r) \/ StatementFails(r)
      PROVE  RowInv'
  BY <1>4, Settling, SettlingToo, SettlesKeeps
<1> QED
  BY <1>1, <1>2, <1>3, <1>4 DEF Next

\* The row of a version is what some prefix of its log leads to, from the beginning,
\* although reproject starts from the state object of a row read earlier and is raced
\* by other reprojections, failed statements and restarts.
THEOREM RowFollowsLog == Spec => []RowIsAPrefix
<1>1. PlanInv /\ RowInv => RowIsAPrefix
  <2> SUFFICES ASSUME PlanInv, RowInv, NEW v \in Version, row[v].exists
               PROVE  \E n \in 0 .. Len(events[v]) : SameRow(row[v], Projected(v, n))
    BY DEF RowIsAPrefix
  <2>1. LogSafe(v) /\ row[v] \in Row /\ Len(events[v]) \in Nat /\ LegalLog(events[v])
    BY DEF PlanInv, PlanTypes, LogSafe
  <2>2. PICK n \in 0 .. Len(events[v]) : Agree(row[v], Projection(events[v], n))
    BY DEF RowInv, Holds
  <2>3. PICK part : part = SubSeq(events[v], 1, n)
    OBVIOUS
  <2>4. LegalLog(part) /\ Extends(events[v], part) /\ Len(part) = n /\ n \in 0 .. Len(part)
    BY <2>1, <2>3, PartOfLog
  <2>5. Projection(part, n) = Projection(events[v], n)
    BY <2>1, <2>4, SameProjection
  <2>6. Projected(v, n) = Projection(part, n)
    BY <2>3, <2>4 DEF Projected, projectWorkflow, Projection
  <2>7. Projection(part, n) \in Row
    BY <2>4, AfreshFields, InitialState, ReplayType DEF Projection
  <2>8. SameRow(row[v], Projected(v, n))
    BY <2>1, <2>2, <2>5, <2>6, <2>7, AgreeIsSame
  <2> QED
    BY <2>8
<1> QED
  BY <1>1, Inductive, RowInit, RowNext, PTL DEF Spec

-------------------------------------------------------------------------------
(* A decision that was answered has reached the row. *)

Deciding == {"approve", "reject", "finish"}

\* While a request decides about a version, no other request makes a call about it.
Undisturbed ==
    \A r, s \in Request :
        r # s /\ job[r].kind \in Deciding /\ Running(s) => On(s) # job[r].v

\* The call that brings a decision to the row, and what it is to bring.
LastCall(kind, arg) ==
    IF kind = "approve" THEN Mk("approve", None)
    ELSE Mk("finish", IF kind = "reject" THEN Word("rejected") ELSE arg)

Reached(c, status) == IF c.type = "approve" THEN status \in Accepted ELSE status = c.arg.word

\* That call comes last, and before it only those on the record and createForPlan.
EndsWith(todo, c) ==
    /\ \A p \in 1 .. Len(todo) :
          /\ p = Len(todo) => todo[p] = c
          /\ todo[p].type \in {"approveRecord", "rejectRecord", "finishRecord", "ensure",
                               "approve", "finish"}
          /\ todo[p].type \in {"approve", "finish"} => todo[p] = c
    /\ c.type \in {"approve", "finish"}

\* Whatever row a projection starts from, the log leads to the decision.
Decides(log, c) == \A state \in Row : Reached(c, projectWorkflow(state, log).status)

\* w and log are those of the version of the job.
Decisive(j, c, w, log) ==
    /\ EndsWith(j.todo, c)
    /\ j.at = "done" => Reached(c, w.status)
    /\ j.at \in {"row", "events", "revision", "update"} /\ Head(j.todo) = c => Decides(log, c)
    /\ j.at \in {"revision", "update"} => j.seen = Len(log)
    /\ j.at = "update" => j.rev = w.rev

JobDecides(j, rows, logs) ==
    j # Idle /\ j.kind \in Deciding =>
        Decisive(j, LastCall(j.kind, j.arg), rows[j.v], logs[j.v])

DecisionInv == \A r \in Request : JobDecides(job[r], row, events)

\* A request writes only about the version its call is about.
OnlyOn(r) ==
    \A v \in Version :
        \/ row'[v] = row[v] /\ events'[v] = events[v]
        \/ Running(r) /\ v = On(r)

LEMMA NothingWritten ==
    ASSUME UNCHANGED <<row, events>>
    PROVE  \A r : OnlyOn(r)
<1>1. row' = row /\ events' = events
  OBVIOUS
<1>2. \A v \in Version : row'[v] = row[v] /\ events'[v] = events[v]
  BY <1>1
<1> QED
  BY <1>2 DEF OnlyOn

\* What an action has to show.
LEMMA DecisionStepKeeps ==
    ASSUME PlanInv, DecisionInv, Undisturbed,
           NEW r \in Request, NEW j, job' = [job EXCEPT ![r] = j], JobDecides(j, row', events'),
           OnlyOn(r)
    PROVE  DecisionInv'
<1> SUFFICES ASSUME NEW q \in Request PROVE JobDecides(job'[q], row', events')
  BY DEF DecisionInv
<1>1. CASE q = r
  BY <1>1 DEF PlanInv, PlanTypes
<1>2. CASE q # r
  <2>1. job'[q] = job[q] /\ job[q] \in JobRecord \cup {Idle}
    BY <1>2 DEF PlanInv, PlanTypes
  <2> SUFFICES ASSUME job[q] # Idle, job[q].kind \in Deciding
               PROVE  Decisive(job[q], LastCall(job[q].kind, job[q].arg),
                               row'[job[q].v], events'[job[q].v])
    BY <2>1 DEF JobDecides
  <2>2. job[q].v \in Version
    BY <2>1 DEF JobRecord
  <2>3. Running(r) => On(r) # job[q].v
    BY <1>2 DEF Undisturbed
  <2>4. row'[job[q].v] = row[job[q].v] /\ events'[job[q].v] = events[job[q].v]
    BY <2>2, <2>3 DEF OnlyOn
  <2>5. JobDecides(job[q], row, events)
    BY DEF DecisionInv
  <2>6. Decisive(job[q], LastCall(job[q].kind, job[q].arg), row[job[q].v], events[job[q].v])
    BY <2>5 DEF JobDecides
  <2> QED
    BY <2>4, <2>6
<1> QED
  BY <1>1, <1>2

\* The request is idle, or not one that decides.
LEMMA NothingToDecide ==
    ASSUME PlanInv, DecisionInv, Undisturbed, UNCHANGED <<row, events>>,
           NEW r \in Request, NEW j, job' = [job EXCEPT ![r] = j],
           j = Idle \/ j.kind \notin Deciding
    PROVE  DecisionInv'
<1>1. JobDecides(j, row', events')
  BY DEF JobDecides
<1> QED
  BY <1>1, NothingWritten, DecisionStepKeeps

LEMMA FailedDecides ==
    ASSUME NEW j \in JobRecord
    PROVE  Failed(j) = Idle \/ Failed(j).kind \notin Deciding
BY DEF Failed, JobRecord, Deciding

\* The call at the head is done; if it was the last, the decision has reached the row.
LEMMA DecisiveAfterCall ==
    ASSUME NEW j \in JobRecord, j.todo # <<>>, NEW c, EndsWith(j.todo, c),
           NEW w, NEW log, Head(j.todo) = c => Reached(c, w.status)
    PROVE  /\ Decisive(AfterCall(j), c, w, log)
           /\ AfterCall(j).kind = j.kind /\ AfterCall(j).arg = j.arg /\ AfterCall(j).v = j.v
           /\ AfterCall(j) # Idle
<1>1. /\ j.todo \in Seq([type : CallType, arg : Arg])
      /\ Tail(j.todo) \in Seq([type : CallType, arg : Arg])
      /\ Len(j.todo) \in Nat \ {0} /\ Len(Tail(j.todo)) = Len(j.todo) - 1
      /\ \A p \in 1 .. Len(Tail(j.todo)) : p + 1 \in 1 .. Len(j.todo) /\ Tail(j.todo)[p] = j.todo[p + 1]
      /\ Head(j.todo) = j.todo[1]
  BY DEF JobRecord
<1>2. /\ AfterCall(j).todo = Tail(j.todo)
      /\ AfterCall(j).at = IF Len(j.todo) = 1 THEN "done" ELSE "call"
      /\ AfterCall(j).kind = j.kind /\ AfterCall(j).arg = j.arg /\ AfterCall(j).v = j.v
      /\ AfterCall(j) \in JobRecord
  BY <1>1 DEF AfterCall, JobRecord, Place
<1>3. EndsWith(Tail(j.todo), c)
  <2>1. ASSUME NEW p \in 1 .. Len(Tail(j.todo))
        PROVE  /\ p = Len(Tail(j.todo)) => Tail(j.todo)[p] = c
               /\ Tail(j.todo)[p].type \in {"approveRecord", "rejectRecord", "finishRecord",
                                            "ensure", "approve", "finish"}
               /\ Tail(j.todo)[p].type \in {"approve", "finish"} => Tail(j.todo)[p] = c
    <3>1. p + 1 \in 1 .. Len(j.todo) /\ Tail(j.todo)[p] = j.todo[p + 1]
      BY <1>1
    <3>2. p = Len(Tail(j.todo)) => p + 1 = Len(j.todo)
      BY <1>1
    <3> QED
      BY <3>1, <3>2 DEF EndsWith
  <2> QED
    BY <2>1 DEF EndsWith
<1>4. Len(j.todo) = 1 => Reached(c, w.status)
  BY <1>1 DEF EndsWith
<1>5. AfterCall(j) # Idle
  BY <1>2 DEF JobRecord, Kinds, Idle
<1> QED
  BY <1>2, <1>3, <1>4, <1>5 DEF Decisive

\* A request that decides and makes a call.
LEMMA DecidingCall ==
    ASSUME PlanInv, DecisionInv, NEW r \in Request, Running(r), job[r].kind \in Deciding
    PROVE  /\ job[r] \in JobRecord /\ job[r] # Idle /\ job[r].todo # <<>> /\ job[r].v \in Version
           /\ On(r) = job[r].v /\ Target(job[r]) = job[r].v
           /\ Decisive(job[r], LastCall(job[r].kind, job[r].arg), row[job[r].v], events[job[r].v])
           /\ Call(r).type \in {"approveRecord", "rejectRecord", "finishRecord", "ensure",
                                "approve", "finish"}
           /\ Call(r).type \in {"approve", "finish"} <=> Call(r) = LastCall(job[r].kind, job[r].arg)
<1> DEFINE c == LastCall(job[r].kind, job[r].arg)
<1>1. job[r] \in JobRecord /\ job[r] # Idle /\ job[r].v \in Version
  BY BusyJob, RunningJob DEF Running
<1>2. job[r].todo # <<>> /\ Call(r) = job[r].todo[1] /\ 1 \in 1 .. Len(job[r].todo)
  BY HeadIsLegal
<1>3. JobDecides(job[r], row, events)
  BY DEF DecisionInv
<1>4. Decisive(job[r], c, row[job[r].v], events[job[r].v])
  BY <1>1, <1>3 DEF JobDecides
<1>5. On(r) = job[r].v /\ Target(job[r]) = job[r].v
  BY DEF On, Target, Deciding
<1>6. EndsWith(job[r].todo, c)
  BY <1>4 DEF Decisive
<1> HIDE DEF c
<1>7. /\ Call(r).type \in {"approveRecord", "rejectRecord", "finishRecord", "ensure",
                           "approve", "finish"}
      /\ Call(r).type \in {"approve", "finish"} <=> Call(r) = c
  BY <1>2, <1>6 DEF EndsWith
<1> QED
  BY <1>1, <1>2, <1>4, <1>5, <1>7 DEF c

\* The head of a deciding request is done and left the stores alone.
LEMMA DecidedOn ==
    ASSUME PlanInv, DecisionInv, Undisturbed, UNCHANGED <<row, events>>,
           NEW r \in Request, Running(r), job' = [job EXCEPT ![r] = AfterCall(job[r])],
           job[r].kind \in Deciding /\ Call(r) = LastCall(job[r].kind, job[r].arg)
              => Reached(Call(r), row[job[r].v].status)
    PROVE  DecisionInv'
<1>0. job[r] \in JobRecord
  BY RunningJob DEF Running
<1>1. CASE job[r].kind \notin Deciding
  <2>1. AfterCall(job[r]).kind = job[r].kind
    BY <1>0 DEF AfterCall, JobRecord
  <2> QED
    BY <1>1, <2>1, NothingToDecide
<1>2. CASE job[r].kind \in Deciding
  <2> DEFINE j == job[r]
             c == LastCall(j.kind, j.arg)
  <2>1. /\ EndsWith(j.todo, c) /\ j.todo # <<>>
    BY <1>2, DecidingCall DEF Decisive
  <2>2. Head(j.todo) = c => Reached(c, row[j.v].status)
    BY <1>2 DEF Call
  <2> HIDE DEF c, j
  <2>3. /\ Decisive(AfterCall(j), c, row[j.v], events[j.v])
        /\ AfterCall(j).kind = j.kind /\ AfterCall(j).arg = j.arg /\ AfterCall(j).v = j.v
    BY <1>0, <2>1, <2>2, DecisiveAfterCall DEF j
  <2>4. JobDecides(AfterCall(j), row', events')
    BY <2>3 DEF JobDecides, c
  <2> QED
    BY <2>4, NothingWritten, DecisionStepKeeps DEF j
<1> QED
  BY <1>1, <1>2

\* What the events of a decision do to the status of a row.
LEMMA DecidingEvents ==
    ASSUME NEW p \in Row
    PROVE  /\ ApplyEvent(p, Mk("PlanApproved", None)).status = "approved"
           /\ ApplyEvent(p, Mk("Resumed", None)).status = p.status
           /\ \A arg : ApplyEvent(p, Mk("PlanFinished", arg)).status = arg.word
<1>1. \A type, arg : Mk(type, arg).type = type /\ Mk(type, arg).arg = arg
  BY DEF Mk
<1>2. ApplyEvent(p, Mk("PlanApproved", None)).status = "approved"
  BY <1>1 DEF ApplyEvent, Row
<1>3. ApplyEvent(p, Mk("Resumed", None)).status = p.status
  BY <1>1 DEF ApplyEvent, Row
<1>4. ASSUME NEW arg PROVE ApplyEvent(p, Mk("PlanFinished", arg)).status = arg.word
  BY <1>1 DEF ApplyEvent, Row
<1> QED
  BY <1>2, <1>3, <1>4

\* The log ends with e, or with e and d.
LEMMA LastEvents ==
    ASSUME NEW C, NEW log, NEW new, NEW long, IsCat(C, log, new, long), Len(new) \in {1, 2}
    PROVE  /\ Len(new) = 1 => Len(long) \in 1 .. Len(long) /\ long[Len(long)] = new[1]
           /\ Len(new) = 2 => /\ Len(long) \in 1 .. Len(long) /\ long[Len(long)] = new[2]
                              /\ Len(long) - 1 \in 1 .. Len(long) /\ long[Len(long) - 1] = new[1]
<1>1. /\ Len(long) = Len(log) + Len(new) /\ Len(log) \in Nat /\ Len(new) \in Nat
      /\ \A i \in 1 .. Len(long) : i \notin 1 .. Len(log) =>
            i - Len(log) \in 1 .. Len(new) /\ long[i] = new[i - Len(log)]
  BY DEF IsCat
<1>2. CASE Len(new) = 1
  <2>1. /\ Len(long) \in 1 .. Len(long) /\ Len(long) \notin 1 .. Len(log)
        /\ Len(long) - Len(log) = 1
    BY <1>1, <1>2
  <2> QED
    BY <1>1, <1>2, <2>1
<1>3. CASE Len(new) = 2
  <2>1. /\ Len(long) \in 1 .. Len(long) /\ Len(long) \notin 1 .. Len(log)
        /\ Len(long) - Len(log) = 2
        /\ Len(long) - 1 \in 1 .. Len(long) /\ Len(long) - 1 \notin 1 .. Len(log)
        /\ (Len(long) - 1) - Len(log) = 1
    BY <1>1, <1>3
  <2>2. long[Len(long)] = new[2]
    BY <1>1, <2>1
  <2>3. long[Len(long) - 1] = new[1]
    BY <1>1, <2>1
  <2> QED
    BY <1>3, <2>1, <2>2, <2>3
<1> QED
  BY <1>2, <1>3

\* A log that the deciding call has written its events to.
LEMMA NewEventsDecide ==
    ASSUME NEW C, NEW log, NEW c, LegalCall(c), c.type \in {"approve", "finish"},
           NEW word, NEW long, LegalLog(long), IsCat(C, log, Appended(c, word), long)
    PROVE  Decides(long, c)
<1> SUFFICES ASSUME NEW state \in Row
             PROVE  Reached(c, projectWorkflow(state, long).status)
  BY DEF Decides
<1> DEFINE R == Replay(Afresh(state), long)
           n == Len(long)
<1>1. IsRun(R, long)
  BY AfreshFields, ReplayIsRun
<1>2. projectWorkflow(state, long) = R[n]
  BY DEF projectWorkflow
<1> HIDE DEF R
<1>3. /\ n \in Nat /\ \A i \in 0 .. n : R[i] \in Row
      /\ \A i \in 1 .. n : R[i] = ApplyEvent(R[i - 1], long[i])
  BY <1>1 DEF IsRun
<1>4. CASE c.type = "finish"
  <2>1. Appended(c, word) = <<Mk("PlanFinished", c.arg)>>
    BY <1>4 DEF Appended, NewEvents
  <2>2. Len(Appended(c, word)) = 1 /\ Appended(c, word)[1] = Mk("PlanFinished", c.arg)
    BY <2>1, OneEvent
  <2>3. n \in 1 .. n /\ long[n] = Mk("PlanFinished", c.arg)
    BY <2>2, LastEvents
  <2> HIDE DEF n
  <2>4. R[n] = ApplyEvent(R[n - 1], Mk("PlanFinished", c.arg)) /\ R[n - 1] \in Row
    BY <1>3, <2>3
  <2>5. R[n].status = c.arg.word
    <3>1. PICK arg : arg = c.arg
      OBVIOUS
    <3>2. PICK p \in Row : p = R[n - 1]
      BY <2>4
    <3>3. ApplyEvent(p, Mk("PlanFinished", arg)).status = arg.word
      BY DecidingEvents
    <3> QED
      BY <2>4, <3>1, <3>2, <3>3
  <2> QED
    BY <1>2, <1>4, <2>5 DEF Reached
<1>5. CASE c.type = "approve"
  <2>1. \/ Appended(c, word) = <<Mk("PlanApproved", None)>>
        \/ Appended(c, word) = <<Mk("PlanApproved", None), Mk("Resumed", None)>>
    <3>1. Appended(c, word) = <<Mk("PlanApproved", None)>>
                                  \o (IF word = "none" THEN <<>> ELSE <<Mk("Resumed", None)>>)
      BY <1>5 DEF Appended, NewEvents
    <3> QED
      BY <3>1, OneEvent, TwoEvents, Zenon
  <2>2. CASE Appended(c, word) = <<Mk("PlanApproved", None)>>
    <3>1. Len(Appended(c, word)) = 1 /\ Appended(c, word)[1] = Mk("PlanApproved", None)
      BY <2>2, OneEvent
    <3>2. n \in 1 .. n /\ long[n] = Mk("PlanApproved", None)
      BY <3>1, LastEvents
    <3> HIDE DEF n
    <3>3. R[n] = ApplyEvent(R[n - 1], Mk("PlanApproved", None)) /\ R[n - 1] \in Row
      BY <1>3, <3>2
    <3>4. R[n].status = "approved"
      BY <3>3, DecidingEvents
    <3> QED
      BY <1>2, <1>5, <3>4 DEF Reached, Accepted
  <2>3. CASE Appended(c, word) = <<Mk("PlanApproved", None), Mk("Resumed", None)>>
    <3>1. /\ Len(Appended(c, word)) = 2
          /\ Appended(c, word)[1] = Mk("PlanApproved", None)
          /\ Appended(c, word)[2] = Mk("Resumed", None)
      BY <2>3, TwoEvents
    <3>2. /\ n \in 1 .. n /\ long[n] = Mk("Resumed", None)
          /\ n - 1 \in 1 .. n /\ long[n - 1] = Mk("PlanApproved", None)
      BY <3>1, LastEvents
    <3> HIDE DEF n
    <3>3. R[n] = ApplyEvent(R[n - 1], Mk("Resumed", None)) /\ R[n - 1] \in Row
      BY <1>3, <3>2
    <3>4. R[n - 1] = ApplyEvent(R[(n - 1) - 1], Mk("PlanApproved", None)) /\ R[(n - 1) - 1] \in Row
      BY <1>3, <3>2
    <3>5. R[n - 1].status = "approved" /\ R[n].status = R[n - 1].status
      BY <3>3, <3>4, DecidingEvents
    <3> QED
      BY <1>2, <1>5, <3>5 DEF Reached, Accepted
  <2> QED
    BY <2>1, <2>2, <2>3
<1> QED
  BY <1>4, <1>5

-------------------------------------------------------------------------------
(* Every action keeps the invariant of the decisions. *)

\* A deciding request moves to another place of its call.
LEMMA DecidingMove ==
    ASSUME PlanInv, DecisionInv, Undisturbed, NEW r \in Request, Running(r), OnlyOn(r),
           job[r].kind \in Deciding, NEW f, job' = [job EXCEPT ![r] = f],
           f.kind = job[r].kind, f.arg = job[r].arg, f.v = job[r].v, f.todo = job[r].todo,
           f.at # "done",
           f.at \in {"row", "events", "revision", "update"}
                 /\ Call(r) = LastCall(job[r].kind, job[r].arg)
              => Decides(events'[job[r].v], Call(r)),
           f.at \in {"revision", "update"} => f.seen = Len(events'[job[r].v]),
           f.at = "update" => f.rev = row'[job[r].v].rev
    PROVE  DecisionInv'
<1> DEFINE c == LastCall(job[r].kind, job[r].arg)
<1>1. EndsWith(f.todo, c)
  BY DecidingCall DEF Decisive
<1>2. Head(f.todo) = Call(r)
  BY DEF Call
<1> HIDE DEF c
<1>3. Decisive(f, c, row'[f.v], events'[f.v])
  BY <1>1, <1>2 DEF Decisive, c
<1>4. JobDecides(f, row', events')
  BY <1>3 DEF JobDecides, c
<1> QED
  BY <1>4, DecisionStepKeeps

\* A request of another kind stays of another kind.
LEMMA OtherMove ==
    ASSUME PlanInv, DecisionInv, Undisturbed, NEW r \in Request, OnlyOn(r),
           NEW f, job' = [job EXCEPT ![r] = f], f = Idle \/ f.kind \notin Deciding
    PROVE  DecisionInv'
<1>1. JobDecides(f, row', events')
  BY DEF JobDecides
<1> QED
  BY <1>1, DecisionStepKeeps

LEMMA ReadRecordDecides ==
    ASSUME PlanInv, DecisionInv, Undisturbed, NEW r \in Request, ReadRecord(r)
    PROVE  DecisionInv'
<1> DEFINE f == [job[r] EXCEPT !.at = "update_record", !.expected = record[job[r].v]]
<1>1. Running(r) /\ Call(r).type \in RecordCalls /\ UNCHANGED <<row, events>>
  BY DEF ReadRecord
<1>2. job[r] \in JobRecord
  BY <1>1, RunningJob DEF Running
<1>3. \/ job' = [job EXCEPT ![r] = Failed(job[r])] \/ job' = [job EXCEPT ![r] = AfterCall(job[r])]
      \/ job' = [job EXCEPT ![r] = f]
  BY DEF ReadRecord, Throw, Advance, PlanInv, PlanTypes
<1>4. CASE job' = [job EXCEPT ![r] = Failed(job[r])]
  BY <1>1, <1>2, <1>4, FailedDecides, NothingToDecide
<1>5. CASE job' = [job EXCEPT ![r] = AfterCall(job[r])]
  <2>1. Call(r).type \notin {"approve", "finish"}
    BY <1>1 DEF RecordCalls
  <2>2. ~ (job[r].kind \in Deciding /\ Call(r) = LastCall(job[r].kind, job[r].arg))
    BY <1>1, <2>1, DecidingCall
  <2> QED
    BY <1>1, <1>5, <2>2, DecidedOn
<1>6. CASE job' = [job EXCEPT ![r] = f]
  <2>1. /\ f.kind = job[r].kind /\ f.arg = job[r].arg /\ f.v = job[r].v /\ f.todo = job[r].todo
        /\ f.at = "update_record"
    BY <1>2 DEF JobRecord
  <2> HIDE DEF f
  <2>2. CASE job[r].kind \in Deciding
    BY <1>1, <1>6, <2>1, <2>2, NothingWritten, DecidingMove
  <2>3. CASE job[r].kind \notin Deciding
    BY <1>1, <1>6, <2>1, <2>3, NothingWritten, OtherMove
  <2> QED
    BY <2>2, <2>3
<1> QED
  BY <1>3, <1>4, <1>5, <1>6

LEMMA UpdatePlanStatusDecides ==
    ASSUME PlanInv, DecisionInv, Undisturbed, NEW r \in Request, updatePlanStatus(r)
    PROVE  DecisionInv'
<1>1. Running(r) /\ Busy(r) /\ job[r].at = "update_record" /\ UNCHANGED <<row, events>>
  BY DEF updatePlanStatus, Running
<1>2. job[r] \in JobRecord /\ Call(r).type \in RecordCalls
  BY <1>1, BusyJob DEF Placed, Call
<1>3. job' = [job EXCEPT ![r] = Failed(job[r])] \/ job' = [job EXCEPT ![r] = AfterCall(job[r])]
  BY DEF updatePlanStatus, Throw, Advance
<1>4. CASE job' = [job EXCEPT ![r] = Failed(job[r])]
  BY <1>1, <1>2, <1>4, FailedDecides, NothingToDecide
<1>5. CASE job' = [job EXCEPT ![r] = AfterCall(job[r])]
  <2>1. Call(r).type \notin {"approve", "finish"}
    BY <1>2 DEF RecordCalls
  <2>2. ~ (job[r].kind \in Deciding /\ Call(r) = LastCall(job[r].kind, job[r].arg))
    BY <1>1, <2>1, DecidingCall
  <2> QED
    BY <1>1, <1>5, <2>2, DecidedOn
<1> QED
  BY <1>3, <1>4, <1>5

LEMMA LookForRowDecides ==
    ASSUME PlanInv, DecisionInv, Undisturbed, NEW r \in Request, LookForRow(r)
    PROVE  DecisionInv'
<1> DEFINE f == [job[r] EXCEPT !.at = "insert"]
<1>1. Running(r) /\ Call(r) = Ensure /\ UNCHANGED <<row, events>>
  BY DEF LookForRow
<1>2. job[r] \in JobRecord /\ Call(r).type \notin {"approve", "finish"}
  BY <1>1, RunningJob DEF Running, Ensure, Mk
<1>3. job' = [job EXCEPT ![r] = AfterCall(job[r])] \/ job' = [job EXCEPT ![r] = f]
  BY DEF LookForRow, Goto, Advance
<1>5. CASE job' = [job EXCEPT ![r] = AfterCall(job[r])]
  <2>1. ~ (job[r].kind \in Deciding /\ Call(r) = LastCall(job[r].kind, job[r].arg))
    BY <1>1, <1>2, DecidingCall
  <2> QED
    BY <1>1, <1>5, <2>1, DecidedOn
<1>6. CASE job' = [job EXCEPT ![r] = f]
  <2>1. /\ f.kind = job[r].kind /\ f.arg = job[r].arg /\ f.v = job[r].v /\ f.todo = job[r].todo
        /\ f.at = "insert"
    BY <1>2 DEF JobRecord
  <2> HIDE DEF f
  <2>2. CASE job[r].kind \in Deciding
    BY <1>1, <1>6, <2>1, <2>2, NothingWritten, DecidingMove
  <2>3. CASE job[r].kind \notin Deciding
    BY <1>1, <1>6, <2>1, <2>3, NothingWritten, OtherMove
  <2> QED
    BY <2>2, <2>3
<1> QED
  BY <1>3, <1>5, <1>6

LEMMA CreatingDecides ==
    ASSUME PlanInv, DecisionInv, Undisturbed, NEW r \in Request, createForPlan(r)
    PROVE  DecisionInv'
<1> DEFINE f == [job[r] EXCEPT !.at = "row"]
<1>1. Running(r) /\ Busy(r) /\ job[r] \in JobRecord /\ job[r].at = "insert"
  BY RunningJob DEF createForPlan, Running
<1>2. Call(r) = Ensure /\ Call(r).type \notin {"approve", "finish"}
  <2>1. Call(r) = Ensure
    BY <1>1, BusyJob DEF Placed, Call
  <2> QED
    BY <2>1 DEF Ensure, Mk
<1>3. \/ job' = [job EXCEPT ![r] = Failed(job[r])] /\ UNCHANGED <<row, events>>
      \/ /\ job' = [job EXCEPT ![r] = f]
         /\ row' = [row EXCEPT ![On(r)] = createInitialState]
         /\ events' = [events EXCEPT ![On(r)] = FirstEvents]
  BY DEF createForPlan, Throw, Goto, FirstEvents
<1>4. CASE job' = [job EXCEPT ![r] = Failed(job[r])] /\ UNCHANGED <<row, events>>
  BY <1>1, <1>4, FailedDecides, NothingToDecide
<1>5. CASE /\ job' = [job EXCEPT ![r] = f]
           /\ row' = [row EXCEPT ![On(r)] = createInitialState]
           /\ events' = [events EXCEPT ![On(r)] = FirstEvents]
  <2>1. /\ f.kind = job[r].kind /\ f.arg = job[r].arg /\ f.v = job[r].v /\ f.todo = job[r].todo
        /\ f.at = "row"
    BY <1>1 DEF JobRecord
  <2>2. OnlyOn(r)
    BY <1>1, <1>5 DEF OnlyOn, PlanInv, PlanTypes
  <2> HIDE DEF f
  <2>3. CASE job[r].kind \in Deciding
    <3>1. Call(r) # LastCall(job[r].kind, job[r].arg)
      BY <1>1, <1>2, <2>3, DecidingCall
    <3> QED
      BY <1>1, <1>5, <2>1, <2>2, <2>3, <3>1, DecidingMove
  <2>4. CASE job[r].kind \notin Deciding
    BY <1>1, <1>5, <2>1, <2>2, <2>4, OtherMove
  <2> QED
    BY <2>3, <2>4
<1> QED
  BY <1>3, <1>4, <1>5

\* An early return finds the decision in the row.
LEMMA ReadRowDecides ==
    ASSUME PlanInv, DecisionInv, Undisturbed, NEW r \in Request, ReadRow(r)
    PROVE  DecisionInv'
<1> DEFINE f == [job[r] EXCEPT !.at = "append", !.new = NewEvents(Call(r), row[On(r)])]
<1>1. Running(r) /\ UNCHANGED <<row, events>>
  BY DEF ReadRow
<1>2. job[r] \in JobRecord
  BY <1>1, RunningJob DEF Running
<1>3. \/ job' = [job EXCEPT ![r] = Failed(job[r])]
      \/ job' = [job EXCEPT ![r] = AfterCall(job[r])] /\ ReturnsEarly(Call(r), row[On(r)])
      \/ job' = [job EXCEPT ![r] = f]
  BY DEF ReadRow, Throw, Advance, PlanInv, PlanTypes
<1>4. CASE job' = [job EXCEPT ![r] = Failed(job[r])]
  BY <1>1, <1>2, <1>4, FailedDecides, NothingToDecide
<1>5. CASE job' = [job EXCEPT ![r] = AfterCall(job[r])] /\ ReturnsEarly(Call(r), row[On(r)])
  <2>1. ASSUME job[r].kind \in Deciding, Call(r) = LastCall(job[r].kind, job[r].arg)
        PROVE  Reached(Call(r), row[job[r].v].status)
    <3>1. Call(r).type \in {"approve", "finish"} /\ On(r) = job[r].v
      BY <1>1, <2>1, DecidingCall
    <3>2. ReturnsEarly(Call(r), row[job[r].v])
      BY <1>5, <3>1
    <3> QED
      BY <3>1, <3>2 DEF ReturnsEarly, Reached, StepCalls
  <2> QED
    BY <1>1, <1>5, <2>1, DecidedOn
<1>6. CASE job' = [job EXCEPT ![r] = f]
  <2>1. /\ f.kind = job[r].kind /\ f.arg = job[r].arg /\ f.v = job[r].v /\ f.todo = job[r].todo
        /\ f.at = "append"
    BY <1>2 DEF JobRecord
  <2> HIDE DEF f
  <2>2. CASE job[r].kind \in Deciding
    BY <1>1, <1>6, <2>1, <2>2, NothingWritten, DecidingMove
  <2>3. CASE job[r].kind \notin Deciding
    BY <1>1, <1>6, <2>1, <2>3, NothingWritten, OtherMove
  <2> QED
    BY <2>2, <2>3
<1> QED
  BY <1>3, <1>4, <1>5, <1>6

LEMMA AppendingDecides ==
    ASSUME PlanInv, DecisionInv, Undisturbed, NEW r \in Request, appendEvents(r)
    PROVE  DecisionInv'
<1> DEFINE f == [job[r] EXCEPT !.at = "row", !.new = <<>>]
<1>1. Running(r) /\ Busy(r) /\ job[r] \in JobRecord /\ job[r].at = "append" /\ UNCHANGED row
  BY RunningJob DEF appendEvents, Running
<1>2. /\ f.kind = job[r].kind /\ f.arg = job[r].arg /\ f.v = job[r].v /\ f.todo = job[r].todo
      /\ f.at = "row" /\ job' = [job EXCEPT ![r] = f]
  BY <1>1 DEF JobRecord, appendEvents, PlanInv, PlanTypes
<1>3. events' = [events EXCEPT ![On(r)] = events[On(r)] \o job[r].new]
  BY DEF appendEvents
<1>4. OnlyOn(r)
  BY <1>1, <1>3 DEF OnlyOn, PlanInv, PlanTypes
<1> HIDE DEF f
<1>5. CASE job[r].kind \notin Deciding
  BY <1>1, <1>2, <1>4, <1>5, OtherMove
<1>6. CASE job[r].kind \in Deciding
  <2> PICK v \in Version : v = job[r].v
    BY <1>1, <1>6, DecidingCall
  <2>1. On(r) = v /\ LegalCall(Call(r))
    BY <1>1, <1>6, DecidingCall, HeadIsLegal
  <2>2. PICK long : long = events[v] \o job[r].new
    OBVIOUS
  <2>3. events'[v] = long
    BY <1>3, <2>1, <2>2 DEF PlanInv, PlanTypes
  <2>4. ASSUME Call(r) = LastCall(job[r].kind, job[r].arg)
        PROVE  Decides(long, Call(r))
    <3> DEFINE C == [type : EventTypes, arg : Arg]
    <3>1. Call(r).type \in {"approve", "finish"}
      BY <1>1, <1>6, <2>4, DecidingCall
    <3>2. PICK word \in Words : job[r].new = Appended(Call(r), word)
      BY <1>1, BusyJob DEF Placed, Call, Appended
    <3>3. events[v] \in Seq(C) /\ job[r].new \in Seq(C)
      BY <1>1 DEF PlanInv, PlanTypes, JobRecord
    <3> HIDE DEF C
    <3>4. IsCat(C, events[v], job[r].new, long)
      BY <2>2, <3>3, Appending, Zenon
    <3>5. IsCat(C, events[v], Appended(Call(r), word), long)
      BY <3>2, <3>4
    <3>6. LegalLog(long)
      <4>1. PlanInv'
        BY AppendEventsKeeps
      <4>2. LogSafe(v)'
        BY <4>1 DEF PlanInv
      <4> QED
        BY <2>3, <4>2 DEF LogSafe
    <3> QED
      BY <2>1, <3>1, <3>5, <3>6, NewEventsDecide
  <2> QED
    BY <1>1, <1>2, <1>4, <1>6, <2>3, <2>4, DecidingMove
<1> QED
  BY <1>5, <1>6

LEMMA ReadingDecides ==
    ASSUME PlanInv, DecisionInv, Undisturbed, NEW r \in Request,
           ReadState(r) \/ listEvents(r) \/ readRevision(r)
    PROVE  DecisionInv'
<1> DEFINE a == [job[r] EXCEPT !.at = "events", !.base = row[On(r)]]
           b == [job[r] EXCEPT !.at = "revision", !.seen = Len(events[On(r)])]
           d == [job[r] EXCEPT !.at = "update", !.rev = row[On(r)].rev]
<1>1. Running(r) /\ job[r] \in JobRecord /\ UNCHANGED <<row, events>>
  BY RunningJob DEF ReadState, listEvents, readRevision, Running
<1>2. \/ job[r].at = "row" /\ job' = [job EXCEPT ![r] = a]
      \/ job[r].at = "events" /\ job' = [job EXCEPT ![r] = b]
      \/ job[r].at = "revision" /\ job' = [job EXCEPT ![r] = d]
  BY DEF ReadState, listEvents, readRevision, PlanInv, PlanTypes
<1>3. /\ a.kind = job[r].kind /\ a.arg = job[r].arg /\ a.v = job[r].v /\ a.todo = job[r].todo
      /\ a.at = "events"
  BY <1>1 DEF JobRecord
<1>4. /\ b.kind = job[r].kind /\ b.arg = job[r].arg /\ b.v = job[r].v /\ b.todo = job[r].todo
      /\ b.at = "revision" /\ b.seen = Len(events[On(r)])
  BY <1>1 DEF JobRecord
<1>5. /\ d.kind = job[r].kind /\ d.arg = job[r].arg /\ d.v = job[r].v /\ d.todo = job[r].todo
      /\ d.at = "update" /\ d.seen = job[r].seen /\ d.rev = row[On(r)].rev
  BY <1>1 DEF JobRecord
<1> HIDE DEF a, b, d
<1>6. CASE job[r].kind \notin Deciding
  <2>1. PICK f : job' = [job EXCEPT ![r] = f] /\ f.kind = job[r].kind
    BY <1>2, <1>3, <1>4, <1>5
  <2> QED
    BY <1>1, <1>6, <2>1, NothingWritten, OtherMove
<1>7. CASE job[r].kind \in Deciding
  <2>1. /\ On(r) = job[r].v
        /\ Decisive(job[r], LastCall(job[r].kind, job[r].arg), row[job[r].v], events[job[r].v])
    BY <1>1, <1>7, DecidingCall
  <2>2. row' = row /\ events' = events
    BY <1>1
  <2>3. /\ job[r].at \in {"row", "events", "revision"}
              /\ Call(r) = LastCall(job[r].kind, job[r].arg)
           => Decides(events'[job[r].v], Call(r))
        /\ job[r].at = "revision" => job[r].seen = Len(events'[job[r].v])
    BY <2>1, <2>2 DEF Decisive, Call
  <2>4. CASE job[r].at = "row" /\ job' = [job EXCEPT ![r] = a]
    BY <1>1, <1>3, <1>7, <2>3, <2>4, NothingWritten, DecidingMove
  <2>5. CASE job[r].at = "events" /\ job' = [job EXCEPT ![r] = b]
    BY <1>1, <1>4, <1>7, <2>1, <2>2, <2>3, <2>5, NothingWritten, DecidingMove
  <2>6. CASE job[r].at = "revision" /\ job' = [job EXCEPT ![r] = d]
    BY <1>1, <1>5, <1>7, <2>1, <2>2, <2>3, <2>6, NothingWritten, DecidingMove
  <2> QED
    BY <1>2, <2>4, <2>5, <2>6
<1> QED
  BY <1>6, <1>7

LEMMA WholeLog ==
    ASSUME NEW base, NEW log, NEW long, Len(log) \in Nat, Len(long) = Len(log), Extends(long, log)
    PROVE  projectWorkflow(base, log) = projectWorkflow(base, long)
<1>1. PICK state : state = Afresh(base)
  OBVIOUS
<1>2. \A i \in 0 .. Len(log) : Replay(state, log)[i] = Replay(state, long)[i]
  BY SameBeginning
<1> QED
  BY <1>1, <1>2 DEF projectWorkflow

\* The projection brings the decision that is in the log to the row.
LEMMA ProjectingDecides ==
    ASSUME PlanInv, DecisionInv, Undisturbed, NEW r \in Request, reproject(r)
    PROVE  DecisionInv'
<1> DEFINE j == job[r]
           f == [AfterCall(j) EXCEPT !.base = NoRow, !.seen = 0, !.rev = 0]
           c == LastCall(j.kind, j.arg)
<1>1. Running(r) /\ Busy(r) /\ j \in JobRecord /\ j.at = "update" /\ UNCHANGED events
  BY RunningJob DEF reproject, Running
<1>2. job' = [job EXCEPT ![r] = f]
  BY DEF reproject
<1>3. AfterCall(j).kind = j.kind /\ AfterCall(j).arg = j.arg /\ AfterCall(j).v = j.v
  BY <1>1 DEF AfterCall, JobRecord
<1>4. /\ f.kind = j.kind /\ f.arg = j.arg /\ f.v = j.v /\ f.todo = AfterCall(j).todo
      /\ f.at = AfterCall(j).at /\ f.at \in {"call", "done"}
  <2>1. AfterCall(j).at \in {"call", "done"}
    BY <1>1, AfterCallPlace
  <2> QED
    BY <1>1, <1>3, <2>1 DEF AfterCall, JobRecord
<1>5. OnlyOn(r)
  <2>1. \A v \in Version : v # On(r) => row'[v] = row[v]
    BY DEF reproject, PlanInv, PlanTypes
  <2> QED
    BY <1>1, <2>1 DEF OnlyOn
<1> HIDE DEF f
<1>6. CASE j.kind \notin Deciding
  BY <1>2, <1>4, <1>5, <1>6, OtherMove
<1>7. CASE j.kind \in Deciding
  <2> PICK v \in Version : v = j.v
    BY <1>1, <1>7, DecidingCall
  <2>1. On(r) = v /\ j.todo # <<>> /\ Decisive(j, c, row[v], events[v])
    BY <1>1, <1>7, DecidingCall
  <2>2. EndsWith(j.todo, c) /\ j.seen = Len(events[v]) /\ j.rev = row[v].rev
    BY <1>1, <2>1 DEF Decisive
  <2>3. /\ j.base \in Row /\ LegalLog(events[v])
        /\ Placed(j, row[v], events[v], events[v])
    BY <1>1, <1>7, <2>1, BusyJob, DecidingCall DEF Placed, PlanInv, LogSafe
  <2> PICK part : part = SubSeq(events[v], 1, j.seen)
    OBVIOUS
  <2>4. Len(events[v]) \in Nat /\ j.seen \in 0 .. Len(events[v])
    BY <2>2, <2>3 DEF LegalLog
  <2>5. Extends(events[v], part) /\ Len(part) = Len(events[v])
    BY <2>2, <2>3, <2>4, PartOfLog
  <2> PICK p : p = projectWorkflow(j.base, part)
    OBVIOUS
  <2>6. p = projectWorkflow(j.base, events[v])
    BY <2>4, <2>5, WholeLog
  <2>7. p \in Row
    <3>1. Afresh(j.base) \in Row /\ Len(events[v]) \in 0 .. Len(events[v])
      BY <2>3, <2>4, AfreshFields
    <3>2. Replay(Afresh(j.base), events[v])[Len(events[v])] \in Row
      BY <2>3, <3>1, ReplayType
    <3> QED
      BY <2>6, <3>2 DEF projectWorkflow
  <2>8. row'[v].status = p.status
    <3>1. row' = [row EXCEPT ![v] = [p EXCEPT !.rev = row[v].rev + 1]]
      BY <2>1, <2>2 DEF reproject
    <3>2. row'[v] = [p EXCEPT !.rev = row[v].rev + 1]
      BY <3>1 DEF PlanInv, PlanTypes
    <3> QED
      BY <2>7, <3>2 DEF Row
  <2> HIDE DEF c, j
  <2>9. Head(j.todo) = c => Reached(c, row'[v].status)
    <3>1. Head(j.todo) = c => Decides(events[v], c)
      BY <1>1, <2>1 DEF Decisive
    <3>2. Decides(events[v], c) => Reached(c, p.status)
      BY <2>3, <2>6 DEF Decides
    <3> QED
      BY <2>8, <3>1, <3>2
  <2>10. Decisive(AfterCall(j), c, row'[v], events'[v])
    BY <1>1, <2>1, <2>2, <2>9, DecisiveAfterCall
  <2>11. Decisive(f, c, row'[v], events'[v])
    BY <1>4, <2>10 DEF Decisive
  <2>12. JobDecides(f, row', events')
    BY <1>4, <2>11 DEF JobDecides, c
  <2> QED
    BY <1>2, <1>5, <2>12, DecisionStepKeeps
<1> QED
  BY <1>6, <1>7

\* Actions of requests that do not decide.
LEMMA OthersDecide ==
    ASSUME PlanInv, DecisionInv, Undisturbed, NEW r \in Request,
           createPendingPlan(r) \/ getPlan(r) \/ ToolCall(r) \/ StreamEnds(r)
    PROVE  DecisionInv'
<1>1. /\ Running(r) /\ Call(r).type \in {"createRecord", "readRecord", "stream"}
      /\ UNCHANGED <<row, events>> /\ job[r] \in JobRecord
  BY RunningJob DEF createPendingPlan, getPlan, ToolCall, StreamEnds, Streaming, Running
<1>2. job[r].kind \notin Deciding
  BY <1>1, DecidingCall
<1> DEFINE a == AfterCall(job[r])
<1>4. \E f : job' = [job EXCEPT ![r] = f] /\ f.kind = job[r].kind
  <2>1. CASE createPendingPlan(r)
    <3>1. PICK v \in Version : job' = [job EXCEPT ![r] = [a EXCEPT
              !.made = v, !.v = IF job[r].kind = "plan" THEN v ELSE a.v]]
      BY <2>1 DEF createPendingPlan
    <3>2. [a EXCEPT !.made = v, !.v = IF job[r].kind = "plan" THEN v ELSE a.v].kind = job[r].kind
      BY <1>1 DEF AfterCall, JobRecord
    <3> QED
      BY <3>1, <3>2
  <2>2. CASE getPlan(r)
    <3>1. PICK todo : job' = [job EXCEPT ![r] = [a EXCEPT !.todo = todo]]
      BY <2>2 DEF getPlan
    <3>2. [a EXCEPT !.todo = todo].kind = job[r].kind
      BY <1>1 DEF AfterCall, JobRecord
    <3> QED
      BY <3>1, <3>2
  <2>3. CASE ToolCall(r)
    <3> DEFINE f == [job[r] EXCEPT !.todo = <<Mk("heartbeat", None)>> \o job[r].todo,
                                   !.beats = job[r].beats + 1, !.stage = "run"]
    <3>1. job' = [job EXCEPT ![r] = f]
      BY <2>3 DEF ToolCall, PlanInv, PlanTypes
    <3>2. f.kind = job[r].kind
      BY <1>1 DEF JobRecord
    <3> HIDE DEF f
    <3> QED
      BY <3>1, <3>2
  <2>4. CASE StreamEnds(r)
    <3>1. PICK end : job' = [job EXCEPT ![r].todo = <<Mk(end, job[r].arg)>>, ![r].stage = "run"]
      BY <2>4 DEF StreamEnds
    <3> DEFINE f == [job[r] EXCEPT !.todo = <<Mk(end, job[r].arg)>>, !.stage = "run"]
    <3>2. job' = [job EXCEPT ![r] = f]
      BY <3>1 DEF PlanInv, PlanTypes
    <3>3. f.kind = job[r].kind
      BY <1>1 DEF JobRecord
    <3> HIDE DEF f
    <3> QED
      BY <3>2, <3>3
  <2> QED
    BY <2>1, <2>2, <2>3, <2>4
<1>5. PICK f : job' = [job EXCEPT ![r] = f] /\ f.kind = job[r].kind
  BY <1>4
<1> QED
  BY <1>1, <1>2, <1>5, NothingToDecide

LEMMA ReleasedDecides ==
    ASSUME PlanInv, DecisionInv, Undisturbed, NEW r \in Request,
           Answer(r) \/ StreamNeverStarts(r) \/ StatementFails(r)
    PROVE  DecisionInv'
<1>1. /\ UNCHANGED <<row, events>> /\ job[r] \in JobRecord
      /\ job' = [job EXCEPT ![r] = Idle] \/ job' = [job EXCEPT ![r] = Failed(job[r])]
  BY RunningJob DEF Answer, StreamNeverStarts, StatementFails, Streaming, Running, Throw
<1> QED
  BY <1>1, FailedDecides, NothingToDecide

\* The program of a request that decides ends with the call that does.
LEMMA ProgramEnds ==
    ASSUME NEW kind \in Deciding, NEW arg \in Arguments(kind)
    PROVE  EndsWith(Program(kind, arg), LastCall(kind, arg))
<1>1. \A type, x : Mk(type, x).type = type
  BY DEF Mk
<1>2. Ensure.type = "ensure"
  BY DEF Ensure, Mk
<1>3. CASE kind = "approve"
  <2>1. PICK a, b : a = Mk("approveRecord", None) /\ b = Mk("approve", None)
    BY Zenon
  <2>2. a.type = "approveRecord" /\ b.type = "approve" /\ LastCall(kind, arg) = b
    BY <1>1, <1>3, <2>1 DEF LastCall
  <2>3. Program(kind, arg) = <<a, Ensure, b>>
    BY <1>3, <2>1, Programs
  <2>4. EndsWith(<<a, Ensure, b>>, b)
    BY <1>2, <2>2 DEF EndsWith
  <2> QED
    BY <2>2, <2>3, <2>4, Zenon
<1>4. CASE kind = "reject"
  <2>1. PICK a, b : a = Mk("rejectRecord", None) /\ b = Mk("finish", Word("rejected"))
    BY Zenon
  <2>2. a.type = "rejectRecord" /\ b.type = "finish" /\ LastCall(kind, arg) = b
    BY <1>1, <1>4, <2>1 DEF LastCall
  <2>3. Program(kind, arg) = <<a, Ensure, b>>
    BY <1>4, <2>1, Programs
  <2>4. EndsWith(<<a, Ensure, b>>, b)
    BY <1>2, <2>2 DEF EndsWith
  <2> QED
    BY <2>2, <2>3, <2>4, Zenon
<1>5. CASE kind = "finish"
  <2>1. PICK a, b : a = Mk("finishRecord", arg) /\ b = Mk("finish", arg)
    BY Zenon
  <2>2. a.type = "finishRecord" /\ b.type = "finish" /\ LastCall(kind, arg) = b
    BY <1>1, <1>5, <2>1 DEF LastCall
  <2>3. Program(kind, arg) = <<a, b>>
    BY <1>5, <2>1, Programs
  <2>4. EndsWith(<<a, b>>, b)
    BY <1>2, <2>2 DEF EndsWith
  <2> QED
    BY <2>2, <2>3, <2>4, Zenon
<1> QED
  BY <1>3, <1>4, <1>5 DEF Deciding

LEMMA BeginDecides ==
    ASSUME PlanInv, DecisionInv, Undisturbed, NEW r \in Request, Begin(r)
    PROVE  DecisionInv'
<1>1. PICK kind \in Kinds, v \in Version : \E arg \in Arguments(kind) :
         /\ job' = [job EXCEPT ![r] =
               [kind |-> kind, v |-> v, arg |-> arg, todo |-> Program(kind, arg),
                at |-> "call", stage |-> "gate", made |-> 0, beats |-> 0,
                expected |-> "none", new |-> <<>>, base |-> NoRow, seen |-> 0, rev |-> 0]]
         /\ UNCHANGED <<row, events>>
  BY DEF Begin
<1>2. PICK arg \in Arguments(kind) :
         /\ job' = [job EXCEPT ![r] =
               [kind |-> kind, v |-> v, arg |-> arg, todo |-> Program(kind, arg),
                at |-> "call", stage |-> "gate", made |-> 0, beats |-> 0,
                expected |-> "none", new |-> <<>>, base |-> NoRow, seen |-> 0, rev |-> 0]]
         /\ UNCHANGED <<row, events>>
  BY <1>1
<1> DEFINE f == [kind |-> kind, v |-> v, arg |-> arg, todo |-> Program(kind, arg),
                 at |-> "call", stage |-> "gate", made |-> 0, beats |-> 0,
                 expected |-> "none", new |-> <<>>, base |-> NoRow, seen |-> 0, rev |-> 0]
<1>3. f.kind = kind /\ f.arg = arg /\ f.v = v /\ f.todo = Program(kind, arg) /\ f.at = "call"
  OBVIOUS
<1>4. job' = [job EXCEPT ![r] = f]
  BY <1>2
<1> HIDE DEF f
<1>5. CASE kind \notin Deciding
  BY <1>2, <1>3, <1>4, <1>5, NothingToDecide
<1>6. CASE kind \in Deciding
  <2>1. EndsWith(f.todo, LastCall(kind, arg))
    BY <1>3, <1>6, ProgramEnds
  <2>2. Decisive(f, LastCall(kind, arg), row'[v], events'[v])
    BY <1>3, <2>1 DEF Decisive
  <2>3. JobDecides(f, row', events')
    BY <1>3, <2>2 DEF JobDecides
  <2> QED
    BY <1>2, <1>4, <2>3, NothingWritten, DecisionStepKeeps
<1> QED
  BY <1>5, <1>6

-------------------------------------------------------------------------------
LEMMA DecisionInit ==
    ASSUME Init
    PROVE  DecisionInv
BY DEF Init, DecisionInv, JobDecides

LEMMA DecisionNext ==
    ASSUME PlanInv, DecisionInv, Undisturbed, [Next]_vars
    PROVE  DecisionInv'
<1>1. CASE UNCHANGED vars
  BY <1>1 DEF vars, DecisionInv, JobDecides
<1>2. CASE Killed
  <2>1. job' = [r \in Request |-> Idle]
    BY <1>2 DEF Killed
  <2>2. \A r \in Request : job'[r] = Idle
    BY <2>1
  <2> QED
    BY <2>2 DEF DecisionInv, JobDecides
<1>3. ASSUME NEW r \in Request, StoreStep(r) PROVE DecisionInv'
  <2>1. CASE ReadRecord(r) \/ updatePlanStatus(r) \/ LookForRow(r) \/ ReadRow(r)
    BY <2>1, ReadRecordDecides, UpdatePlanStatusDecides, LookForRowDecides, ReadRowDecides
  <2>2. CASE createPendingPlan(r) \/ getPlan(r)
    BY <2>2, OthersDecide
  <2>3. CASE createForPlan(r) \/ appendEvents(r) \/ reproject(r)
    BY <2>3, CreatingDecides, AppendingDecides, ProjectingDecides
  <2>4. CASE ReadState(r) \/ listEvents(r) \/ readRevision(r)
    BY <2>4, ReadingDecides
  <2> QED
    BY <1>3, <2>1, <2>2, <2>3, <2>4 DEF StoreStep
<1>4. ASSUME NEW r \in Request,
             \/ Begin(r) \/ Answer(r) \/ StreamNeverStarts(r)
             \/ ToolCall(r) \/ StreamEnds(r) \/ StatementFails(r)
      PROVE  DecisionInv'
  BY <1>4, BeginDecides, OthersDecide, ReleasedDecides
<1> QED
  BY <1>1, <1>2, <1>3, <1>4 DEF Next

\* An approval, a rejection or a finish that answers without an error has reached the
\* row through plan-workflow-store.ts, whatever an earlier attempt, a failed statement
\* or a killed sidecar left half done, provided no other request makes a call about the
\* version meanwhile: a reprojection of another request may win the race for the
\* revision, and reproject does not try again.
THEOREM DecisionsLand == Spec /\ []Undisturbed => []DecisionReachesBoth
<1>1. PlanInv /\ DecisionInv => DecisionReachesBoth
  <2> SUFFICES ASSUME PlanInv, DecisionInv, NEW r \in Request, Busy(r), job[r].at = "done",
                      job[r].kind \in Deciding
               PROVE  /\ job[r].kind = "approve" => row[job[r].v].status \in Accepted
                      /\ job[r].kind = "reject"  => row[job[r].v].status = "rejected"
                      /\ job[r].kind = "finish"  => row[job[r].v].status = job[r].arg.word
    BY DEF DecisionReachesBoth, Deciding
  <2>1. JobDecides(job[r], row, events) /\ job[r] # Idle
    BY RunningJob DEF DecisionInv
  <2>2. Reached(LastCall(job[r].kind, job[r].arg), row[job[r].v].status)
    BY <2>1 DEF JobDecides, Decisive
  <2> QED
    BY <2>2 DEF Reached, LastCall, Mk, Word
<1> QED
  BY <1>1, Inductive, DecisionInit, DecisionNext, PTL DEF Spec

\* In particular, a decision has reached the row when it is answered if the sidecar
\* serves one request at a time.
THEOREM DecisionsLandAlone ==
    ASSUME \A r, s \in Request : r = s
    PROVE  Spec => []DecisionReachesBoth
<1>1. Undisturbed
  BY DEF Undisturbed
<1> QED
  BY <1>1, DecisionsLand, PTL
===============================================================================
