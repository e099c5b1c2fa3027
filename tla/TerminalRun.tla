------------------------------ MODULE TerminalRun ------------------------------
(***************************************************************************)
(* Running a script in the integrated terminal: the workbench              *)
(* (composables/useTerminalRun.ts, store/editor.ts), the terminal facade   *)
(* (services/terminal/facade.ts, store/terminal.ts), the terminal panel    *)
(* (terminal/session.ts, composables/useIntegratedTerminal.ts) and the     *)
(* backend that runs it (src-tauri/src/commands/terminal.rs).              *)
(*                                                                         *)
(* A run is one call of runScript.  The backend answers its calls and      *)
(* sends events on two channels, so an answer may come after the events it *)
(* caused.  An event reaches the workbench twice: over the event bus, and  *)
(* over the panel, which may hold a completion back until the output is    *)
(* drawn.  The panel also watches the pending run id, synchronously: what  *)
(* clears it is interrupted by what the panel answers.                     *)
(***************************************************************************)
EXTENDS Integers, Sequences, FiniteSets, SequencesExt

CONSTANTS
    MaxRuns,     \* bound: calls of runScript
    MaxChunks,   \* bound: chunks of output of all runs
    MaxTroubles  \* bound: failed calls, exits of the interactive shell, closed
                 \* workspaces, and times the panel is hidden or unmounted, together

ASSUME TerminalAssumption ==
    /\ MaxRuns \in Nat \ {0}
    /\ {MaxChunks, MaxTroubles} \subseteq Nat

VARIABLES
    task,     \* [Run -> place]: where each runScript stands
    view,     \* the workbench and the panel, one record
    facade,   \* the facade, the runtime store and the run store
    backend,
    events,   \* Seq(Event): sent by the backend, not yet delivered
    troubles

vars == <<task, view, facade, backend, events, troubles>>

None == 0
Run  == 1 .. MaxRuns

\* Whose exit code a result has: the script's, the interactive shell's, or one the
\* panel makes up for a run that is gone.
Script   == 0
Shell    == 1
Canceled == -1

Event(type, run, n) == [type |-> type, run |-> run, n |-> n]
NoResult == [run |-> None, output |-> <<>>]

-----------------------------------------------------------------------------
(* The workbench.  Its functions are operators on view; the panel calls them *)
(* back when the pending run id changes.                                     *)

IsCurrent(s, r) == r # None /\ r \in {s.pending, s.meta, s.summary}

getCurrentTerminalRunId(s) ==
    IF s.meta # None THEN s.meta ELSE IF s.pending # None THEN s.pending ELSE s.summary

\* Wrong on purpose: a run is over once its end is in the log, whatever the last result.
hasLoggedTerminalRun(s, r) == r # None /\ Contains(s.finals, r)

hasFinalizedTerminalRun(s, r) ==
    r # None /\ (s.last.run = r \/ Contains(s.finals, r))

\* A run is logged once as completed, failed or timed out.
FinalLog(s, r) == [s EXCEPT !.finals = Append(@, r)]

ClearFlags(s) == [s EXCEPT !.summary = None, !.running = FALSE, !.meta = None]

\* Wrong on purpose: the result is taken before the buffered output is flushed.
RecordedUnflushed(s, r, code) ==
    [s EXCEPT !.timer = None, !.output = @ \o s.buffer, !.buffer = <<>>,
              !.last = [run |-> r, output |-> s.output],
              !.history = Append(@, [run |-> r, code |-> code])]

\* flushBufferedTerminalOutput, the result, its history entry.
Recorded(s, r, code) ==
    LET output == s.output \o s.buffer
    IN  [s EXCEPT !.timer = None, !.output = output, !.buffer = <<>>,
                  !.last = [run |-> r, output |-> output],
                  !.history = Append(@, [run |-> r, code |-> code])]

\* finalizeTerminalRun; Clear is clearActiveTerminalRunState.
FinalizeWith(Clear(_), s, r, code) ==
    IF ~ IsCurrent(s, r) THEN s
    ELSE IF hasFinalizedTerminalRun(s, r)
    THEN IF s.meta = r THEN Clear(s) ELSE s
    ELSE FinalLog(Clear(Recorded(s, r, code)), r)

\* trackRun of a mounted panel: a run it followed is reported as cancelled.
TrackWith(Finalize(_, _, _), s, next) ==
    IF ~ s.mounted THEN s
    ELSE LET reported == IF s.followed \notin {None, next}
                         THEN Finalize(s, s.followed, Canceled) ELSE s
         IN  [reported EXCEPT !.followed = next]

\* Once the pending run id is null, clearing it again wakes no watcher.
FinalizeInner(s, r, code) == FinalizeWith(ClearFlags, s, r, code)

setPendingTerminalRunId(s, r) ==
    IF s.pending = r THEN s ELSE TrackWith(FinalizeInner, [s EXCEPT !.pending = r], r)

clearActiveTerminalRunState(s) == ClearFlags(setPendingTerminalRunId(s, None))

finalizeTerminalRun(s, r, code) == FinalizeWith(clearActiveTerminalRunState, s, r, code)

failTerminalRun(s) ==
    LET failed  == getCurrentTerminalRunId(s)
        cleared == clearActiveTerminalRunState([s EXCEPT !.buffer = <<>>, !.timer = None])
    IN  IF hasFinalizedTerminalRun(s, failed) THEN s ELSE FinalLog(cleared, failed)

\* Wrong on purpose: nothing limits the wait for the completion event.
primeTerminalRunUntimed(s, r) ==
    LET pending == IF s.pending = r THEN s
                   ELSE TrackWith(finalizeTerminalRun, [s EXCEPT !.pending = r], r)
    IN  [pending EXCEPT !.summary = r, !.meta = r,
                        !.buffer = <<>>, !.output = <<>>, !.last = NoResult]

\* The pending id changes first, and the panel may report the run it followed so far.
primeTerminalRun(s, r) ==
    LET pending == IF s.pending = r THEN s
                   ELSE TrackWith(finalizeTerminalRun, [s EXCEPT !.pending = r], r)
    IN  [pending EXCEPT !.summary = r, !.meta = r, !.timer = r,
                        !.buffer = <<>>, !.output = <<>>, !.last = NoResult]

-----------------------------------------------------------------------------
(* runScript, from one await to the next.                                   *)

Goto(r, place) == task' = [task EXCEPT ![r] = place]
Gives(f) == view' = f
Trouble == troubles < MaxTroubles /\ troubles' = troubles + 1
Failing(r) == Trouble /\ Goto(r, "done")
Send(new) == events' = events \o new
TurnedIdle == Event("idle", None, 0)

\* ensure_terminal_session: the session exists, and mark_terminal_interactive_ready
\* turns a booting terminal idle, and one that is switching to a run as well.
Ready ==
    LET turns == backend.mode \in {"booting", "switching"}
    IN  /\ backend' = [backend EXCEPT !.shell = TRUE, !.mode = IF turns THEN "idle" ELSE @]
        /\ Send(IF turns THEN <<TurnedIdle>> ELSE <<>>)

\* try_mark_active_terminal_run, then the transition to SwitchingToRun.
Accepts == backend.marked = None /\ backend.mode \in {"idle", "switching"}

runScript(r) ==
    /\ task[r] = "new" /\ \A q \in 1 .. r - 1 : task[q] # "new"
    /\ ~ view.running
    /\ Gives([view EXCEPT !.running = TRUE])
    /\ Goto(r, "listen")
    /\ UNCHANGED <<facade, backend, events, troubles>>

\* Wrong on purpose: the run is announced before its session exists.
ListenPriming(r) ==
    /\ task[r] = "listen"
    /\ \/ /\ Gives([primeTerminalRun(view, r) EXCEPT !.listening = TRUE])
          /\ Goto(r, "ensure") /\ UNCHANGED troubles
       \/ ~ view.listening /\ Failing(r) /\ Gives(failTerminalRun(view))
    /\ UNCHANGED <<facade, backend, events>>

\* ensureTerminalRunEventListeners; once registered it does not fail.
Listen(r) ==
    /\ task[r] = "listen"
    /\ \/ Gives([view EXCEPT !.listening = TRUE]) /\ Goto(r, "ensure") /\ UNCHANGED troubles
       \/ ~ view.listening /\ Failing(r) /\ Gives(failTerminalRun(view))
    /\ UNCHANGED <<facade, backend, events>>

\* ensureIntegratedTerminalSessionBeforeDispatch, which has the panel listen too,
\* then primeTerminalRun.
Ensure(r) ==
    /\ task[r] = "ensure"
    /\ \/ /\ Gives(primeTerminalRun([view EXCEPT !.ensured = TRUE, !.attached = view.mounted], r))
          /\ IF view.ensured THEN UNCHANGED <<backend, events>> ELSE Ready
          /\ Goto(r, "dispatch") /\ UNCHANGED troubles
       \/ /\ ~ view.ensured /\ Failing(r)
          /\ Gives(failTerminalRun(view)) /\ UNCHANGED <<backend, events>>
    /\ UNCHANGED facade

\* dispatch_script_to_terminal: the terminal session must exist, no run may be marked
\* and the mode must allow it; it may also refuse for reasons of its own.
Dispatch(r) ==
    /\ task[r] \in {"dispatch", "redispatch"}
    /\ \/ /\ backend.shell /\ Accepts
          /\ backend' = [backend EXCEPT !.marked = r, !.mode = "switching", !.phase[r] = "sent"]
          /\ Goto(r, "ok") /\ UNCHANGED troubles
       \/ /\ backend.shell /\ ~ Accepts
          /\ Goto(r, "refused") /\ UNCHANGED <<backend, troubles>>
       \/ /\ ~ backend.shell
          /\ Goto(r, IF task[r] = "dispatch" THEN "missing" ELSE "refused")
          /\ UNCHANGED <<backend, troubles>>
       \/ /\ Trouble
          /\ Goto(r, "refused") /\ UNCHANGED backend
    /\ UNCHANGED <<view, facade, events>>

Activate(f, r) == [f EXCEPT !.active = r, !.started = @ \ {r}, !.starts[r] = @ + 1]

Forget(f, r) == [f EXCEPT !.active = IF @ = r THEN None ELSE @,
                          !.handles = @ \ {r}, !.started = @ \ {r}]

\* dispatchScript returns, and the workbench fills in what it now knows of the run.
DispatchReturns(r) ==
    /\ task[r] = "ok"
    /\ LET f == [facade EXCEPT !.handles = @ \cup {r}]
       IN  facade' = IF r \in f.started THEN Activate(f, r) ELSE f
    /\ Gives(IF IsCurrent(view, r) THEN [view EXCEPT !.meta = r, !.summary = r] ELSE view)
    /\ Goto(r, "done")
    /\ UNCHANGED <<backend, events, troubles>>

DispatchThrows(r) ==
    /\ task[r] = "refused"
    /\ facade' = Forget(facade, r)
    /\ Gives(IF IsCurrent(view, r)
             THEN [failTerminalRun(view) EXCEPT !.output = <<>>] ELSE view)
    /\ Goto(r, "done")
    /\ UNCHANGED <<backend, events, troubles>>

\* The session was gone, a trouble already counted: it is created once more, if that
\* works, and the script sent again.
Reconnect(r) ==
    /\ task[r] = "missing"
    /\ facade' = Forget(facade, r)
    /\ \/ /\ Gives([view EXCEPT !.ensured = TRUE])
          /\ Ready
          /\ Goto(r, "redispatch")
       \/ /\ Goto(r, "done") /\ UNCHANGED <<backend, events>>
          /\ LET s == [view EXCEPT !.ensured = FALSE]
             IN  Gives(IF IsCurrent(s, r)
                       THEN [failTerminalRun(s) EXCEPT !.output = <<>>] ELSE s)
    /\ UNCHANGED troubles

-----------------------------------------------------------------------------
(* The backend: each run is a task of its own.                              *)

RunStarted(r) ==
    /\ backend.phase[r] = "sent"
    /\ backend' = [backend EXCEPT !.phase[r] = "started",
                      !.mode = IF @ = "switching" THEN "running" ELSE @]
    /\ Send(<<Event("started", r, 0)>>)
    /\ UNCHANGED <<task, view, facade, troubles>>

RunChunk(r) ==
    /\ backend.phase[r] \in {"sent", "started"}
    /\ FoldFunction(+, 0, backend.sent) < MaxChunks
    /\ backend' = [backend EXCEPT !.sent[r] = @ + 1]
    /\ Send(<<Event("chunk", r, backend.sent[r] + 1)>>)
    /\ UNCHANGED <<task, view, facade, troubles>>

\* A running mode turns idle after the completion event, a switching one before it,
\* any other stays as it is.
RunCompleted(r) ==
    /\ backend.phase[r] \in {"sent", "started"}
    /\ LET completed == Event("completed", r, Script)
       IN  Send(CASE backend.mode = "running"   -> <<completed, TurnedIdle>>
                  [] backend.mode = "switching" -> <<TurnedIdle, completed>>
                  [] OTHER                      -> <<completed>>)
    /\ backend' = [backend EXCEPT !.phase[r] = "ended",
                      !.mode = IF @ \in {"running", "switching"} THEN "idle" ELSE @]
    /\ UNCHANGED <<task, view, facade, troubles>>

\* TerminalActiveRunGuard is dropped at the end of the run's task.
GuardDropped(r) ==
    /\ backend.phase[r] = "ended"
    /\ backend' = [backend EXCEPT !.phase[r] = "gone", !.marked = IF @ = r THEN None ELSE @]
    /\ UNCHANGED <<task, view, facade, events, troubles>>

\* The interactive shell exits and takes the mark of the active run with it; a
\* script that runs beside it goes on.
InteractiveExits ==
    /\ backend.shell /\ Trouble
    /\ backend' = [backend EXCEPT !.shell = FALSE, !.marked = None,
                      !.mode = IF @ = "idle" THEN "booting" ELSE @]
    /\ Send(<<Event("exited", None, Shell)>>)
    /\ UNCHANGED <<task, view, facade>>

-----------------------------------------------------------------------------
(* Events reach the bus and the panel.                                      *)

\* Wrong on purpose: output is appended whatever run it is of.
OnBusAnyRun(s, e) ==
    CASE e.type = "chunk"     -> [s EXCEPT !.buffer = Append(@, e)]
      [] e.type = "completed" -> finalizeTerminalRun(s, e.run, e.n)
      [] e.type = "exited"    ->
           finalizeTerminalRun([s EXCEPT !.ensured = FALSE], getCurrentTerminalRunId(s), e.n)
      [] OTHER -> s

\* appendTerminalOutput, handleIntegratedTerminalRunCompleted and
\* handleIntegratedTerminalExit.
OnBus(s, e) ==
    CASE e.type = "chunk" /\ IsCurrent(s, e.run) -> [s EXCEPT !.buffer = Append(@, e)]
      [] e.type = "completed" -> finalizeTerminalRun(s, e.run, e.n)
      [] e.type = "exited"    ->
           finalizeTerminalRun([s EXCEPT !.ensured = FALSE], getCurrentTerminalRunId(s), e.n)
      [] OTHER -> s

\* The panel: a completion is passed on at once when nothing is drawn, later when
\* the output still has to be.
OnPanel(s, e) ==
    CASE e.type = "completed" ->
           LET t == [s EXCEPT !.followed = IF @ = e.run THEN None ELSE @]
           IN  IF s.visible THEN [t EXCEPT !.late = @ \cup {e}]
                            ELSE finalizeTerminalRun(t, e.run, e.n)
      [] e.type = "exited" ->
           [(IF s.followed = None THEN s ELSE finalizeTerminalRun(s, s.followed, e.n))
               EXCEPT !.followed = None, !.connected = FALSE]
      [] e.type = "idle" -> [s EXCEPT !.followed = None]
      [] OTHER -> s

\* Wrong on purpose: a start kept for an answer still to come outlives its run.
OnFacadeKeepingStarts(f, e) ==
    CASE e.type = "started" ->
           IF e.run \in f.handles THEN Activate(f, e.run) ELSE [f EXCEPT !.started = @ \cup {e.run}]
      [] e.type = "completed" ->
           [Forget(f, e.run) EXCEPT !.completed = @ \cup {e.run}, !.started = f.started]
      [] OTHER -> f

OnFacade(f, e) ==
    CASE e.type = "started" ->
           IF e.run \in f.handles THEN Activate(f, e.run) ELSE [f EXCEPT !.started = @ \cup {e.run}]
      [] e.type = "completed" -> [Forget(f, e.run) EXCEPT !.completed = @ \cup {e.run}]
      [] OTHER -> f

\* The listeners of one event run one after the other, in the order they were
\* registered in: the panel registers again whenever it is mounted.
Deliver ==
    /\ events # <<>>
    /\ LET e == Head(events)
           Panel(s) == IF s.attached THEN OnPanel(s, e) ELSE s
       IN  /\ Gives(OnBus(Panel(view), e)) \/ Gives(Panel(OnBus(view, e)))
           /\ facade' = OnFacade(facade, e)
    /\ events' = Tail(events)
    /\ UNCHANGED <<task, backend, troubles>>

\* The output is drawn, or 160 ms are over; an unmounted panel tells nobody.
LateCompletion ==
    \E e \in view.late :
        /\ LET s == [view EXCEPT !.late = @ \ {e}]
           IN  Gives(IF s.mounted THEN finalizeTerminalRun(s, e.run, e.n) ELSE s)
        /\ UNCHANGED <<task, facade, backend, events, troubles>>

FlushOutput ==
    /\ view.buffer # <<>>
    /\ Gives([view EXCEPT !.output = @ \o view.buffer, !.buffer = <<>>])
    /\ UNCHANGED <<task, facade, backend, events, troubles>>

CompletionTimeout ==
    /\ view.timer # None
    /\ LET s == [view EXCEPT !.timer = None]
       IN  Gives(IF IsCurrent(s, view.timer) THEN failTerminalRun(s) ELSE s)
    /\ UNCHANGED <<task, facade, backend, events, troubles>>

-----------------------------------------------------------------------------
(* The user and the panel.                                                  *)

Only(s) == Gives(s) /\ UNCHANGED <<task, facade, backend, events>>

\* Mounting follows the pending run at once and listens a little later.
Mount ==
    /\ ~ view.mounted /\ UNCHANGED troubles
    /\ Only([view EXCEPT !.mounted = TRUE, !.visible = TRUE, !.followed = view.pending])

Attach ==
    /\ view.mounted /\ ~ view.attached /\ UNCHANGED troubles
    /\ Only([view EXCEPT !.attached = TRUE])

\* The panel's ensureConnect: once after mounting, and again after the shell is gone.
Connect ==
    /\ view.attached /\ ~ view.connected
    /\ Gives([view EXCEPT !.connected = TRUE])
    /\ Ready
    /\ UNCHANGED <<task, facade, troubles>>

Detach ==
    /\ view.mounted /\ Trouble
    /\ Only([view EXCEPT !.mounted = FALSE, !.attached = FALSE, !.visible = FALSE,
                         !.followed = None])

Show ==
    /\ view.mounted /\ ~ view.visible /\ UNCHANGED troubles
    /\ Only([view EXCEPT !.visible = TRUE])

Hide ==
    /\ view.visible /\ Trouble
    /\ Only([view EXCEPT !.visible = FALSE])

\* clearWorkspaceSession: the logs are cleared, then the run, the pending id last.
CloseWorkspace ==
    /\ Trouble
    /\ Only(setPendingTerminalRunId(
               [view EXCEPT !.finals = <<>>, !.history = <<>>, !.output = <<>>,
                            !.last = NoResult, !.summary = None, !.running = FALSE], None))

-----------------------------------------------------------------------------
\* The panel is open and connected.
Init ==
    /\ task = [r \in Run |-> "new"]
    /\ view = [running |-> FALSE, pending |-> None, summary |-> None, meta |-> None,
               last |-> NoResult, finals |-> <<>>, history |-> <<>>,
               timer |-> None, output |-> <<>>, buffer |-> <<>>,
               listening |-> FALSE, ensured |-> FALSE,
               mounted |-> TRUE, attached |-> TRUE, visible |-> TRUE, connected |-> TRUE,
               followed |-> None, late |-> {}]
    /\ facade = [handles |-> {}, started |-> {}, active |-> None,
                 starts |-> [r \in Run |-> 0], completed |-> {}]
    /\ backend = [marked |-> None, mode |-> "idle", phase |-> [r \in Run |-> "none"],
                  shell |-> TRUE, sent |-> [r \in Run |-> 0]]
    /\ events = <<>> /\ troubles = 0

TaskStep(r) == Listen(r) \/ Ensure(r) \/ Dispatch(r) \/ DispatchReturns(r)
                   \/ DispatchThrows(r) \/ Reconnect(r)

Next ==
    \/ \E r \in Run : runScript(r) \/ TaskStep(r)
    \/ \E r \in Run : RunStarted(r) \/ RunChunk(r) \/ RunCompleted(r) \/ GuardDropped(r)
    \/ InteractiveExits \/ Connect
    \/ Deliver \/ LateCompletion \/ FlushOutput \/ CompletionTimeout
    \/ Mount \/ Attach \/ Detach \/ Show \/ Hide \/ CloseWorkspace

Spec == Init /\ [][Next]_vars

\* Calls of the backend are answered and a timer fires; nothing says that a script
\* ends or that its completion event arrives.
FairSpec == Spec /\ WF_vars(\E r \in Run : TaskStep(r)) /\ WF_vars(CompletionTimeout)

-----------------------------------------------------------------------------
(* Properties.                                                              *)

\* What every variable holds; the completion timer waits only for a run that was
\* started.
TypeOK ==
    /\ task \in [Run -> {"new", "listen", "ensure", "dispatch", "ok", "refused",
                         "missing", "redispatch", "done"}]
    /\ {view.pending, view.meta, view.summary, view.timer, view.followed} \subseteq Run \cup {None}
    /\ \A r \in Run : task[r] \in {"new", "listen", "ensure"}
          => r \notin {view.pending, view.meta, view.summary, view.timer, view.followed}
    /\ facade.handles \cup facade.started \subseteq Run

\* "A repeated completion is idempotent, the history gets no second entry":
\* whatever the order of bus, panel, timer and failures.
HistoryOnce == \A i, j \in DOMAIN view.history :
    view.history[i].run = view.history[j].run => i = j

Output(r, first, last) == [i \in 1 .. last - first + 1 |-> Event("chunk", r, first + i - 1)]

\* The completion of a run that is still current and not finalised is what the
\* history records, with the run's own output up to its last chunk (all of it, unless
\* closing the workspace cleared it): the panel's made-up cancellation never gets in first.
CompletionIsRecorded ==
    [][\A r \in Run :
          (events # <<>> /\ Head(events) = Event("completed", r, Script) /\ events' = Tail(events)
             /\ IsCurrent(view, r) /\ ~ hasFinalizedTerminalRun(view, r))
          => /\ view'.history = Append(view.history, [run |-> r, code |-> Script])
             /\ \E k \in 0 .. backend.sent[r] :
                   /\ view.pending = r => k = 0
                   /\ view'.last.output = Output(r, k + 1, backend.sent[r])]_vars

\* Whatever ended a run, its completion, the exit of the shell, a cancellation or a
\* failure, the result shown for it is one stretch of its own output: nothing of the
\* run before, whose last chunks may arrive late, nothing twice and no gap.
ResultIsOwn ==
    LET r == view.last.run
    IN  r # None => \E j, k \in 0 .. backend.sent[r] : view.last.output = Output(r, j + 1, k)

\* The runtime store shows no run that is over, and a run starts only once: the
\* answer of a dispatch may come before or after the events of its run.
NoGhostRun ==
    /\ facade.active \notin facade.completed
    /\ \A r \in Run : facade.starts[r] <= 1

\* "runScript" is refused while a run is on: it does not stay on for ever, even
\* when the script hangs or its completion event is lost.
RunEnds == view.running ~> ~ view.running
=============================================================================
