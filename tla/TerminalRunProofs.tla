--------------------------- MODULE TerminalRunProofs ---------------------------
(***************************************************************************)
(* Proofs about TerminalRun, for any number of runs, chunks of output and  *)
(* troubles.                                                               *)
(*                                                                         *)
(* RunInv is the inductive invariant.  The workbench follows one run at a  *)
(* time, and not one that has been finalised (OneCurrent, Open); what is   *)
(* in the history has its end in the log (Logged); what is on the way      *)
(* agrees with how far the backend and the facade are (Ordered, Started);  *)
(* and for the current run the output shown, the output buffered and the   *)
(* chunks on the way are together what the backend sent, up to a beginning *)
(* that closing the workspace cleared; the last result is a stretch of     *)
(* those chunks too (OutputFits).                                          *)
(***************************************************************************)
EXTENDS TerminalRun, TLAPS, SequenceTheorems

Ids == Run \cup {None}

\* Events of a run carry a run.
EventSet ==
    {e \in [type : {"started", "chunk", "completed", "exited", "idle"}, run : Ids, n : Int] :
        e.type \in {"started", "chunk", "completed"} => e.run \in Run}

Entry == [run : Ids, code : Int]

View ==
    [running : BOOLEAN, pending : Ids, summary : Ids, meta : Ids,
     last : [run : Ids, output : Seq(EventSet)], finals : Seq(Ids), history : Seq(Entry),
     timer : Ids, output : Seq(EventSet), buffer : Seq(EventSet),
     listening : BOOLEAN, ensured : BOOLEAN,
     mounted : BOOLEAN, attached : BOOLEAN, visible : BOOLEAN, connected : BOOLEAN,
     followed : Ids, late : SUBSET EventSet]

Facade ==
    [handles : SUBSET Run, started : SUBSET Run, active : Ids,
     starts : [Run -> Nat], completed : SUBSET Run]

Phase == {"none", "sent", "started", "ended", "gone"}

Backend ==
    [marked : Ids, mode : {"booting", "idle", "switching", "running"},
     phase : [Run -> Phase], shell : BOOLEAN, sent : [Run -> Nat]]

Places == {"new", "listen", "ensure", "dispatch", "ok", "refused", "missing", "redispatch", "done"}

Types ==
    /\ task \in [Run -> Places]
    /\ view \in View
    /\ facade \in Facade
    /\ backend \in Backend
    /\ events \in Seq(EventSet)
    /\ troubles \in Nat

Current(s) == {s.pending, s.meta, s.summary} \ {None}

\* The runs the workbench and the panel know of.
Known(s) ==
    Current(s) \cup {s.timer, s.followed} \cup {s.finals[i] : i \in DOMAIN s.finals}
        \cup {e.run : e \in s.late}

Ended(s, r) == s.last.run = r \/ \E i \in DOMAIN s.finals : s.finals[i] = r

\* All ids that are current are those of one run.
OneCurrent(s) == \A q, r \in Current(s) : q = r

Open(s) == \A r \in Current(s) : ~ Ended(s, r)

Logged(s) ==
    /\ \A i, j \in DOMAIN s.history : s.history[i].run = s.history[j].run => i = j
    /\ \A i \in DOMAIN s.history : \E k \in DOMAIN s.finals : s.finals[k] = s.history[i].run

Sound(s) == s \in View /\ OneCurrent(s) /\ Open(s) /\ Logged(s)

Early == {"new", "listen", "ensure"}

\* Places in which nothing has been sent to the backend.
Unsent == Early \cup {"dispatch", "refused", "missing", "redispatch"}

\* A run that has not been announced is known nowhere.
Fresh(s, place, phase) ==
    \A r \in Run :
        /\ place[r] \in Early => r \notin Known(s)
        /\ place[r] \in Unsent => phase[r] = "none"

\* Nothing of run r comes after its completion; phase is how far the backend is, n how
\* many chunks it sent, and over the runs whose completion has arrived.
Ordered(q, phase, n, over, r) ==
    /\ phase = "none" => n = 0 /\ \A i \in DOMAIN q : q[i].run # r
    /\ phase \notin {"ended", "gone"} =>
          r \notin over /\ \A i \in DOMAIN q : q[i].type = "completed" => q[i].run # r
    /\ \A i, j \in DOMAIN q :
          i < j /\ q[i].type = "completed" /\ q[i].run = r => q[j].run # r
    /\ r \in over => \A i \in DOMAIN q : q[i].run # r

\* Where the one start of run r is: still to come, on the way, kept, or counted.
Started(q, phase, f, r) ==
    /\ f.starts[r] <= 1
    /\ r \in f.started => f.starts[r] = 0 /\ r \notin f.completed
    /\ phase \in {"none", "sent"} =>
          /\ f.starts[r] = 0 /\ r \notin f.started
          /\ \A i \in DOMAIN q : q[i].type = "started" => q[i].run # r
    /\ \A i \in DOMAIN q : q[i].type = "started" /\ q[i].run = r =>
          /\ f.starts[r] = 0 /\ r \notin f.started
          /\ \A j \in DOMAIN q : q[j].type = "started" /\ q[j].run = r => i = j

\* The chunks of run r after the first m are on the way, in their order.
OnTheWay(q, r, m, n) ==
    /\ \A k \in m + 1 .. n : \E i \in DOMAIN q : q[i] = Event("chunk", r, k)
    /\ \A i \in DOMAIN q : q[i].type = "chunk" /\ q[i].run = r =>
          /\ q[i].n \in m + 1 .. n /\ q[i] = Event("chunk", r, q[i].n)
          /\ \A j \in DOMAIN q : q[j].type = "chunk" /\ q[j].run = r /\ i < j => q[i].n < q[j].n

\* What the workbench shows of run r, or is about to, came after its first k chunks.
Shown(s) == s.output \o s.buffer

Drawn(s, r, m) ==
    r \in Current(s) =>
        \E k \in 0 .. m : Shown(s) = Output(r, k + 1, m) /\ (s.pending = r => k = 0)

\* A result of run r is a stretch of the first m chunks.
Resulting(s, r, m) ==
    s.last.run = r => \E j, k \in 0 .. m : s.last.output = Output(r, j + 1, k)

Showing(s, r, m) == Drawn(s, r, m) /\ Resulting(s, r, m)

OutputFits(q, s, n, r) ==
    \E m \in 0 .. n : OnTheWay(q, r, m, n) /\ Showing(s, r, m)

RunInv ==
    /\ Types
    /\ Sound(view)
    /\ Fresh(view, task, backend.phase)
    /\ facade.active \notin facade.completed
    /\ \A r \in Run :
          /\ Ordered(events, backend.phase[r], backend.sent[r], facade.completed, r)
          /\ Started(events, backend.phase[r], facade, r)
          /\ OutputFits(events, view, backend.sent[r], r)

-------------------------------------------------------------------------------
(* A run is finalised                                                        *)

LEMMA Finals == ASSUME NEW s \in View, NEW r PROVE Contains(s.finals, r) <=> \E i \in DOMAIN s.finals : s.finals[i] = r
BY DEF Contains, View

LEMMA Finalized ==
    ASSUME NEW s \in View, NEW r \in Run
    PROVE  hasFinalizedTerminalRun(s, r) <=> Ended(s, r)
BY Finals DEF hasFinalizedTerminalRun, Ended, Run, None

LEMMA ShownTyped == ASSUME NEW s \in View PROVE Shown(s) \in Seq(EventSet)
<1>1. s.output \in Seq(EventSet) /\ s.buffer \in Seq(EventSet)
    BY DEF View
<1> QED
    BY <1>1, ConcatProperties DEF Shown

Result(r, output) == [run |-> r, output |-> output]
HistoryWith(s, r, code) == Append(s.history, [run |-> r, code |-> code])

\* t is s once the end of run r is recorded; no run is current any more.
Over(s, t, r, code) ==
    /\ t \in View
    /\ t.pending = None /\ t.meta = None /\ t.summary = None /\ t.timer = None
    /\ t.followed \in {s.followed, None} /\ t.late = s.late
    /\ t.last = Result(r, Shown(s))
    /\ t.finals = Append(s.finals, r)
    /\ t.history = HistoryWith(s, r, code)

LEMMA AppendFinal ==
    ASSUME NEW s \in View, NEW r \in Ids
    PROVE  Append(s.finals, r) \in Seq(Ids)
BY AppendProperties DEF View

LEMMA AppendEntry ==
    ASSUME NEW s \in View, NEW r \in Ids, NEW code \in Int
    PROVE  HistoryWith(s, r, code) \in Seq(Entry)
<1>1. [run |-> r, code |-> code] \in Entry
    BY DEF Entry
<1> QED
    BY <1>1, AppendProperties DEF View, HistoryWith

LEMMA EmptyTyped == <<>> \in Seq(EventSet) /\ <<>> \in Seq(Ids) /\ <<>> \in Seq(Entry)
BY EmptySeq

LEMMA RecordedTyped ==
    ASSUME NEW s \in View, NEW r \in Run, NEW code \in Int,
           NEW t, t = Recorded(s, r, code)
    PROVE  /\ t \in View /\ t.timer = None /\ t.late = s.late /\ t.followed = s.followed
           /\ t.pending = s.pending /\ t.meta = s.meta /\ t.summary = s.summary
           /\ t.mounted = s.mounted
           /\ t.last = Result(r, Shown(s)) /\ t.finals = s.finals
           /\ t.history = HistoryWith(s, r, code)
<1>1. Shown(s) \in Seq(EventSet) /\ r \in Ids
    BY ShownTyped DEF Ids
<1> PICK output : output = Shown(s)
    OBVIOUS
<1> PICK history : history = HistoryWith(s, r, code)
    OBVIOUS
<1> PICK last : last = Result(r, output)
    OBVIOUS
<1>2. history \in Seq(Entry) /\ last \in [run : Ids, output : Seq(EventSet)]
    BY <1>1, AppendEntry DEF Result
<1>3. t = [s EXCEPT !.timer = None, !.output = output, !.buffer = <<>>, !.last = last,
                    !.history = history]
    BY DEF Recorded, Shown, Result, HistoryWith
<1>4. None \in Ids /\ <<>> \in Seq(EventSet) /\ output \in Seq(EventSet)
    BY <1>1, EmptyTyped DEF Ids
<1>5. t \in View
    BY <1>2, <1>3, <1>4, ZenonT(30) DEF View
<1> QED
    BY <1>3, <1>5 DEF View

LEMMA FlagsCleared ==
    ASSUME NEW s \in View, NEW t, t = ClearFlags(s)
    PROVE  /\ t \in View /\ t.timer = s.timer /\ t.late = s.late /\ t.followed = s.followed
           /\ t.pending = s.pending /\ t.meta = None /\ t.summary = None
           /\ t.output = s.output /\ t.buffer = s.buffer
           /\ t.last = s.last /\ t.finals = s.finals /\ t.history = s.history
<1>1. t = [s EXCEPT !.summary = None, !.running = FALSE, !.meta = None]
    BY DEF ClearFlags
<1> QED
    BY <1>1 DEF View, Ids

LEMMA FinalLogged ==
    ASSUME NEW s \in View, NEW r \in Ids, NEW t, t = FinalLog(s, r)
    PROVE  /\ t \in View /\ t.timer = s.timer /\ t.late = s.late /\ t.followed = s.followed
           /\ t.pending = s.pending /\ t.meta = s.meta /\ t.summary = s.summary
           /\ t.output = s.output /\ t.buffer = s.buffer
           /\ t.last = s.last /\ t.finals = Append(s.finals, r) /\ t.history = s.history
<1> PICK finals : finals = Append(s.finals, r)
    OBVIOUS
<1>1. t = [s EXCEPT !.finals = finals] /\ finals \in Seq(Ids)
    BY AppendFinal DEF FinalLog
<1> QED
    BY <1>1 DEF View

\* Clearing the pending run id while the run that is current has already ended.
LEMMA ClearedAfterEnd ==
    ASSUME NEW u \in View, NEW r \in Run, Ended(u, r), {u.meta, u.summary} \subseteq {r, None},
           NEW t, t = setPendingTerminalRunId(u, None)
    PROVE  /\ t \in View /\ t.timer = u.timer /\ t.late = u.late
           /\ t.followed \in {u.followed, None} /\ t.pending = None
           /\ t.last = u.last /\ t.finals = u.finals /\ t.history = u.history
<1> PICK v : v = [u EXCEPT !.pending = None]
    OBVIOUS
<1>1. /\ v \in View /\ v.timer = u.timer /\ v.late = u.late /\ v.followed = u.followed
      /\ v.pending = None /\ v.meta = u.meta /\ v.summary = u.summary
      /\ v.last = u.last /\ v.finals = u.finals /\ v.history = u.history
    BY DEF View, Ids
<1>2. CASE u.pending = None
    BY <1>2 DEF setPendingTerminalRunId, View, Ids
<1>3. CASE u.pending # None /\ ~ v.mounted
    BY <1>1, <1>3 DEF setPendingTerminalRunId, TrackWith
<1>4. CASE u.pending # None /\ v.mounted
    <2> PICK w : w = IF v.followed \notin {None, None} THEN FinalizeInner(v, v.followed, Canceled) ELSE v
        OBVIOUS
    <2>1. t = [w EXCEPT !.followed = None]
        BY <1>4 DEF setPendingTerminalRunId, TrackWith
    <2>2. w = v \/ w = ClearFlags(v)
        <3>1. CASE v.followed # None /\ IsCurrent(v, v.followed)
            <4>1. v.followed = r /\ Ended(v, r)
                BY <1>1, <3>1 DEF IsCurrent, Ended
            <4>2. hasFinalizedTerminalRun(v, r)
                BY <1>1, <4>1, Finalized
            <4> QED
                BY <3>1, <4>1, <4>2 DEF FinalizeInner, FinalizeWith
        <3>2. CASE v.followed = None
            BY <3>2
        <3>3. CASE ~ IsCurrent(v, v.followed)
            BY <3>3 DEF FinalizeInner, FinalizeWith
        <3> QED
            BY <3>1, <3>2, <3>3
    <2>3. /\ w \in View /\ w.timer = u.timer /\ w.late = u.late
          /\ w.pending = None
          /\ w.last = u.last /\ w.finals = u.finals /\ w.history = u.history
        <3>1. CASE w = v
            BY <1>1, <3>1
        <3>2. CASE w = ClearFlags(v)
            <4>0. v \in View
                BY <1>1
            <4>1. /\ w \in View /\ w.timer = v.timer /\ w.late = v.late /\ w.pending = v.pending
                  /\ w.last = v.last /\ w.finals = v.finals /\ w.history = v.history
                BY <3>2, <4>0, FlagsCleared
            <4> QED
                BY <1>1, <4>1
        <3> QED
            BY <2>2, <3>1, <3>2
    <2>4. /\ t \in View /\ t.timer = w.timer /\ t.late = w.late /\ t.followed = None
          /\ t.pending = w.pending
          /\ t.last = w.last /\ t.finals = w.finals /\ t.history = w.history
        <3>1. None \in Ids
            BY DEF Ids
        <3> QED
            BY <2>1, <2>3, <3>1, ZenonT(30) DEF View
    <2> QED
        BY <2>3, <2>4
<1> QED
    BY <1>1, <1>2, <1>3, <1>4

LEMMA Finalizing ==
    ASSUME NEW s \in View, NEW r \in Run, NEW code \in Int, IsCurrent(s, r), ~ Ended(s, r),
           {s.meta, s.summary} \subseteq {r, None},
           NEW t, t = finalizeTerminalRun(s, r, code)
    PROVE  Over(s, t, r, code)
<1> PICK u : u = Recorded(s, r, code)
    OBVIOUS
<1> PICK v : v = setPendingTerminalRunId(u, None)
    OBVIOUS
<1> PICK w : w = ClearFlags(v)
    OBVIOUS
<1>1. ~ hasFinalizedTerminalRun(s, r)
    BY Finalized
<1>2. t = FinalLog(w, r)
    BY <1>1 DEF finalizeTerminalRun, FinalizeWith, clearActiveTerminalRunState
<1>3. /\ u \in View /\ u.timer = None /\ u.late = s.late /\ u.followed = s.followed
      /\ u.pending = s.pending /\ u.meta = s.meta /\ u.summary = s.summary
      /\ u.last = Result(r, Shown(s)) /\ u.finals = s.finals
      /\ u.history = HistoryWith(s, r, code)
    BY RecordedTyped
<1>4. Ended(u, r)
    BY <1>3 DEF Ended, Result
<1>5. /\ v \in View /\ v.timer = None /\ v.late = s.late
      /\ v.followed \in {s.followed, None} /\ v.pending = None
      /\ v.last = u.last /\ v.finals = u.finals /\ v.history = u.history
    BY <1>3, <1>4, ClearedAfterEnd
<1>6. /\ w \in View /\ w.timer = v.timer /\ w.late = v.late /\ w.followed = v.followed
      /\ w.pending = v.pending /\ w.meta = None /\ w.summary = None
      /\ w.last = v.last /\ w.finals = v.finals /\ w.history = v.history
    BY <1>5, FlagsCleared
<1>7. r \in Ids
    BY DEF Ids
<1>8. /\ t \in View /\ t.timer = w.timer /\ t.late = w.late /\ t.followed = w.followed
      /\ t.pending = w.pending /\ t.meta = w.meta /\ t.summary = w.summary
      /\ t.last = w.last /\ t.finals = Append(w.finals, r) /\ t.history = w.history
    BY <1>2, <1>6, <1>7, FinalLogged
<1> QED
    BY <1>3, <1>5, <1>6, <1>8 DEF Over

LEMMA NotFinalizing ==
    ASSUME NEW s, NEW r, NEW code, ~ IsCurrent(s, r)
    PROVE  finalizeTerminalRun(s, r, code) = s
BY DEF finalizeTerminalRun, FinalizeWith

-------------------------------------------------------------------------------
(* What the workbench and the panel do with the runs they know                *)

\* t has the result of s, or none, or that of the run that was current.
ShownResult(s, t) ==
    \/ t.last = s.last \/ t.last.run = None
    \/ \E r \in Current(s) : t.last = Result(r, Shown(s))

\* The same, but what was drawn, or what was not yet, may have been dropped before.
PartResult(s, t) ==
    \/ t.last = s.last \/ t.last.run = None
    \/ \E r \in Current(s) : \E o \in {Shown(s), s.output, s.buffer} : t.last = Result(r, o)

\* t knows no run but x that s does not know, and what is current still shows the same.
Steady(s, t, x) ==
    /\ Sound(t)
    /\ ShownResult(s, t)
    /\ Known(t) \subseteq Known(s) \cup {None, x}
    /\ \A r \in Current(t) : r \in Current(s) /\ Shown(t) = Shown(s) /\ (t.pending = r => s.pending = r)

LEMMA SteadySelf == ASSUME NEW s, NEW x, Sound(s) PROVE Steady(s, s, x)
BY DEF Steady, ShownResult

LEMMA SteadyTwice ==
    ASSUME NEW s, NEW t, NEW u, NEW x, Steady(s, t, x), Steady(t, u, x)
    PROVE  Steady(s, u, x)
<1>1. ShownResult(s, u)
    BY DEF Steady, ShownResult
<1> QED
    BY <1>1 DEF Steady

LEMMA SteadyMore == ASSUME NEW s, NEW t, NEW x, Steady(s, t, None) PROVE Steady(s, t, x)
BY DEF Steady

LEMMA CurrentIs ==
    ASSUME NEW s \in View, NEW r
    PROVE  IsCurrent(s, r) <=> r \in Current(s)
BY DEF IsCurrent, Current

LEMMA OthersIdle ==
    ASSUME NEW s, Sound(s), NEW r \in Current(s)
    PROVE  /\ r \in Run /\ {s.meta, s.summary, s.pending} \subseteq {r, None} /\ ~ Ended(s, r)
BY DEF Sound, OneCurrent, Open, Current, View, Ids

\* The fields of the view that Sound and Known do not look at may change, and fewer ids
\* may be current or known.
LEMMA SteadyFields ==
    ASSUME NEW s, NEW x, Sound(s), NEW t \in View,
           t.pending \in {s.pending, None}, {t.meta, t.summary} \subseteq Current(s) \cup {None},
           t.timer \in {s.timer, None}, t.followed \in {s.followed, s.pending, None},
           \A e \in t.late : e \in s.late \/ e.run = x,
           t.finals = s.finals, t.history = s.history, t.last = s.last,
           Shown(t) = Shown(s)
    PROVE  Steady(s, t, x)
<1>1. Current(t) \subseteq Current(s)
    BY DEF Current
<1>2. OneCurrent(t) /\ Open(t) /\ Logged(t)
    BY <1>1 DEF Sound, OneCurrent, Open, Ended, Logged
<1>3. Known(t) \subseteq Known(s) \cup {None, x}
    BY <1>1 DEF Known, Current
<1>4. \A r \in Current(t) : t.pending = r => s.pending = r
    BY DEF Current
<1>5. ShownResult(s, t)
    BY DEF ShownResult
<1> QED
    BY <1>1, <1>2, <1>3, <1>4, <1>5 DEF Steady, Sound

\* The end of a run is recorded once.
LEMMA OverLogged ==
    ASSUME NEW s \in View, Logged(s), NEW r \in Run, ~ Ended(s, r), NEW code \in Int,
           NEW t \in View, t.finals = Append(s.finals, r),
           t.history = HistoryWith(s, r, code)
    PROVE  Logged(t)
<1>1. s.finals \in Seq(Ids) /\ s.history \in Seq(Entry) /\ r \in Ids
    BY DEF View, Ids
<1>2. [run |-> r, code |-> code] \in Entry
    BY <1>1 DEF Entry
<1>3. /\ Len(t.finals) = Len(s.finals) + 1 /\ t.finals[Len(s.finals) + 1] = r
      /\ \A i \in 1 .. Len(s.finals) : t.finals[i] = s.finals[i]
    BY <1>1, AppendProperties
<1>4. /\ Len(t.history) = Len(s.history) + 1
      /\ t.history[Len(s.history) + 1].run = r
      /\ \A i \in 1 .. Len(s.history) : t.history[i] = s.history[i]
    BY <1>1, <1>2, AppendProperties DEF HistoryWith
<1>5. /\ DOMAIN t.finals = 1 .. Len(s.finals) + 1 /\ DOMAIN s.finals = 1 .. Len(s.finals)
      /\ DOMAIN t.history = 1 .. Len(s.history) + 1 /\ DOMAIN s.history = 1 .. Len(s.history)
      /\ Len(s.finals) \in Nat /\ Len(s.history) \in Nat
    BY <1>1, <1>3, <1>4 DEF View
<1>6. \A i \in DOMAIN s.history : s.history[i].run # r
    BY <1>5 DEF Logged, Ended
<1>7. \A i, j \in DOMAIN t.history : t.history[i].run = t.history[j].run => i = j
    <2> TAKE i, j \in DOMAIN t.history
    <2>1. CASE i \in DOMAIN s.history /\ j \in DOMAIN s.history
        BY <1>4, <1>5, <2>1 DEF Logged
    <2>2. CASE i \in DOMAIN s.history /\ j = Len(s.history) + 1
        <3>1. t.history[i].run # r /\ t.history[j].run = r
            BY <1>4, <1>5, <1>6, <2>2
        <3> QED
            BY <3>1
    <2>3. CASE i = Len(s.history) + 1 /\ j \in DOMAIN s.history
        <3>1. t.history[j].run # r /\ t.history[i].run = r
            BY <1>4, <1>5, <1>6, <2>3
        <3> QED
            BY <3>1
    <2>4. CASE i = Len(s.history) + 1 /\ j = Len(s.history) + 1
        BY <2>4
    <2> QED
        BY <1>5, <2>1, <2>2, <2>3, <2>4
<1>8. \A i \in DOMAIN t.history : \E k \in DOMAIN t.finals : t.finals[k] = t.history[i].run
    <2> TAKE i \in DOMAIN t.history
    <2>1. CASE i = Len(s.history) + 1
        <3>1. t.history[i].run = r
            BY <1>4, <2>1
        <3>2. Len(s.finals) + 1 \in DOMAIN t.finals /\ t.finals[Len(s.finals) + 1] = r
            BY <1>3, <1>5
        <3> QED
            BY <3>1, <3>2
    <2>2. CASE i \in DOMAIN s.history
        <3>1. PICK k \in DOMAIN s.finals : s.finals[k] = s.history[i].run
            BY <2>2 DEF Logged
        <3>2. t.finals[k] = s.history[i].run /\ t.history[i] = s.history[i] /\ k \in DOMAIN t.finals
            BY <1>3, <1>4, <1>5, <2>2, <3>1
        <3> QED
            BY <3>2
    <2> QED
        BY <1>5, <2>1, <2>2
<1> QED
    BY <1>7, <1>8 DEF Logged

LEMMA AppendedKnown ==
    ASSUME NEW s \in View, NEW r \in Ids
    PROVE  \A i \in DOMAIN Append(s.finals, r) :
               Append(s.finals, r)[i] = r \/ \E k \in DOMAIN s.finals : Append(s.finals, r)[i] = s.finals[k]
<1>1. s.finals \in Seq(Ids)
    BY DEF View
<1>2. /\ Len(Append(s.finals, r)) = Len(s.finals) + 1 /\ Append(s.finals, r)[Len(s.finals) + 1] = r
      /\ \A i \in 1 .. Len(s.finals) : Append(s.finals, r)[i] = s.finals[i]
      /\ Append(s.finals, r) \in Seq(Ids)
    BY <1>1, AppendProperties
<1>3. DOMAIN Append(s.finals, r) = 1 .. Len(s.finals) + 1 /\ DOMAIN s.finals = 1 .. Len(s.finals)
    BY <1>1, <1>2
<1> QED
    BY <1>1, <1>2, <1>3

LEMMA OverSteady ==
    ASSUME NEW s \in View, Logged(s), NEW r \in Run, r \in Known(s), ~ Ended(s, r),
           NEW code \in Int, NEW t, Over(s, t, r, code)
    PROVE  Sound(t) /\ Current(t) = {} /\ Known(t) \subseteq Known(s) \cup {None}
<1>1. t \in View /\ Current(t) = {}
    BY DEF Over, Current
<1>2. Logged(t)
    BY <1>1, OverLogged DEF Over
<1>3. OneCurrent(t) /\ Open(t)
    BY <1>1 DEF OneCurrent, Open
<1>4. r \in Ids
    BY DEF Ids
<1>5. \A i \in DOMAIN t.finals : t.finals[i] \in Known(s)
    BY <1>4, AppendedKnown DEF Over, Known
<1>6. Known(t) \subseteq Known(s) \cup {None}
    <2>1. {t.timer, t.followed} \subseteq Known(s) \cup {None} /\ {e.run : e \in t.late} \subseteq Known(s)
        BY DEF Over, Known
    <2> QED
        BY <1>1, <1>5, <2>1 DEF Known
<1> QED
    BY <1>1, <1>2, <1>3, <1>6 DEF Sound

LEMMA FinalizeSteady ==
    ASSUME NEW s, Sound(s), NEW r, NEW code \in Int,
           NEW t, t = finalizeTerminalRun(s, r, code)
    PROVE  Steady(s, t, None) /\ ~ IsCurrent(t, r)
<1>1. CASE ~ IsCurrent(s, r)
    BY <1>1, NotFinalizing, SteadySelf
<1>2. CASE IsCurrent(s, r)
    <2>1. r \in Current(s) /\ s \in View /\ Logged(s)
        BY <1>2, CurrentIs DEF Sound
    <2>2. r \in Run /\ {s.meta, s.summary} \subseteq {r, None} /\ ~ Ended(s, r)
        BY <2>1, OthersIdle
    <2>3. Over(s, t, r, code)
        BY <1>2, <2>1, <2>2, Finalizing
    <2>4. Sound(t) /\ Current(t) = {} /\ Known(t) \subseteq Known(s) \cup {None}
        BY <2>1, <2>2, <2>3, OverSteady DEF Known
    <2>5. ShownResult(s, t)
        BY <2>1, <2>3 DEF Over, ShownResult
    <2> QED
        BY <2>4, <2>5, CurrentIs DEF Steady, Sound
<1> QED
    BY <1>1, <1>2

Unfollowed(s) == [s EXCEPT !.followed = None]

LEMMA FollowsNone ==
    ASSUME NEW s \in View, NEW t, t = Unfollowed(s)
    PROVE  /\ t \in View /\ t.timer = s.timer /\ t.late = s.late /\ t.followed = None
           /\ t.pending = s.pending /\ t.meta = s.meta /\ t.summary = s.summary
           /\ t.output = s.output /\ t.buffer = s.buffer
           /\ t.last = s.last /\ t.finals = s.finals /\ t.history = s.history
BY DEF Unfollowed, View, Ids

\* The panel reports the run it followed, which is still current, as cancelled.
LEMMA CancelsFollowed ==
    ASSUME NEW v \in View, v.pending = None, NEW r \in Run, IsCurrent(v, r), ~ Ended(v, r), NEW code \in Int,
           NEW w, w = FinalizeInner(v, r, code), NEW t, t = Unfollowed(w)
    PROVE  Over(v, t, r, code)
<1> PICK x : x = Recorded(v, r, code)
    OBVIOUS
<1> PICK y : y = ClearFlags(x)
    OBVIOUS
<1>1. w = FinalLog(y, r)
    BY Finalized DEF FinalizeInner, FinalizeWith
<1>2. r \in Ids
    BY DEF Ids
<1>3. /\ x \in View /\ x.timer = None /\ x.late = v.late
      /\ x.pending = v.pending /\ x.last = Result(r, Shown(v)) /\ x.finals = v.finals
      /\ x.history = HistoryWith(v, r, code)
    BY RecordedTyped
<1>4. /\ y \in View /\ y.timer = x.timer /\ y.late = x.late
      /\ y.pending = x.pending /\ y.meta = None /\ y.summary = None
      /\ y.last = x.last /\ y.finals = x.finals /\ y.history = x.history
    BY <1>3, FlagsCleared
<1>5. /\ w \in View /\ w.timer = y.timer /\ w.late = y.late
      /\ w.pending = y.pending /\ w.meta = y.meta /\ w.summary = y.summary
      /\ w.last = y.last /\ w.finals = Append(y.finals, r) /\ w.history = y.history
    BY <1>1, <1>2, <1>4, FinalLogged
<1>6. /\ t \in View /\ t.timer = w.timer /\ t.late = w.late /\ t.followed = None
      /\ t.pending = w.pending /\ t.meta = w.meta /\ t.summary = w.summary
      /\ t.last = w.last /\ t.finals = w.finals /\ t.history = w.history
    BY <1>5, FollowsNone
<1> QED
    BY <1>3, <1>4, <1>5, <1>6 DEF Over

\* Clearing the pending run id: the panel may report the run it followed as cancelled.
LEMMA SetPendingNone ==
    ASSUME NEW s \in View, OneCurrent(s), Logged(s), \A r \in Current(s) : ~ Ended(s, r),
           NEW t, t = setPendingTerminalRunId(s, None)
    PROVE  /\ t \in View /\ Logged(t) /\ t.pending = None /\ Known(t) \subseteq Known(s) \cup {None}
           /\ \/ /\ t.meta = s.meta /\ t.summary = s.summary
                 /\ t.last = s.last /\ t.finals = s.finals
                 /\ t.output = s.output /\ t.buffer = s.buffer
              \/ Current(t) = {}
           /\ ShownResult(s, t)
<1> PICK v : v = [s EXCEPT !.pending = None]
    OBVIOUS
<1>1. /\ v \in View /\ v.timer = s.timer /\ v.late = s.late /\ v.followed = s.followed
      /\ v.pending = None /\ v.meta = s.meta /\ v.summary = s.summary
      /\ v.output = s.output /\ v.buffer = s.buffer
      /\ v.last = s.last /\ v.finals = s.finals /\ v.history = s.history
    BY DEF View, Ids
<1>2. Logged(v) /\ Known(v) \subseteq Known(s) \cup {None}
    BY <1>1 DEF Logged, Known, Current
<1>3. CASE s.pending = None
    <2>1. t = s
        BY <1>3 DEF setPendingTerminalRunId
    <2> QED
        BY <1>3, <2>1 DEF ShownResult
<1>4. CASE s.pending # None /\ ~ v.mounted
    <2>1. t = v
        BY <1>4 DEF setPendingTerminalRunId, TrackWith
    <2>2. ShownResult(s, t)
        BY <1>1, <2>1 DEF ShownResult
    <2> QED
        BY <1>1, <1>2, <2>1, <2>2
<1>5. CASE s.pending # None /\ v.mounted
    <2> PICK w : w = IF v.followed \notin {None, None} THEN FinalizeInner(v, v.followed, Canceled) ELSE v
        OBVIOUS
    <2>1. t = Unfollowed(w)
        BY <1>5 DEF setPendingTerminalRunId, TrackWith, Unfollowed
    <2>2. CASE w = v
        <3>1. /\ t \in View /\ t.timer = v.timer /\ t.late = v.late /\ t.followed = None
              /\ t.pending = v.pending /\ t.meta = v.meta /\ t.summary = v.summary
              /\ t.output = v.output /\ t.buffer = v.buffer
              /\ t.last = v.last /\ t.finals = v.finals /\ t.history = v.history
            <4>1. v \in View /\ t = Unfollowed(v)
                BY <1>1, <2>1, <2>2
            <4> QED
                BY <4>1, FollowsNone, Zenon
        <3>2. Logged(t) /\ Known(t) \subseteq Known(v) \cup {None}
            BY <1>2, <3>1 DEF Logged, Known, Current
        <3>3. ShownResult(s, t)
            BY <1>1, <3>1 DEF ShownResult
        <3> QED
            BY <1>1, <1>2, <3>1, <3>2, <3>3
    <2>3. CASE w # v
        <3> PICK r : r = v.followed
            OBVIOUS
        <3> PICK code : code = Canceled
            OBVIOUS
        <3>1. w = FinalizeInner(v, r, code) /\ IsCurrent(v, r)
            BY <2>3 DEF FinalizeInner, FinalizeWith
        <3>2. r \in Run /\ r \in Current(s) /\ ~ Ended(s, r)
            BY <1>1, <3>1 DEF IsCurrent, Current, View, Ids
        <3>3. ~ Ended(v, r)
            BY <1>1, <3>2 DEF Ended
        <3>5. code \in Int /\ r \in Ids
            BY <3>2 DEF Canceled, Ids
        <3>4. /\ v \in View /\ v.pending = None /\ r \in Run /\ IsCurrent(v, r) /\ ~ Ended(v, r)
              /\ code \in Int /\ w = FinalizeInner(v, r, code) /\ t = Unfollowed(w)
            BY <1>1, <2>1, <3>1, <3>2, <3>3, <3>5
        <3>6. Over(v, t, r, code)
            BY <3>4, CancelsFollowed
        <3>7. r \in Known(v)
            BY <1>1, <3>1 DEF IsCurrent, Known, Current
        <3>8. Sound(t) /\ Current(t) = {} /\ Known(t) \subseteq Known(v) \cup {None}
            BY <1>1, <1>2, <3>2, <3>3, <3>5, <3>6, <3>7, OverSteady
        <3>9. ShownResult(s, t)
            <4>1. Shown(v) = Shown(s)
                BY <1>1 DEF Shown
            <4> QED
                BY <3>2, <3>6, <4>1 DEF Over, ShownResult
        <3> QED
            BY <1>2, <3>6, <3>8, <3>9 DEF Sound, Over
    <2> QED
        BY <2>2, <2>3
<1> QED
    BY <1>1, <1>3, <1>4, <1>5

LEMMA LoggedFinal ==
    ASSUME NEW s \in View, Logged(s), NEW r \in Ids, NEW t \in View,
           t.finals = Append(s.finals, r), t.history = s.history
    PROVE  Logged(t)
<1>1. s.finals \in Seq(Ids)
    BY DEF View
<1>2. /\ Len(t.finals) = Len(s.finals) + 1 /\ t.finals \in Seq(Ids)
      /\ \A i \in 1 .. Len(s.finals) : t.finals[i] = s.finals[i]
    BY <1>1, AppendProperties
<1>3. \A i \in DOMAIN s.finals : i \in DOMAIN t.finals /\ t.finals[i] = s.finals[i]
    BY <1>1, <1>2
<1> QED
    BY <1>3 DEF Logged

\* What fails is not current any more, and nothing else is.
LEMMA FailSteady ==
    ASSUME NEW s, Sound(s), NEW t, t = failTerminalRun(s)
    PROVE  /\ Sound(t) /\ Current(t) = {} /\ Known(t) \subseteq Known(s) \cup {None}
           /\ PartResult(s, t)
<1> PICK failed : failed = getCurrentTerminalRunId(s)
    OBVIOUS
<1> PICK u : u = [s EXCEPT !.buffer = <<>>, !.timer = None]
    OBVIOUS
<1> PICK v : v = setPendingTerminalRunId(u, None)
    OBVIOUS
<1> PICK w : w = ClearFlags(v)
    OBVIOUS
<1>1. s \in View /\ OneCurrent(s) /\ Logged(s) /\ \A r \in Current(s) : ~ Ended(s, r)
    BY DEF Sound, Open
<1>2. failed \in Current(s) \cup {None} /\ failed \in Ids
    BY <1>1 DEF getCurrentTerminalRunId, Current, View
<1>3. ~ hasFinalizedTerminalRun(s, failed)
    <2>1. CASE failed = None
        BY <2>1 DEF hasFinalizedTerminalRun
    <2>2. CASE failed # None
        BY <1>1, <1>2, <2>2, Finalized DEF Ids
    <2> QED
        BY <2>1, <2>2
<1>4. t = FinalLog(w, failed)
    BY <1>3 DEF failTerminalRun, clearActiveTerminalRunState
<1>5. /\ u \in View /\ u.timer = None /\ u.late = s.late /\ u.followed = s.followed
      /\ u.pending = s.pending /\ u.meta = s.meta /\ u.summary = s.summary
      /\ u.last = s.last /\ u.finals = s.finals /\ u.history = s.history
      /\ u.output = s.output /\ u.buffer = <<>>
    BY <1>1, EmptyTyped DEF View, Ids
<1>6. OneCurrent(u) /\ Logged(u) /\ (\A r \in Current(u) : ~ Ended(u, r))
    BY <1>1, <1>5 DEF OneCurrent, Logged, Current, Ended
<1>7. Known(u) \subseteq Known(s) \cup {None}
    BY <1>5 DEF Known, Current
<1>8. /\ v \in View /\ Logged(v) /\ v.pending = None /\ Known(v) \subseteq Known(u) \cup {None}
      /\ ShownResult(u, v)
    BY <1>5, <1>6, SetPendingNone
<1>9. /\ w \in View /\ w.timer = v.timer /\ w.late = v.late /\ w.followed = v.followed
      /\ w.pending = None /\ w.meta = None /\ w.summary = None
      /\ w.last = v.last /\ w.finals = v.finals /\ w.history = v.history
    BY <1>8, FlagsCleared
<1>10. /\ t \in View /\ t.timer = w.timer /\ t.late = w.late /\ t.followed = w.followed
       /\ t.pending = w.pending /\ t.meta = w.meta /\ t.summary = w.summary
       /\ t.last = w.last /\ t.finals = Append(v.finals, failed) /\ t.history = w.history
    BY <1>2, <1>4, <1>9, FinalLogged
<1>11. Logged(t)
    BY <1>2, <1>8, <1>9, <1>10, LoggedFinal
<1>12. Current(t) = {}
    BY <1>9, <1>10 DEF Current
<1>13. Known(t) \subseteq Known(s) \cup {None}
    <2>1. \A i \in DOMAIN t.finals : t.finals[i] = failed \/ t.finals[i] \in Known(v)
        BY <1>2, <1>8, <1>10, AppendedKnown DEF Known
    <2>2. \A i \in DOMAIN t.finals : t.finals[i] \in Known(s) \cup {None}
        BY <1>2, <1>7, <1>8, <2>1 DEF Known
    <2>3. {t.timer, t.followed} \cup {e.run : e \in t.late} \subseteq Known(v)
        BY <1>9, <1>10 DEF Known
    <2> QED
        BY <1>7, <1>8, <1>12, <2>2, <2>3 DEF Known
<1>14. PartResult(s, t)
    <2>1. Shown(u) = s.output
        <3>1. s.output \in Seq(EventSet)
            BY <1>1 DEF View
        <3>2. s.output \o <<>> = s.output
            BY <3>1, ConcatEmptySeq
        <3> QED
            BY <1>5, <3>2 DEF Shown
    <2>2. t.last = v.last /\ Current(u) = Current(s) /\ u.last = s.last
        BY <1>5, <1>9, <1>10 DEF Current
    <2> QED
        BY <1>8, <2>1, <2>2 DEF ShownResult, PartResult
<1> QED
    BY <1>10, <1>11, <1>12, <1>13, <1>14 DEF Sound, OneCurrent, Open

\* Before a new run is announced the panel may report the run it followed so far.
Following(s, r) == [s EXCEPT !.followed = r]
Pending(s, r) == [s EXCEPT !.pending = r]
Announced(s, r) ==
    [s EXCEPT !.summary = r, !.meta = r, !.timer = r,
              !.buffer = <<>>, !.output = <<>>, !.last = NoResult]

LEMMA Followed ==
    ASSUME NEW s \in View, NEW r \in Ids, NEW t, t = Following(s, r)
    PROVE  /\ t \in View /\ t.followed = r /\ t.late = s.late /\ t.timer = s.timer
           /\ t.pending = s.pending /\ t.finals = s.finals /\ t.history = s.history
BY DEF Following, View

LEMMA NowPending ==
    ASSUME NEW s \in View, NEW r \in Ids, NEW t, t = Pending(s, r)
    PROVE  /\ t \in View /\ t.followed = s.followed /\ t.late = s.late /\ t.timer = s.timer
           /\ t.pending = r /\ t.meta = s.meta /\ t.summary = s.summary /\ t.last = s.last
           /\ t.finals = s.finals /\ t.history = s.history
BY DEF Pending, View

LEMMA AnnouncedFields ==
    ASSUME NEW s \in View, NEW r \in Run, NEW t, t = Announced(s, r)
    PROVE  /\ t \in View /\ t.meta = r /\ t.summary = r /\ t.timer = r
           /\ t.output = <<>> /\ t.buffer = <<>> /\ t.last.run = None
           /\ t.pending = s.pending /\ t.followed = s.followed /\ t.late = s.late
           /\ t.finals = s.finals /\ t.history = s.history
<1>1. NoResult \in [run : Ids, output : Seq(EventSet)] /\ NoResult.run = None /\ r \in Ids
    BY EmptyTyped DEF NoResult, Ids
<1> PICK result : result = NoResult
    OBVIOUS
<1>2. t = [s EXCEPT !.summary = r, !.meta = r, !.timer = r,
                    !.buffer = <<>>, !.output = <<>>, !.last = result]
    BY DEF Announced
<1>3. <<>> \in Seq(EventSet)
    BY EmptyTyped
<1>4. t \in View
    BY <1>1, <1>2, <1>3, ZenonT(30) DEF View
<1> QED
    BY <1>1, <1>2, <1>4 DEF View

LEMMA PrimeSteady ==
    ASSUME NEW s, Sound(s), NEW r \in Run, r \notin Known(s),
           NEW t, t = primeTerminalRun(s, r)
    PROVE  /\ Sound(t) /\ Known(t) \subseteq Known(s) \cup {None, r}
           /\ Current(t) = {r} /\ Shown(t) = <<>> /\ t.last.run = None
<1> PICK v : v = Pending(s, r)
    OBVIOUS
<1> PICK p : p = TrackWith(finalizeTerminalRun, v, r)
    OBVIOUS
<1>1. s \in View /\ Logged(s) /\ r \in Ids /\ r # None
    BY DEF Sound, Ids, Run, None
<1>2. s.pending # r
    BY <1>1 DEF Known, Current
<1>3. t = Announced(p, r)
    BY <1>2 DEF primeTerminalRun, Announced, Pending
<1>4. /\ v \in View /\ v.followed = s.followed /\ v.late = s.late /\ v.timer = s.timer
      /\ v.pending = r /\ v.meta = s.meta /\ v.summary = s.summary /\ v.last = s.last
      /\ v.finals = s.finals /\ v.history = s.history
    BY <1>1, NowPending
<1>5. Logged(v) /\ Known(v) \subseteq Known(s) \cup {None, r}
    BY <1>1, <1>4 DEF Logged, Known, Current
<1>6. \A i \in DOMAIN v.finals : v.finals[i] \in Known(s)
    BY <1>4 DEF Known
\* What the steps below need to know of the view in which r is announced.
<1> DEFINE Fit(u) ==
        /\ u \in View /\ Logged(u) /\ u.pending \in {r, None}
        /\ \A i \in DOMAIN u.finals : u.finals[i] \in Known(s)
        /\ u.followed \in {s.followed, r, None} /\ u.late = s.late
<1>7. Fit(v)
    BY <1>1, <1>4, <1>5, <1>6
<1>8. Fit(p)
    <2> PICK q : q = v.followed
        OBVIOUS
    <2> PICK code : code = Canceled
        OBVIOUS
    <2> PICK w : w = IF q \notin {None, r} THEN finalizeTerminalRun(v, q, code) ELSE v
        OBVIOUS
    <2>1. CASE ~ v.mounted
        BY <1>7, <2>1 DEF TrackWith
    <2>2. CASE v.mounted
        <3>1. p = Following(w, r)
            BY <2>2 DEF TrackWith, Following
        <3>2. Fit(w)
            <4>1. CASE q \in {None, r} \/ ~ IsCurrent(v, q)
                BY <1>7, <4>1, NotFinalizing
            <4>2. CASE q \notin {None, r} /\ IsCurrent(v, q)
                <5>1. q \in Current(s) /\ q \in Run /\ {v.meta, v.summary} \subseteq {q, None} /\ ~ Ended(s, q)
                    <6>1. q \in Current(s)
                        BY <1>4, <4>2 DEF IsCurrent, Current
                    <6> QED
                        BY <1>4, <6>1, OthersIdle
                <5>2. ~ Ended(v, q) /\ code \in Int /\ q \in Ids
                    BY <1>4, <5>1 DEF Ended, Canceled, Ids
                <5>3. w = finalizeTerminalRun(v, q, code)
                    BY <4>2
                <5>4. Over(v, w, q, code)
                    BY <1>4, <4>2, <5>1, <5>2, <5>3, Finalizing
                <5>5. Logged(w)
                    BY <1>4, <1>5, <5>1, <5>2, <5>4, OverLogged DEF Over
                <5>6. \A i \in DOMAIN w.finals : w.finals[i] \in Known(s)
                    <6>1. w.finals = Append(v.finals, q) /\ q \in Known(s)
                        BY <5>1, <5>4 DEF Over, Known
                    <6> QED
                        BY <1>4, <1>6, <5>2, <6>1, AppendedKnown
                <5> QED
                    BY <1>4, <5>4, <5>5, <5>6 DEF Over
            <4> QED
                BY <4>1, <4>2
        <3>3. /\ p \in View /\ p.followed = r /\ p.late = w.late
              /\ p.pending = w.pending /\ p.finals = w.finals /\ p.history = w.history
            BY <1>1, <3>1, <3>2, Followed
        <3>4. Logged(p)
            <4>1. Logged(w)
                BY <3>2
            <4> QED
                BY <3>3, <4>1 DEF Logged
        <3>5. \A i \in DOMAIN p.finals : p.finals[i] \in Known(s)
            BY <3>2, <3>3
        <3> QED
            BY <3>2, <3>3, <3>4, <3>5
    <2> QED
        BY <2>1, <2>2
<1>9. /\ t \in View /\ t.meta = r /\ t.summary = r /\ t.timer = r
      /\ t.output = <<>> /\ t.buffer = <<>> /\ t.last.run = None
      /\ t.pending = p.pending /\ t.followed = p.followed /\ t.late = p.late
      /\ t.finals = p.finals /\ t.history = p.history
    BY <1>3, <1>8, AnnouncedFields
<1>10. Current(t) = {r} /\ OneCurrent(t)
    BY <1>1, <1>8, <1>9 DEF Current, OneCurrent
<1>11. Open(t)
    BY <1>1, <1>8, <1>9, <1>10 DEF Open, Ended
<1>12. Logged(t)
    BY <1>8, <1>9 DEF Logged
<1>13. Known(t) \subseteq Known(s) \cup {None, r}
    BY <1>8, <1>9, <1>10 DEF Known
<1>14. Shown(t) = <<>>
    BY <1>9, EmptyTyped, ConcatEmptySeq DEF Shown
<1> QED
    BY <1>9, <1>10, <1>11, <1>12, <1>13, <1>14 DEF Sound

\* Closing the workspace clears the logs and what was shown, then the pending run.
Emptied(s) ==
    [s EXCEPT !.finals = <<>>, !.history = <<>>, !.output = <<>>,
              !.last = NoResult, !.summary = None, !.running = FALSE]

LEMMA CloseSteady ==
    ASSUME NEW s, Sound(s), NEW t, t = setPendingTerminalRunId(Emptied(s), None)
    PROVE  /\ Sound(t) /\ Known(t) \subseteq Known(s) \cup {None}
           /\ \A r \in Current(t) : r \in Current(s) /\ Shown(t) = s.buffer /\ t.pending # r
           /\ PartResult(s, t)
<1> PICK u : u = Emptied(s)
    OBVIOUS
<1>1. s \in View /\ s.buffer \in Seq(EventSet)
    BY DEF Sound, View
<1>2. NoResult \in [run : Ids, output : Seq(EventSet)] /\ NoResult.run = None
    BY EmptyTyped DEF NoResult, Ids
<1>3. /\ u \in View /\ u.pending = s.pending /\ u.meta = s.meta /\ u.summary = None
      /\ u.timer = s.timer /\ u.followed = s.followed /\ u.late = s.late
      /\ u.last.run = None /\ u.finals = <<>> /\ u.history = <<>>
      /\ u.output = <<>> /\ u.buffer = s.buffer
    <2> PICK result : result = NoResult
        OBVIOUS
    <2>1. u = [s EXCEPT !.finals = <<>>, !.history = <<>>, !.output = <<>>,
                        !.last = result, !.summary = None, !.running = FALSE]
        BY DEF Emptied
    <2>2. /\ None \in Ids /\ <<>> \in Seq(Ids) /\ <<>> \in Seq(Entry) /\ <<>> \in Seq(EventSet)
          /\ result \in [run : Ids, output : Seq(EventSet)] /\ result.run = None
        BY <1>2, EmptyTyped DEF Ids
    <2>3. u \in View
        BY <1>1, <2>1, <2>2 DEF View
    <2> QED
        BY <1>1, <2>1, <2>2, <2>3 DEF View
<1>4. Current(u) \subseteq Current(s)
    BY <1>3 DEF Current
<1>5. DOMAIN u.finals = {} /\ DOMAIN u.history = {}
    BY <1>3
<1>6. OneCurrent(u) /\ Logged(u) /\ (\A r \in Current(u) : ~ Ended(u, r))
    <2>1. OneCurrent(u)
        BY <1>4 DEF Sound, OneCurrent
    <2>2. Logged(u)
        BY <1>5 DEF Logged
    <2>3. \A r \in Current(u) : r # None
        BY DEF Current
    <2> QED
        BY <1>3, <1>5, <2>1, <2>2, <2>3 DEF Ended
<1>7. Known(u) \subseteq Known(s)
    BY <1>3, <1>4, <1>5 DEF Known
<1>8. /\ t \in View /\ Logged(t) /\ t.pending = None /\ Known(t) \subseteq Known(u) \cup {None}
      /\ \/ /\ t.meta = u.meta /\ t.summary = u.summary
            /\ t.last = u.last /\ t.finals = u.finals
            /\ t.output = u.output /\ t.buffer = u.buffer
         \/ Current(t) = {}
      /\ ShownResult(u, t)
    BY <1>3, <1>6, SetPendingNone
<1>9. Current(t) \subseteq Current(u)
    BY <1>8 DEF Current
<1>10. Open(t) /\ OneCurrent(t)
    BY <1>6, <1>8, <1>9 DEF Open, OneCurrent, Ended
<1>11. Current(t) # {} => Shown(t) = s.buffer
    <2>1. <<>> \o s.buffer = s.buffer
        BY <1>1, ConcatEmptySeq
    <2>2. Current(t) # {} => t.output = <<>> /\ t.buffer = s.buffer
        BY <1>3, <1>8
    <2> QED
        BY <2>1, <2>2 DEF Shown
<1>12. PartResult(s, t)
    <2>1. Shown(u) = s.buffer
        <3>1. <<>> \o s.buffer = s.buffer
            BY <1>1, ConcatEmptySeq
        <3> QED
            BY <1>3, <3>1 DEF Shown
    <2> QED
        BY <1>3, <1>4, <1>8, <2>1 DEF ShownResult, PartResult
<1>13. PartResult(s, t) /\ Known(t) \subseteq Known(s) \cup {None}
    BY <1>7, <1>8, <1>12
<1> QED
    BY <1>4, <1>8, <1>9, <1>10, <1>11, <1>13 DEF Sound, Current

-------------------------------------------------------------------------------
(* An event arrives on the bus and at the panel                               *)

LEMMA ConcatAppend ==
    ASSUME NEW q \in Seq(EventSet), NEW p \in Seq(EventSet), NEW e \in EventSet
    PROVE  q \o Append(p, e) = Append(q \o p, e)
<1>1. <<e>> \in Seq(EventSet) /\ q \o p \in Seq(EventSet)
    BY ConcatProperties
<1>2. Append(p, e) = p \o <<e>> /\ Append(q \o p, e) = (q \o p) \o <<e>>
    BY <1>1, AppendIsConcat
<1>3. q \o (p \o <<e>>) = (q \o p) \o <<e>>
    BY <1>1, ConcatAssociative
<1> QED
    BY <1>2, <1>3

LEMMA BusSteady ==
    ASSUME NEW s, Sound(s), NEW e \in EventSet, e.type # "chunk",
           NEW t, t = OnBus(s, e)
    PROVE  Steady(s, t, e.run)
<1>0. e.n \in Int /\ s \in View
    BY DEF EventSet, Sound
<1>1. CASE e.type = "completed"
    <2>1. t = finalizeTerminalRun(s, e.run, e.n)
        BY <1>1 DEF OnBus
    <2>2. Steady(s, t, None)
        BY <1>0, <2>1, FinalizeSteady
    <2> QED
        BY <2>2, SteadyMore
<1>2. CASE e.type = "exited"
    <2> PICK u : u = [s EXCEPT !.ensured = FALSE]
        OBVIOUS
    <2>1. t = finalizeTerminalRun(u, getCurrentTerminalRunId(s), e.n)
        BY <1>2 DEF OnBus
    <2>2. /\ u \in View /\ u.pending = s.pending /\ u.meta = s.meta /\ u.summary = s.summary
          /\ u.timer = s.timer /\ u.followed = s.followed /\ u.late = s.late
          /\ u.finals = s.finals /\ u.history = s.history /\ u.last = s.last
          /\ u.output = s.output /\ u.buffer = s.buffer
        BY <1>0 DEF View
    <2>3. Shown(u) = Shown(s) /\ {u.meta, u.summary} \subseteq Current(s) \cup {None}
        BY <2>2 DEF Shown, Current
    <2>4. Steady(s, u, e.run)
        BY <2>2, <2>3, SteadyFields
    <2>5. Sound(u)
        BY <2>4 DEF Steady
    <2>6. Steady(u, t, None)
        BY <1>0, <2>1, <2>5, FinalizeSteady
    <2> QED
        BY <2>4, <2>6, SteadyMore, SteadyTwice
<1>3. CASE e.type \notin {"completed", "exited"}
    <2>1. t = s
        BY <1>3 DEF OnBus
    <2> QED
        BY <2>1, SteadySelf
<1> QED
    BY <1>1, <1>2, <1>3

LEMMA BusChunk ==
    ASSUME NEW s, Sound(s), NEW e \in EventSet, e.type = "chunk",
           NEW t, t = OnBus(s, e)
    PROVE  /\ Sound(t) /\ Known(t) = Known(s)
           /\ Current(t) = Current(s) /\ t.pending = s.pending /\ t.last = s.last
           /\ Shown(t) = IF e.run \in Current(s) THEN Append(Shown(s), e) ELSE Shown(s)
<1>1. s \in View /\ s.output \in Seq(EventSet) /\ s.buffer \in Seq(EventSet)
    BY DEF Sound, View
<1>2. CASE ~ IsCurrent(s, e.run)
    <2>1. t = s
        BY <1>2 DEF OnBus
    <2> QED
        BY <1>1, <1>2, <2>1, CurrentIs
<1>3. CASE IsCurrent(s, e.run)
    <2> PICK buffer : buffer = Append(s.buffer, e)
        OBVIOUS
    <2>1. t = [s EXCEPT !.buffer = buffer]
        BY <1>3 DEF OnBus
    <2>2. buffer \in Seq(EventSet)
        BY <1>1, AppendProperties
    <2>3. /\ t \in View /\ t.pending = s.pending /\ t.meta = s.meta /\ t.summary = s.summary
          /\ t.timer = s.timer /\ t.followed = s.followed /\ t.late = s.late
          /\ t.finals = s.finals /\ t.history = s.history /\ t.last = s.last
          /\ t.output = s.output /\ t.buffer = buffer
        BY <1>1, <2>1, <2>2 DEF View
    <2>4. Current(t) = Current(s)
        BY <2>3 DEF Current
    <2>5. Known(t) = Known(s)
        BY <2>3, <2>4 DEF Known
    <2>6. OneCurrent(t) /\ Open(t) /\ Logged(t)
        BY <2>3, <2>4 DEF Sound, OneCurrent, Open, Ended, Logged
    <2>7. Shown(t) = Append(Shown(s), e)
        <3>1. s.output \o Append(s.buffer, e) = Append(s.output \o s.buffer, e)
            BY <1>1, ConcatAppend
        <3> QED
            BY <2>3, <3>1 DEF Shown
    <2>8. e.run \in Current(s)
        BY <1>1, <1>3, CurrentIs
    <2> QED
        BY <2>3, <2>4, <2>5, <2>6, <2>7, <2>8 DEF Sound
<1> QED
    BY <1>2, <1>3

\* The panel forgets the run it follows, or keeps its completion for later.
Unheard(s, f, more, c) ==
    [s EXCEPT !.followed = f, !.late = @ \cup more, !.connected = c]

Alike(s, t) == t.history = s.history /\ Shown(t) = Shown(s) /\ Current(t) = Current(s)

LEMMA UnheardSteady ==
    ASSUME NEW s, Sound(s), NEW f \in {s.followed, None}, NEW more \in SUBSET EventSet,
           NEW c \in BOOLEAN, NEW x, \A e \in more : e.run = x,
           NEW t, t = Unheard(s, f, more, c)
    PROVE  Steady(s, t, x) /\ Alike(s, t)
<1>0. s \in View /\ s.late \in SUBSET EventSet /\ f \in Ids
    BY DEF Sound, View, Ids
<1> PICK late : late = s.late \cup more
    OBVIOUS
<1>1. t = [s EXCEPT !.followed = f, !.late = late, !.connected = c]
    BY DEF Unheard
<1>2. late \in SUBSET EventSet
    BY <1>0
<1>3. /\ t \in View /\ t.pending = s.pending /\ t.meta = s.meta /\ t.summary = s.summary
      /\ t.timer = s.timer /\ t.followed = f /\ t.late = late
      /\ t.finals = s.finals /\ t.history = s.history /\ t.last = s.last
      /\ t.output = s.output /\ t.buffer = s.buffer
    BY <1>0, <1>1, <1>2 DEF View
<1>4. /\ Shown(t) = Shown(s) /\ {t.meta, t.summary} \subseteq Current(s) \cup {None}
      /\ Current(t) = Current(s)
    BY <1>3 DEF Shown, Current
<1>5. \A e \in t.late : e \in s.late \/ e.run = x
    BY <1>3
<1>6. Steady(s, t, x)
    BY <1>3, <1>4, <1>5, SteadyFields
<1> QED
    BY <1>3, <1>4, <1>6 DEF Alike

LEMMA PanelSteady ==
    ASSUME NEW s, Sound(s), NEW e \in EventSet, NEW t, t = OnPanel(s, e)
    PROVE  Steady(s, t, e.run)
<1>0. e.n \in Int /\ s \in View /\ s.connected \in BOOLEAN /\ s.late \in SUBSET EventSet
    BY DEF EventSet, Sound, View
<1>1. CASE e.type = "completed" /\ s.visible
    <2>1. PICK f \in {s.followed, None} : f = IF s.followed = e.run THEN None ELSE s.followed
        OBVIOUS
    <2> PICK more : more = {e}
        OBVIOUS
    <2>2. t = Unheard(s, f, more, s.connected)
        BY <1>0, <1>1, <2>1 DEF OnPanel, Unheard, View
    <2> QED
        BY <1>0, <2>2, UnheardSteady
<1>2. CASE e.type = "completed" /\ ~ s.visible
    <2>1. PICK f \in {s.followed, None} : f = IF s.followed = e.run THEN None ELSE s.followed
        OBVIOUS
    <2> PICK u : u = Unheard(s, f, {}, s.connected)
        OBVIOUS
    <2>2. t = finalizeTerminalRun(u, e.run, e.n)
        <3>1. u = [s EXCEPT !.followed = IF @ = e.run THEN None ELSE @]
            BY <1>0, <2>1 DEF Unheard, View
        <3> QED
            BY <1>2, <3>1 DEF OnPanel
    <2>3. Steady(s, u, e.run)
        BY <1>0, UnheardSteady
    <2>4. Sound(u)
        BY <2>3 DEF Steady
    <2>5. Steady(u, t, None)
        BY <1>0, <2>2, <2>4, FinalizeSteady
    <2> QED
        BY <2>3, <2>5, SteadyMore, SteadyTwice
<1>3. CASE e.type = "exited"
    <2>0. PICK u : u = IF s.followed = None THEN s ELSE finalizeTerminalRun(s, s.followed, e.n)
        OBVIOUS
    <2>1. Steady(s, u, e.run)
        <3>1. Steady(s, s, None)
            BY SteadySelf
        <3>2. \A q : Steady(s, finalizeTerminalRun(s, q, e.n), None)
            BY <1>0, FinalizeSteady
        <3> QED
            BY <2>0, <3>1, <3>2, SteadyMore
    <2>2. Sound(u)
        BY <2>1 DEF Steady
    <2>3. t = Unheard(u, None, {}, FALSE)
        <3>1. t = [u EXCEPT !.followed = None, !.connected = FALSE]
            BY <1>3, <2>0 DEF OnPanel
        <3>2. u \in View /\ u.late \in SUBSET EventSet
            BY <2>2 DEF Sound, View
        <3> QED
            BY <3>1, <3>2 DEF Unheard, View
    <2>4. Steady(u, t, e.run)
        BY <2>2, <2>3, UnheardSteady
    <2> QED
        BY <2>1, <2>4, SteadyTwice
<1>4. CASE e.type = "idle"
    <2>1. t = Unheard(s, None, {}, s.connected)
        BY <1>0, <1>4 DEF OnPanel, Unheard, View
    <2> QED
        BY <1>0, <2>1, UnheardSteady
<1>5. CASE e.type \notin {"completed", "exited", "idle"}
    <2>1. t = s
        BY <1>5 DEF OnPanel
    <2> QED
        BY <2>1, SteadySelf
<1> QED
    BY <1>1, <1>2, <1>3, <1>4, <1>5

\* The listeners of one event, in either order.
AtPanel(s, e) == IF s.attached THEN OnPanel(s, e) ELSE s

LEMMA AtPanelSteady ==
    ASSUME NEW s, Sound(s), NEW e \in EventSet, NEW t, t = AtPanel(s, e)
    PROVE  Steady(s, t, e.run)
<1>1. CASE s.attached
    BY <1>1, PanelSteady DEF AtPanel
<1>2. CASE ~ s.attached
    BY <1>2, SteadySelf DEF AtPanel
<1> QED
    BY <1>1, <1>2

LEMMA DeliveredSteady ==
    ASSUME NEW s, Sound(s), NEW e \in EventSet, e.type # "chunk",
           NEW t, t = OnBus(AtPanel(s, e), e) \/ t = AtPanel(OnBus(s, e), e)
    PROVE  Steady(s, t, e.run)
<1> PICK x : x = AtPanel(s, e)
    OBVIOUS
<1> PICK y : y = OnBus(s, e)
    OBVIOUS
<1>1. Steady(s, x, e.run) /\ Steady(s, y, e.run)
    BY AtPanelSteady, BusSteady
<1>2. Sound(x) /\ Sound(y)
    BY <1>1 DEF Steady
<1>3. CASE t = OnBus(x, e)
    <2>1. Steady(x, t, e.run)
        BY <1>2, <1>3, BusSteady
    <2> QED
        BY <1>1, <2>1, SteadyTwice
<1>4. CASE t = AtPanel(y, e)
    <2>1. Steady(y, t, e.run)
        BY <1>2, <1>4, AtPanelSteady
    <2> QED
        BY <1>1, <2>1, SteadyTwice
<1> QED
    BY <1>3, <1>4

LEMMA DeliveredChunk ==
    ASSUME NEW s, Sound(s), NEW e \in EventSet, e.type = "chunk",
           NEW t, t = OnBus(AtPanel(s, e), e) \/ t = AtPanel(OnBus(s, e), e)
    PROVE  t = OnBus(s, e)
<1>1. \A u : AtPanel(u, e) = u
    BY DEF AtPanel, OnPanel
<1> QED
    BY <1>1

\* The history and the result have the run that ended, with what was shown of it.
Recording(s, t, r, code) ==
    /\ t.history = Append(s.history, [run |-> r, code |-> code])
    /\ t.last.output = Shown(s)

LEMMA FinalizeRecords ==
    ASSUME NEW s, Sound(s), NEW r \in Current(s), NEW code \in Int,
           NEW t, t = finalizeTerminalRun(s, r, code)
    PROVE  Sound(t) /\ Current(t) = {} /\ Recording(s, t, r, code)
<1>1. s \in View /\ Logged(s) /\ IsCurrent(s, r) /\ r \in Known(s)
    BY CurrentIs DEF Sound, Known
<1>2. r \in Run /\ {s.meta, s.summary} \subseteq {r, None} /\ ~ Ended(s, r)
    BY OthersIdle
<1>3. Over(s, t, r, code)
    BY <1>1, <1>2, Finalizing
<1>4. Sound(t) /\ Current(t) = {}
    BY <1>1, <1>2, <1>3, OverSteady
<1>5. Recording(s, t, r, code)
    BY <1>3 DEF Over, Recording, Result, HistoryWith
<1> QED
    BY <1>4, <1>5

\* The completion of the current run is recorded, whoever is told first.
LEMMA DeliveredRecords ==
    ASSUME NEW s, Sound(s), NEW e \in EventSet, e.type = "completed", e.run \in Current(s),
           NEW t, t = OnBus(AtPanel(s, e), e) \/ t = AtPanel(OnBus(s, e), e)
    PROVE  Recording(s, t, e.run, e.n)
<1> PICK r : r = e.run
    OBVIOUS
<1> PICK code : code = e.n
    OBVIOUS
<1>0. code \in Int /\ s \in View /\ s.connected \in BOOLEAN /\ s.late \in SUBSET EventSet /\ r \in Current(s)
    BY DEF EventSet, Sound, View
<1>1. PICK f \in {s.followed, None} : f = IF s.followed = r THEN None ELSE s.followed
    OBVIOUS
\* Once nothing is current, neither the bus nor the panel records anything more.
<1>2. ASSUME NEW u, Sound(u), Current(u) = {}
      PROVE  OnBus(u, e) = u /\ AtPanel(u, e).history = u.history /\ AtPanel(u, e).last = u.last
    <2>0. u \in View /\ ~ IsCurrent(u, r)
        BY <1>2, CurrentIs DEF Sound
    <2>1. OnBus(u, e) = u
        BY <2>0, NotFinalizing DEF OnBus
    <2> PICK v : v = [u EXCEPT !.followed = IF @ = r THEN None ELSE @]
        OBVIOUS
    <2>2. v.pending = u.pending /\ v.meta = u.meta /\ v.summary = u.summary
          /\ v.history = u.history /\ v.last = u.last
        BY <2>0 DEF View
    <2>3. ~ IsCurrent(v, r)
        BY <2>0, <2>2 DEF IsCurrent
    <2>4. finalizeTerminalRun(v, r, code) = v
        BY <2>3, NotFinalizing
    <2> PICK w : w = [v EXCEPT !.late = @ \cup {e}]
        OBVIOUS
    <2>5. w.history = v.history /\ w.last = v.last
        BY <2>0 DEF View
    <2>6. OnPanel(u, e) \in {v, w}
        BY <2>4 DEF OnPanel
    <2> QED
        BY <2>1, <2>2, <2>5, <2>6 DEF AtPanel
<1>3. CASE t = AtPanel(OnBus(s, e), e)
    <2> PICK u : u = OnBus(s, e)
        OBVIOUS
    <2>1. u = finalizeTerminalRun(s, r, code)
        BY DEF OnBus
    <2>2. Sound(u) /\ Current(u) = {} /\ Recording(s, u, r, code)
        BY <1>0, <2>1, FinalizeRecords
    <2> QED
        BY <1>2, <1>3, <2>2 DEF Recording
<1>4. CASE t = OnBus(AtPanel(s, e), e)
    <2> PICK x : x = AtPanel(s, e)
        OBVIOUS
    <2>1. CASE s.attached /\ ~ s.visible
        <3> PICK u : u = Unheard(s, f, {}, s.connected)
            OBVIOUS
        <3>1. x = finalizeTerminalRun(u, r, code)
            <4>1. u = [s EXCEPT !.followed = IF @ = r THEN None ELSE @]
                BY <1>0, <1>1 DEF Unheard, View
            <4> QED
                BY <2>1, <4>1 DEF AtPanel, OnPanel
        <3>2. Steady(s, u, r) /\ Alike(s, u)
            BY <1>0, UnheardSteady
        <3>3. Sound(u)
            BY <3>2 DEF Steady
        <3>4. Sound(x) /\ Current(x) = {} /\ Recording(u, x, r, code)
            BY <1>0, <3>1, <3>2, <3>3, FinalizeRecords DEF Alike
        <3> QED
            BY <1>2, <1>4, <3>2, <3>4 DEF Recording, Alike
    <2>2. CASE ~ (s.attached /\ ~ s.visible)
        <3>1. Sound(x) /\ Alike(s, x)
            <4>1. CASE ~ s.attached
                BY <4>1 DEF AtPanel, Alike
            <4>2. CASE s.attached /\ s.visible
                <5> PICK more : more = {e}
                    OBVIOUS
                <5>1. x = Unheard(s, f, more, s.connected)
                    BY <1>0, <1>1, <4>2 DEF AtPanel, OnPanel, Unheard, View
                <5>2. Steady(s, x, r) /\ Alike(s, x)
                    BY <1>0, <5>1, UnheardSteady
                <5> QED
                    BY <5>2 DEF Steady
            <4> QED
                BY <2>2, <4>1, <4>2
        <3>2. t = finalizeTerminalRun(x, r, code)
            BY <1>4 DEF OnBus
        <3>3. Recording(x, t, r, code)
            BY <1>0, <3>1, <3>2, FinalizeRecords DEF Alike
        <3> QED
            BY <3>1, <3>3 DEF Recording, Alike
    <2> QED
        BY <2>1, <2>2
<1> QED
    BY <1>3, <1>4

-------------------------------------------------------------------------------
(* Events are sent                                                            *)

\* p is q with events after it, of which none is of run r.
Extends(q, p) ==
    /\ q \in Seq(EventSet) /\ p \in Seq(EventSet) /\ Len(q) <= Len(p)
    /\ \A i \in DOMAIN q : i \in DOMAIN p /\ p[i] = q[i]

Beside(q, p, r) == Extends(q, p) /\ \A i \in DOMAIN p \ DOMAIN q : p[i].run # r

\* p is q with events after it, of which event k is the only one of run r.
With(q, p, r, k) ==
    /\ Extends(q, p) /\ k \in DOMAIN p \ DOMAIN q /\ p[k].run = r
    /\ \A i \in DOMAIN p \ DOMAIN q : p[i].run = r => i = k

\* p is q with the events of new after it.
Adding(q, new, p) ==
    /\ Extends(q, p) /\ DOMAIN q = 1 .. Len(q) /\ Len(q) \in Nat
    /\ DOMAIN p = 1 .. Len(q) + Len(new)
    /\ \A i \in DOMAIN p \ DOMAIN q : i - Len(q) \in 1 .. Len(new) /\ p[i] = new[i - Len(q)]

LEMMA SentAre ==
    ASSUME NEW q \in Seq(EventSet), NEW new \in Seq(EventSet), NEW p, p = q \o new
    PROVE  Adding(q, new, p)
<1>1. /\ p \in Seq(EventSet) /\ Len(p) = Len(q) + Len(new)
      /\ \A i \in 1 .. Len(q) + Len(new) : p[i] = IF i <= Len(q) THEN q[i] ELSE new[i - Len(q)]
    BY ConcatProperties
<1>2. Len(q) \in Nat /\ Len(new) \in Nat /\ DOMAIN q = 1 .. Len(q) /\ DOMAIN p = 1 .. Len(p)
    BY <1>1
<1> QED
    BY <1>1, <1>2 DEF Adding, Extends

LEMMA BesideOrdered ==
    ASSUME NEW q, NEW p, NEW r, Beside(q, p, r), NEW phase, NEW n, NEW over,
           Ordered(q, phase, n, over, r)
    PROVE  Ordered(p, phase, n, over, r)
<1>1. \A i \in DOMAIN p : p[i].run = r => i \in DOMAIN q /\ p[i] = q[i]
    BY DEF Beside, Extends
<1>2. \A i \in DOMAIN q, j \in DOMAIN p : i < j /\ p[j].run = r => j \in DOMAIN q
    BY <1>1
<1> QED
    BY <1>1 DEF Ordered

LEMMA BesideStarted ==
    ASSUME NEW q, NEW p, NEW r, Beside(q, p, r), NEW phase, NEW f, Started(q, phase, f, r)
    PROVE  Started(p, phase, f, r)
<1>1. \A i \in DOMAIN p : p[i].run = r => i \in DOMAIN q /\ p[i] = q[i]
    BY DEF Beside, Extends
<1> QED
    BY <1>1 DEF Started

LEMMA BesideOnTheWay ==
    ASSUME NEW q, NEW p, NEW r, Beside(q, p, r), NEW m, NEW n, OnTheWay(q, r, m, n)
    PROVE  OnTheWay(p, r, m, n)
<1>1. \A i \in DOMAIN p : p[i].run = r => i \in DOMAIN q /\ p[i] = q[i]
    BY DEF Beside, Extends
<1>2. \A i \in DOMAIN q : i \in DOMAIN p /\ p[i] = q[i]
    BY DEF Beside, Extends
<1>3. \A k \in m + 1 .. n : \E i \in DOMAIN p : p[i] = Event("chunk", r, k)
    BY <1>2 DEF OnTheWay
<1> QED
    BY <1>1, <1>3 DEF OnTheWay

\* The event that is new comes last of its run.
LEMMA WithLast ==
    ASSUME NEW q, NEW p, NEW r, NEW k, With(q, p, r, k)
    PROVE  /\ \A i \in DOMAIN p : p[i].run = r => i = k \/ (i \in DOMAIN q /\ p[i] = q[i] /\ i < k)
           /\ \A i \in DOMAIN q : i \in DOMAIN p /\ p[i] = q[i]
           /\ k \in DOMAIN p /\ p[k].run = r /\ k \in Nat /\ DOMAIN p \subseteq Nat
<1>1. DOMAIN q = 1 .. Len(q) /\ DOMAIN p = 1 .. Len(p) /\ Len(q) \in Nat /\ Len(p) \in Nat
    BY DEF With, Extends
<1> QED
    BY <1>1 DEF With, Extends

LEMMA StartedEvent ==
    ASSUME NEW q, NEW p, NEW r \in Run, NEW k, With(q, p, r, k), p[k].type = "started",
           NEW n, NEW over, NEW f,
           Ordered(q, "sent", n, over, r), Started(q, "sent", f, r)
    PROVE  Ordered(p, "started", n, over, r) /\ Started(p, "started", f, r)
<1>1. /\ \A i \in DOMAIN p : p[i].run = r => i = k \/ (i \in DOMAIN q /\ p[i] = q[i] /\ i < k)
      /\ \A i \in DOMAIN q : i \in DOMAIN p /\ p[i] = q[i]
      /\ k \in DOMAIN p /\ p[k].run = r /\ k \in Nat /\ DOMAIN p \subseteq Nat
    BY WithLast
<1>2. r \notin over /\ \A i \in DOMAIN p : p[i].type = "completed" => p[i].run # r
    BY <1>1 DEF Ordered
<1>3. Ordered(p, "started", n, over, r)
    BY <1>2 DEF Ordered
<1>4. f.starts[r] = 0 /\ r \notin f.started /\ \A i \in DOMAIN q : q[i].type = "started" => q[i].run # r
    BY DEF Started
<1>5. \A i \in DOMAIN p : p[i].type = "started" /\ p[i].run = r => i = k
    BY <1>1, <1>4
<1>6. Started(p, "started", f, r)
    BY <1>4, <1>5 DEF Started
<1> QED
    BY <1>3, <1>6

LEMMA CompletedEvent ==
    ASSUME NEW q, NEW p, NEW r \in Run, NEW k, With(q, p, r, k), p[k].type = "completed",
           NEW phase \in {"sent", "started"}, NEW n, NEW over, NEW f,
           Ordered(q, phase, n, over, r), Started(q, phase, f, r)
    PROVE  Ordered(p, "ended", n, over, r) /\ Started(p, "ended", f, r)
<1>1. /\ \A i \in DOMAIN p : p[i].run = r => i = k \/ (i \in DOMAIN q /\ p[i] = q[i] /\ i < k)
      /\ \A i \in DOMAIN q : i \in DOMAIN p /\ p[i] = q[i]
      /\ k \in DOMAIN p /\ p[k].run = r /\ k \in Nat /\ DOMAIN p \subseteq Nat
    BY WithLast
<1>2. r \notin over /\ \A i \in DOMAIN q : q[i].type = "completed" => q[i].run # r
    BY DEF Ordered
<1>3. \A i, j \in DOMAIN p : i < j /\ p[i].type = "completed" /\ p[i].run = r => p[j].run # r
    <2> SUFFICES ASSUME NEW i \in DOMAIN p, NEW j \in DOMAIN p, i < j,
                        p[i].type = "completed", p[i].run = r, p[j].run = r
                 PROVE  FALSE
        OBVIOUS
    <2>1. i = k
        BY <1>1, <1>2
    <2>2. j = k \/ j < k
        BY <1>1
    <2> QED
        BY <1>1, <2>1, <2>2
<1>4. Ordered(p, "ended", n, over, r)
    BY <1>2, <1>3 DEF Ordered
<1>5. \A i \in DOMAIN p : p[i].type = "started" /\ p[i].run = r => i \in DOMAIN q /\ p[i] = q[i]
    BY <1>1
<1>6. Started(p, "ended", f, r)
    BY <1>5 DEF Started
<1> QED
    BY <1>4, <1>6

LEMMA ChunkEvent ==
    ASSUME NEW q, NEW p, NEW r \in Run, NEW k, With(q, p, r, k),
           NEW n \in Nat, NEW m \in 0 .. n, p[k] = Event("chunk", r, n + 1),
           NEW phase \in {"sent", "started"}, NEW over, NEW f,
           Ordered(q, phase, n, over, r), Started(q, phase, f, r), OnTheWay(q, r, m, n)
    PROVE  /\ Ordered(p, phase, n + 1, over, r) /\ Started(p, phase, f, r)
           /\ OnTheWay(p, r, m, n + 1)
<1>1. /\ \A i \in DOMAIN p : p[i].run = r => i = k \/ (i \in DOMAIN q /\ p[i] = q[i] /\ i < k)
      /\ \A i \in DOMAIN q : i \in DOMAIN p /\ p[i] = q[i]
      /\ k \in DOMAIN p /\ p[k].run = r /\ k \in Nat /\ DOMAIN p \subseteq Nat
    BY WithLast
<1>2. p[k].type = "chunk" /\ p[k].n = n + 1
    BY DEF Event
<1>3. r \notin over /\ \A i \in DOMAIN p : p[i].type = "completed" => p[i].run # r
    BY <1>1, <1>2 DEF Ordered
<1>4. Ordered(p, phase, n + 1, over, r)
    BY <1>3 DEF Ordered
<1>5. \A i \in DOMAIN p : p[i].type = "started" /\ p[i].run = r => i \in DOMAIN q /\ p[i] = q[i]
    BY <1>1, <1>2
<1>6. Started(p, phase, f, r)
    BY <1>5 DEF Started
<1>7. \A x \in m + 1 .. n + 1 : \E i \in DOMAIN p : p[i] = Event("chunk", r, x)
    <2> TAKE x \in m + 1 .. n + 1
    <2>1. CASE x = n + 1
        BY <1>1, <2>1
    <2>2. CASE x # n + 1
        <3>1. PICK i \in DOMAIN q : q[i] = Event("chunk", r, x)
            BY <2>2 DEF OnTheWay
        <3> QED
            BY <1>1, <3>1
    <2> QED
        BY <2>1, <2>2
<1>8. ASSUME NEW i \in DOMAIN p, p[i].type = "chunk", p[i].run = r
      PROVE  /\ p[i].n \in m + 1 .. n + 1 /\ p[i] = Event("chunk", r, p[i].n)
             /\ \A j \in DOMAIN p : p[j].type = "chunk" /\ p[j].run = r /\ i < j => p[i].n < p[j].n
    <2>1. CASE i = k
        <3>1. p[i].n \in m + 1 .. n + 1 /\ p[i] = Event("chunk", r, p[i].n)
            BY <1>2, <2>1
        <3>2. \A j \in DOMAIN p : ~ (p[j].run = r /\ i < j)
            BY <1>1, <2>1
        <3> QED
            BY <3>1, <3>2
    <2>2. CASE i \in DOMAIN q /\ p[i] = q[i]
        <3>1. q[i].n \in m + 1 .. n /\ q[i] = Event("chunk", r, q[i].n)
            BY <1>8, <2>2 DEF OnTheWay
        <3>2. ASSUME NEW j \in DOMAIN p, p[j].type = "chunk", p[j].run = r, i < j
              PROVE  p[i].n < p[j].n
            <4>1. CASE j = k
                BY <1>2, <2>2, <3>1, <4>1
            <4>2. CASE j \in DOMAIN q /\ p[j] = q[j]
                BY <1>8, <2>2, <3>2, <4>2 DEF OnTheWay
            <4> QED
                BY <1>1, <3>2, <4>1, <4>2
        <3> QED
            BY <2>2, <3>1, <3>2
    <2> QED
        BY <1>1, <1>8, <2>1, <2>2
<1>9. OnTheWay(p, r, m, n + 1)
    BY <1>7, <1>8 DEF OnTheWay
<1> QED
    BY <1>4, <1>6, <1>9

\* Other events of a run say nothing of its chunks.
LEMMA WithOnTheWay ==
    ASSUME NEW q, NEW p, NEW r \in Run, NEW k, With(q, p, r, k), p[k].type # "chunk",
           NEW m, NEW n, OnTheWay(q, r, m, n)
    PROVE  OnTheWay(p, r, m, n)
<1>1. /\ \A i \in DOMAIN p : p[i].run = r => i = k \/ (i \in DOMAIN q /\ p[i] = q[i] /\ i < k)
      /\ \A i \in DOMAIN q : i \in DOMAIN p /\ p[i] = q[i]
    BY WithLast
<1>2. \A x \in m + 1 .. n : \E i \in DOMAIN p : p[i] = Event("chunk", r, x)
    BY <1>1 DEF OnTheWay
<1>3. \A i \in DOMAIN p : p[i].type = "chunk" /\ p[i].run = r => i \in DOMAIN q /\ p[i] = q[i]
    BY <1>1
<1> QED
    BY <1>2, <1>3 DEF OnTheWay

-------------------------------------------------------------------------------
(* An event is taken off                                                      *)

Rest(q, p) ==
    /\ 1 \in DOMAIN q /\ DOMAIN q \subseteq Nat \ {0} /\ DOMAIN p \subseteq Nat \ {0}
    /\ \A i \in DOMAIN p : i + 1 \in DOMAIN q /\ p[i] = q[i + 1]
    /\ \A i \in DOMAIN q : i # 1 => i - 1 \in DOMAIN p

LEMMA TailIsRest ==
    ASSUME NEW q \in Seq(EventSet), q # <<>>, NEW p, p = Tail(q)
    PROVE  Rest(q, p) /\ Head(q) = q[1] /\ p \in Seq(EventSet) /\ q[1] \in EventSet
<1>1. /\ p \in Seq(EventSet) /\ Len(p) = Len(q) - 1 /\ \A i \in 1 .. Len(p) : p[i] = q[i + 1]
      /\ Head(q) \in EventSet
    BY HeadTailProperties
<1>2. Len(q) \in Nat \ {0} /\ DOMAIN q = 1 .. Len(q) /\ DOMAIN p = 1 .. Len(p)
    BY <1>1, EmptySeq
<1>3. Head(q) = q[1]
    OBVIOUS
<1> QED
    BY <1>1, <1>2, <1>3 DEF Rest

LEMMA RestOrdered ==
    ASSUME NEW q, NEW p, Rest(q, p), NEW r \in Run, NEW phase, NEW n, NEW over, NEW after,
           \/ after = over
           \/ q[1].type = "completed" /\ after = over \cup {q[1].run},
           Ordered(q, phase, n, over, r)
    PROVE  Ordered(p, phase, n, after, r)
<1>1. phase = "none" => n = 0 /\ \A i \in DOMAIN p : p[i].run # r
    BY DEF Ordered, Rest
<1>2. phase \notin {"ended", "gone"} =>
          r \notin after /\ \A i \in DOMAIN p : p[i].type = "completed" => p[i].run # r
    BY DEF Ordered, Rest
<1>3. ASSUME NEW i \in DOMAIN p, NEW j \in DOMAIN p, i < j, p[i].type = "completed", p[i].run = r
      PROVE  p[j].run # r
    <2>1. i + 1 \in DOMAIN q /\ j + 1 \in DOMAIN q /\ i + 1 < j + 1 /\ p[i] = q[i + 1] /\ p[j] = q[j + 1]
        BY <1>3 DEF Rest
    <2> QED
        BY <1>3, <2>1 DEF Ordered
<1>4. ASSUME r \in after, NEW i \in DOMAIN p
      PROVE  p[i].run # r
    <2>1. i + 1 \in DOMAIN q /\ 1 \in DOMAIN q /\ 1 < i + 1 /\ p[i] = q[i + 1]
        BY <1>4 DEF Rest
    <2>2. CASE r \in over
        BY <2>1, <2>2 DEF Ordered
    <2>3. CASE q[1].type = "completed" /\ q[1].run = r
        BY <2>1, <2>3 DEF Ordered
    <2> QED
        BY <1>4, <2>2, <2>3
<1> QED
    BY <1>1, <1>2, <1>3, <1>4 DEF Ordered

Counts(f, g, r) == g.starts = [f.starts EXCEPT ![r] = @ + 1]

\* The facade counts a start, keeps it for an answer still to come, or forgets it with
\* its run.
LEMMA FacadeTyped ==
    ASSUME NEW f \in Facade, NEW e \in EventSet, NEW g, g = OnFacade(f, e)
    PROVE  /\ g \in Facade
           /\ \/ g.completed = f.completed
              \/ e.type = "completed" /\ g.completed = f.completed \cup {e.run}
           /\ e.type = "completed" => g.started \subseteq f.started \ {e.run} /\ g.starts = f.starts
           /\ e.type = "started" /\ e.run \in f.handles =>
                 /\ g.started = f.started \ {e.run}
                 /\ Counts(f, g, e.run)
           /\ e.type = "started" /\ e.run \notin f.handles =>
                 g.started = f.started \cup {e.run} /\ g.starts = f.starts
           /\ e.type \notin {"started", "completed"} => g = f
           /\ g.active \in {f.active, None} \/ (e.type = "started" /\ g.active = e.run)
           /\ e.type = "completed" => g.active # e.run
<1>1. e.type \in {"started", "completed"} => e.run \in Run /\ e.run # None
    BY DEF EventSet, Run, None
<1>2. CASE e.type = "started" /\ e.run \in f.handles
    <2>1. g = [f EXCEPT !.active = e.run, !.started = @ \ {e.run}, !.starts[e.run] = @ + 1]
        BY <1>2 DEF OnFacade, Activate
    <2> PICK starts : starts = [f.starts EXCEPT ![e.run] = @ + 1]
        OBVIOUS
    <2>2. starts \in [Run -> Nat]
        BY <1>1, <1>2 DEF Facade
    <2>3. g = [f EXCEPT !.active = e.run, !.started = f.started \ {e.run}, !.starts = starts]
        BY <2>1
    <2> QED
        BY <1>1, <1>2, <2>2, <2>3 DEF Facade, Ids, Counts
<1>3. CASE e.type = "started" /\ e.run \notin f.handles
    BY <1>1, <1>3 DEF OnFacade, Facade
<1>4. CASE e.type = "completed"
    BY <1>1, <1>4 DEF OnFacade, Forget, Facade, Ids
<1>5. CASE e.type \notin {"started", "completed"}
    BY <1>5 DEF OnFacade
<1> QED
    BY <1>2, <1>3, <1>4, <1>5

LEMMA RestStarted ==
    ASSUME NEW q, NEW p, Rest(q, p), q[1] \in EventSet, NEW r \in Run, NEW phase, NEW n,
           NEW f \in Facade, NEW g, g = OnFacade(f, q[1]),
           Ordered(q, phase, n, f.completed, r), Started(q, phase, f, r)
    PROVE  Started(p, phase, g, r)
<1> PICK e \in EventSet : e = q[1]
    OBVIOUS
<1>0. /\ g \in Facade
      /\ \/ g.completed = f.completed
         \/ e.type = "completed" /\ g.completed = f.completed \cup {e.run}
      /\ e.type = "completed" => g.started \subseteq f.started \ {e.run} /\ g.starts = f.starts
      /\ e.type = "started" /\ e.run \in f.handles =>
            /\ g.started = f.started \ {e.run}
            /\ Counts(f, g, e.run)
      /\ e.type = "started" /\ e.run \notin f.handles =>
            g.started = f.started \cup {e.run} /\ g.starts = f.starts
      /\ e.type \notin {"started", "completed"} => g = f
    BY FacadeTyped
<1>1. /\ \A i \in DOMAIN p : i + 1 \in DOMAIN q /\ p[i] = q[i + 1] /\ i + 1 # 1
      /\ \A i, j \in DOMAIN p : i + 1 = j + 1 => i = j
      /\ 1 \in DOMAIN q
    BY DEF Rest
<1>2. CASE e.type = "started" /\ e.run = r
    <2>1. phase \notin {"none", "sent"} /\ f.starts[r] = 0 /\ r \notin f.started /\ r \notin f.completed
        BY <1>1, <1>2 DEF Started, Ordered
    <2>2. \A i \in DOMAIN p : ~ (p[i].type = "started" /\ p[i].run = r)
        BY <1>1, <1>2 DEF Started
    <2>3. g.completed = f.completed
        BY <1>0, <1>2
    <2>4. CASE r \in f.handles
        <3>1. g.starts[r] = 1 /\ r \notin g.started
            BY <1>0, <1>2, <2>1, <2>4 DEF Facade, Counts
        <3> QED
            BY <2>1, <2>2, <3>1 DEF Started
    <2>5. CASE r \notin f.handles
        <3>1. g.starts[r] = 0
            BY <1>0, <1>2, <2>1, <2>5
        <3> QED
            BY <2>1, <2>2, <2>3, <3>1 DEF Started
    <2> QED
        BY <2>4, <2>5
<1>3. CASE ~ (e.type = "started" /\ e.run = r)
    <2>1. g.starts[r] = f.starts[r] /\ (r \in g.started => r \in f.started)
        BY <1>0, <1>3 DEF Facade, Counts
    <2>2. r \in g.started => r \notin g.completed
        BY <1>0, <1>3, <2>1 DEF Started
    <2>3. \A i \in DOMAIN p : p[i].type = "started" /\ p[i].run = r =>
              i + 1 \in DOMAIN q /\ q[i + 1].type = "started" /\ q[i + 1].run = r
        BY <1>1
    <2>4. ASSUME NEW i \in DOMAIN p, p[i].type = "started", p[i].run = r
          PROVE  /\ phase \notin {"none", "sent"} /\ g.starts[r] = 0 /\ r \notin g.started
                 /\ \A j \in DOMAIN p : p[j].type = "started" /\ p[j].run = r => i = j
        <3>1. i + 1 \in DOMAIN q /\ q[i + 1].type = "started" /\ q[i + 1].run = r
            BY <2>3, <2>4
        <3>2. phase \notin {"none", "sent"} /\ f.starts[r] = 0 /\ r \notin f.started
            BY <3>1 DEF Started
        <3>3. \A j \in DOMAIN p : p[j].type = "started" /\ p[j].run = r => i + 1 = j + 1
            BY <2>3, <3>1 DEF Started
        <3> QED
            BY <1>1, <2>1, <3>2, <3>3
    <2> QED
        BY <2>1, <2>2, <2>4 DEF Started
<1> QED
    BY <1>2, <1>3

LEMMA RestOnTheWay ==
    ASSUME NEW q, NEW p, Rest(q, p), NEW r \in Run, NEW n \in Nat, NEW m \in 0 .. n,
           OnTheWay(q, r, m, n)
    PROVE  IF q[1].type = "chunk" /\ q[1].run = r
           THEN m + 1 \in 0 .. n /\ q[1] = Event("chunk", r, m + 1) /\ OnTheWay(p, r, m + 1, n)
           ELSE OnTheWay(p, r, m, n)
<1>1. /\ \A i \in DOMAIN p : i + 1 \in DOMAIN q /\ p[i] = q[i + 1] /\ i \in Nat /\ 1 < i + 1
      /\ \A i \in DOMAIN q : i # 1 => i - 1 \in DOMAIN p /\ p[i - 1] = q[i] /\ 1 < i
      /\ 1 \in DOMAIN q
    BY DEF Rest
<1>2. ASSUME NEW x, NEW i \in DOMAIN p, p[i].type = "chunk", p[i].run = r,
             \A j \in DOMAIN q : q[j].type = "chunk" /\ q[j].run = r /\ 1 < j => x < q[j].n,
             x \in m .. n
      PROVE  /\ p[i].n \in x + 1 .. n /\ p[i] = Event("chunk", r, p[i].n)
             /\ \A j \in DOMAIN p : p[j].type = "chunk" /\ p[j].run = r /\ i < j => p[i].n < p[j].n
    <2>1. /\ q[i + 1].n \in m + 1 .. n /\ q[i + 1] = Event("chunk", r, q[i + 1].n)
          /\ \A j \in DOMAIN q : q[j].type = "chunk" /\ q[j].run = r /\ i + 1 < j => q[i + 1].n < q[j].n
        BY <1>1, <1>2 DEF OnTheWay
    <2>2. x < p[i].n /\ p[i].n \in x + 1 .. n
        BY <1>1, <1>2, <2>1
    <2>3. \A j \in DOMAIN p : p[j].type = "chunk" /\ p[j].run = r /\ i < j => p[i].n < p[j].n
        BY <1>1, <2>1
    <2> QED
        BY <1>1, <2>1, <2>2, <2>3
<1>3. CASE q[1].type = "chunk" /\ q[1].run = r
    <2>1. /\ q[1].n \in m + 1 .. n /\ q[1] = Event("chunk", r, q[1].n)
          /\ \A j \in DOMAIN q : q[j].type = "chunk" /\ q[j].run = r /\ 1 < j => q[1].n < q[j].n
        BY <1>1, <1>3 DEF OnTheWay
    <2>2. PICK i \in DOMAIN q : q[i] = Event("chunk", r, m + 1)
        BY <2>1 DEF OnTheWay
    <2>3. q[i].type = "chunk" /\ q[i].run = r /\ q[i].n = m + 1
        BY <2>2 DEF Event
    <2>4. i = 1
        BY <1>1, <2>1, <2>3
    <2>5. q[1].n = m + 1 /\ m + 1 \in 0 .. n
        BY <2>1, <2>3, <2>4
    <2>6. ASSUME NEW k \in m + 1 + 1 .. n
          PROVE  \E j \in DOMAIN p : p[j] = Event("chunk", r, k)
        <3>1. PICK j \in DOMAIN q : q[j] = Event("chunk", r, k)
            BY <2>6 DEF OnTheWay
        <3>2. j # 1
            BY <2>5, <2>6, <3>1 DEF Event
        <3> QED
            BY <1>1, <3>1, <3>2
    <2>7. ASSUME NEW k \in DOMAIN p, p[k].type = "chunk", p[k].run = r
          PROVE  /\ p[k].n \in m + 1 + 1 .. n /\ p[k] = Event("chunk", r, p[k].n)
                 /\ \A j \in DOMAIN p : p[j].type = "chunk" /\ p[j].run = r /\ k < j => p[k].n < p[j].n
        <3> PICK x : x = m + 1
            OBVIOUS
        <3>1. /\ x \in m .. n
              /\ \A j \in DOMAIN q : q[j].type = "chunk" /\ q[j].run = r /\ 1 < j => x < q[j].n
            BY <2>1, <2>5
        <3> QED
            BY <1>2, <2>7, <3>1
    <2>8. OnTheWay(p, r, m + 1, n)
        BY <2>6, <2>7 DEF OnTheWay
    <2> QED
        BY <1>3, <2>1, <2>5, <2>8
<1>4. CASE ~ (q[1].type = "chunk" /\ q[1].run = r)
    <2>1. ASSUME NEW k \in m + 1 .. n
          PROVE  \E j \in DOMAIN p : p[j] = Event("chunk", r, k)
        <3>1. PICK j \in DOMAIN q : q[j] = Event("chunk", r, k)
            BY <2>1 DEF OnTheWay
        <3>2. j # 1
            BY <1>4, <3>1 DEF Event
        <3> QED
            BY <1>1, <3>1, <3>2
    <2>2. \A j \in DOMAIN q : q[j].type = "chunk" /\ q[j].run = r /\ 1 < j => m < q[j].n
        BY DEF OnTheWay
    <2>3. ASSUME NEW k \in DOMAIN p, p[k].type = "chunk", p[k].run = r
          PROVE  /\ p[k].n \in m + 1 .. n /\ p[k] = Event("chunk", r, p[k].n)
                 /\ \A j \in DOMAIN p : p[j].type = "chunk" /\ p[j].run = r /\ k < j => p[k].n < p[j].n
        BY <1>2, <2>2, <2>3
    <2>4. OnTheWay(p, r, m, n)
        BY <2>1, <2>3 DEF OnTheWay
    <2> QED
        BY <1>4, <2>4
<1> QED
    BY <1>3, <1>4

-------------------------------------------------------------------------------
(* The output of a run                                                        *)

LEMMA OutputTyped ==
    ASSUME NEW r \in Run, NEW m \in Nat, NEW k \in 0 .. m, NEW out, out = Output(r, k + 1, m)
    PROVE  /\ out \in Seq(EventSet) /\ Len(out) = m - k /\ DOMAIN out = 1 .. m - k
           /\ \A i \in 1 .. m - k : out[i] = Event("chunk", r, k + i)
<1>1. out = [i \in 1 .. m - k |-> Event("chunk", r, k + i)]
    BY DEF Output
<1>2. \A i \in 1 .. m - k : Event("chunk", r, k + i) \in EventSet
    BY DEF Event, EventSet, Ids
<1>3. m - k \in Nat
    OBVIOUS
<1>4. out \in [1 .. m - k -> EventSet]
    BY <1>1, <1>2
<1>5. out \in Seq(EventSet)
    BY <1>3, <1>4, SeqDef
<1> QED
    BY <1>1, <1>3, <1>5, LenProperties

LEMMA OutputGrows ==
    ASSUME NEW r \in Run, NEW m \in Nat, NEW k \in 0 .. m
    PROVE  Append(Output(r, k + 1, m), Event("chunk", r, m + 1)) = Output(r, k + 1, m + 1)
<1> PICK out : out = Output(r, k + 1, m)
    OBVIOUS
<1>1. /\ out \in Seq(EventSet) /\ Len(out) = m - k
      /\ \A i \in 1 .. m - k : out[i] = Event("chunk", r, k + i)
    BY OutputTyped
<1> PICK n : n = m + 1
    OBVIOUS
<1>0. n \in Nat /\ k \in 0 .. n /\ m - k \in Nat /\ n - k = m - k + 1
    OBVIOUS
<1> PICK more : more = Output(r, k + 1, n)
    OBVIOUS
<1>2. /\ more \in Seq(EventSet) /\ Len(more) = n - k
      /\ \A i \in 1 .. n - k : more[i] = Event("chunk", r, k + i)
    BY <1>0, OutputTyped
<1> PICK e : e = Event("chunk", r, n)
    OBVIOUS
<1>3. e \in EventSet
    BY DEF Event, EventSet, Ids
<1> PICK app : app = Append(out, e)
    OBVIOUS
<1>4. /\ app \in Seq(EventSet) /\ Len(app) = m - k + 1
      /\ \A i \in 1 .. m - k : app[i] = out[i]
      /\ app[m - k + 1] = e
    BY <1>1, <1>3, AppendProperties
<1>5. \A i \in 1 .. Len(app) : app[i] = more[i]
    <2> TAKE i \in 1 .. Len(app)
    <2>1. CASE i = m - k + 1
        BY <1>0, <1>2, <1>4, <2>1
    <2>2. CASE i \in 1 .. m - k
        BY <1>0, <1>1, <1>2, <1>4, <2>2
    <2> QED
        BY <1>0, <1>4, <2>1, <2>2
<1>6. app = more
    BY <1>0, <1>2, <1>4, <1>5, SeqEqual
<1> QED
    BY <1>6

\* What follows a beginning of the output is the output from a later chunk on.
LEMMA OutputSuffix ==
    ASSUME NEW r \in Run, NEW m \in Nat, NEW k \in 0 .. m,
           NEW a \in Seq(EventSet), NEW b \in Seq(EventSet), a \o b = Output(r, k + 1, m)
    PROVE  \E j \in 0 .. m : b = Output(r, j + 1, m)
<1> PICK out : out = Output(r, k + 1, m)
    OBVIOUS
<1>1. /\ out \in Seq(EventSet) /\ Len(out) = m - k
      /\ \A i \in 1 .. m - k : out[i] = Event("chunk", r, k + i)
    BY OutputTyped
<1>2. /\ Len(a) \in Nat /\ Len(b) \in Nat /\ Len(out) = Len(a) + Len(b)
      /\ \A i \in 1 .. Len(a) + Len(b) : out[i] = IF i <= Len(a) THEN a[i] ELSE b[i - Len(a)]
    <2>1. out = a \o b
        OBVIOUS
    <2> QED
        BY <2>1, ConcatProperties
<1> PICK j : j = k + Len(a)
    OBVIOUS
<1>3. j \in 0 .. m /\ Len(b) = m - j
    BY <1>1, <1>2
<1> PICK end : end = Output(r, j + 1, m)
    OBVIOUS
<1>4. /\ end \in Seq(EventSet) /\ Len(end) = m - j
      /\ \A i \in 1 .. m - j : end[i] = Event("chunk", r, j + i)
    BY <1>3, OutputTyped
<1>5. \A i \in 1 .. Len(b) : b[i] = end[i]
    <2> TAKE i \in 1 .. Len(b)
    <2>1. out[Len(a) + i] = b[i]
        BY <1>2
    <2>2. out[Len(a) + i] = Event("chunk", r, k + (Len(a) + i))
        <3>1. Len(a) + i \in 1 .. m - k
            BY <1>1, <1>2
        <3> QED
            BY <1>1, <3>1
    <2>3. k + (Len(a) + i) = j + i
        BY <1>2
    <2> QED
        BY <1>3, <1>4, <2>1, <2>2, <2>3
<1>6. b = end
    BY <1>3, <1>4, <1>5, SeqEqual
<1> QED
    BY <1>3, <1>6

\* A beginning of the output is the output up to an earlier chunk.
LEMMA OutputPrefix ==
    ASSUME NEW r \in Run, NEW m \in Nat, NEW k \in 0 .. m,
           NEW a \in Seq(EventSet), NEW b \in Seq(EventSet), a \o b = Output(r, k + 1, m)
    PROVE  \E j \in 0 .. m : a = Output(r, k + 1, j)
<1> PICK out : out = Output(r, k + 1, m)
    OBVIOUS
<1>1. /\ out \in Seq(EventSet) /\ Len(out) = m - k
      /\ \A i \in 1 .. m - k : out[i] = Event("chunk", r, k + i)
    BY OutputTyped
<1>2. /\ Len(a) \in Nat /\ Len(b) \in Nat /\ Len(out) = Len(a) + Len(b)
      /\ \A i \in 1 .. Len(a) + Len(b) : out[i] = IF i <= Len(a) THEN a[i] ELSE b[i - Len(a)]
    <2>1. out = a \o b
        OBVIOUS
    <2> QED
        BY <2>1, ConcatProperties
<1> PICK j : j = k + Len(a)
    OBVIOUS
<1>3. j \in 0 .. m /\ j \in Nat /\ k \in 0 .. j /\ Len(a) = j - k
    BY <1>1, <1>2
<1> PICK start : start = Output(r, k + 1, j)
    OBVIOUS
<1>4. /\ start \in Seq(EventSet) /\ Len(start) = j - k
      /\ \A i \in 1 .. j - k : start[i] = Event("chunk", r, k + i)
    <2>1. \A l \in Nat : \A i \in 0 .. l :
              /\ Output(r, i + 1, l) \in Seq(EventSet) /\ Len(Output(r, i + 1, l)) = l - i
              /\ \A h \in 1 .. l - i : Output(r, i + 1, l)[h] = Event("chunk", r, i + h)
        BY OutputTyped
    <2> QED
        BY <1>3, <2>1
<1>5. \A i \in 1 .. Len(a) : a[i] = start[i]
    <2> TAKE i \in 1 .. Len(a)
    <2>1. out[i] = a[i]
        BY <1>2
    <2>2. i \in 1 .. m - k
        BY <1>1, <1>2
    <2> QED
        BY <1>1, <1>3, <1>4, <2>1, <2>2
<1>6. a = start
    BY <1>3, <1>4, <1>5, SeqEqual
<1> QED
    BY <1>3, <1>6

LEMMA OutputEmpty == ASSUME NEW r \in Run PROVE Output(r, 0 + 1, 0) = <<>>
<1> PICK out : out = Output(r, 0 + 1, 0)
    OBVIOUS
<1>1. out \in Seq(EventSet) /\ Len(out) = 0
    BY OutputTyped
<1> QED
    BY <1>1, EmptySeq

-------------------------------------------------------------------------------
(* Steps that tell the backend nothing and that it tells nothing of a run     *)

LEMMA SteadyShows ==
    ASSUME NEW s, NEW t, NEW x, Steady(s, t, x), NEW r \in Run, NEW m \in Nat, Showing(s, r, m)
    PROVE  Showing(t, r, m)
<1>1. Drawn(s, r, m) /\ Resulting(s, r, m)
    BY DEF Showing
<1>2. Drawn(t, r, m)
    BY <1>1 DEF Steady, Drawn
<1>3. Resulting(t, r, m)
    <2>1. CASE t.last = s.last
        BY <1>1, <2>1 DEF Resulting
    <2>2. CASE t.last.run = None
        BY <2>2 DEF Resulting, Run, None
    <2>3. CASE \E q \in Current(s) : t.last = Result(q, Shown(s))
        <3>1. PICK q \in Current(s) : t.last = Result(q, Shown(s))
            BY <2>3
        <3>2. t.last.run = q /\ t.last.output = Shown(s)
            BY <3>1 DEF Result
        <3>3. q = r => \E k \in 0 .. m : Shown(s) = Output(r, k + 1, m)
            BY <1>1 DEF Drawn
        <3>4. m \in 0 .. m
            OBVIOUS
        <3> QED
            BY <3>2, <3>3, <3>4 DEF Resulting
    <2> QED
        BY <2>1, <2>2, <2>3 DEF Steady, ShownResult
<1> QED
    BY <1>2, <1>3 DEF Showing

\* A result with part of what was shown is a stretch of the output too.
LEMMA PartShows ==
    ASSUME NEW s \in View, NEW t, PartResult(s, t), NEW r \in Run, NEW m \in Nat, Showing(s, r, m)
    PROVE  Resulting(t, r, m)
<1>1. Drawn(s, r, m) /\ Resulting(s, r, m)
    BY DEF Showing
<1>2. CASE t.last = s.last
    BY <1>1, <1>2 DEF Resulting
<1>3. CASE t.last.run = None
    BY <1>3 DEF Resulting, Run, None
<1>4. CASE \E q \in Current(s) : \E o \in {Shown(s), s.output, s.buffer} : t.last = Result(q, o)
    <2>1. PICK q \in Current(s), o \in {Shown(s), s.output, s.buffer} : t.last = Result(q, o)
        BY <1>4
    <2>2. t.last.run = q /\ t.last.output = o
        BY <2>1 DEF Result
    <2>3. CASE q # r
        BY <2>2, <2>3 DEF Resulting
    <2>4. CASE q = r
        <3>1. PICK k \in 0 .. m : Shown(s) = Output(r, k + 1, m)
            BY <1>1, <2>4 DEF Drawn
        <3>2. s.output \in Seq(EventSet) /\ s.buffer \in Seq(EventSet)
            BY DEF View
        <3>3. s.output \o s.buffer = Output(r, k + 1, m)
            BY <3>1 DEF Shown
        <3>4. \E j \in 0 .. m : s.output = Output(r, k + 1, j)
            BY <3>2, <3>3, OutputPrefix
        <3>5. \E j \in 0 .. m : s.buffer = Output(r, j + 1, m)
            BY <3>2, <3>3, OutputSuffix
        <3>6. m \in 0 .. m
            OBVIOUS
        <3>7. \E i, j \in 0 .. m : o = Output(r, i + 1, j)
            BY <2>1, <3>1, <3>4, <3>5, <3>6
        <3> QED
            BY <2>2, <3>7 DEF Resulting
    <2> QED
        BY <2>3, <2>4
<1> QED
    BY <1>2, <1>3, <1>4 DEF PartResult

LEMMA IdleShows ==
    ASSUME NEW t, Current(t) = {}, NEW r, NEW m, Resulting(t, r, m)
    PROVE  Showing(t, r, m)
BY DEF Showing, Drawn

\* t shows what s shows, if anything, and knows no run that s does not know.
CalmView(s, t) ==
    /\ Sound(t)
    /\ \A r \in Run : r \in Known(t) => r \in Known(s)
    /\ \A r \in Run : \A m \in Nat : Showing(s, r, m) => Showing(t, r, m)

LEMMA SteadyCalm == ASSUME NEW s, NEW t, Steady(s, t, None) PROVE CalmView(s, t)
<1>1. \A r \in Run : r # None
    BY DEF Run, None
<1>2. Sound(t) /\ \A r \in Run : r \in Known(t) => r \in Known(s)
    BY <1>1 DEF Steady
<1> QED
    BY <1>2, SteadyShows DEF CalmView

LEMMA IdleCalm ==
    ASSUME NEW s \in View, NEW t, Sound(t), Current(t) = {}, Known(t) \subseteq Known(s) \cup {None},
           PartResult(s, t)
    PROVE  CalmView(s, t)
<1>1. \A r \in Run : r # None
    BY DEF Run, None
<1>2. \A r \in Run : \A m \in Nat : Showing(s, r, m) => Resulting(t, r, m)
    BY PartShows
<1>3. \A r \in Run : \A m \in Nat : Resulting(t, r, m) => Showing(t, r, m)
    BY IdleShows
<1> QED
    BY <1>1, <1>2, <1>3 DEF CalmView

LEMMA CalmTwice ==
    ASSUME NEW s, NEW t, NEW u, CalmView(s, t), CalmView(t, u)
    PROVE  CalmView(s, u)
BY DEF CalmView

\* The workbench, the panel and the facade go on with what they know.
Calm ==
    /\ backend'.phase = backend.phase /\ backend'.sent = backend.sent
    /\ \A r \in Run : Beside(events, events', r)
    /\ facade'.completed = facade.completed /\ facade'.starts = facade.starts
    /\ facade'.started \subseteq facade.started /\ facade'.active \in {facade.active, None}
    /\ CalmView(view, view')
    /\ \A r \in Run :
          /\ task'[r] \in Early => task[r] \in Early
          /\ task'[r] \in Unsent => task[r] \in Unsent

LEMMA FitsBeside ==
    ASSUME NEW q, NEW p, NEW r, Beside(q, p, r), NEW n \in Nat, NEW s, NEW t,
           \A m \in Nat : Showing(s, r, m) => Showing(t, r, m), OutputFits(q, s, n, r)
    PROVE  OutputFits(p, t, n, r)
<1>1. PICK m \in 0 .. n : OnTheWay(q, r, m, n) /\ Showing(s, r, m)
    BY DEF OutputFits
<1>2. OnTheWay(p, r, m, n)
    BY <1>1, BesideOnTheWay
<1>3. Showing(t, r, m)
    BY <1>1
<1> QED
    BY <1>2, <1>3 DEF OutputFits

LEMMA CalmStep == RunInv /\ Types' /\ Calm => RunInv'
<1> SUFFICES ASSUME RunInv, Types', Calm PROVE RunInv'
    OBVIOUS
<1>1. Fresh(view', task', backend'.phase)
    BY DEF RunInv, Calm, CalmView, Fresh
<1>2. facade'.active \notin facade'.completed
    <2>1. facade.completed \subseteq Run
        BY DEF RunInv, Types, Facade
    <2> QED
        BY <2>1 DEF RunInv, Calm, Run, None
<1>3. ASSUME NEW r \in Run
      PROVE  /\ Ordered(events', backend'.phase[r], backend'.sent[r], facade'.completed, r)
             /\ Started(events', backend'.phase[r], facade', r)
             /\ OutputFits(events', view', backend'.sent[r], r)
    <2>1. /\ Beside(events, events', r) /\ backend'.phase[r] = backend.phase[r]
          /\ backend'.sent[r] = backend.sent[r] /\ backend.sent[r] \in Nat
        BY DEF RunInv, Types, Backend, Calm
    <2>2. /\ Ordered(events, backend.phase[r], backend.sent[r], facade.completed, r)
          /\ Started(events, backend.phase[r], facade, r)
          /\ OutputFits(events, view, backend.sent[r], r)
        BY DEF RunInv
    <2>3. Ordered(events', backend'.phase[r], backend'.sent[r], facade'.completed, r)
        BY <2>1, <2>2, BesideOrdered DEF Calm
    <2>4. Started(events, backend.phase[r], facade', r)
        BY <2>2 DEF Calm, Started
    <2>5. Started(events', backend'.phase[r], facade', r)
        BY <2>1, <2>4, BesideStarted
    <2>6. \A m \in Nat : Showing(view, r, m) => Showing(view', r, m)
        BY DEF Calm, CalmView
    <2>7. OutputFits(events', view', backend.sent[r], r)
        BY <2>1, <2>2, <2>6, FitsBeside
    <2> QED
        BY <2>1, <2>3, <2>5, <2>7
<1> QED
    BY <1>1, <1>2, <1>3 DEF RunInv, Calm, CalmView

\* What is sent besides the runs.
LEMMA BesideSelf == ASSUME NEW q \in Seq(EventSet), NEW r PROVE Beside(q, q, r)
<1>1. Len(q) \in Nat
    OBVIOUS
<1> QED
    BY <1>1 DEF Beside, Extends

LEMMA SilentEvents ==
    ASSUME NEW q \in Seq(EventSet), NEW new \in Seq(EventSet),
           \A i \in 1 .. Len(new) : new[i].run = None, NEW p, p = q \o new
    PROVE  p \in Seq(EventSet) /\ \A r \in Run : Beside(q, p, r)
<1>1. Adding(q, new, p)
    BY SentAre
<1>2. \A r \in Run : r # None
    BY DEF Run, None
<1> QED
    BY <1>1, <1>2 DEF Adding, Beside, Extends

LEMMA IdleEvent == TurnedIdle \in EventSet /\ TurnedIdle.run = None
BY DEF TurnedIdle, Event, EventSet, Ids

LEMMA ReadySteps ==
    ASSUME Types, Ready
    PROVE  /\ backend' \in Backend /\ backend'.phase = backend.phase /\ backend'.sent = backend.sent
           /\ events' \in Seq(EventSet) /\ \A r \in Run : Beside(events, events', r)
<1>1. backend \in Backend /\ events \in Seq(EventSet)
    BY DEF Types
<1>2. backend' \in Backend /\ backend'.phase = backend.phase /\ backend'.sent = backend.sent
    BY <1>1 DEF Ready, Backend
<1>3. CASE backend.mode \in {"booting", "switching"}
    <2> PICK new : new = <<TurnedIdle>>
        OBVIOUS
    <2>1. events' = events \o new
        BY <1>3 DEF Ready, Send
    <2>2. new \in Seq(EventSet) /\ \A i \in 1 .. Len(new) : new[i].run = None
        BY IdleEvent
    <2> QED
        BY <1>1, <1>2, <2>1, <2>2, SilentEvents
<1>4. CASE backend.mode \notin {"booting", "switching"}
    <2>1. events' = events
        BY <1>1, <1>4, ConcatEmptySeq DEF Ready, Send
    <2> QED
        BY <1>1, <1>2, <2>1, BesideSelf
<1> QED
    BY <1>3, <1>4

\* Nothing about runs changes, but the panel may follow the pending run or none.
LEMMA PanelCalm ==
    ASSUME NEW s, Sound(s), NEW t \in View,
           t.pending = s.pending, t.meta = s.meta, t.summary = s.summary,
           t.timer \in {s.timer, None}, t.followed \in {s.followed, s.pending, None},
           t.late \subseteq s.late, t.finals = s.finals, t.history = s.history, t.last = s.last,
           Shown(t) = Shown(s)
    PROVE  CalmView(s, t) /\ Current(t) = Current(s)
<1>1. {t.meta, t.summary} \subseteq Current(s) \cup {None} /\ Current(t) = Current(s)
    BY DEF Current
<1>2. Steady(s, t, None)
    BY <1>1, SteadyFields
<1> QED
    BY <1>1, <1>2, SteadyCalm

LEMMA FailCalm ==
    ASSUME NEW s, Sound(s), NEW t, t = failTerminalRun(s)
    PROVE  CalmView(s, t)
<1>1. s \in View
    BY DEF Sound
<1> QED
    BY <1>1, FailSteady, IdleCalm

\* What failed is no longer shown either.
LEMMA FailClearCalm ==
    ASSUME NEW s, Sound(s), NEW u, u = failTerminalRun(s), NEW t, t = [u EXCEPT !.output = <<>>]
    PROVE  CalmView(s, t)
<1>1. Sound(u) /\ Current(u) = {} /\ Known(u) \subseteq Known(s) \cup {None} /\ PartResult(s, u)
    BY FailSteady
<1>2. u \in View /\ s \in View
    BY <1>1 DEF Sound
<1>3. /\ t \in View /\ t.pending = u.pending /\ t.meta = u.meta /\ t.summary = u.summary
      /\ t.timer = u.timer /\ t.followed = u.followed /\ t.late = u.late
      /\ t.finals = u.finals /\ t.history = u.history /\ t.last = u.last
    BY <1>2, EmptyTyped DEF View
<1>4. Current(t) = {}
    BY <1>1, <1>3 DEF Current
<1>5. Known(t) \subseteq Known(s) \cup {None}
    BY <1>1, <1>3, <1>4 DEF Known
<1>6. Sound(t)
    BY <1>1, <1>3, <1>4 DEF Sound, OneCurrent, Open, Logged
<1>7. PartResult(s, t)
    BY <1>1, <1>3 DEF PartResult
<1> QED
    BY <1>2, <1>4, <1>5, <1>6, <1>7, IdleCalm

\* Nothing is sent, and the facade does nothing.
LEMMA QuietStep ==
    ASSUME RunInv, view' \in View, CalmView(view, view'), UNCHANGED <<facade, backend, events>>,
           troubles' \in Nat, task' \in [Run -> Places],
           \A r \in Run : /\ task'[r] \in Early => task[r] \in Early
                          /\ task'[r] \in Unsent => task[r] \in Unsent
    PROVE  RunInv'
<1>1. Types'
    BY DEF RunInv, Types
<1>2. \A r \in Run : Beside(events, events', r)
    <2>1. events \in Seq(EventSet)
        BY DEF RunInv, Types
    <2> QED
        BY <2>1, BesideSelf
<1>3. Calm
    BY <1>2 DEF Calm
<1> QED
    BY <1>1, <1>3, CalmStep

LEMMA Troubled == ASSUME Types, Trouble \/ UNCHANGED troubles PROVE troubles' \in Nat
BY DEF Types, Trouble

LEMMA ViewTyped == ASSUME NEW s, NEW t, CalmView(s, t) PROVE t \in View
BY DEF CalmView, Sound

LEMMA runScriptStep == ASSUME RunInv, NEW r \in Run, runScript(r) PROVE RunInv'
<1>1. Types /\ Sound(view) /\ view \in View
    BY DEF RunInv, Types
<1>2. view' \in View /\ CalmView(view, view')
    <2> PICK t : t = [view EXCEPT !.running = TRUE]
        OBVIOUS
    <2>1. /\ t \in View /\ t.pending = view.pending /\ t.meta = view.meta /\ t.summary = view.summary
          /\ t.timer = view.timer /\ t.followed = view.followed /\ t.late = view.late
          /\ t.finals = view.finals /\ t.history = view.history /\ t.last = view.last
          /\ t.output = view.output /\ t.buffer = view.buffer
        BY <1>1 DEF View
    <2>2. CalmView(view, t)
        BY <1>1, <2>1, PanelCalm DEF Shown
    <2> QED
        BY <2>1, <2>2 DEF runScript, Gives
<1>3. task' \in [Run -> Places] /\ \A q \in Run :
          task'[q] \in Unsent => task[q] \in Early \/ task'[q] = task[q]
    BY <1>1 DEF runScript, Goto, Types, Places, Early, Unsent
<1>4. \A q \in Run : /\ task'[q] \in Early => task[q] \in Early
                     /\ task'[q] \in Unsent => task[q] \in Unsent
    BY <1>1, <1>3 DEF runScript, Goto, Types, Early, Unsent
<1>5. UNCHANGED <<facade, backend, events>> /\ troubles' \in Nat
    BY <1>1, Troubled DEF runScript
<1> QED
    BY <1>2, <1>3, <1>4, <1>5, QuietStep

LEMMA ListenStep == ASSUME RunInv, NEW r \in Run, Listen(r) PROVE RunInv'
<1>1. Types /\ Sound(view) /\ view \in View
    BY DEF RunInv, Types
<1>2. CalmView(view, view')
    <2>1. CASE view' = [view EXCEPT !.listening = TRUE]
        <3> PICK t : t = [view EXCEPT !.listening = TRUE]
            OBVIOUS
        <3>1. /\ t \in View /\ t.pending = view.pending /\ t.meta = view.meta /\ t.summary = view.summary
              /\ t.timer = view.timer /\ t.followed = view.followed /\ t.late = view.late
              /\ t.finals = view.finals /\ t.history = view.history /\ t.last = view.last
              /\ t.output = view.output /\ t.buffer = view.buffer
            BY <1>1 DEF View
        <3> QED
            BY <1>1, <2>1, <3>1, PanelCalm DEF Shown
    <2>2. CASE view' = failTerminalRun(view)
        BY <1>1, <2>2, FailCalm
    <2> QED
        BY <2>1, <2>2 DEF Listen, Gives
<1>3. task' \in [Run -> Places]
    BY <1>1 DEF Listen, Failing, Goto, Types, Places
<1>4. \A q \in Run : /\ task'[q] \in Early => task[q] \in Early
                     /\ task'[q] \in Unsent => task[q] \in Unsent
    BY <1>1 DEF Listen, Failing, Goto, Types, Early, Unsent
<1>5. UNCHANGED <<facade, backend, events>> /\ troubles' \in Nat
    BY <1>1, Troubled DEF Listen, Failing
<1> QED
    BY <1>2, <1>3, <1>4, <1>5, ViewTyped, QuietStep

LEMMA LateCompletionStep == ASSUME RunInv, LateCompletion PROVE RunInv'
<1>1. Types /\ Sound(view) /\ view \in View
    BY DEF RunInv, Types
<1>2. PICK e \in view.late :
          LET s == [view EXCEPT !.late = @ \ {e}]
          IN  view' = IF s.mounted THEN finalizeTerminalRun(s, e.run, e.n) ELSE s
    BY DEF LateCompletion, Gives
<1>3. UNCHANGED <<task, facade, backend, events, troubles>>
    BY DEF LateCompletion
<1> PICK s : s = [view EXCEPT !.late = @ \ {e}]
    OBVIOUS
<1>4. e.n \in Int
    BY <1>1, <1>2 DEF View, EventSet
<1>5. /\ s \in View /\ s.pending = view.pending /\ s.meta = view.meta /\ s.summary = view.summary
      /\ s.timer = view.timer /\ s.followed = view.followed /\ s.late = view.late \ {e}
      /\ s.finals = view.finals /\ s.history = view.history /\ s.last = view.last
      /\ s.output = view.output /\ s.buffer = view.buffer
    BY <1>1 DEF View
<1>6. CalmView(view, s)
    BY <1>1, <1>5, PanelCalm DEF Shown
<1>7. CalmView(view, view')
    <2>1. CASE view' = s
        BY <1>6, <2>1
    <2>2. CASE view' = finalizeTerminalRun(s, e.run, e.n)
        <3>1. Sound(s)
            BY <1>6 DEF CalmView
        <3>2. CalmView(s, view')
            BY <1>4, <2>2, <3>1, FinalizeSteady, SteadyCalm
        <3> QED
            BY <1>6, <3>2, CalmTwice
    <2> QED
        BY <1>2, <2>1, <2>2
<1> QED
    BY <1>1, <1>3, <1>7, ViewTyped, QuietStep DEF Types

LEMMA FlushStep == ASSUME RunInv, FlushOutput PROVE RunInv'
<1>1. Types /\ Sound(view) /\ view \in View /\ view.output \in Seq(EventSet) /\ view.buffer \in Seq(EventSet)
    BY DEF RunInv, Types, View
<1> PICK output : output = view.output \o view.buffer
    OBVIOUS
<1>2. output \in Seq(EventSet) /\ output \o <<>> = output
    BY <1>1, ConcatProperties, ConcatEmptySeq
<1> PICK t : t = [view EXCEPT !.output = output, !.buffer = <<>>]
    OBVIOUS
<1>3. /\ t \in View /\ t.pending = view.pending /\ t.meta = view.meta /\ t.summary = view.summary
      /\ t.timer = view.timer /\ t.followed = view.followed /\ t.late = view.late
      /\ t.finals = view.finals /\ t.history = view.history /\ t.last = view.last
      /\ t.output = output /\ t.buffer = <<>>
    BY <1>1, <1>2, EmptyTyped DEF View
<1>4. Shown(t) = Shown(view)
    BY <1>2, <1>3 DEF Shown
<1>5. CalmView(view, t)
    BY <1>1, <1>3, <1>4, PanelCalm
<1>6. view' = t /\ UNCHANGED <<task, facade, backend, events, troubles>>
    BY DEF FlushOutput, Gives
<1> QED
    BY <1>1, <1>3, <1>5, <1>6, QuietStep DEF Types

LEMMA TimeoutStep == ASSUME RunInv, CompletionTimeout PROVE RunInv'
<1>1. Types /\ Sound(view) /\ view \in View
    BY DEF RunInv, Types
<1> PICK s : s = [view EXCEPT !.timer = None]
    OBVIOUS
<1>2. /\ s \in View /\ s.pending = view.pending /\ s.meta = view.meta /\ s.summary = view.summary
      /\ s.timer = None /\ s.followed = view.followed /\ s.late = view.late
      /\ s.finals = view.finals /\ s.history = view.history /\ s.last = view.last
      /\ s.output = view.output /\ s.buffer = view.buffer
    BY <1>1 DEF View, Ids
<1>3. CalmView(view, s)
    BY <1>1, <1>2, PanelCalm DEF Shown
<1>4. view' \in {s, failTerminalRun(s)} /\ UNCHANGED <<task, facade, backend, events, troubles>>
    BY DEF CompletionTimeout, Gives
<1>5. CalmView(view, view')
    <2>1. CASE view' = s
        BY <1>3, <2>1
    <2>2. CASE view' = failTerminalRun(s)
        <3>1. Sound(s)
            BY <1>3 DEF CalmView
        <3>2. CalmView(s, view')
            BY <2>2, <3>1, FailCalm
        <3> QED
            BY <1>3, <3>2, CalmTwice
    <2> QED
        BY <1>4, <2>1, <2>2
<1> QED
    BY <1>1, <1>4, <1>5, ViewTyped, QuietStep DEF Types

\* The panel is mounted, listens, is shown, hidden or taken down.
LEMMA PanelStep ==
    ASSUME RunInv, Mount \/ Attach \/ Detach \/ Show \/ Hide
    PROVE  RunInv'
<1>1. Types /\ Sound(view) /\ view \in View
    BY DEF RunInv, Types
<1>2. UNCHANGED <<task, facade, backend, events>> /\ troubles' \in Nat
    BY <1>1, Troubled DEF Mount, Attach, Detach, Show, Hide, Only
<1>3. /\ view' \in View
      /\ view'.pending = view.pending /\ view'.meta = view.meta /\ view'.summary = view.summary
      /\ view'.timer = view.timer /\ view'.late = view.late
      /\ view'.followed \in {view.followed, view.pending, None}
      /\ view'.finals = view.finals /\ view'.history = view.history /\ view'.last = view.last
      /\ view'.output = view.output /\ view'.buffer = view.buffer
    <2>1. CASE Mount
        BY <1>1, <2>1 DEF Mount, Only, Gives, View
    <2>2. CASE Detach
        BY <1>1, <2>2 DEF Detach, Only, Gives, View, Ids
    <2>3. CASE Attach
        BY <1>1, <2>3 DEF Attach, Only, Gives, View
    <2>4. CASE Show
        BY <1>1, <2>4 DEF Show, Only, Gives, View
    <2>5. CASE Hide
        BY <1>1, <2>5 DEF Hide, Only, Gives, View
    <2> QED
        BY <2>1, <2>2, <2>3, <2>4, <2>5
<1>4. CalmView(view, view')
    <2> PICK t : t = view'
        OBVIOUS
    <2>1. CalmView(view, t)
        BY <1>1, <1>3, PanelCalm DEF Shown
    <2> QED
        BY <2>1
<1> QED
    BY <1>1, <1>2, <1>3, <1>4, QuietStep DEF Types

LEMMA CloseStep == ASSUME RunInv, CloseWorkspace PROVE RunInv'
<1>1. Types /\ Sound(view) /\ view \in View
    BY DEF RunInv, Types
<1>2. UNCHANGED <<task, facade, backend, events>> /\ troubles' \in Nat
    BY <1>1, Troubled DEF CloseWorkspace, Only
<1> PICK t : t = view'
    OBVIOUS
<1>3. t = setPendingTerminalRunId(Emptied(view), None)
    BY DEF CloseWorkspace, Only, Gives, Emptied
<1>4. /\ Sound(t) /\ Known(t) \subseteq Known(view) \cup {None}
      /\ \A r \in Current(t) : r \in Current(view) /\ Shown(t) = view.buffer /\ t.pending # r
      /\ PartResult(view, t)
    BY <1>1, <1>3, CloseSteady
<1>5. ASSUME NEW r \in Run, NEW m \in Nat, Showing(view, r, m)
      PROVE  Showing(t, r, m)
    <2>0. Resulting(t, r, m) /\ Drawn(view, r, m)
        BY <1>1, <1>4, <1>5, PartShows DEF Showing
    <2>1. CASE r \notin Current(t)
        BY <2>0, <2>1 DEF Showing, Drawn
    <2>2. CASE r \in Current(t)
        <3>1. PICK k \in 0 .. m : Shown(view) = Output(r, k + 1, m)
            BY <1>4, <2>0, <2>2 DEF Drawn
        <3>2. view.output \in Seq(EventSet) /\ view.buffer \in Seq(EventSet)
            BY <1>1 DEF View
        <3>3. view.output \o view.buffer = Output(r, k + 1, m)
            BY <3>1 DEF Shown
        <3>4. PICK j \in 0 .. m : view.buffer = Output(r, j + 1, m)
            BY <3>2, <3>3, OutputSuffix
        <3> QED
            BY <1>4, <2>0, <2>2, <3>4 DEF Showing, Drawn
    <2> QED
        BY <2>1, <2>2
<1>6. \A r \in Run : r # None
    BY DEF Run, None
<1>7. CalmView(view, t)
    BY <1>4, <1>5, <1>6 DEF CalmView
<1> QED
    BY <1>1, <1>2, <1>7, ViewTyped, QuietStep DEF Types

LEMMA ConnectStep == ASSUME RunInv, Connect PROVE RunInv'
<1>1. Types /\ Sound(view) /\ view \in View
    BY DEF RunInv, Types
<1>2. /\ backend' \in Backend /\ backend'.phase = backend.phase /\ backend'.sent = backend.sent
      /\ events' \in Seq(EventSet) /\ \A r \in Run : Beside(events, events', r)
    BY <1>1, ReadySteps DEF Connect
<1> PICK t : t = [view EXCEPT !.connected = TRUE]
    OBVIOUS
<1>3. /\ t \in View /\ t.pending = view.pending /\ t.meta = view.meta /\ t.summary = view.summary
      /\ t.timer = view.timer /\ t.followed = view.followed /\ t.late = view.late
      /\ t.finals = view.finals /\ t.history = view.history /\ t.last = view.last
      /\ t.output = view.output /\ t.buffer = view.buffer
    BY <1>1 DEF View
<1>4. CalmView(view, t)
    BY <1>1, <1>3, PanelCalm DEF Shown
<1>5. view' = t /\ UNCHANGED <<task, facade, troubles>>
    BY DEF Connect, Gives
<1>6. Types'
    BY <1>1, <1>2, <1>3, <1>5 DEF Types
<1>7. Calm
    BY <1>2, <1>4, <1>5 DEF Calm
<1> QED
    BY <1>6, <1>7, CalmStep

LEMMA ExitStep == ASSUME RunInv, InteractiveExits PROVE RunInv'
<1>1. Types /\ Sound(view) /\ backend \in Backend /\ events \in Seq(EventSet)
    BY DEF RunInv, Types
<1>2. UNCHANGED <<task, view, facade>> /\ troubles' \in Nat
    BY <1>1, Troubled DEF InteractiveExits
<1>3. backend' \in Backend /\ backend'.phase = backend.phase /\ backend'.sent = backend.sent
    BY <1>1 DEF InteractiveExits, Backend, Ids
<1>4. events' \in Seq(EventSet) /\ \A r \in Run : Beside(events, events', r)
    <2> PICK e : e = Event("exited", None, Shell)
        OBVIOUS
    <2> PICK new : new = <<e>>
        OBVIOUS
    <2>1. e \in EventSet /\ e.run = None
        BY DEF Event, EventSet, Ids, Shell
    <2>2. new \in Seq(EventSet) /\ \A i \in 1 .. Len(new) : new[i].run = None
        BY <2>1
    <2>3. events' = events \o new
        BY DEF InteractiveExits, Send
    <2> QED
        BY <1>1, <2>2, <2>3, SilentEvents
<1>5. Types'
    BY <1>1, <1>2, <1>3, <1>4 DEF Types
<1>6. CalmView(view, view')
    <2>1. Steady(view, view, None)
        BY <1>1, SteadySelf
    <2>2. CalmView(view, view)
        BY <2>1, SteadyCalm
    <2> QED
        BY <1>2, <2>2
<1>7. Calm
    BY <1>2, <1>3, <1>4, <1>6 DEF Calm
<1> QED
    BY <1>5, <1>7, CalmStep

LEMMA ForgetTyped ==
    ASSUME NEW f \in Facade, NEW r \in Run, NEW g, g = Forget(f, r)
    PROVE  /\ g \in Facade /\ g.completed = f.completed /\ g.starts = f.starts
           /\ g.started \subseteq f.started /\ g.active \in {f.active, None}
BY DEF Forget, Facade, Ids

LEMMA ThrowsStep == ASSUME RunInv, NEW r \in Run, DispatchThrows(r) PROVE RunInv'
<1>1. Types /\ Sound(view) /\ events \in Seq(EventSet)
    BY DEF RunInv, Types
<1>2. UNCHANGED <<backend, events, troubles>>
    BY DEF DispatchThrows
<1>3. CalmView(view, view')
    <2>1. CASE view' = view
        <3>1. Steady(view, view, None)
            BY <1>1, SteadySelf
        <3>2. CalmView(view, view)
            BY <3>1, SteadyCalm
        <3> QED
            BY <2>1, <3>2
    <2>2. CASE view' = [failTerminalRun(view) EXCEPT !.output = <<>>]
        BY <1>1, <2>2, FailClearCalm
    <2> QED
        BY <2>1, <2>2 DEF DispatchThrows, Gives
<1>4. /\ facade' \in Facade /\ facade'.completed = facade.completed /\ facade'.starts = facade.starts
      /\ facade'.started \subseteq facade.started /\ facade'.active \in {facade.active, None}
    <2>1. facade \in Facade /\ facade' = Forget(facade, r)
        BY <1>1 DEF Types, DispatchThrows
    <2> QED
        BY <2>1, ForgetTyped
<1>5. task' \in [Run -> Places] /\ \A q \in Run : task'[q] \in Unsent => task'[q] = task[q]
    BY <1>1 DEF DispatchThrows, Goto, Types, Places, Early, Unsent
<1>6. Types'
    BY <1>1, <1>2, <1>3, <1>4, <1>5, ViewTyped DEF Types
<1>7. \A q \in Run : Beside(events, events', q)
    BY <1>1, <1>2, BesideSelf
<1>8. Calm
    BY <1>2, <1>3, <1>4, <1>5, <1>7 DEF Calm, Unsent
<1> QED
    BY <1>6, <1>8, CalmStep

LEMMA EnsuredFields ==
    ASSUME NEW s, Sound(s), NEW c \in BOOLEAN, NEW a \in BOOLEAN,
           NEW t, t = [s EXCEPT !.ensured = c, !.attached = a]
    PROVE  Sound(t) /\ CalmView(s, t) /\ Known(t) = Known(s)
<1>1. s \in View
    BY DEF Sound
<1>2. /\ t \in View /\ t.pending = s.pending /\ t.meta = s.meta /\ t.summary = s.summary
      /\ t.timer = s.timer /\ t.followed = s.followed /\ t.late = s.late
      /\ t.finals = s.finals /\ t.history = s.history /\ t.last = s.last
      /\ t.output = s.output /\ t.buffer = s.buffer
    BY <1>1 DEF View
<1>3. CalmView(s, t)
    BY <1>2, PanelCalm DEF Shown
<1>4. Known(t) = Known(s)
    BY <1>2 DEF Known, Current
<1> QED
    BY <1>3, <1>4 DEF CalmView

LEMMA EnsuredOnly ==
    ASSUME NEW s, Sound(s), NEW c \in BOOLEAN, NEW t, t = [s EXCEPT !.ensured = c]
    PROVE  Sound(t) /\ CalmView(s, t)
<1>1. s \in View /\ s.attached \in BOOLEAN
    BY DEF Sound, View
<1> PICK u : u = [s EXCEPT !.ensured = c, !.attached = s.attached]
    OBVIOUS
<1>2. u = t
    BY <1>1 DEF View
<1>3. Sound(u) /\ CalmView(s, u) /\ Known(u) = Known(s)
    BY <1>1, EnsuredFields
<1> QED
    BY <1>2, <1>3

LEMMA ReconnectStep == ASSUME RunInv, NEW r \in Run, Reconnect(r) PROVE RunInv'
<1>1. Types /\ Sound(view) /\ events \in Seq(EventSet) /\ facade \in Facade
    BY DEF RunInv, Types
<1>2. troubles' = troubles /\ task[r] = "missing"
    BY DEF Reconnect
<1>3. /\ facade' \in Facade /\ facade'.completed = facade.completed /\ facade'.starts = facade.starts
      /\ facade'.started \subseteq facade.started /\ facade'.active \in {facade.active, None}
    <2>1. facade' = Forget(facade, r)
        BY DEF Reconnect
    <2> QED
        BY <1>1, <2>1, ForgetTyped
<1>4. /\ backend' \in Backend /\ backend'.phase = backend.phase /\ backend'.sent = backend.sent
      /\ events' \in Seq(EventSet) /\ \A q \in Run : Beside(events, events', q)
    <2>1. CASE Ready
        BY <1>1, <2>1, ReadySteps
    <2>2. CASE UNCHANGED <<backend, events>>
        BY <1>1, <2>2, BesideSelf DEF Types
    <2> QED
        BY <2>1, <2>2 DEF Reconnect
<1>5. CalmView(view, view')
    <2>1. CASE view' = [view EXCEPT !.ensured = TRUE]
        <3> PICK c \in BOOLEAN : c = TRUE
            OBVIOUS
        <3>1. view' = [view EXCEPT !.ensured = c]
            BY <2>1
        <3> QED
            BY <1>1, <3>1, EnsuredOnly
    <2>2. CASE LET s == [view EXCEPT !.ensured = FALSE]
               IN  view' \in {[failTerminalRun(s) EXCEPT !.output = <<>>], s}
        <3> PICK c \in BOOLEAN : c = FALSE
            OBVIOUS
        <3> PICK s : s = [view EXCEPT !.ensured = c]
            OBVIOUS
        <3>1. view' \in {[failTerminalRun(s) EXCEPT !.output = <<>>], s}
            BY <2>2
        <3>2. Sound(s) /\ CalmView(view, s)
            BY <1>1, EnsuredOnly
        <3>3. CASE view' = s
            BY <3>2, <3>3
        <3>4. CASE view' = [failTerminalRun(s) EXCEPT !.output = <<>>]
            BY <3>2, <3>4, FailClearCalm, CalmTwice
        <3> QED
            BY <3>1, <3>3, <3>4
    <2> QED
        BY <2>1, <2>2 DEF Reconnect, Gives
<1>6. task' \in [Run -> Places] /\ \A q \in Run : task'[q] = task[q] \/ (q = r /\ task'[q] \in {"redispatch", "done"})
    BY <1>1 DEF Reconnect, Goto, Types, Places
<1>7. \A q \in Run : /\ task'[q] \in Early => task[q] \in Early
                     /\ task'[q] \in Unsent => task[q] \in Unsent
    BY <1>2, <1>6 DEF Early, Unsent
<1>8. Types'
    BY <1>1, <1>2, <1>3, <1>4, <1>5, <1>6, ViewTyped DEF Types
<1>9. Calm
    BY <1>3, <1>4, <1>5, <1>7 DEF Calm
<1> QED
    BY <1>8, <1>9, CalmStep

-------------------------------------------------------------------------------
(* Steps of a run                                                             *)

\* The run is announced: what is shown of it is all that was sent, nothing.
LEMMA EnsureStep == ASSUME RunInv, NEW r \in Run, Ensure(r) PROVE RunInv'
<1>1. /\ Types /\ Sound(view) /\ view \in View /\ events \in Seq(EventSet) /\ backend \in Backend
      /\ view.mounted \in BOOLEAN
    BY DEF RunInv, Types, View
<1>2. facade' = facade /\ task[r] = "ensure" /\ troubles' \in Nat
    BY <1>1, Troubled DEF Ensure, Failing
<1>3. CASE /\ view' = failTerminalRun(view) /\ UNCHANGED <<backend, events>> /\ Goto(r, "done")
    <2>1. CalmView(view, view')
        BY <1>1, <1>3, FailCalm
    <2>2. task' \in [Run -> Places] /\ \A q \in Run : task'[q] \in Unsent => task'[q] = task[q]
        BY <1>1, <1>3 DEF Goto, Types, Places, Early, Unsent
    <2> QED
        BY <1>2, <1>3, <2>1, <2>2, ViewTyped, QuietStep DEF Unsent
<1>4. CASE /\ view' = primeTerminalRun([view EXCEPT !.ensured = TRUE, !.attached = view.mounted], r)
           /\ Ready \/ UNCHANGED <<backend, events>>
           /\ Goto(r, "dispatch")
    <2>1. /\ backend' \in Backend /\ backend'.phase = backend.phase /\ backend'.sent = backend.sent
          /\ events' \in Seq(EventSet) /\ \A q \in Run : Beside(events, events', q)
        <3>1. CASE Ready
            BY <1>1, <3>1, ReadySteps
        <3>2. CASE UNCHANGED <<backend, events>>
            BY <1>1, <3>2, BesideSelf
        <3> QED
            BY <1>4, <3>1, <3>2
    <2> PICK c \in BOOLEAN : c = TRUE
        OBVIOUS
    <2> PICK s : s = [view EXCEPT !.ensured = c, !.attached = view.mounted]
        OBVIOUS
    <2> PICK t : t = primeTerminalRun(s, r)
        OBVIOUS
    <2>2. view' = t
        BY <1>4
    <2>3. Sound(s) /\ Known(s) = Known(view)
        BY <1>1, EnsuredFields
    <2>4. r \notin Known(view) /\ backend.phase[r] = "none"
        BY <1>2 DEF RunInv, Fresh, Early, Unsent
    <2>5. /\ Sound(t) /\ Known(t) \subseteq Known(view) \cup {None, r}
          /\ Current(t) = {r} /\ Shown(t) = <<>> /\ t.last.run = None
        <3>1. r \notin Known(s)
            BY <2>3, <2>4
        <3>2. /\ Sound(t) /\ Known(t) \subseteq Known(s) \cup {None, r}
              /\ Current(t) = {r} /\ Shown(t) = <<>> /\ t.last.run = None
            BY <2>3, <3>1, PrimeSteady
        <3> QED
            BY <2>3, <3>2
    <2>6. /\ task' \in [Run -> Places] /\ task'[r] = "dispatch"
          /\ \A q \in Run : q # r => task'[q] = task[q]
        BY <1>1, <1>4 DEF Goto, Types, Places
    <2>7. Types'
        BY <1>1, <1>2, <2>1, <2>2, <2>5, <2>6 DEF Types, Sound
    <2>8. Fresh(t, task', backend.phase)
        <3>1. \A q \in Run : q # None
            BY DEF Run, None
        <3> QED
            BY <2>4, <2>5, <2>6, <3>1 DEF RunInv, Fresh, Early
    <2>9. ASSUME NEW q \in Run
          PROVE  /\ Ordered(events', backend.phase[q], backend.sent[q], facade.completed, q)
                 /\ Started(events', backend.phase[q], facade, q)
                 /\ OutputFits(events', t, backend.sent[q], q)
        <3>1. /\ Ordered(events, backend.phase[q], backend.sent[q], facade.completed, q)
              /\ Started(events, backend.phase[q], facade, q)
              /\ OutputFits(events, view, backend.sent[q], q)
            BY DEF RunInv
        <3>2. Beside(events, events', q) /\ backend.sent[q] \in Nat
            BY <1>1, <2>1 DEF Backend
        <3>3. /\ Ordered(events', backend.phase[q], backend.sent[q], facade.completed, q)
              /\ Started(events', backend.phase[q], facade, q)
            BY <3>1, <3>2, BesideOrdered, BesideStarted
        <3>4. CASE q # r
            <4>1. \A m \in Nat : Showing(t, q, m)
                BY <2>5, <3>4 DEF Showing, Drawn, Resulting, Run, None
            <4>2. OutputFits(events', t, backend.sent[q], q)
                BY <3>1, <3>2, <4>1, FitsBeside
            <4> QED
                BY <3>3, <4>2
        <3>5. CASE q = r
            <4>1. backend.sent[r] = 0 /\ \A i \in DOMAIN events' : events'[i].run # r
                BY <2>4, <3>3, <3>5 DEF Ordered
            <4> PICK n : n = backend.sent[r]
                OBVIOUS
            <4>2. OnTheWay(events', r, 0, n)
                BY <4>1 DEF OnTheWay
            <4>3. Showing(t, r, 0)
                <5>1. Shown(t) = Output(r, 0 + 1, 0)
                    BY <2>5, OutputEmpty
                <5>2. Drawn(t, r, 0)
                    BY <5>1 DEF Drawn
                <5>3. Resulting(t, r, 0)
                    BY <2>5 DEF Resulting, Run, None
                <5> QED
                    BY <5>2, <5>3 DEF Showing
            <4>4. OutputFits(events', t, n, r)
                BY <4>1, <4>2, <4>3 DEF OutputFits
            <4> QED
                BY <3>3, <3>5, <4>4
        <3> QED
            BY <3>4, <3>5
    <2> QED
        BY <1>2, <2>1, <2>2, <2>5, <2>7, <2>8, <2>9 DEF RunInv
<1> QED
    BY <1>3, <1>4 DEF Ensure, Gives, Failing

\* A step of run r leaves what the others have alone.
LEMMA RunStep ==
    ASSUME RunInv, NEW r \in Run, Types', view' = view, facade' = facade,
           Fresh(view, task', backend'.phase),
           \A q \in Run \ {r} : /\ backend'.phase[q] = backend.phase[q]
                                /\ backend'.sent[q] = backend.sent[q]
                                /\ Beside(events, events', q),
           Ordered(events', backend'.phase[r], backend'.sent[r], facade.completed, r),
           Started(events', backend'.phase[r], facade, r),
           OutputFits(events', view, backend'.sent[r], r)
    PROVE  RunInv'
<1>1. Sound(view) /\ facade.active \notin facade.completed /\ backend \in Backend
    BY DEF RunInv, Types
<1>2. ASSUME NEW q \in Run \ {r}
      PROVE  /\ Ordered(events', backend'.phase[q], backend'.sent[q], facade.completed, q)
             /\ Started(events', backend'.phase[q], facade, q)
             /\ OutputFits(events', view, backend'.sent[q], q)
    <2>1. /\ Ordered(events, backend.phase[q], backend.sent[q], facade.completed, q)
          /\ Started(events, backend.phase[q], facade, q)
          /\ OutputFits(events, view, backend.sent[q], q)
        BY DEF RunInv
    <2>2. /\ backend'.phase[q] = backend.phase[q] /\ backend'.sent[q] = backend.sent[q]
          /\ Beside(events, events', q) /\ backend.sent[q] \in Nat
        BY <1>1 DEF Backend
    <2>3. Ordered(events', backend.phase[q], backend.sent[q], facade.completed, q)
        BY <2>1, <2>2, BesideOrdered
    <2>4. Started(events', backend.phase[q], facade, q)
        BY <2>1, <2>2, BesideStarted
    <2>5. \A m \in Nat : Showing(view, q, m) => Showing(view, q, m)
        OBVIOUS
    <2>6. OutputFits(events', view, backend.sent[q], q)
        BY <2>1, <2>2, <2>5, FitsBeside
    <2> QED
        BY <2>2, <2>3, <2>4, <2>6
<1> QED
    BY <1>1, <1>2 DEF RunInv

\* A run that has been sent stays so.
LEMMA StillFresh ==
    ASSUME RunInv, NEW r \in Run, backend.phase[r] # "none", task' = task,
           \A q \in Run \ {r} : backend'.phase[q] = backend.phase[q]
    PROVE  Fresh(view, task', backend'.phase)
BY DEF RunInv, Fresh

LEMMA DispatchStep == ASSUME RunInv, NEW r \in Run, Dispatch(r) PROVE RunInv'
<1>1. /\ Types /\ Sound(view) /\ backend \in Backend /\ task \in [Run -> Places]
      /\ view' = view /\ facade' = facade /\ events' = events /\ troubles' \in Nat
      /\ events \in Seq(EventSet) /\ task[r] \in {"dispatch", "redispatch"}
    BY Troubled DEF RunInv, Types, Dispatch
<1>2. CASE UNCHANGED backend /\ Goto(r, task'[r]) /\ task'[r] \in {"refused", "missing"}
    <2>1. Steady(view, view, None)
        BY <1>1, SteadySelf
    <2>2. CalmView(view, view)
        BY <2>1, SteadyCalm
    <2>3. task' \in [Run -> Places]
        BY <1>1, <1>2 DEF Goto, Places
    <2>4. \A q \in Run : q # r => task'[q] = task[q]
        BY <1>1, <1>2 DEF Goto
    <2>5. \A q \in Run : /\ task'[q] \in Early => task[q] \in Early
                         /\ task'[q] \in Unsent => task[q] \in Unsent
        BY <1>1, <1>2, <2>4 DEF Early, Unsent
    <2> QED
        BY <1>1, <1>2, <2>2, <2>3, <2>5, QuietStep, ViewTyped
<1>3. CASE /\ backend' = [backend EXCEPT !.marked = r, !.mode = "switching", !.phase[r] = "sent"]
           /\ Goto(r, "ok")
    <2> PICK phases : phases = [backend.phase EXCEPT ![r] = "sent"]
        OBVIOUS
    <2>1. phases \in [Run -> Phase] /\ phases[r] = "sent" /\ \A q \in Run \ {r} : phases[q] = backend.phase[q]
        BY <1>1 DEF Backend, Phase
    <2>2. backend' = [backend EXCEPT !.marked = r, !.mode = "switching", !.phase = phases]
        BY <1>3
    <2>3. backend' \in Backend /\ backend'.phase = phases /\ backend'.sent = backend.sent
        BY <1>1, <2>1, <2>2 DEF Backend, Ids
    <2>4. /\ task' \in [Run -> Places] /\ task'[r] = "ok"
          /\ \A q \in Run : q # r => task'[q] = task[q]
        BY <1>1, <1>3 DEF Goto, Places
    <2>5. Types'
        BY <1>1, <2>3, <2>4 DEF Types
    <2>6. backend.phase[r] = "none"
        BY <1>1 DEF RunInv, Fresh, Unsent
    <2>7. Fresh(view, task', backend'.phase)
        BY <2>1, <2>3, <2>4 DEF RunInv, Fresh, Early, Unsent
    <2>8. \A q \in Run \ {r} : /\ backend'.phase[q] = backend.phase[q]
                               /\ backend'.sent[q] = backend.sent[q]
                               /\ Beside(events, events', q)
        BY <1>1, <2>1, <2>3, BesideSelf
    <2>9. /\ Ordered(events, "none", backend.sent[r], facade.completed, r)
          /\ Started(events, "none", facade, r)
          /\ OutputFits(events, view, backend.sent[r], r)
        BY <2>6 DEF RunInv
    <2>10. Ordered(events', backend'.phase[r], backend'.sent[r], facade.completed, r)
        BY <1>1, <2>1, <2>3, <2>9 DEF Ordered
    <2>11. Started(events', backend'.phase[r], facade, r)
        BY <1>1, <2>1, <2>3, <2>9 DEF Started
    <2>12. OutputFits(events', view, backend'.sent[r], r)
        BY <1>1, <2>3, <2>9
    <2> QED
        BY <1>1, <2>5, <2>7, <2>8, <2>10, <2>11, <2>12, RunStep
<1>4. task'[r] \in {"ok", "refused", "missing"} /\ Goto(r, task'[r])
    BY <1>1 DEF Dispatch, Goto
<1> QED
    BY <1>1, <1>2, <1>3, <1>4 DEF Dispatch, Goto

\* An answer that comes after the start of its run counts the start it finds kept.
LEMMA ReturnsStep == ASSUME RunInv, NEW r \in Run, DispatchReturns(r) PROVE RunInv'
<1>1. /\ Types /\ Sound(view) /\ view \in View /\ facade \in Facade /\ task \in [Run -> Places]
      /\ backend' = backend /\ events' = events /\ troubles' = troubles
      /\ events \in Seq(EventSet)
    BY DEF RunInv, Types, DispatchReturns
<1>2. CalmView(view, view')
    <2>1. CASE view' = view
        <3>1. Steady(view, view, None)
            BY <1>1, SteadySelf
        <3> QED
            BY <2>1, <3>1, SteadyCalm
    <2>2. CASE IsCurrent(view, r) /\ view' = [view EXCEPT !.meta = r, !.summary = r]
        <3> PICK t : t = [view EXCEPT !.meta = r, !.summary = r]
            OBVIOUS
        <3>1. /\ t \in View /\ t.pending = view.pending /\ t.meta = r /\ t.summary = r
              /\ t.timer = view.timer /\ t.followed = view.followed /\ t.late = view.late
              /\ t.finals = view.finals /\ t.history = view.history /\ t.last = view.last
              /\ t.output = view.output /\ t.buffer = view.buffer
            BY <1>1 DEF View, Ids
        <3>2. r \in Current(view)
            BY <1>1, <2>2, CurrentIs
        <3>3. Shown(t) = Shown(view)
            BY <3>1 DEF Shown
        <3>4. Steady(view, t, None)
            BY <1>1, <3>1, <3>2, <3>3, SteadyFields
        <3> QED
            BY <2>2, <3>4, SteadyCalm
    <2> QED
        BY <2>1, <2>2 DEF DispatchReturns, Gives
<1>3. \/ facade' = [facade EXCEPT !.handles = @ \cup {r}]
      \/ /\ r \in facade.started
         /\ facade' = Activate([facade EXCEPT !.handles = @ \cup {r}], r)
    <2> PICK f : f = [facade EXCEPT !.handles = @ \cup {r}]
        OBVIOUS
    <2>1. f.started = facade.started
        BY <1>1 DEF Facade
    <2>2. facade' = IF r \in f.started THEN Activate(f, r) ELSE f
        BY DEF DispatchReturns
    <2> QED
        BY <2>1, <2>2
<1>4. /\ task' \in [Run -> Places] /\ task'[r] = "done"
      /\ \A q \in Run : q # r => task'[q] = task[q]
    BY <1>1 DEF DispatchReturns, Goto, Places
<1>5. CASE facade' = [facade EXCEPT !.handles = @ \cup {r}]
    <2>1. /\ facade' \in Facade /\ facade'.completed = facade.completed /\ facade'.starts = facade.starts
          /\ facade'.started = facade.started /\ facade'.active = facade.active
        BY <1>1, <1>5 DEF Facade
    <2>2. Types'
        BY <1>1, <1>2, <1>4, <2>1, ViewTyped DEF Types
    <2>3. \A q \in Run : Beside(events, events', q)
        BY <1>1, BesideSelf
    <2>4. Calm
        BY <1>1, <1>2, <1>4, <2>1, <2>3 DEF Calm, Early, Unsent
    <2> QED
        BY <2>2, <2>4, CalmStep
<1>6. CASE r \in facade.started /\ facade' = Activate([facade EXCEPT !.handles = @ \cup {r}], r)
    <2> PICK starts : starts = [facade.starts EXCEPT ![r] = @ + 1]
        OBVIOUS
    <2>1. starts \in [Run -> Nat] /\ starts[r] = facade.starts[r] + 1
          /\ \A q \in Run \ {r} : starts[q] = facade.starts[q]
        BY <1>1 DEF Facade
    <2>2. /\ facade' \in Facade /\ facade'.completed = facade.completed /\ facade'.starts = starts
          /\ facade'.started = facade.started \ {r} /\ facade'.active = r
        <3> PICK f : f = [facade EXCEPT !.handles = @ \cup {r}]
            OBVIOUS
        <3>1. /\ f \in Facade /\ f.completed = facade.completed /\ f.starts = facade.starts
              /\ f.started = facade.started
            BY <1>1 DEF Facade
        <3>2. facade' = [f EXCEPT !.active = r, !.started = @ \ {r}, !.starts[r] = @ + 1]
            BY <1>6 DEF Activate
        <3>3. facade' = [f EXCEPT !.active = r, !.started = f.started \ {r}, !.starts = starts]
            BY <3>1, <3>2
        <3> QED
            BY <2>1, <3>1, <3>3 DEF Facade, Ids
    <2>3. /\ facade.starts[r] = 0 /\ r \notin facade.completed
          /\ backend.phase[r] \notin {"none", "sent"}
          /\ \A i \in DOMAIN events : ~ (events[i].type = "started" /\ events[i].run = r)
        BY <1>6 DEF RunInv, Started
    <2>4. \A q \in Run : Started(events', backend'.phase[q], facade', q)
        <3> TAKE q \in Run
        <3>1. CASE q = r
            <4>1. facade'.starts[r] = 1 /\ r \notin facade'.started
                BY <2>1, <2>2, <2>3
            <4> QED
                BY <1>1, <2>3, <3>1, <4>1 DEF Started
        <3>2. CASE q # r
            <4>1. Started(events, backend.phase[q], facade, q)
                BY DEF RunInv
            <4>2. facade'.starts[q] = facade.starts[q] /\ (q \in facade'.started <=> q \in facade.started)
                BY <2>1, <2>2, <3>2
            <4> QED
                BY <1>1, <2>2, <4>1, <4>2 DEF Started
        <3> QED
            BY <3>1, <3>2
    <2>5. \A q \in Run : OutputFits(events', view', backend'.sent[q], q)
        <3> TAKE q \in Run
        <3>1. OutputFits(events, view, backend.sent[q], q) /\ backend.sent[q] \in Nat
            BY DEF RunInv, Types, Backend
        <3>2. Beside(events, events', q)
            BY <1>1, BesideSelf
        <3>3. \A m \in Nat : Showing(view, q, m) => Showing(view', q, m)
            BY <1>2 DEF CalmView
        <3> QED
            BY <1>1, <3>1, <3>2, <3>3, FitsBeside
    <2>6. \A q \in Run : Ordered(events', backend'.phase[q], backend'.sent[q], facade'.completed, q)
        BY <1>1, <2>2 DEF RunInv
    <2>7. Fresh(view', task', backend'.phase)
        BY <1>1, <1>2, <1>4 DEF RunInv, Fresh, CalmView, Early, Unsent
    <2>8. Types'
        BY <1>1, <1>2, <1>4, <2>2, ViewTyped DEF Types
    <2>9. Sound(view') /\ facade'.active \notin facade'.completed
        BY <1>2, <2>2, <2>3 DEF CalmView
    <2> QED
        BY <2>4, <2>5, <2>6, <2>7, <2>8, <2>9 DEF RunInv
<1> QED
    BY <1>3, <1>5, <1>6

\* p is q with events after it, of which e is the only one of run r and the others are
\* of none.
Announces(q, p, r, e) ==
    /\ p \in Seq(EventSet)
    /\ \A o \in Run \ {r} : Beside(q, p, o)
    /\ \E k : With(q, p, r, k) /\ p[k] = e

LEMMA EventSent ==
    ASSUME NEW q \in Seq(EventSet), NEW new \in Seq(EventSet), NEW r \in Run,
           NEW j \in 1 .. Len(new), NEW e, e = new[j], e.run = r,
           \A i \in 1 .. Len(new) : i # j => new[i].run = None,
           NEW p, p = q \o new
    PROVE  Announces(q, p, r, e)
<1>1. Adding(q, new, p)
    BY SentAre
<1>2. r # None /\ \A o \in Run : o # None
    BY DEF Run, None
<1>3. \A o \in Run \ {r} : Beside(q, p, o)
    BY <1>1, <1>2 DEF Adding, Beside
<1> PICK k : k = Len(q) + j
    OBVIOUS
<1>4. k \in DOMAIN p \ DOMAIN q /\ k - Len(q) = j /\ j \in Int
    BY <1>1 DEF Adding
<1>5. p[k] = e
    BY <1>1, <1>4 DEF Adding
<1>6. \A i \in DOMAIN p \ DOMAIN q : p[i].run = r => i = k
    <2> SUFFICES ASSUME NEW i \in DOMAIN p \ DOMAIN q, p[i].run = r PROVE i = k
        OBVIOUS
    <2>1. i - Len(q) \in 1 .. Len(new) /\ p[i] = new[i - Len(q)] /\ i \in Int /\ Len(q) \in Nat
        BY <1>1 DEF Adding
    <2>2. i - Len(q) = j
        BY <1>2, <2>1
    <2> QED
        BY <1>4, <2>1, <2>2
<1>7. With(q, p, r, k)
    BY <1>1, <1>4, <1>5, <1>6 DEF Adding, With
<1>8. p \in Seq(EventSet)
    BY <1>1 DEF Adding, Extends
<1> QED
    BY <1>3, <1>5, <1>7, <1>8 DEF Announces

LEMMA OneSent ==
    ASSUME NEW q \in Seq(EventSet), NEW r \in Run, NEW e \in EventSet, e.run = r,
           NEW new, new = <<e>>, NEW p, p = q \o new
    PROVE  Announces(q, p, r, e)
<1>1. /\ new \in Seq(EventSet) /\ 1 \in 1 .. Len(new) /\ e = new[1]
      /\ \A i \in 1 .. Len(new) : i # 1 => new[i].run = None
    OBVIOUS
<1> QED
    BY <1>1, EventSent

LEMMA StartedStep == ASSUME RunInv, NEW r \in Run, RunStarted(r) PROVE RunInv'
<1>1. /\ Types /\ backend \in Backend /\ events \in Seq(EventSet)
      /\ task' = task /\ view' = view /\ facade' = facade /\ troubles' = troubles
      /\ backend.phase[r] = "sent"
    BY DEF RunInv, Types, RunStarted
<1> PICK phases : phases = [backend.phase EXCEPT ![r] = "started"]
    OBVIOUS
<1>2. /\ phases \in [Run -> Phase] /\ phases[r] = "started"
      /\ \A q \in Run \ {r} : phases[q] = backend.phase[q]
    BY <1>1 DEF Backend, Phase
<1>3. backend' \in Backend /\ backend'.phase = phases /\ backend'.sent = backend.sent
    <2>1. backend' = [backend EXCEPT !.phase = phases,
                                     !.mode = IF @ = "switching" THEN "running" ELSE @]
        BY DEF RunStarted
    <2> QED
        BY <1>1, <1>2, <2>1 DEF Backend
<1> PICK e : e = Event("started", r, 0)
    OBVIOUS
<1>4. e \in EventSet /\ e.run = r /\ e.type = "started"
    BY DEF Event, EventSet, Ids
<1> PICK new : new = <<e>>
    OBVIOUS
<1>5. events' = events \o new
    BY DEF RunStarted, Send
<1>6. Announces(events, events', r, e)
    BY <1>1, <1>4, <1>5, OneSent
<1>7. PICK k : With(events, events', r, k) /\ events'[k] = e
    BY <1>6 DEF Announces
<1>8. /\ Ordered(events, "sent", backend.sent[r], facade.completed, r)
      /\ Started(events, "sent", facade, r)
      /\ OutputFits(events, view, backend.sent[r], r)
    BY <1>1 DEF RunInv
<1>9. /\ Ordered(events', "started", backend.sent[r], facade.completed, r)
      /\ Started(events', "started", facade, r)
    BY <1>4, <1>7, <1>8, StartedEvent
<1>10. OutputFits(events', view, backend.sent[r], r)
    <2>1. PICK m \in 0 .. backend.sent[r] :
              OnTheWay(events, r, m, backend.sent[r]) /\ Showing(view, r, m)
        BY <1>8 DEF OutputFits
    <2>2. OnTheWay(events', r, m, backend.sent[r])
        BY <1>4, <1>7, <2>1, WithOnTheWay
    <2> QED
        BY <2>1, <2>2 DEF OutputFits
<1>11. Types'
    BY <1>1, <1>3, <1>6 DEF Types, Announces
<1>12. Fresh(view, task', backend'.phase)
    BY <1>1, <1>2, <1>3, StillFresh
<1> QED
    BY <1>1, <1>2, <1>3, <1>6, <1>9, <1>10, <1>11, <1>12, RunStep DEF Announces

LEMMA ChunkStep == ASSUME RunInv, NEW r \in Run, RunChunk(r) PROVE RunInv'
<1>1. /\ Types /\ backend \in Backend /\ events \in Seq(EventSet)
      /\ task' = task /\ view' = view /\ facade' = facade /\ troubles' = troubles
      /\ backend.phase[r] \in {"sent", "started"} /\ backend.sent[r] \in Nat
    BY DEF RunInv, Types, RunChunk, Backend
<1> PICK n \in Nat : n = backend.sent[r]
    BY <1>1
<1> PICK counts : counts = [backend.sent EXCEPT ![r] = n + 1]
    OBVIOUS
<1>2. /\ counts \in [Run -> Nat] /\ counts[r] = n + 1
      /\ \A q \in Run \ {r} : counts[q] = backend.sent[q]
    BY <1>1 DEF Backend
<1>3. backend' \in Backend /\ backend'.phase = backend.phase /\ backend'.sent = counts
    <2>1. backend' = [backend EXCEPT !.sent = counts]
        BY DEF RunChunk
    <2> QED
        BY <1>1, <1>2, <2>1 DEF Backend
<1> PICK e : e = Event("chunk", r, n + 1)
    OBVIOUS
<1>4. e \in EventSet /\ e.run = r
    BY DEF Event, EventSet, Ids
<1> PICK new : new = <<e>>
    OBVIOUS
<1>5. events' = events \o new
    BY DEF RunChunk, Send
<1>6. Announces(events, events', r, e)
    BY <1>1, <1>4, <1>5, OneSent
<1>7. PICK k : With(events, events', r, k) /\ events'[k] = e
    BY <1>6 DEF Announces
<1> PICK phase \in {"sent", "started"} : phase = backend.phase[r]
    BY <1>1
<1>8. /\ Ordered(events, phase, n, facade.completed, r)
      /\ Started(events, phase, facade, r)
      /\ OutputFits(events, view, n, r)
    BY DEF RunInv
<1>9. PICK m \in 0 .. n : OnTheWay(events, r, m, n) /\ Showing(view, r, m)
    BY <1>8 DEF OutputFits
<1>10. /\ Ordered(events', phase, n + 1, facade.completed, r) /\ Started(events', phase, facade, r)
       /\ OnTheWay(events', r, m, n + 1)
    BY <1>7, <1>8, <1>9, ChunkEvent
<1>11. OutputFits(events', view, n + 1, r)
    <2>1. m \in 0 .. n + 1
        OBVIOUS
    <2> QED
        BY <1>9, <1>10, <2>1 DEF OutputFits
<1>12. Types'
    BY <1>1, <1>3, <1>6 DEF Types, Announces
<1>13. Fresh(view, task', backend'.phase)
    BY <1>1, <1>3, StillFresh
<1> QED
    BY <1>1, <1>2, <1>3, <1>6, <1>10, <1>11, <1>12, <1>13, RunStep DEF Announces

\* The terminal turns idle before or after the completion, or not at all.
LEMMA CompletionSent ==
    ASSUME Types, NEW r \in Run, RunCompleted(r), NEW e, e = Event("completed", r, Script)
    PROVE  Announces(events, events', r, e)
<1>1. events \in Seq(EventSet)
    BY DEF Types
<1>2. e \in EventSet /\ e.run = r
    BY DEF Event, EventSet, Ids, Script
<1> PICK idle : idle = TurnedIdle
    OBVIOUS
<1>3. idle \in EventSet /\ idle.run = None
    BY IdleEvent
<1>4. PICK new : events' = events \o new /\ new \in {<<e, idle>>, <<idle, e>>, <<e>>}
    BY DEF RunCompleted, Send
<1>5. CASE new = <<e, idle>>
    <2>1. /\ new \in Seq(EventSet) /\ 1 \in 1 .. Len(new) /\ e = new[1]
          /\ \A i \in 1 .. Len(new) : i # 1 => new[i].run = None
        BY <1>2, <1>3, <1>5
    <2> QED
        BY <1>1, <1>2, <1>4, <2>1, EventSent
<1>6. CASE new = <<idle, e>>
    <2>1. /\ new \in Seq(EventSet) /\ 2 \in 1 .. Len(new) /\ e = new[2]
          /\ \A i \in 1 .. Len(new) : i # 2 => new[i].run = None
        BY <1>2, <1>3, <1>6
    <2> QED
        BY <1>1, <1>2, <1>4, <2>1, EventSent
<1>7. CASE new = <<e>>
    BY <1>1, <1>2, <1>4, <1>7, OneSent
<1> QED
    BY <1>4, <1>5, <1>6, <1>7

LEMMA CompletedStep == ASSUME RunInv, NEW r \in Run, RunCompleted(r) PROVE RunInv'
<1>1. /\ Types /\ backend \in Backend
      /\ task' = task /\ view' = view /\ facade' = facade /\ troubles' = troubles
      /\ backend.phase[r] \in {"sent", "started"}
    BY DEF RunInv, Types, RunCompleted
<1> PICK phases : phases = [backend.phase EXCEPT ![r] = "ended"]
    OBVIOUS
<1>2. /\ phases \in [Run -> Phase] /\ phases[r] = "ended"
      /\ \A q \in Run \ {r} : phases[q] = backend.phase[q]
    BY <1>1 DEF Backend, Phase
<1>3. backend' \in Backend /\ backend'.phase = phases /\ backend'.sent = backend.sent
    <2>1. backend' = [backend EXCEPT !.phase = phases,
                          !.mode = IF @ \in {"running", "switching"} THEN "idle" ELSE @]
        BY DEF RunCompleted
    <2> QED
        BY <1>1, <1>2, <2>1 DEF Backend
<1> PICK e : e = Event("completed", r, Script)
    OBVIOUS
<1>4. e.type = "completed"
    BY DEF Event
<1>5. Announces(events, events', r, e)
    BY <1>1, CompletionSent
<1>6. PICK k : With(events, events', r, k) /\ events'[k] = e
    BY <1>5 DEF Announces
<1> PICK phase \in {"sent", "started"} : phase = backend.phase[r]
    BY <1>1
<1>7. /\ Ordered(events, phase, backend.sent[r], facade.completed, r)
      /\ Started(events, phase, facade, r)
      /\ OutputFits(events, view, backend.sent[r], r)
    BY DEF RunInv
<1>8. /\ Ordered(events', "ended", backend.sent[r], facade.completed, r)
      /\ Started(events', "ended", facade, r)
    BY <1>4, <1>6, <1>7, CompletedEvent
<1>9. OutputFits(events', view, backend.sent[r], r)
    <2>1. PICK m \in 0 .. backend.sent[r] :
              OnTheWay(events, r, m, backend.sent[r]) /\ Showing(view, r, m)
        BY <1>7 DEF OutputFits
    <2>2. OnTheWay(events', r, m, backend.sent[r])
        BY <1>4, <1>6, <2>1, WithOnTheWay
    <2> QED
        BY <2>1, <2>2 DEF OutputFits
<1>10. Types'
    BY <1>1, <1>3, <1>5 DEF Types, Announces
<1>11. Fresh(view, task', backend'.phase)
    BY <1>1, <1>2, <1>3, StillFresh
<1> QED
    BY <1>1, <1>2, <1>3, <1>5, <1>8, <1>9, <1>10, <1>11, RunStep DEF Announces

LEMMA DroppedStep == ASSUME RunInv, NEW r \in Run, GuardDropped(r) PROVE RunInv'
<1>1. /\ Types /\ backend \in Backend /\ events \in Seq(EventSet) /\ events' = events
      /\ task' = task /\ view' = view /\ facade' = facade /\ troubles' = troubles
      /\ backend.phase[r] = "ended"
    BY DEF RunInv, Types, GuardDropped
<1> PICK phases : phases = [backend.phase EXCEPT ![r] = "gone"]
    OBVIOUS
<1>2. /\ phases \in [Run -> Phase] /\ phases[r] = "gone"
      /\ \A q \in Run \ {r} : phases[q] = backend.phase[q]
    BY <1>1 DEF Backend, Phase
<1>3. backend' \in Backend /\ backend'.phase = phases /\ backend'.sent = backend.sent
    <2>1. backend' = [backend EXCEPT !.phase = phases, !.marked = IF @ = r THEN None ELSE @]
        BY DEF GuardDropped
    <2> QED
        BY <1>1, <1>2, <2>1 DEF Backend, Ids
<1>4. \A q \in Run \ {r} : Beside(events, events', q)
    BY <1>1, BesideSelf
<1>5. /\ Ordered(events, "ended", backend.sent[r], facade.completed, r)
      /\ Started(events, "ended", facade, r)
      /\ OutputFits(events, view, backend.sent[r], r)
    BY <1>1 DEF RunInv
<1>6. /\ Ordered(events', "gone", backend.sent[r], facade.completed, r)
      /\ Started(events', "gone", facade, r)
    BY <1>1, <1>5 DEF Ordered, Started
<1>7. Types'
    BY <1>1, <1>3 DEF Types
<1>8. Fresh(view, task', backend'.phase)
    BY <1>1, <1>2, <1>3, StillFresh
<1> QED
    BY <1>1, <1>2, <1>3, <1>4, <1>5, <1>6, <1>7, <1>8, RunStep

-------------------------------------------------------------------------------
(* An event is delivered                                                      *)

\* A chunk is shown after what was shown before it.
LEMMA ChunkShows ==
    ASSUME NEW s, Sound(s), NEW r \in Run, NEW m \in Nat, NEW n, n = m + 1,
           NEW e \in EventSet, e = Event("chunk", r, n), NEW t, t = OnBus(s, e), Showing(s, r, m)
    PROVE  Showing(t, r, n)
<1>1. e.type = "chunk" /\ e.run = r
    BY DEF Event
<1>2. /\ Current(t) = Current(s) /\ t.pending = s.pending /\ t.last = s.last
      /\ Shown(t) = IF e.run \in Current(s) THEN Append(Shown(s), e) ELSE Shown(s)
    <2>1. \A f \in EventSet : f.type = "chunk" =>
              /\ Current(OnBus(s, f)) = Current(s) /\ OnBus(s, f).pending = s.pending
              /\ OnBus(s, f).last = s.last
              /\ Shown(OnBus(s, f)) = IF f.run \in Current(s) THEN Append(Shown(s), f) ELSE Shown(s)
        BY BusChunk
    <2> QED
        BY <1>1, <2>1
<1>0. Drawn(s, r, m) /\ Resulting(s, r, m)
    BY DEF Showing
<1>5. Resulting(t, r, n)
    <2>1. 0 .. m \subseteq 0 .. n
        OBVIOUS
    <2> QED
        BY <1>0, <1>2, <2>1 DEF Resulting
<1>3. CASE r \in Current(s)
    <2>1. PICK k \in 0 .. m : Shown(s) = Output(r, k + 1, m) /\ (s.pending = r => k = 0)
        BY <1>0, <1>3 DEF Drawn
    <2>2. Append(Output(r, k + 1, m), e) = Output(r, k + 1, n)
        BY OutputGrows
    <2>3. Shown(t) = Append(Shown(s), e)
        BY <1>1, <1>2, <1>3
    <2>4. Shown(t) = Output(r, k + 1, n)
        BY <2>1, <2>2, <2>3
    <2>5. k \in 0 .. n
        OBVIOUS
    <2> QED
        BY <1>2, <1>5, <2>1, <2>4, <2>5 DEF Showing, Drawn
<1>4. CASE r \notin Current(s)
    BY <1>2, <1>4, <1>5 DEF Showing, Drawn
<1> QED
    BY <1>3, <1>4

\* A chunk of another run changes nothing that is shown.
LEMMA OtherChunkShows ==
    ASSUME NEW s, Sound(s), NEW r \in Run, NEW m \in Nat, NEW e \in EventSet,
           e.type = "chunk", e.run # r, NEW t, t = OnBus(s, e), Showing(s, r, m)
    PROVE  Showing(t, r, m)
<1>1. /\ Current(t) = Current(s) /\ t.pending = s.pending /\ t.last = s.last
      /\ Shown(t) = IF e.run \in Current(s) THEN Append(Shown(s), e) ELSE Shown(s)
    BY BusChunk
<1>0. Drawn(s, r, m) /\ Resulting(t, r, m)
    BY <1>1 DEF Showing, Resulting
<1>2. r \in Current(s) => e.run \notin Current(s)
    BY DEF Sound, OneCurrent
<1>3. CASE r \in Current(s)
    BY <1>0, <1>1, <1>2, <1>3 DEF Showing, Drawn
<1>4. CASE r \notin Current(s)
    BY <1>0, <1>1, <1>4 DEF Showing, Drawn
<1> QED
    BY <1>3, <1>4

LEMMA Delivers ==
    ASSUME RunInv, Deliver, NEW e, e = Head(events)
    PROVE  /\ Rest(events, events') /\ events' \in Seq(EventSet)
           /\ events[1] = e /\ e \in EventSet
           /\ view' = OnBus(AtPanel(view, e), e) \/ view' = AtPanel(OnBus(view, e), e)
           /\ facade' = OnFacade(facade, e)
<1>1. events \in Seq(EventSet) /\ events # <<>> /\ events' = Tail(events)
    BY DEF RunInv, Types, Deliver
<1>2. Rest(events, events') /\ events' \in Seq(EventSet) /\ events[1] = e /\ e \in EventSet
    BY <1>1, TailIsRest
<1> QED
    BY <1>2 DEF Deliver, Gives, AtPanel

LEMMA DeliverStep == ASSUME RunInv, Deliver PROVE RunInv'
<1> PICK e : e = Head(events)
    OBVIOUS
<1> PICK t : t = view'
    OBVIOUS
<1>1. /\ Types /\ Sound(view) /\ facade \in Facade /\ backend \in Backend
      /\ task' = task /\ backend' = backend /\ troubles' = troubles
    BY DEF RunInv, Types, Deliver
<1>2. /\ Rest(events, events') /\ events' \in Seq(EventSet)
      /\ events[1] = e /\ e \in EventSet
      /\ t = OnBus(AtPanel(view, e), e) \/ t = AtPanel(OnBus(view, e), e)
      /\ facade' = OnFacade(facade, e)
    BY Delivers
<1>3. 1 \in DOMAIN events /\ \A r \in Run : r # None
    BY <1>2 DEF Rest, Run, None
<1>4. \A r \in Run : e.run = r => backend.phase[r] # "none" /\ r \notin facade.completed
    BY <1>2, <1>3 DEF RunInv, Ordered
<1>5. Sound(t) /\ Known(t) \subseteq Known(view) \cup {None, e.run}
    <2>1. CASE e.type = "chunk"
        <3>1. t = OnBus(view, e)
            BY <1>1, <1>2, <2>1, DeliveredChunk
        <3> QED
            BY <1>1, <1>2, <2>1, <3>1, BusChunk
    <2>2. CASE e.type # "chunk"
        <3>1. Steady(view, t, e.run)
            BY <1>1, <1>2, <2>2, DeliveredSteady
        <3> QED
            BY <3>1 DEF Steady
    <2> QED
        BY <2>1, <2>2
<1>6. Fresh(t, task', backend'.phase)
    BY <1>1, <1>3, <1>4, <1>5 DEF RunInv, Fresh, Unsent
<1>7. /\ facade' \in Facade
      /\ \/ facade'.completed = facade.completed
         \/ e.type = "completed" /\ facade'.completed = facade.completed \cup {e.run}
      /\ facade'.active \in {facade.active, None} \/ (e.type = "started" /\ facade'.active = e.run)
      /\ e.type = "completed" => facade'.active # e.run
    BY <1>1, <1>2, FacadeTyped
<1>8. facade'.active \notin facade'.completed
    <2>1. facade.active \notin facade.completed /\ None \notin facade'.completed
        BY <1>3, <1>7 DEF RunInv, Facade
    <2>2. e.type = "started" => e.run \in Run
        BY <1>2 DEF EventSet
    <2> QED
        BY <1>4, <1>7, <2>1, <2>2
<1>9. ASSUME NEW r \in Run
      PROVE  /\ Ordered(events', backend.phase[r], backend.sent[r], facade'.completed, r)
             /\ Started(events', backend.phase[r], facade', r)
             /\ OutputFits(events', t, backend.sent[r], r)
    <2>1. /\ Ordered(events, backend.phase[r], backend.sent[r], facade.completed, r)
          /\ Started(events, backend.phase[r], facade, r)
          /\ OutputFits(events, view, backend.sent[r], r)
          /\ backend.sent[r] \in Nat
        BY <1>1 DEF RunInv, Backend
    <2>2. Ordered(events', backend.phase[r], backend.sent[r], facade'.completed, r)
        BY <1>2, <1>7, <2>1, RestOrdered
    <2>3. Started(events', backend.phase[r], facade', r)
        BY <1>1, <1>2, <2>1, RestStarted
    <2> PICK n \in Nat : n = backend.sent[r]
        BY <2>1
    <2>4. PICK m \in 0 .. n : OnTheWay(events, r, m, n) /\ Showing(view, r, m)
        BY <2>1 DEF OutputFits
    <2>5. IF e.type = "chunk" /\ e.run = r
          THEN m + 1 \in 0 .. n /\ e = Event("chunk", r, m + 1) /\ OnTheWay(events', r, m + 1, n)
          ELSE OnTheWay(events', r, m, n)
        BY <1>2, <2>4, RestOnTheWay
    <2>6. OutputFits(events', t, n, r)
        <3>1. CASE e.type = "chunk" /\ e.run = r
            <4>1. PICK k \in 0 .. n : k = m + 1
                BY <2>5, <3>1
            <4>2. t = OnBus(view, e)
                BY <1>1, <1>2, <3>1, DeliveredChunk
            <4>3. m \in Nat /\ e = Event("chunk", r, k) /\ OnTheWay(events', r, k, n)
                BY <2>5, <3>1, <4>1
            <4>4. Showing(t, r, k)
                BY <1>1, <1>2, <2>4, <4>1, <4>2, <4>3, ChunkShows
            <4> QED
                BY <4>3, <4>4 DEF OutputFits
        <3>2. CASE e.type = "chunk" /\ e.run # r
            <4>1. t = OnBus(view, e)
                BY <1>1, <1>2, <3>2, DeliveredChunk
            <4>2. Showing(t, r, m)
                BY <1>1, <1>2, <2>4, <3>2, <4>1, OtherChunkShows
            <4> QED
                BY <2>5, <3>2, <4>2 DEF OutputFits
        <3>3. CASE e.type # "chunk"
            <4>1. Steady(view, t, e.run)
                BY <1>1, <1>2, <3>3, DeliveredSteady
            <4>2. Showing(t, r, m)
                BY <2>4, <4>1, SteadyShows
            <4> QED
                BY <2>5, <3>3, <4>2 DEF OutputFits
        <3> QED
            BY <3>1, <3>2, <3>3
    <2> QED
        BY <2>2, <2>3, <2>6
<1>10. Types'
    BY <1>1, <1>2, <1>5, <1>7 DEF Types, Sound
<1> QED
    BY <1>1, <1>5, <1>6, <1>8, <1>9, <1>10 DEF RunInv

-------------------------------------------------------------------------------
(* The theorems                                                               *)

LEMMA InitHolds == Init => RunInv
<1> SUFFICES ASSUME Init PROVE RunInv
    OBVIOUS
<1>1. Types
    <2>1. view \in View
        <3>1. NoResult \in [run : Ids, output : Seq(EventSet)]
            BY EmptyTyped DEF NoResult, Ids
        <3> PICK result \in [run : Ids, output : Seq(EventSet)] : result = NoResult
            BY <3>1
        <3>2. view = [running |-> FALSE, pending |-> None, summary |-> None, meta |-> None,
                      last |-> result, finals |-> <<>>, history |-> <<>>,
                      timer |-> None, output |-> <<>>, buffer |-> <<>>,
                      listening |-> FALSE, ensured |-> FALSE,
                      mounted |-> TRUE, attached |-> TRUE, visible |-> TRUE, connected |-> TRUE,
                      followed |-> None, late |-> {}]
            BY DEF Init
        <3> QED
            BY <3>2, EmptyTyped DEF View, Ids
    <2>2. facade \in Facade /\ backend \in Backend /\ task \in [Run -> Places]
        BY DEF Init, Facade, Backend, Ids, Phase, Places
    <2> QED
        BY <2>1, <2>2, EmptyTyped DEF Init, Types
<1>2. /\ view.pending = None /\ view.meta = None /\ view.summary = None
      /\ view.timer = None /\ view.followed = None /\ view.late = {}
      /\ view.finals = <<>> /\ view.history = <<>> /\ view.last.run = None
    BY DEF Init, NoResult
<1>3. Current(view) = {} /\ \A r \in Run : r # None
    BY <1>2 DEF Current, Run, None
<1>4. Known(view) \subseteq {None}
    BY <1>2, <1>3 DEF Known
<1>5. Sound(view)
    BY <1>1, <1>2, <1>3 DEF Types, Sound, OneCurrent, Open, Logged
<1>6. Fresh(view, task, backend.phase)
    BY <1>3, <1>4 DEF Init, Fresh
<1>7. facade.active \notin facade.completed
    BY DEF Init
<1>8. ASSUME NEW r \in Run
      PROVE  /\ Ordered(events, backend.phase[r], backend.sent[r], facade.completed, r)
             /\ Started(events, backend.phase[r], facade, r)
             /\ OutputFits(events, view, backend.sent[r], r)
    <2>1. /\ DOMAIN events = {} /\ backend.phase[r] = "none" /\ backend.sent[r] = 0
          /\ facade.starts[r] = 0 /\ facade.started = {} /\ facade.completed = {}
        BY DEF Init
    <2>2. OnTheWay(events, r, 0, 0)
        BY <2>1 DEF OnTheWay
    <2>3. Showing(view, r, 0)
        BY <1>2, <1>3, IdleShows DEF Resulting
    <2>4. OutputFits(events, view, 0, r)
        BY <2>2, <2>3 DEF OutputFits
    <2> QED
        BY <2>1, <2>4 DEF Ordered, Started
<1> QED
    BY <1>1, <1>5, <1>6, <1>7, <1>8 DEF RunInv

LEMMA NextHolds == RunInv /\ [Next]_vars => RunInv'
<1> SUFFICES ASSUME RunInv, [Next]_vars PROVE RunInv'
    OBVIOUS
<1>1. ASSUME NEW r \in Run, runScript(r) PROVE RunInv'
    BY <1>1, runScriptStep
<1>2. ASSUME NEW r \in Run, Listen(r) PROVE RunInv'
    BY <1>2, ListenStep
<1>3. ASSUME NEW r \in Run, Ensure(r) PROVE RunInv'
    BY <1>3, EnsureStep
<1>4. ASSUME NEW r \in Run, Dispatch(r) PROVE RunInv'
    BY <1>4, DispatchStep
<1>5. ASSUME NEW r \in Run, DispatchReturns(r) PROVE RunInv'
    BY <1>5, ReturnsStep
<1>6. ASSUME NEW r \in Run, DispatchThrows(r) PROVE RunInv'
    BY <1>6, ThrowsStep
<1>7. ASSUME NEW r \in Run, Reconnect(r) PROVE RunInv'
    BY <1>7, ReconnectStep
<1>8. ASSUME NEW r \in Run, RunStarted(r) PROVE RunInv'
    BY <1>8, StartedStep
<1>9. ASSUME NEW r \in Run, RunChunk(r) PROVE RunInv'
    BY <1>9, ChunkStep
<1>10. ASSUME NEW r \in Run, RunCompleted(r) PROVE RunInv'
    BY <1>10, CompletedStep
<1>11. ASSUME NEW r \in Run, GuardDropped(r) PROVE RunInv'
    BY <1>11, DroppedStep
<1>12. CASE InteractiveExits
    BY <1>12, ExitStep
<1>13. CASE Connect
    BY <1>13, ConnectStep
<1>14. CASE Deliver
    BY <1>14, DeliverStep
<1>15. CASE LateCompletion
    BY <1>15, LateCompletionStep
<1>16. CASE FlushOutput
    BY <1>16, FlushStep
<1>17. CASE CompletionTimeout
    BY <1>17, TimeoutStep
<1>18. CASE Mount \/ Attach \/ Detach \/ Show \/ Hide
    BY <1>18, PanelStep
<1>19. CASE CloseWorkspace
    BY <1>19, CloseStep
<1>20. CASE UNCHANGED vars
    <2>1. UNCHANGED <<task, view, facade, backend, events, troubles>> /\ Types /\ Sound(view)
        BY <1>20 DEF vars, RunInv
    <2>2. Steady(view, view, None)
        BY <2>1, SteadySelf
    <2>3. CalmView(view, view)
        BY <2>2, SteadyCalm
    <2> QED
        BY <2>1, <2>3, QuietStep DEF Types
<1> QED
    BY <1>1, <1>2, <1>3, <1>4, <1>5, <1>6, <1>7, <1>8, <1>9, <1>10, <1>11, <1>12, <1>13,
       <1>14, <1>15, <1>16, <1>17, <1>18, <1>19, <1>20 DEF Next, TaskStep

\* What the workbench, the panel, the facade and the backend know of the runs agrees:
\* runScript, the listeners of the events and the backend's tasks keep RunInv.
THEOREM Inductive == Spec => []RunInv
<1> QED
    BY InitHolds, NextHolds, PTL DEF Spec

\* A run that has not been announced is pending nowhere, has no timer and is not
\* followed by the panel, and the facade knows only runs (types of
\* useTerminalRun.ts, facade.ts and session.ts).
THEOREM TypeCorrect == Spec => []TypeOK
<1>1. RunInv => TypeOK
    <2> SUFFICES ASSUME RunInv PROVE TypeOK
        OBVIOUS
    <2>1. Types /\ Fresh(view, task, backend.phase)
        BY DEF RunInv
    <2>2. task \in [Run -> {"new", "listen", "ensure", "dispatch", "ok", "refused",
                            "missing", "redispatch", "done"}]
        BY <2>1 DEF Types, Places
    <2>3. {view.pending, view.meta, view.summary, view.timer, view.followed} \subseteq Run \cup {None}
        BY <2>1 DEF Types, View, Ids
    <2>4. ASSUME NEW r \in Run, task[r] \in {"new", "listen", "ensure"}
          PROVE  r \notin {view.pending, view.meta, view.summary, view.timer, view.followed}
        <3>1. r \notin Known(view) /\ r # None
            BY <2>1, <2>4 DEF Fresh, Early, Run, None
        <3> QED
            BY <3>1 DEF Known, Current
    <2>5. facade.handles \cup facade.started \subseteq Run
        BY <2>1 DEF Types, Facade
    <2> QED
        BY <2>2, <2>3, <2>4, <2>5 DEF TypeOK
<1> QED
    BY <1>1, Inductive, PTL

\* finalizeTerminalRun writes one entry of the history for a run, however often and
\* from wherever its end is reported.
THEOREM OnceInHistory == Spec => []HistoryOnce
<1>1. RunInv => HistoryOnce
    BY DEF RunInv, Sound, Logged, HistoryOnce
<1> QED
    BY <1>1, Inductive, PTL

\* The runtime store never shows a run whose completion has arrived as active, and
\* counts the start of a run once, whether it comes before or after the answer to its
\* dispatch (facade.ts).
THEOREM NoGhosts == Spec => []NoGhostRun
<1>1. RunInv => NoGhostRun
    BY DEF RunInv, Started, NoGhostRun
<1> QED
    BY <1>1, Inductive, PTL

\* Only the listeners take an event off.
LEMMA OnlyDelivered ==
    ASSUME Types, Next, events # <<>>, events' = Tail(events)
    PROVE  Deliver
<1>1. events \in Seq(EventSet)
    BY DEF Types
<1>2. Len(events') < Len(events) /\ Len(events') \in Int /\ Len(events) \in Int
    BY <1>1, HeadTailProperties
<1>3. \A new \in Seq(EventSet) : Len(events) <= Len(events \o new)
    <2> TAKE new \in Seq(EventSet)
    <2>1. Adding(events, new, events \o new)
        BY <1>1, SentAre
    <2> QED
        BY <2>1 DEF Adding, Extends
<1>4. ~ Ready
    <2> SUFFICES ASSUME Ready PROVE FALSE
        OBVIOUS
    <2>1. PICK r : r \in Run
        BY TerminalAssumption DEF Run
    <2>2. Beside(events, events', r)
        BY <2>1, ReadySteps
    <2> QED
        BY <1>2, <2>2 DEF Beside, Extends
<1>5. ASSUME NEW e \in EventSet PROVE ~ Send(<<e>>)
    <2>1. <<e>> \in Seq(EventSet)
        OBVIOUS
    <2> QED
        BY <1>2, <1>3, <2>1 DEF Send
<1>6. events' # events
    BY <1>2
<1>7. ASSUME NEW r \in Run PROVE ~ runScript(r) /\ ~ TaskStep(r)
    BY <1>4, <1>6 DEF runScript, TaskStep, Listen, Ensure, Dispatch, DispatchReturns,
                      DispatchThrows, Reconnect
<1>8. ASSUME NEW r \in Run PROVE ~ RunStarted(r) /\ ~ RunChunk(r)
    <2>1. Event("started", r, 0) \in EventSet
        BY DEF Event, EventSet, Ids
    <2>2. Event("chunk", r, backend.sent[r] + 1) \in EventSet
        BY DEF Event, EventSet, Ids, Types, Backend
    <2> QED
        BY <1>5, <2>1, <2>2 DEF RunStarted, RunChunk
<1>9. ASSUME NEW r \in Run PROVE ~ RunCompleted(r) /\ ~ GuardDropped(r)
    <2>1. ~ RunCompleted(r)
        <3> SUFFICES ASSUME RunCompleted(r) PROVE FALSE
            OBVIOUS
        <3> PICK e : e = Event("completed", r, Script)
            OBVIOUS
        <3>1. Announces(events, events', r, e)
            BY CompletionSent
        <3> QED
            BY <1>2, <3>1 DEF Announces, With, Extends
    <2> QED
        BY <1>6, <2>1 DEF GuardDropped
<1>10. ~ InteractiveExits /\ ~ Connect
    <2>1. Event("exited", None, Shell) \in EventSet
        BY DEF Event, EventSet, Ids, Shell
    <2> QED
        BY <1>4, <1>5, <2>1 DEF InteractiveExits, Connect
<1>11. ~ (LateCompletion \/ FlushOutput \/ CompletionTimeout
          \/ Mount \/ Attach \/ Detach \/ Show \/ Hide \/ CloseWorkspace)
    BY <1>6 DEF LateCompletion, FlushOutput, CompletionTimeout, Mount, Attach, Detach, Show,
                Hide, CloseWorkspace, Only
<1> QED
    BY <1>7, <1>8, <1>9, <1>10, <1>11 DEF Next

\* Nothing of a run comes after its completion, so when that is delivered all the
\* output has come.
LEMMA AllShown ==
    ASSUME RunInv, NEW r \in Run, r \in Current(view), 1 \in DOMAIN events,
           DOMAIN events \subseteq Nat \ {0}, events[1].type = "completed", events[1].run = r,
           NEW n \in Nat, n = backend.sent[r]
    PROVE  \E k \in 0 .. n : Shown(view) = Output(r, k + 1, n) /\ (view.pending = r => k = 0)
<1>1. Ordered(events, backend.phase[r], n, facade.completed, r) /\ OutputFits(events, view, n, r)
    BY DEF RunInv
<1>2. PICK m \in 0 .. n : OnTheWay(events, r, m, n) /\ Showing(view, r, m)
    BY <1>1 DEF OutputFits
<1>3. m = n
    <2> SUFFICES ASSUME m # n PROVE FALSE
        OBVIOUS
    <2>1. PICK i \in DOMAIN events : events[i] = Event("chunk", r, m + 1)
        BY <1>2 DEF OnTheWay
    <2>2. i # 1 /\ events[i].run = r
        BY <2>1 DEF Event
    <2> QED
        BY <1>1, <2>2 DEF Ordered
<1> QED
    BY <1>2, <1>3 DEF Showing, Drawn

\* The result that useTerminalRun.ts keeps of a run, whatever ended it, is one stretch of
\* that run's own output: late chunks of an earlier run are never part of it.
THEOREM ResultsAreOwn == Spec => []ResultIsOwn
<1>1. RunInv => ResultIsOwn
    <2> SUFFICES ASSUME RunInv, NEW r, r = view.last.run, r # None
                 PROVE  \E j, k \in 0 .. backend.sent[r] : view.last.output = Output(r, j + 1, k)
        BY DEF ResultIsOwn
    <2>1. r \in Run /\ backend.sent[r] \in Nat
        BY DEF RunInv, Types, View, Backend, Ids
    <2>2. PICK m \in 0 .. backend.sent[r] : Resulting(view, r, m)
        BY <2>1 DEF RunInv, OutputFits, Showing
    <2>3. PICK j, k \in 0 .. m : view.last.output = Output(r, j + 1, k)
        BY <2>2 DEF Resulting
    <2>4. 0 .. m \subseteq 0 .. backend.sent[r]
        BY <2>1
    <2> QED
        BY <2>3, <2>4
<1> QED
    BY <1>1, Inductive, PTL

\* When the completion of the current run arrives, handleIntegratedTerminalRunCompleted
\* records it with the script's exit code and its whole output, but for what closing the
\* workspace cleared.
THEOREM CompletionRecorded == Spec => CompletionIsRecorded
<1>1. ASSUME RunInv, Next, NEW r \in Run, events # <<>>,
             Head(events) = Event("completed", r, Script), events' = Tail(events),
             IsCurrent(view, r)
      PROVE  /\ view'.history = Append(view.history, [run |-> r, code |-> Script])
             /\ \E k \in 0 .. backend.sent[r] :
                   /\ view.pending = r => k = 0
                   /\ view'.last.output = Output(r, k + 1, backend.sent[r])
    <2> PICK e : e = Head(events)
        OBVIOUS
    <2> PICK t : t = view'
        OBVIOUS
    <2>1. Types /\ Sound(view) /\ view \in View /\ backend.sent[r] \in Nat
        BY <1>1 DEF RunInv, Types, Backend
    <2>2. Deliver
        BY <1>1, <2>1, OnlyDelivered
    <2>3. /\ Rest(events, events') /\ events[1] = e /\ e \in EventSet
          /\ t = OnBus(AtPanel(view, e), e) \/ t = AtPanel(OnBus(view, e), e)
        BY <1>1, <2>2, Delivers
    <2>4. e.type = "completed" /\ e.run = r /\ e.n = Script
        BY <1>1 DEF Event
    <2>5. r \in Current(view)
        BY <1>1, <2>1, CurrentIs
    <2>6. Recording(view, t, e.run, e.n)
        BY <2>1, <2>3, <2>4, <2>5, DeliveredRecords
    <2>7. \E k \in 0 .. backend.sent[r] :
              Shown(view) = Output(r, k + 1, backend.sent[r]) /\ (view.pending = r => k = 0)
        BY <1>1, <2>1, <2>3, <2>4, <2>5, AllShown DEF Rest
    <2> QED
        BY <2>4, <2>6, <2>7 DEF Recording
<1>2. RunInv /\ [Next]_vars =>
          [\A r \in Run :
              (events # <<>> /\ Head(events) = Event("completed", r, Script) /\ events' = Tail(events)
                 /\ IsCurrent(view, r) /\ ~ hasFinalizedTerminalRun(view, r))
              => /\ view'.history = Append(view.history, [run |-> r, code |-> Script])
                 /\ \E k \in 0 .. backend.sent[r] :
                       /\ view.pending = r => k = 0
                       /\ view'.last.output = Output(r, k + 1, backend.sent[r])]_vars
    BY <1>1
<1> QED
    BY <1>2, Inductive, PTL DEF Spec, CompletionIsRecorded
=============================================================================
