----------------------------- MODULE EditIntent ------------------------------
(***************************************************************************)
(* What an AED file transaction promises, whatever its manifest, staging   *)
(* and recovery do underneath: an edit is decided at one instant, nothing  *)
(* of an undecided edit reaches a file, a decided edit is recorded only    *)
(* after every one of its files was written, and a closed or discarded     *)
(* edit never writes again.  Between the decision and the close the files  *)
(* are written one at a time, possibly more than once.                     *)
(***************************************************************************)
EXTENDS Integers, Sequences

CONSTANTS Tx, Path, Content

VARIABLES
    file,     \* [Path -> Content]
    phase,    \* [Tx -> Phase]
    change,   \* [Tx -> Seq([path, base, content])]: what the edit is to write
    written,  \* [Tx -> SUBSET Nat]: the writes done so far
    edits     \* writes by somebody else

vars == <<file, phase, change, written, edits>>

Phase == {"new", "open", "discarded", "decided", "recorded", "closed"}

Init ==
    /\ file \in [Path -> Content]
    /\ phase   = [t \in Tx |-> "new"]
    /\ change  = [t \in Tx |-> << >>]
    /\ written = [t \in Tx |-> {}]
    /\ edits   = 0

Open(t) ==
    /\ phase[t] = "new"
    /\ phase' = [phase EXCEPT ![t] = "open"]
    /\ change'[t] \in Seq([path : Path, base : Content, content : Content])
    /\ change' = [change EXCEPT ![t] = change'[t]]
    /\ UNCHANGED <<file, written, edits>>

Discard(t) ==
    /\ phase[t] = "open"
    /\ phase' = [phase EXCEPT ![t] = "discarded"]
    /\ UNCHANGED <<file, change, written, edits>>

Decide(t) ==
    /\ phase[t] = "open"
    /\ phase' = [phase EXCEPT ![t] = "decided"]
    /\ UNCHANGED <<file, change, written, edits>>

Write(t, i) ==
    /\ phase[t] \in {"decided", "recorded"}
    /\ file'    = [file EXCEPT ![change[t][i].path] = change[t][i].content]
    /\ written' = [written EXCEPT ![t] = @ \cup {i}]
    /\ UNCHANGED <<phase, change, edits>>

Record(t) ==
    /\ phase[t] = "decided"
    /\ written[t] = DOMAIN change[t]
    /\ phase' = [phase EXCEPT ![t] = "recorded"]
    /\ UNCHANGED <<file, change, written, edits>>

Close(t) ==
    /\ phase[t] = "recorded"
    /\ phase' = [phase EXCEPT ![t] = "closed"]
    /\ UNCHANGED <<file, change, written, edits>>

EditByOther ==
    /\ edits' = edits + 1
    /\ \E f \in Path, c \in Content : file' = [file EXCEPT ![f] = c]
    /\ UNCHANGED <<phase, change, written>>

Next ==
    \/ \E t \in Tx :
          \/ Open(t) \/ Discard(t) \/ Decide(t) \/ Record(t) \/ Close(t)
          \/ \E i \in DOMAIN change[t] : Write(t, i)
    \/ EditByOther

Spec == Init /\ [][Next]_vars
==============================================================================
