----------------------------- MODULE FifoEntry -----------------------------
(***************************************************************************)
(* What the send monitor promises: "fair (FIFO) access to gcs_core_send()".*)
(* Callers stand in one line, one at a time goes in, always the first of   *)
(* the line, and a caller may give up (interrupted, or the monitor closed) *)
(* from anywhere in the line.                                              *)
(***************************************************************************)
EXTENDS Sequences, SequencesExt

CONSTANT Threads

VARIABLES line, inside

vars == <<line, inside>>

Init == line = <<>> /\ inside = {}

JoinLine(t) ==
    /\ t \notin inside /\ \A i \in DOMAIN line : line[i] # t
    /\ line' = Append(line, t)
    /\ UNCHANGED inside

\* at once when nobody is in line, from the front of the line otherwise
GoIn(t) ==
    /\ inside = {}
    /\ inside' = {t}
    /\ \/ line = <<>> /\ UNCHANGED line
       \/ line # <<>> /\ t = Head(line) /\ line' = Tail(line)

GoOut(t) ==
    /\ inside = {t}
    /\ inside' = {}
    /\ UNCHANGED line

GiveUp(i) ==
    /\ line' = RemoveAt(line, i)
    /\ UNCHANGED inside

Next ==
    \/ \E t \in Threads : JoinLine(t) \/ GoIn(t) \/ GoOut(t)
    \/ \E i \in DOMAIN line : GiveUp(i)

Spec == Init /\ [][Next]_vars
============================================================================
