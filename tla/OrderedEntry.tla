--------------------------- MODULE OrderedEntry ---------------------------
(***************************************************************************)
(* What a galera::Monitor promises, without slots, windows or sleeping     *)
(* threads: each seqno goes through the critical section at most once, or  *)
(* is skipped, and goes in only after the seqnos it has to follow are done.*)
(***************************************************************************)
EXTENDS Integers

CONSTANTS MaxSeqno, Order, Local, Positions

Seqno == 1..MaxSeqno

VARIABLES
    inside,   \* seqnos in the critical section
    done,     \* seqnos that left it, were cancelled or came with a snapshot
    depends   \* the seqno a transaction has to wait for

vars == <<inside, done, depends>>

DoneUpTo(n) == \A i \in Seqno : i <= n => i \in done

\* What the order classes are documented to guarantee.
MayGoIn(s) ==
    \/ Order = "OOOC"
    \/ Order = "APPLY" /\ (s \in Local \/ DoneUpTo(depends[s]))
    \/ Order = "LOCAL_OOOC" /\ (s \in Local \/ DoneUpTo(s - 1))
    \/ Order \in {"LOCAL", "NO_OOOC"} /\ DoneUpTo(s - 1)

Init ==
    /\ inside = {}
    /\ \E p \in -1..MaxSeqno : done = {s \in Seqno : s <= p}
    /\ depends = [s \in Seqno |-> 0]

\* certification fixes what s depends on
Certify(s) ==
    /\ s \notin inside \cup done
    /\ \E d \in 0..(s - 1) : depends' = [depends EXCEPT ![s] = d]
    /\ UNCHANGED <<inside, done>>

GoIn(s) ==
    /\ s \notin inside \cup done
    /\ \E d \in 0..(s - 1) : depends' = [depends EXCEPT ![s] = d]
    /\ MayGoIn(s)'
    /\ inside' = inside \cup {s}
    /\ UNCHANGED done

GoOut(s) ==
    /\ s \in inside
    /\ inside' = inside \ {s}
    /\ done' = done \cup {s}
    /\ UNCHANGED depends

Skip(s) ==
    /\ s \notin inside \cup done
    /\ done' = done \cup {s}
    /\ UNCHANGED <<inside, depends>>

\* a snapshot replaces everything up to p, with nobody inside
Install(p) ==
    /\ inside = {}
    /\ done' = done \cup {s \in Seqno : s <= p}
    /\ UNCHANGED <<inside, depends>>

Next ==
    \/ \E s \in Seqno : Certify(s) \/ GoIn(s) \/ GoOut(s) \/ Skip(s)
    \/ \E p \in Positions : Install(p)

Spec == Init /\ [][Next]_vars
===========================================================================
