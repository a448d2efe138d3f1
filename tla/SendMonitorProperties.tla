----------------------- MODULE SendMonitorProperties -----------------------
(***************************************************************************)
(* What the GCS send monitor guarantees to gcs_repl(), gcs_send() and      *)
(* gcs_close().                                                            *)
(***************************************************************************)
EXTENDS SendMonitor, Sequences, SequencesExt

Inside == {t \in Threads : pc[t] = "inside"}

\* gcs_core_send() is serialised: whatever mix of interrupts, pauses and wake-
\* ups, one thread at a time is between gcs_sm_enter() and gcs_sm_leave().
ExclusiveSend == Cardinality(Inside) = entered /\ entered <= 1

\* The assertions of _gcs_sm_leave_common(), _gcs_sm_enqueue_common() and
\* _gcs_sm_wake_up_next(): a thread that comes back from the wait finds itself
\* at the head or interrupted, and the one inside has emptied its place.
AssertsHold ==
    /\ \A t \in Threads :
         /\ pc[t] \in {"waiting", "closing"} /\ t \notin asleep /\ wait[slot[t]] =>
               slot[t] = wait_q_head /\ cond[slot[t]] = t
         /\ pc[t] = "inside" => ~ wait[wait_q_head] /\ cond[wait_q_head] = NoThread
    /\ \A i \in Slots : wait[i] <=> cond[i] # NoThread

\* Every thread that queued gets in, is interrupted or finds the monitor closed.
WaiterReturns == \A t \in Senders : pc[t] = "waiting" ~> pc[t] # "waiting"

\* gcs_sm_close() returns.
CloseReturns == \A c \in Closers : pc[c] \in {"full", "closing"} ~> pc[c] = "closed"

\* The send monitor is FIFO: it implements FifoEntry, the line being the
\* waiters from the head on that were not interrupted.
LineOf(n) == [k \in 1..n |-> Step(wait_q_head, k - 1)]
Line == LET q == SelectSeq(LineOf(users), LAMBDA i : wait[i]) IN [k \in DOMAIN q |-> cond[q[k]]]
Fifo == INSTANCE FifoEntry WITH line <- Line, inside <- Inside
ImplementsFifoEntry == Fifo!Spec

----------------------------------------------------------------------------
(* The inductive invariant behind ExclusiveSend and AssertsHold: who holds *)
(* a place of wait_q, between head and tail, and who has been signalled.   *)

TypeOK ==
    /\ entered \in 0..1 /\ ret \in {"OK", "EBADFD"} /\ pause \in BOOLEAN
    /\ pc \in [Threads -> SenderPc \cup CloserPc]
    /\ \A t \in Senders : pc[t] \in SenderPc
    /\ \A t \in Closers : pc[t] \in CloserPc
    /\ slot \in [Threads -> Slots]
    /\ handle \in [Threads -> BOOLEAN]
    /\ aborted \in [Threads -> BOOLEAN]

InLine == {"waiting", "closing"}

\* how far place i is from the head h
Distance(i, h) == IF i >= h THEN i - h ELSE i - h + WaitQLen

\* A queue of n places from h to tl that holds w and c, with the threads as
\* asleep, p their pc and s their places: a place in use lies between head and
\* tail and belongs to the one thread that waits in it, and a thread that was
\* signalled and not interrupted is at the head.
QueueOK(n, h, tl, w, c, as, p, s) ==
    /\ n \in 0..WaitQLen /\ h \in Slots /\ tl \in Slots
    /\ Step(tl, 1) = Step(h, n)
    /\ w \in [Slots -> BOOLEAN] /\ c \in [Slots -> Threads \cup {NoThread}] /\ as \subseteq Threads
    /\ \A i \in Slots : w[i] <=> c[i] # NoThread
    /\ \A i \in Slots : w[i] => Distance(i, h) < n
    /\ \A i \in Slots : w[i] => s[c[i]] = i /\ p[c[i]] \in InLine
    /\ \A t, u \in Threads : p[t] \in InLine /\ p[u] \in InLine /\ s[t] = s[u] => t = u
    /\ \A t \in Threads : p[t] = "closing" => w[s[t]]
    /\ \A t \in Threads : p[t] \in InLine /\ t \notin as /\ w[s[t]] => s[t] = h

\* the thread inside has emptied the place at the head
InsideOK ==
    /\ \A t \in Threads : pc[t] = "inside" => ~ wait[wait_q_head] /\ users >= 1
    /\ \A t, u \in Threads : pc[t] = "inside" /\ pc[u] = "inside" => t = u
    /\ entered = 1 <=> \E t \in Threads : pc[t] = "inside"

SMInv ==
    /\ TypeOK
    /\ QueueOK(users, wait_q_head, wait_q_tail, wait, cond, asleep, pc, slot)
    /\ InsideOK
============================================================================
