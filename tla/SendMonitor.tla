---------------------------- MODULE SendMonitor ----------------------------
(***************************************************************************)
(* The GCS send monitor (gcs/src/gcs_sm.h, gcs_sm.c): a FIFO critical      *)
(* section that serialises gcs_core_send() between the threads of a node.  *)
(* Waiters sit in a circular array, may be interrupted there by a BF abort *)
(* and are held back while flow control pauses the monitor; closing it     *)
(* makes everybody leave with an error.                                    *)
(*                                                                         *)
(* sm->lock protects the object, so one critical section is one action.    *)
(* gcs_sm_schedule() returns with the lock held and gcs_sm_enter() goes on *)
(* under it, so the two are one action too.  A thread in gu_cond_wait() is *)
(* in asleep; once signalled it goes on whenever it is scheduled.  The     *)
(* wait is not in a loop, so that a spurious wake-up would be taken for a  *)
(* signal; condition variables are taken not to have any.                  *)
(***************************************************************************)
EXTENDS Integers, FiniteSets

CONSTANTS
    WaitQLen,        \* wait_q_len (1 << 16 in the code, at least 2)
    Senders,    \* threads that call gcs_repl() or gcs_send()
    Closers,    \* threads that call gcs_close()
    NoThread,   \* the NULL condition variable
    Prompt      \* TRUE: no thread sleeps through a whole turn of wait_q

Threads == Senders \cup Closers
Slots   == 0..(WaitQLen - 1)

ASSUME LenAssumption    == WaitQLen \in Nat /\ WaitQLen >= 2
ASSUME ThreadAssumption == /\ IsFiniteSet(Threads) /\ NoThread \notin Threads
                           /\ Senders \cap Closers = {}
ASSUME PromptAssumption == Prompt \in BOOLEAN

VARIABLES
    users, entered, ret, pause,
    wait_q_head, wait_q_tail,
    wait,     \* wait_q[i].wait
    cond,     \* wait_q[i].cond, as the thread that waits on it
    asleep,   \* threads in gu_cond_wait()
    pc,       \* where a thread is
    slot,     \* its place in wait_q: the local tail, and its handle
    handle,   \* whether gcs_sm_schedule() gave it a handle to interrupt
    aborted   \* whether a BF abort asked for it (the trx is MUST_ABORT)

queueVars  == <<users, wait_q_head, asleep>>
threadVars == <<pc, slot, handle, aborted>>
vars == <<users, entered, ret, pause, wait_q_head, wait_q_tail, wait, cond, asleep,
          pc, slot, handle, aborted>>

\* "sent" is gcs_repl() waiting for delivery, outside the monitor
SenderPc == {"out", "waiting", "inside", "sent"}
CloserPc == {"out", "full", "closing", "closed"}

----------------------------------------------------------------------------

\* GCS_SM_INCREMENT, n times
Step(i, n) == (i + n) % WaitQLen

\* mutant of HasToWait: only the threads inside count
HasToWaitEntered(n) == entered > 0 \/ pause

\* GCS_SM_HAS_TO_WAIT, n being the value of users
HasToWait(n) == n > 1 \/ pause

\* how many interrupted waiters _gcs_sm_wake_up_next() skips at the head
Skipped(n, head, w) ==
    CHOOSE k \in 0..n : /\ \A i \in 0..(k - 1) : ~ w[Step(head, i)]
                        /\ k < n => w[Step(head, k)]

\* _gcs_sm_wake_up_next(): what becomes of users n, head and the sleepers as
\* when in threads are inside and the queue holds w and c
WakeUpNext(n, head, in, w, c, as) ==
    LET k == IF in = 0 THEN Skipped(n, head, w) ELSE 0
        h == Step(head, k)
    IN  [users  |-> n - k,
         head   |-> h,
         asleep |-> IF in = 0 /\ k < n THEN as \ {c[h]} ELSE as]

SetQueue(q) == users' = q.users /\ wait_q_head' = q.head /\ asleep' = q.asleep

\* _gcs_sm_leave_common(): a pause leaves the waking to gcs_sm_continue()
LeaveCommon(in, w, c) ==
    SetQueue(IF pause
             THEN [users |-> users - 1, head |-> Step(wait_q_head, 1), asleep |-> asleep]
             ELSE WakeUpNext(users - 1, Step(wait_q_head, 1), in, w, c, asleep))

\* Usage: place i is not that of another thread that has been signalled or
\* interrupted in it and has not run since.
Reusable(t, i) ==
    Prompt => \A o \in Threads \ {t} : pc[o] \in {"waiting", "closing"} => slot[o] # i

\* the tail is advanced and _gcs_sm_enqueue_common() goes to sleep, in a queue
\* of n others that holds w and c
Enqueue(t, n, w, c, as) ==
    LET i == Step(wait_q_tail, 1) IN
    /\ Reusable(t, i)
    /\ users' = n + 1
    /\ wait_q_tail' = i
    /\ wait' = [w EXCEPT ![i] = TRUE]
    /\ cond' = [c EXCEPT ![i] = t]
    /\ slot' = [slot EXCEPT ![t] = i]
    /\ asleep' = as \cup {t}

\* the call is over and its locals are gone
Return(t) ==
    /\ pc' = [pc EXCEPT ![t] = "out"]
    /\ slot' = [slot EXCEPT ![t] = 0]
    /\ handle' = [handle EXCEPT ![t] = FALSE]
    /\ aborted' = [aborted EXCEPT ![t] = FALSE]

----------------------------------------------------------------------------
(* gcs_sm_schedule(), gcs_sm_enter() and gcs_sm_leave() of a sender *)

Accepts == ret = "OK" /\ users < WaitQLen

\* EBADFD or EAGAIN
Refuse(t) ==
    /\ ~ Accepts
    /\ UNCHANGED <<users, entered, wait_q_tail, wait, cond, asleep, pc, slot, handle>>

EnterAtOnce(t) ==
    /\ Accepts /\ ~ HasToWait(users + 1)
    /\ Reusable(t, Step(wait_q_tail, 1))
    /\ users' = users + 1
    /\ entered' = entered + 1
    /\ wait_q_tail' = Step(wait_q_tail, 1)
    /\ slot' = [slot EXCEPT ![t] = Step(wait_q_tail, 1)]
    /\ pc' = [pc EXCEPT ![t] = "inside"]
    /\ UNCHANGED <<wait, cond, asleep, handle>>

WaitInLine(t) ==
    /\ Accepts /\ HasToWait(users + 1)
    /\ Enqueue(t, users, wait, cond, asleep)
    /\ handle' = [handle EXCEPT ![t] = TRUE]
    /\ pc' = [pc EXCEPT ![t] = "waiting"]
    /\ UNCHANGED entered

Send(t) ==
    /\ pc[t] = "out"
    /\ Refuse(t) \/ EnterAtOnce(t) \/ WaitInLine(t)
    /\ UNCHANGED <<ret, pause, wait_q_head, aborted>>

\* back from gu_cond_wait(): interrupted, closed or entered
Woken(t) ==
    LET i == slot[t]
        w == [wait EXCEPT ![i] = FALSE]
        c == [cond EXCEPT ![i] = NoThread]
        r == IF wait[i] THEN ret ELSE "EINTR"
    IN  /\ pc[t] = "waiting" /\ t \notin asleep
        /\ wait' = w /\ cond' = c
        /\ \/ /\ r = "OK"
              /\ entered' = entered + 1
              /\ pc' = [pc EXCEPT ![t] = "inside"]
              /\ UNCHANGED <<queueVars, slot, handle, aborted>>
           \/ r = "EBADFD" /\ LeaveCommon(entered, w, c) /\ Return(t) /\ UNCHANGED entered
           \/ r = "EINTR" /\ Return(t) /\ UNCHANGED <<entered, queueVars>>
        /\ UNCHANGED <<ret, pause, wait_q_tail>>

\* the send is over; gcs_repl() goes on to wait for delivery, unless it failed
Leave(t) ==
    /\ pc[t] = "inside"
    /\ entered' = entered - 1
    /\ LeaveCommon(entered - 1, wait, cond)
    /\ \/ pc' = [pc EXCEPT ![t] = "sent"] /\ UNCHANGED <<slot, handle, aborted>>
       \/ Return(t)
    /\ UNCHANGED <<ret, pause, wait_q_tail, wait, cond>>

\* the action was delivered, or gcs_close() gave it up, and gcs_repl() returns
Delivered(t) ==
    /\ pc[t] = "sent"
    /\ Return(t)
    /\ UNCHANGED <<users, entered, ret, pause, wait_q_head, wait_q_tail, wait, cond, asleep>>

----------------------------------------------------------------------------
(* gcs_sm_interrupt(): abort_trx() of a replicating transaction *)

\* the place in wait_q that the handle of t names
Place(t) == slot[t]

\* Usage: the place of a handle has not been given to another thread.
Current(t) == Prompt => ~ wait[slot[t]] \/ cond[slot[t]] = t

\* mutant of Interrupted: the place keeps the condition of the thread
InterruptedKeepsCond(t) ==
    /\ wait' = [wait EXCEPT ![Place(t)] = FALSE]
    /\ asleep' = asleep \ {cond[Place(t)]}
    /\ UNCHANGED <<users, wait_q_head, cond>>

\* mutant of Interrupted: the next waiter is not woken in place of t
InterruptedOnly(t) ==
    LET i == Place(t) IN
    /\ wait' = [wait EXCEPT ![i] = FALSE]
    /\ cond' = [cond EXCEPT ![i] = NoThread]
    /\ asleep' = asleep \ {cond[i]}
    /\ UNCHANGED <<users, wait_q_head>>

\* the waiter at the head may have been signalled already: wake another one
Interrupted(t) ==
    LET i == Place(t)
        w == [wait EXCEPT ![i] = FALSE]
        c == [cond EXCEPT ![i] = NoThread]
    IN  /\ wait' = w /\ cond' = c
        /\ IF ~ pause /\ i = wait_q_head
           THEN SetQueue(WakeUpNext(users, wait_q_head, entered, w, c, asleep \ {cond[i]}))
           ELSE asleep' = asleep \ {cond[i]} /\ UNCHANGED <<users, wait_q_head>>

Interrupt(t) ==
    /\ pc[t] \in {"waiting", "inside", "sent"} /\ handle[t] /\ ~ aborted[t]
    /\ Current(t)
    /\ aborted' = [aborted EXCEPT ![t] = TRUE]
    /\ IF wait[Place(t)]
       THEN Interrupted(t)
       ELSE UNCHANGED <<wait, cond, queueVars>>
    /\ UNCHANGED <<entered, ret, pause, wait_q_tail, pc, slot, handle>>

----------------------------------------------------------------------------
(* Flow control of the receiving thread *)

Pause ==
    /\ ret = "OK" /\ ~ pause
    /\ pause' = TRUE
    /\ UNCHANGED <<users, entered, ret, wait_q_head, wait_q_tail, wait, cond, asleep,
                   threadVars>>

Continue ==
    /\ pause
    /\ pause' = FALSE
    /\ SetQueue(WakeUpNext(users, wait_q_head, entered, wait, cond, asleep))
    /\ UNCHANGED <<entered, ret, wait_q_tail, wait, cond, threadVars>>

----------------------------------------------------------------------------
(* gcs_sm_close() and gcs_sm_open() *)

\* the two loops of gcs_sm_close(), in queue q that holds w and c
CloseLoop(t, q, w, c) ==
    /\ wait_q_head' = q.head
    /\ \/ /\ q.users \in 1..(WaitQLen - 1)
          /\ Enqueue(t, q.users, w, c, q.asleep)
          /\ pc' = [pc EXCEPT ![t] = "closing"]
       \/ /\ q.users \notin 1..(WaitQLen - 1)
          /\ users' = q.users /\ asleep' = q.asleep /\ wait' = w /\ cond' = c
          /\ pc' = [pc EXCEPT ![t] = IF q.users = 0 THEN "closed" ELSE "full"]
          /\ UNCHANGED <<wait_q_tail, slot>>
    /\ UNCHANGED <<entered, handle, aborted>>

Queue == [users |-> users, head |-> wait_q_head, asleep |-> asleep]

\* mutant of Close: a pause is not ended
ClosePaused(t) ==
    /\ pc[t] = "out"
    /\ ret' = "EBADFD"
    /\ CloseLoop(t, Queue, wait, cond)
    /\ UNCHANGED pause

\* a pause ends first, which wakes up the next waiter
Close(t) ==
    /\ pc[t] = "out"
    /\ ret' = "EBADFD"
    /\ pause' = FALSE
    /\ CloseLoop(t, IF pause THEN WakeUpNext(users, wait_q_head, entered, wait, cond, asleep)
                             ELSE Queue, wait, cond)

\* usleep(1000) while the queue is full
CloseRetry(t) ==
    /\ pc[t] = "full"
    /\ CloseLoop(t, Queue, wait, cond)
    /\ UNCHANGED <<ret, pause>>

\* woken at the head: leaves the queue, and joins it again unless it is empty
CloseWoken(t) ==
    /\ pc[t] = "closing" /\ t \notin asleep
    /\ CloseLoop(t, [users |-> users - 1, head |-> Step(wait_q_head, 1), asleep |-> asleep],
                 [wait EXCEPT ![slot[t]] = FALSE], [cond EXCEPT ![slot[t]] = NoThread])
    /\ UNCHANGED <<ret, pause>>

\* Usage: gcs_open() does not run while a gcs_close() is under way.
Open ==
    /\ ret = "EBADFD"
    /\ \A t \in Closers : pc[t] \in {"out", "closed"}
    /\ ret' = "OK"
    /\ pc' = [t \in Threads |-> IF t \in Closers THEN "out" ELSE pc[t]]
    /\ UNCHANGED <<users, entered, pause, wait_q_head, wait_q_tail, wait, cond, asleep,
                   slot, handle, aborted>>

----------------------------------------------------------------------------
Init ==
    /\ users = 0 /\ entered = 0 /\ ret = "OK" /\ pause = FALSE
    /\ wait_q_head = 1 /\ wait_q_tail = 0
    /\ wait = [i \in Slots |-> FALSE]
    /\ cond = [i \in Slots |-> NoThread]
    /\ asleep = {}
    /\ pc = [t \in Threads |-> "out"]
    /\ slot = [t \in Threads |-> 0]
    /\ handle = [t \in Threads |-> FALSE]
    /\ aborted = [t \in Threads |-> FALSE]

SenderNext(t) ==
    Send(t) \/ Woken(t) \/ Leave(t) \/ Delivered(t) \/ Interrupt(t)

CloserNext(t) == Close(t) \/ CloseRetry(t) \/ CloseWoken(t)

Next ==
    \/ \E t \in Senders : SenderNext(t)
    \/ \E t \in Closers : CloserNext(t)
    \/ Pause \/ Continue \/ Open

Spec == Init /\ [][Next]_vars

----------------------------------------------------------------------------
(* Fairness: signalled threads run, a send ends, and the peer that stopped *)
(* the group by flow control lets it continue; a closed connection hears   *)
(* of no peer any more.                                                    *)
Fairness ==
    /\ \A t \in Senders : WF_vars(Woken(t)) /\ WF_vars(Leave(t))
    /\ \A t \in Closers : WF_vars(CloseRetry(t) \/ CloseWoken(t))
    /\ WF_vars(ret = "OK" /\ Continue)

FairSpec == Spec /\ Fairness
============================================================================
