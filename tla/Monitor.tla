------------------------------ MODULE Monitor ------------------------------
(***************************************************************************)
(* galera::Monitor<C> (galera/src/monitor.hpp): the ordered critical       *)
(* section that ReplicatorSMM instantiates three times (local_monitor_,    *)
(* apply_monitor_, commit_monitor_).  Every seqno is processed by one      *)
(* thread; it enters when the order class C lets it, and last_left_ is the *)
(* highest seqno up to which everybody has left.                           *)
(*                                                                         *)
(* One mutex protects the object, so a critical section of the code is one *)
(* action here.  Sleeping is explicit: cond_ is the set of threads asleep  *)
(* on the monitor-wide condition variable, slot_cond_ the set of seqnos    *)
(* asleep on the condition variable of their own slot.  A thread that has  *)
(* been signalled is no longer in the set and takes its next step whenever *)
(* it is scheduled, which is how late wake-ups and races show.             *)
(***************************************************************************)
EXTENDS Integers

CONSTANTS
    Size,       \* process_size_: number of slots (1 << 16 in the code)
    MaxSeqno,   \* bound: highest seqno of the instance
    Position,   \* position installed at construction (-1: undefined)
    Positions,  \* positions a later set_initial_position() may install
    Order,      \* the order class C, see Condition
    Local,      \* seqnos of local transactions (the only ones BF-aborted)
    Lockers,    \* threads that call lock() and then unlock()
    Drainers,   \* threads that call drain()
    Waiters,    \* threads that call wait(seqno, until)
    MaxBacklog  \* bound: how far beyond last_left_ a wait() may reach

Seqno     == 1..MaxSeqno
Slot      == 0..(Size - 1)
\* mutant of LLONG_MAX: WSREP_SEQNO_UNDEFINED taken for "no drain"
NoDrainUndefined == -1
LLONG_MAX == MaxSeqno + 1
Admin     == Lockers \cup Drainers
Orders    == {"LOCAL", "APPLY", "OOOC", "LOCAL_OOOC", "NO_OOOC"}

ASSUME SizeAssumption     == Size \in Nat /\ Size >= 2
ASSUME SeqnoAssumption    == MaxSeqno \in Nat
ASSUME PositionAssumption == Position \in -1..MaxSeqno /\ Positions \subseteq 0..MaxSeqno
ASSUME OrderAssumption    == Order \in Orders /\ Local \subseteq Seqno
ASSUME BacklogAssumption  == MaxBacklog \in Nat
ASSUME AdminAssumption    == Lockers \cap Drainers = {}

VARIABLES
    last_entered_, last_left_, drain_seqno_, locked_,
    state_,      \* process_[i].state_
    obj_,        \* process_[i].obj_, as the seqno of the object (0 is NULL)
    cond_,       \* threads asleep on cond_
    slot_cond_,  \* seqnos asleep on process_[indexof(s)].cond_
    depends,     \* depends_seqno() of every transaction
    pc,          \* where the thread that processes a seqno is
    intr,        \* where the thread that BF-aborts a seqno is
    adm,         \* where a thread in lock() or drain() is
    target,      \* the argument of drain()
    wpc,         \* where a thread in wait() is
    wseqno       \* the argument of wait()

slotVars  == <<state_, obj_, slot_cond_>>
adminVars == <<adm, target>>
waitVars  == <<wpc, wseqno>>
vars == <<last_entered_, last_left_, drain_seqno_, locked_, state_, obj_, cond_,
          slot_cond_, depends, pc, intr, adm, target, wpc, wseqno>>

Thread == ({"trx", "abort"} \X Seqno) \cup ({"admin"} \X Admin)

States == {"IDLE", "WAITING", "CANCELED", "APPLYING", "FINISHED"}

\* "blocked" and "cancelling" sleep on cond_ in enter() and self_cancel(),
\* "waiting" sleeps on its slot, "eintr" is enter() having thrown EINTR.
TrxPc == {"out", "blocked", "waiting", "inside", "eintr", "cancelling", "done"}

----------------------------------------------------------------------------
(* Helpers of the class *)

indexof(s) == s % Size

\* condition() of LocalOrder, ApplyOrder and CommitOrder in its modes.  In
\* mode LOCAL_OOOC the switch returns is_local() and never falls through.
Condition(s, dep, left) ==
    \/ Order \in {"LOCAL", "NO_OOOC"} /\ left + 1 = s
    \/ Order = "APPLY" /\ (s \in Local \/ left >= dep)
    \/ Order = "OOOC"
    \/ Order = "LOCAL_OOOC" /\ s \in Local

may_enter(s) == Condition(s, depends[s], last_left_)

\* mutant of OutOfWindow: one seqno too many
OutOfWindowOffByOne(s) == s - last_left_ > Size

OutOfWindow(s) == s - last_left_ >= Size

\* mutant of would_block: a drain does not keep anybody out
WouldBlockNoDrain(s) == OutOfWindow(s)

would_block(s) == OutOfWindow(s) \/ s > drain_seqno_

MaxOf(a, b) == IF a >= b THEN a ELSE b

\* update_last_left() stops at k: everything above left and up to k was
\* FINISHED, and k + 1 is not or has not been entered.
CollectsUpTo(st, left, entered, k) ==
    /\ k \in left..entered
    /\ \A i \in (left + 1)..k : st[indexof(i)] = "FINISHED"
    /\ k < entered => st[indexof(k + 1)] # "FINISHED"

Collected(st, left, k) ==
    [x \in Slot |-> IF \E i \in (left + 1)..k : indexof(i) = x THEN "IDLE" ELSE st[x]]

\* mutant of WokenSlots: wake_up_next() without may_enter()
WokenSlotsUnordered(st, left, entered) ==
    {x \in Slot : /\ st[x] = "WAITING"
                  /\ \E i \in (left + 1)..entered : indexof(i) = x}

\* slots wake_up_next() moves from WAITING to APPLYING
WokenSlots(st, left, entered) ==
    {x \in Slot : /\ st[x] = "WAITING"
                  /\ \E i \in (left + 1)..entered : indexof(i) = x
                  /\ Condition(obj_[x], depends[obj_[x]], left)}

\* mutant of BroadcastWait: one condition variable for all the waiters
BroadcastWaitShared(seqnos) ==
    wpc' = [w \in Waiters |-> IF wpc[w] = "sleeping" /\ seqnos # {} THEN "ok" ELSE wpc[w]]

\* wait_cond_.broadcast() on the slots of the given seqnos
BroadcastWait(seqnos) ==
    wpc' = [w \in Waiters |->
              IF wpc[w] = "sleeping" /\ \E i \in seqnos : indexof(i) = indexof(wseqno[w])
              THEN "ok" ELSE wpc[w]]

----------------------------------------------------------------------------
(* Actions of the thread that processes seqno s *)

\* lock.wait(cond_) of a thread
SleepOnCond(t) == cond_' = cond_ \cup {t}

\* mutant of NotifyWindow: only a drain is notified
NotifyDrainOnly(s) ==
    cond_' = IF last_left_' >= drain_seqno_ THEN {} ELSE cond_

\* mutant of NotifyWindow: nobody is notified while a drain is under way
NotifyNoDrain(s) ==
    cond_' = IF last_left_' >= s /\ drain_seqno_ = LLONG_MAX THEN {} ELSE cond_

\* post_leave() broadcasts when the window shrank or a drain got its seqno
NotifyWindow(s) ==
    cond_' = IF last_left_' >= s \/ last_left_' >= drain_seqno_ THEN {} ELSE cond_

\* the body of post_leave(), with last_entered_ already updated to entered
PostLeave(s, entered) ==
    /\ IF last_left_ + 1 = s
       THEN \E k \in s..entered :
              LET freed == [state_ EXCEPT ![indexof(s)] = "IDLE"]
                  st    == Collected(freed, s, k)
                  woken == WokenSlots(st, k, entered)
              IN /\ CollectsUpTo(freed, s, entered, k)
                 /\ last_left_' = k
                 /\ state_' = [x \in Slot |-> IF x \in woken THEN "APPLYING" ELSE st[x]]
                 /\ slot_cond_' = {t \in slot_cond_ : indexof(t) \notin woken}
                 /\ BroadcastWait(s..k)
       ELSE /\ state_' = [state_ EXCEPT ![indexof(s)] = "FINISHED"]
            /\ UNCHANGED <<last_left_, slot_cond_, wpc>>
    /\ obj_' = [obj_ EXCEPT ![indexof(s)] = 0]
    /\ NotifyWindow(s)

\* enter() from pre_enter() on: sleeps on cond_ while it would block
EnterOrBlock(s, dep) ==
    /\ IF would_block(s)
       THEN /\ SleepOnCond(<<"trx", s>>)
            /\ pc' = [pc EXCEPT ![s] = "blocked"]
            /\ UNCHANGED <<last_entered_, slotVars>>
       ELSE /\ last_entered_' = MaxOf(last_entered_, s)
            /\ UNCHANGED cond_
            /\ IF state_[indexof(s)] = "CANCELED"
               THEN /\ state_' = [state_ EXCEPT ![indexof(s)] = "IDLE"]
                    /\ pc' = [pc EXCEPT ![s] = "eintr"]
                    /\ UNCHANGED <<obj_, slot_cond_>>
               ELSE /\ obj_' = [obj_ EXCEPT ![indexof(s)] = s]
                    /\ IF Condition(s, dep, last_left_)
                       THEN /\ state_' = [state_ EXCEPT ![indexof(s)] = "APPLYING"]
                            /\ pc' = [pc EXCEPT ![s] = "inside"]
                            /\ UNCHANGED slot_cond_
                       ELSE /\ state_' = [state_ EXCEPT ![indexof(s)] = "WAITING"]
                            /\ pc' = [pc EXCEPT ![s] = "waiting"]
                            /\ slot_cond_' = slot_cond_ \cup {s}
    /\ depends' = [depends EXCEPT ![s] = dep]
    /\ UNCHANGED <<last_left_, drain_seqno_, locked_, intr, adminVars, waitVars>>

\* Usage: a transaction reaches the apply and commit monitors after it was
\* certified in local order, and whoever drains them holds the local order, so
\* no seqno above the drained position arrives while a drain is under way.
CertifiedBeforeDrain(s) == \A a \in Drainers : adm[a] \in {"turn", "drain"} => s <= target[a]

\* Usage: nothing enters between the two calls that re-position the monitor.
Positioned == last_left_ # -1

\* depends_seqno() is what certification has found, any earlier seqno; only
\* ApplyOrder reads it, and only for remote transactions.
Enter(s) ==
    /\ pc[s] \in {"out", "eintr"}
    /\ CertifiedBeforeDrain(s)
    /\ Positioned
    /\ \E dep \in IF Order = "APPLY" /\ s \notin Local THEN 0..(s - 1) ELSE {0} :
         EnterOrBlock(s, dep)

\* woken from cond_ in pre_enter(): tests would_block() again
EnterRetry(s) ==
    /\ pc[s] = "blocked"
    /\ <<"trx", s>> \notin cond_
    /\ EnterOrBlock(s, depends[s])

\* woken from the slot: tests may_enter() and the slot's state again
EnterWoken(s) ==
    /\ pc[s] = "waiting"
    /\ s \notin slot_cond_
    /\ \/ /\ state_[indexof(s)] = "WAITING" /\ ~ may_enter(s)
          /\ slot_cond_' = slot_cond_ \cup {s}
          /\ UNCHANGED <<state_, pc>>
       \/ /\ state_[indexof(s)] = "CANCELED"
          /\ state_' = [state_ EXCEPT ![indexof(s)] = "IDLE"]
          /\ pc' = [pc EXCEPT ![s] = "eintr"]
          /\ UNCHANGED slot_cond_
       \/ /\ state_[indexof(s)] = "APPLYING" \/ (state_[indexof(s)] = "WAITING" /\ may_enter(s))
          /\ state_' = [state_ EXCEPT ![indexof(s)] = "APPLYING"]
          /\ pc' = [pc EXCEPT ![s] = "inside"]
          /\ UNCHANGED slot_cond_
    /\ UNCHANGED <<last_entered_, last_left_, drain_seqno_, locked_, obj_, cond_, depends,
                   intr, adminVars, waitVars>>

Leave(s) ==
    /\ pc[s] = "inside"
    /\ PostLeave(s, last_entered_)
    /\ pc' = [pc EXCEPT ![s] = "done"]
    /\ UNCHANGED <<last_entered_, drain_seqno_, locked_, depends, intr, adminVars, wseqno>>

CancelOrBlock(s) ==
    /\ IF OutOfWindow(s)
       THEN /\ SleepOnCond(<<"trx", s>>)
            /\ pc' = [pc EXCEPT ![s] = "cancelling"]
            /\ UNCHANGED <<last_entered_, last_left_, slotVars, wpc>>
       ELSE /\ last_entered_' = MaxOf(last_entered_, s)
            /\ pc' = [pc EXCEPT ![s] = "done"]
            /\ IF s <= drain_seqno_
               THEN PostLeave(s, MaxOf(last_entered_, s))
               ELSE /\ state_' = [state_ EXCEPT ![indexof(s)] = "FINISHED"]
                    /\ UNCHANGED <<last_left_, obj_, slot_cond_, cond_, wpc>>
    /\ UNCHANGED <<drain_seqno_, locked_, depends, intr, adminVars, wseqno>>

\* self_cancel(): certification failed, nothing to do for s in this monitor
SelfCancel(s) ==
    /\ pc[s] \in {"out", "eintr"}
    /\ Positioned
    /\ CancelOrBlock(s)

SelfCancelRetry(s) ==
    /\ pc[s] = "cancelling"
    /\ <<"trx", s>> \notin cond_
    /\ CancelOrBlock(s)

----------------------------------------------------------------------------
(* Actions of the thread that BF-aborts the local transaction s *)

\* abort_trx() takes the transaction's lock, which enter() gives up only
\* while it sleeps and the caller after it entered; the interrupt comes later.
AbortRequest(s) ==
    /\ s \in Local
    /\ intr[s] = "no"
    /\ pc[s] \in {"blocked", "waiting", "inside"}
    /\ intr' = [intr EXCEPT ![s] = "requested"]
    /\ UNCHANGED <<last_entered_, last_left_, drain_seqno_, locked_, slotVars, cond_, depends,
                   pc, adminVars, waitVars>>

\* Usage: an interrupt is not delayed by a whole turn of the slots.
Timely(s) == last_entered_ < s + Size

CanCancel(s) ==
    \/ state_[indexof(s)] = "IDLE" /\ s > last_left_
    \/ state_[indexof(s)] = "WAITING"

InterruptOrBlock(s) ==
    /\ IF OutOfWindow(s)
       THEN /\ SleepOnCond(<<"abort", s>>)
            /\ intr' = [intr EXCEPT ![s] = "blocked"]
            /\ UNCHANGED <<state_, slot_cond_>>
       ELSE /\ intr' = [intr EXCEPT ![s] = "done"]
            /\ UNCHANGED cond_
            /\ IF CanCancel(s)
               THEN /\ state_' = [state_ EXCEPT ![indexof(s)] = "CANCELED"]
                    /\ slot_cond_' = {t \in slot_cond_ : indexof(t) # indexof(s)}
               ELSE UNCHANGED <<state_, slot_cond_>>
    /\ UNCHANGED <<last_entered_, last_left_, drain_seqno_, locked_, obj_, depends, pc,
                   adminVars, waitVars>>

Interrupt(s) ==
    /\ intr[s] = "requested"
    /\ Timely(s)
    /\ InterruptOrBlock(s)

InterruptRetry(s) ==
    /\ intr[s] = "blocked"
    /\ <<"abort", s>> \notin cond_
    /\ InterruptOrBlock(s)

----------------------------------------------------------------------------
(* drain(), lock() and unlock() *)

\* waits while another drain is under way
WaitTurn(a) ==
    /\ SleepOnCond(<<"admin", a>>)
    /\ adm' = [adm EXCEPT ![a] = "turn"]
    /\ UNCHANGED <<last_left_, drain_seqno_, locked_, state_, wpc>>

\* drain_common() still has to wait, upto being drain_seqno_
WaitDrained(a, upto) ==
    /\ last_left_ < upto
    /\ drain_seqno_' = upto
    /\ SleepOnCond(<<"admin", a>>)
    /\ adm' = [adm EXCEPT ![a] = "drain"]
    /\ UNCHANGED <<last_left_, locked_, state_, wpc>>

\* mutant of CollectAndReopen: without update_last_left()
ReopenOnly ==
    /\ drain_seqno_' = LLONG_MAX
    /\ cond_' = {}
    /\ UNCHANGED <<last_left_, state_, wpc>>

\* update_last_left(); drain_seqno_ = LLONG_MAX; cond_.broadcast()
CollectAndReopen ==
    /\ \E k \in last_left_..last_entered_ :
         /\ CollectsUpTo(state_, last_left_, last_entered_, k)
         /\ last_left_' = k
         /\ state_' = Collected(state_, last_left_, k)
         /\ BroadcastWait((last_left_ + 1)..k)
    /\ drain_seqno_' = LLONG_MAX
    /\ cond_' = {}

\* mutant of DrainEnd: returns one seqno early
DrainEndEarly(a, upto) ==
    /\ last_left_ >= upto - 1
    /\ CollectAndReopen
    /\ adm' = [adm EXCEPT ![a] = "done"]
    /\ UNCHANGED locked_

\* the rest of drain() when upto has been reached
DrainEnd(a, upto) ==
    /\ last_left_ >= upto
    /\ CollectAndReopen
    /\ adm' = [adm EXCEPT ![a] = "done"]
    /\ UNCHANGED locked_

\* the rest of lock() when upto has been reached: drain_seqno_ stays set
LockEnd(a, upto) ==
    /\ last_left_ >= upto
    /\ locked_' = TRUE
    /\ drain_seqno_' = upto
    /\ adm' = [adm EXCEPT ![a] = "locked"]
    /\ UNCHANGED <<last_left_, state_, cond_, wpc>>

AdminUnchanged == UNCHANGED <<last_entered_, obj_, slot_cond_, depends, pc, intr, wseqno>>

\* Usage: see CertifiedBeforeDrain; above upto only cancelled seqnos arrived.
Drain(a, upto) ==
    /\ a \in Drainers /\ adm[a] = "out"
    /\ Positioned
    /\ \A s \in Seqno : s > upto => pc[s] \in {"out", "cancelling", "done"}
    /\ target' = [target EXCEPT ![a] = upto]
    /\ IF drain_seqno_ # LLONG_MAX
       THEN WaitTurn(a)
       ELSE WaitDrained(a, upto) \/ DrainEnd(a, upto)
    /\ AdminUnchanged

DrainRetry(a) ==
    /\ a \in Drainers
    /\ <<"admin", a>> \notin cond_
    /\ \/ /\ adm[a] = "turn"
          /\ IF drain_seqno_ # LLONG_MAX
             THEN WaitTurn(a)
             ELSE WaitDrained(a, target[a]) \/ DrainEnd(a, target[a])
       \/ /\ adm[a] = "drain"
          /\ WaitDrained(a, drain_seqno_) \/ DrainEnd(a, drain_seqno_)
    /\ UNCHANGED target
    /\ AdminUnchanged

\* an already locked monitor refuses with EDEADLK
Lock(a) ==
    /\ a \in Lockers /\ adm[a] = "out"
    /\ Positioned
    /\ IF locked_
       THEN /\ adm' = [adm EXCEPT ![a] = "done"]
            /\ UNCHANGED <<last_left_, drain_seqno_, locked_, state_, cond_, wpc>>
       ELSE IF drain_seqno_ # LLONG_MAX
       THEN WaitTurn(a)
       ELSE WaitDrained(a, last_entered_) \/ LockEnd(a, last_entered_)
    /\ UNCHANGED target
    /\ AdminUnchanged

LockRetry(a) ==
    /\ a \in Lockers
    /\ <<"admin", a>> \notin cond_
    /\ \/ /\ adm[a] = "turn"
          /\ IF drain_seqno_ # LLONG_MAX
             THEN WaitTurn(a)
             ELSE WaitDrained(a, last_entered_) \/ LockEnd(a, last_entered_)
       \/ /\ adm[a] = "drain"
          /\ WaitDrained(a, drain_seqno_) \/ LockEnd(a, drain_seqno_)
    /\ UNCHANGED target
    /\ AdminUnchanged

Unlock(a) ==
    /\ a \in Lockers /\ adm[a] = "locked"
    /\ locked_' = FALSE
    /\ CollectAndReopen
    /\ adm' = [adm EXCEPT ![a] = "done"]
    /\ UNCHANGED target
    /\ AdminUnchanged

----------------------------------------------------------------------------
(* wait(seqno, until), used by causal_read() *)

Wait(w, s) ==
    /\ wpc[w] = "out"
    /\ s - last_left_ <= MaxBacklog
    /\ wseqno' = [wseqno EXCEPT ![w] = s]
    /\ wpc' = [wpc EXCEPT ![w] = IF last_left_ < s THEN "sleeping" ELSE "ok"]
    /\ UNCHANGED <<last_entered_, last_left_, drain_seqno_, locked_, slotVars, cond_, depends,
                   pc, intr, adminVars>>

WaitTimeout(w) ==
    /\ wpc[w] = "sleeping"
    /\ wpc' = [wpc EXCEPT ![w] = "timeout"]
    /\ UNCHANGED <<last_entered_, last_left_, drain_seqno_, locked_, slotVars, cond_, depends,
                   pc, intr, adminVars, wseqno>>

----------------------------------------------------------------------------
(* set_initial_position() *)

\* Usage: the callers hold the local order and have drained this monitor, and
\* the appliers that request BF aborts run inside it.
Quiescent ==
    /\ \A s \in Seqno : /\ pc[s] = "done" <=> s <= MaxOf(last_left_, 0)
                        /\ pc[s] \in {"out", "done"}
                        /\ intr[s] \in {"no", "done"}
    /\ \A a \in Admin : adm[a] \in {"out", "done"}

\* set_initial_position(-1), before a state snapshot is installed
ResetPosition ==
    /\ \E p \in Positions : p > last_left_
    /\ Positioned
    /\ Quiescent
    /\ last_entered_' = -1
    /\ last_left_' = -1
    /\ UNCHANGED <<drain_seqno_, locked_, slotVars, cond_, depends, pc, intr, adminVars, waitVars>>

\* set_initial_position(p).  After a reset p is the position of the received
\* snapshot, ahead of everything done here before.  Otherwise p is the seqno of
\* a view that needs no state transfer, where the drained monitor already is:
\* drain_common(p) does not wait and nothing but the broadcast remains.
SetInitialPosition(p) ==
    /\ IF last_entered_ = -1
       THEN /\ \A s \in Seqno : pc[s] = "done" => s < p
            /\ last_entered_' = p
            /\ last_left_' = p
            /\ pc' = [s \in Seqno |-> IF s <= p THEN "done" ELSE pc[s]]
       ELSE /\ Quiescent
            /\ drain_seqno_ = LLONG_MAX
            /\ p = last_left_
            /\ UNCHANGED <<last_entered_, last_left_, pc>>
    /\ BroadcastWait({p})
    /\ UNCHANGED <<drain_seqno_, locked_, slotVars, cond_, depends, intr, adminVars, wseqno>>

----------------------------------------------------------------------------
\* the state after the constructor and the first set_initial_position()
Init ==
    /\ last_entered_ = Position /\ last_left_ = Position
    /\ drain_seqno_ = LLONG_MAX
    /\ locked_ = FALSE
    /\ state_ = [x \in Slot |-> "IDLE"]
    /\ obj_ = [x \in Slot |-> 0]
    /\ cond_ = {} /\ slot_cond_ = {}
    /\ depends = [s \in Seqno |-> 0]
    /\ pc = [s \in Seqno |-> IF s <= Position THEN "done" ELSE "out"]
    /\ intr = [s \in Seqno |-> "no"]
    /\ adm = [a \in Admin |-> "out"]
    /\ target = [a \in Admin |-> 0]
    /\ wpc = [w \in Waiters |-> "out"]
    /\ wseqno = [w \in Waiters |-> 0]

\* everything the instance holds has been processed
Finished ==
    /\ \A s \in Seqno : pc[s] = "done" /\ intr[s] \in {"no", "requested", "done"}
    /\ \A a \in Admin : adm[a] \in {"out", "done"}
    /\ UNCHANGED vars

TrxNext(s) ==
    \/ Enter(s) \/ EnterRetry(s) \/ EnterWoken(s) \/ Leave(s)
    \/ SelfCancel(s) \/ SelfCancelRetry(s)

AbortNext(s) == AbortRequest(s) \/ Interrupt(s) \/ InterruptRetry(s)

AdminNext(a) ==
    \/ \E upto \in 0..MaxSeqno : Drain(a, upto)
    \/ DrainRetry(a) \/ Lock(a) \/ LockRetry(a) \/ Unlock(a)

Next ==
    \/ \E s \in Seqno : TrxNext(s) \/ AbortNext(s)
    \/ \E a \in Admin : AdminNext(a)
    \/ \E w \in Waiters : (\E s \in Seqno : Wait(w, s)) \/ WaitTimeout(w)
    \/ ResetPosition
    \/ \E p \in Positions : SetInitialPosition(p)
    \/ Finished

Spec == Init /\ [][Next]_vars

----------------------------------------------------------------------------
(* Fairness: every ordered action is handed to a thread that processes it, *)
(* a thread that is not asleep is eventually scheduled, what entered       *)
(* leaves, and a paused provider is resumed.                               *)

Fairness ==
    /\ \A s \in Seqno : /\ WF_vars(Enter(s) \/ SelfCancel(s))
                        /\ WF_vars(EnterRetry(s) \/ EnterWoken(s) \/ SelfCancelRetry(s))
                        /\ WF_vars(Leave(s))
                        /\ WF_vars(Interrupt(s) \/ InterruptRetry(s))
    /\ \A a \in Admin : WF_vars(DrainRetry(a) \/ LockRetry(a) \/ Unlock(a))
    /\ WF_vars(\E p \in Positions : last_left_ = -1 /\ SetInitialPosition(p))

FairSpec == Spec /\ Fairness
============================================================================
