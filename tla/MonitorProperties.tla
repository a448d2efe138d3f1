------------------------- MODULE MonitorProperties -------------------------
(***************************************************************************)
(* What galera::Monitor guarantees to the replicator.                      *)
(***************************************************************************)
EXTENDS Monitor

\* Type invariant: the members of Monitor, its slots and the threads that use it
\* have the types monitor.hpp declares, and seqnos stay in range.
TypeOK ==
    /\ last_entered_ \in -1..MaxSeqno
    /\ last_left_ \in -1..MaxSeqno
    /\ drain_seqno_ \in 0..LLONG_MAX
    /\ locked_ \in BOOLEAN
    /\ state_ \in [Slot -> States]
    /\ obj_ \in [Slot -> 0..MaxSeqno]
    /\ cond_ \subseteq Thread
    /\ slot_cond_ \subseteq Seqno
    /\ depends \in [Seqno -> 0..MaxSeqno]
    /\ pc \in [Seqno -> TrxPc]
    /\ intr \in [Seqno -> {"no", "requested", "blocked", "done"}]
    /\ adm \in [Admin -> {"out", "turn", "drain", "locked", "done"}]
    /\ target \in [Admin -> 0..MaxSeqno]
    /\ wpc \in [Waiters -> {"out", "sleeping", "ok", "timeout"}]
    /\ wseqno \in [Waiters -> 0..MaxSeqno]

\* Whoever is inside the critical section still satisfies its order class:
\* everything the transaction depends on (everything before it, in a total
\* order) has left.  wake_up_next() and enter() decide this from last_left_.
OrderRespected == \A s \in Seqno : pc[s] = "inside" => may_enter(s)

\* last_left_ only passes seqnos that were processed: what update_last_left()
\* collects from a slot is the leave of that very seqno.
LeftMeansDone == \A s \in Seqno : s <= last_left_ => pc[s] = "done"

\* The assertions of enter(), leave() and self_cancel(): the seqno is above
\* last_left_, its slot is not used by another seqno, the slot of last_left_
\* is idle, and last_left_ does not pass last_entered_.
AssertsHold ==
    /\ last_left_ <= last_entered_
    /\ \A s \in Seqno :
         /\ pc[s] \in {"out", "blocked", "eintr", "cancelling"} /\ Positioned =>
               /\ s > last_left_
               /\ ~ OutOfWindow(s) => state_[indexof(s)] \in {"IDLE", "CANCELED"}
         /\ pc[s] = "waiting" => state_[indexof(s)] \in {"WAITING", "CANCELED", "APPLYING"}
         /\ pc[s] = "inside" => state_[indexof(s)] = "APPLYING"
    /\ state_[indexof(last_left_)] = "IDLE"

\* A finished seqno that is next in line is collected: outside a drain or a
\* lock, last_left_ + 1 has not been processed yet.
NothingUncollected ==
    drain_seqno_ = LLONG_MAX /\ Positioned =>
        \A s \in Seqno : s = last_left_ + 1 => pc[s] # "done"

\* lock(): "the monitor should be totally empty at this point", and it stays
\* so until unlock().
LockedIsEmpty == locked_ => \A s \in Seqno : pc[s] \notin {"waiting", "inside"}

\* When drain(upto) has returned, every seqno up to upto was processed.
DrainedMeansDone ==
    \A a \in Drainers : adm[a] = "done" => \A s \in Seqno : s <= target[a] => pc[s] = "done"

\* A causal read that wait() lets through sees every write up to the position
\* it asked for.
WaitSeesWrites ==
    \A w \in Waiters : wpc[w] = "ok" => \A s \in Seqno : s <= wseqno[w] => pc[s] = "done"

\* Nobody is left behind: every seqno is processed, whatever the interleaving
\* of drains, locks, cancellations and interrupts.
EverySeqnoDone == <>(\A s \in Seqno : pc[s] = "done")

\* Every drain() and lock() that was called returns, and every interrupt():
\* in the end nobody waits in one.
AdminReturns ==
    <>[](/\ \A a \in Admin : adm[a] \notin {"turn", "drain"}
         /\ \A s \in Seqno : intr[s] # "blocked")

\* The monitor implements OrderedEntry: slots, window, collection and wake-ups
\* never let a seqno in before what it follows is really done.
Abstract == INSTANCE OrderedEntry WITH
                inside <- {s \in Seqno : pc[s] = "inside"},
                done   <- {s \in Seqno : pc[s] = "done"}
ImplementsOrderedEntry == Abstract!Spec

----------------------------------------------------------------------------
(* The inductive invariant behind the safety properties.  AssertsHold and  *)
(* OrderRespected are not inductive: a leave moves last_left_ over every   *)
(* FINISHED slot, so one has to know that a slot which is not idle belongs *)
(* to a seqno of the current window, and to no other.                      *)

Windowed == last_left_ <= last_entered_ /\ last_entered_ - last_left_ < Size

\* the seqno a non-idle slot belongs to is in the state the slot says
Owns(s, st) ==
    /\ st = "FINISHED" => pc[s] = "done"
    /\ st = "WAITING"  => pc[s] = "waiting"
    /\ st = "APPLYING" => pc[s] \in {"waiting", "inside"}
    /\ st = "CANCELED" => pc[s] \notin {"inside", "done", "out"}

SlotsOwned ==
    \A x \in Slot : state_[x] # "IDLE" =>
        \E s \in Seqno : /\ indexof(s) = x
                         /\ last_left_ < s /\ s - last_left_ < Size
                         /\ Owns(s, state_[x])

SeqnoInSlot(s) ==
    /\ pc[s] \in {"waiting", "inside"} =>
         /\ last_left_ < s /\ s <= last_entered_
         /\ obj_[indexof(s)] = s
         /\ state_[indexof(s)] = "APPLYING" => may_enter(s)
    /\ pc[s] = "waiting" => state_[indexof(s)] \in {"WAITING", "CANCELED", "APPLYING"}
    /\ pc[s] = "inside" => state_[indexof(s)] = "APPLYING"
    /\ pc[s] = "done" /\ last_left_ < s /\ Positioned =>
         s <= last_entered_ /\ state_[indexof(s)] = "FINISHED"
    /\ pc[s] = "out" => intr[s] = "no"

SeqnosInSlots == \A s \in Seqno : SeqnoInSlot(s)

\* between the two calls that re-position the monitor it is empty
UnpositionedEmpty ==
    ~ Positioned =>
        /\ last_entered_ = -1
        /\ \A x \in Slot : state_[x] = "IDLE"
        /\ \A s \in Seqno : pc[s] \in {"out", "done"} /\ intr[s] \in {"no", "done"}
        /\ \A a \in Admin : adm[a] \in {"out", "done"}

IInv == TypeOK /\ Windowed /\ SlotsOwned /\ SeqnosInSlots /\ LeftMeansDone /\ UnpositionedEmpty

----------------------------------------------------------------------------
(* What has to be added to IInv for the service calls of the monitor.      *)

Holds(a)  == adm[a] \in {"drain", "locked"}

\* drain_seqno_ is a lock of its own: one thread at a time waits for it or
\* keeps it, a drain for its argument and a lock for all that had entered, and
\* nobody enters beyond it.  A lock that was granted is drained.
DrainOwned ==
    /\ \A a, b \in Admin : Holds(a) /\ Holds(b) => a = b
    /\ \A a \in Admin : Holds(a) => drain_seqno_ # LLONG_MAX
    /\ \A a \in Drainers : adm[a] # "locked" /\ (adm[a] = "drain" => drain_seqno_ = target[a])
    /\ \A a \in Lockers : Holds(a) =>
         \A s \in Seqno : pc[s] \in {"waiting", "inside"} => s <= drain_seqno_
    /\ \A a \in Lockers : adm[a] = "locked" => drain_seqno_ <= last_left_
    /\ locked_ => \E a \in Lockers : adm[a] = "locked"

\* the seqno a sleeping wait() asked for is less than a turn of the slots away,
\* after a re-positioning too, so that nobody else's collection wakes it
WaitInWindow ==
    \A w \in Waiters : wpc[w] = "sleeping" =>
        /\ Positioned => wseqno[w] - last_left_ < Size
        /\ ~ Positioned =>
             \A p \in 0..MaxSeqno :
                (\A s \in Seqno : pc[s] = "done" => s < p) => wseqno[w] - p < Size

\* certification only finds earlier seqnos
DependsEarlier == \A s \in Seqno : depends[s] \in 0..(s - 1)
============================================================================
