--------------------------- MODULE MonitorProofs ---------------------------
(***************************************************************************)
(* The safety of galera::Monitor for every size of the monitor, every set  *)
(* of seqnos and threads and every order class: IInv is inductive, and the *)
(* properties of MonitorProperties that the theorems name follow from it.  *)
(***************************************************************************)
EXTENDS MonitorProperties, TLAPS

\* indexof() names a slot of process_.
LEMMA IndexInSlot == \A s \in Int : indexof(s) \in Slot
  BY SizeAssumption DEF indexof, Slot

\* Two seqnos less than a window apart have different slots.
LEMMA IndexDistinct ==
    ASSUME NEW a \in Int, NEW b \in Int, a < b, b - a < Size
    PROVE  indexof(a) # indexof(b)
<1>1. SUFFICES ASSUME indexof(a) = indexof(b) PROVE FALSE
  OBVIOUS
<1>. DEFINE p == a \div Size  q == b \div Size
<1>2. p \in Int /\ q \in Int /\ a = (Size * p) + (a % Size) /\ b = (Size * q) + (b % Size)
  BY SizeAssumption
<1>3. b - a = (Size * q) - (Size * p)
  BY <1>1, <1>2, SizeAssumption DEF indexof
<1>. HIDE DEF p, q
<1>3a. (Size * q) - (Size * p) = Size * (q - p)
  BY <1>2, SizeAssumption
<1>4. CASE q - p <= 0
  <2>1. Size * (q - p) <= 0
    BY <1>2, <1>4, SizeAssumption
  <2>. QED BY <2>1, <1>3, <1>3a, <1>2, SizeAssumption
<1>5. CASE q - p >= 1
  <2>1. Size * (q - p) >= Size
    BY <1>2, <1>5, SizeAssumption
  <2>. QED BY <2>1, <1>3, <1>3a, <1>2, SizeAssumption
<1>. QED BY <1>2, <1>4, <1>5

\* The two facts about indexof(), with their quantifiers.
LEMMA IndexFacts ==
    /\ \A s \in Int : indexof(s) \in Slot
    /\ \A a, b \in Int : a < b /\ b - a < Size => indexof(a) # indexof(b)
  BY IndexInSlot, IndexDistinct

\* The types of the constants and variables the proofs calculate with.
LEMMA TypeFacts ==
    /\ Seqno \subseteq Int
    /\ \A s \in Seqno : s >= 1 /\ s <= MaxSeqno
    /\ MaxSeqno \in Int /\ Size \in Int /\ Size >= 2
  BY SeqnoAssumption, SizeAssumption DEF Seqno

\* A condition that holds keeps holding while last_left_ stays below the seqno.
LEMMA ConditionStable ==
    ASSUME NEW s \in Seqno, NEW d \in Int, NEW l \in Int, NEW m \in Int,
           Condition(s, d, l), l <= m, m < s
    PROVE  Condition(s, d, m)
  BY OrderAssumption, TypeFacts DEF Condition, Orders

\* A new monitor satisfies the invariant.
LEMMA InitIInv == Init => IInv
<1>. SUFFICES ASSUME Init PROVE IInv
  OBVIOUS
<1>1. TypeOK
  <2>1. last_entered_ \in -1..MaxSeqno /\ last_left_ \in -1..MaxSeqno
    BY PositionAssumption DEF Init
  <2>2. drain_seqno_ \in 0..LLONG_MAX
    BY SeqnoAssumption DEF Init, LLONG_MAX
  <2>3. state_ \in [Slot -> States] /\ obj_ \in [Slot -> 0..MaxSeqno]
    BY SeqnoAssumption DEF Init, States
  <2>4. pc \in [Seqno -> TrxPc]
    BY DEF Init, TrxPc
  <2>5. locked_ \in BOOLEAN /\ cond_ \subseteq Thread /\ slot_cond_ \subseteq Seqno
    BY Zenon DEF Init
  <2>6. /\ depends \in [Seqno -> 0..MaxSeqno]
        /\ target \in [Admin -> 0..MaxSeqno]
        /\ wseqno \in [Waiters -> 0..MaxSeqno]
    BY SeqnoAssumption DEF Init
  <2>7. /\ intr \in [Seqno -> {"no", "requested", "blocked", "done"}]
        /\ adm \in [Admin -> {"out", "turn", "drain", "locked", "done"}]
        /\ wpc \in [Waiters -> {"out", "sleeping", "ok", "timeout"}]
    BY DEF Init
  <2>. QED BY <2>1, <2>2, <2>3, <2>4, <2>5, <2>6, <2>7 DEF TypeOK
<1>2. Windowed
  BY PositionAssumption, SeqnoAssumption, SizeAssumption DEF Init, Windowed
<1>3. SlotsOwned
  BY DEF Init, SlotsOwned
<1>4. SeqnosInSlots
  BY PositionAssumption, SeqnoAssumption DEF Init, SeqnosInSlots, SeqnoInSlot, Seqno
<1>5. LeftMeansDone
  BY DEF Init, LeftMeansDone
<1>6. UnpositionedEmpty
  BY PositionAssumption, SeqnoAssumption DEF Init, UnpositionedEmpty, Positioned, Seqno
<1>. QED BY <1>1, <1>2, <1>3, <1>4, <1>5, <1>6 DEF IInv

\* Everything the arithmetic of an action needs from the invariant.
LEMMA IInvFacts ==
    ASSUME IInv
    PROVE  /\ last_left_ \in Int /\ last_entered_ \in Int /\ drain_seqno_ \in Int
           /\ last_left_ >= -1 /\ last_left_ <= last_entered_
           /\ last_entered_ - last_left_ < Size /\ last_entered_ <= MaxSeqno
           /\ \A s \in Seqno : s <= last_left_ => pc[s] = "done"
           /\ last_entered_ = -1 <=> ~ Positioned
  BY SeqnoAssumption DEF IInv, TypeOK, Windowed, LeftMeansDone, UnpositionedEmpty,
     Positioned, LLONG_MAX

\* A seqno of the window that is not in the monitor finds its slot free.
LEMMA FreeSlot ==
    ASSUME IInv, NEW s \in Seqno, last_left_ < s, ~ OutOfWindow(s),
           pc[s] \in {"out", "blocked", "eintr", "cancelling"}
    PROVE  state_[indexof(s)] \in {"IDLE", "CANCELED"}
<1>1. indexof(s) \in Slot
  BY IndexFacts, TypeFacts
<1>2. SUFFICES ASSUME state_[indexof(s)] # "IDLE" PROVE state_[indexof(s)] = "CANCELED"
  OBVIOUS
<1>3. PICK t \in Seqno : /\ indexof(t) = indexof(s)
                         /\ last_left_ < t /\ t - last_left_ < Size
                         /\ Owns(t, state_[indexof(s)])
  BY <1>1, <1>2 DEF IInv, SlotsOwned
<1>4. t = s
  BY <1>3, IndexFacts, TypeFacts, IInvFacts DEF OutOfWindow
<1>5. state_[indexof(s)] \in States
  BY <1>1 DEF IInv, TypeOK
<1>. QED BY <1>3, <1>4, <1>5, <1>2 DEF Owns, States

\* Two seqnos of the window never meet in a slot.
LEMMA OwnSlot ==
    ASSUME IInv, NEW s \in Seqno, NEW t \in Seqno, s # t,
           last_left_ < s, s - last_left_ < Size, last_left_ < t, t - last_left_ < Size
    PROVE  indexof(s) # indexof(t)
  BY IndexFacts, TypeFacts, IInvFacts

\* pre_enter() and the rest of enter(): asleep on the window, waiting for the
\* condition, inside, or interrupted before it came.
LEMMA EnterOrBlockStep ==
    ASSUME IInv, NEW s \in Seqno, Positioned, last_left_ < s, NEW dep \in 0..MaxSeqno,
           pc[s] \in {"out", "blocked", "eintr"}, EnterOrBlock(s, dep)
    PROVE  IInv'
<1>. USE IInvFacts, TypeFacts
<1>0. indexof(s) \in Slot
  BY IndexFacts
<1>u. UNCHANGED <<last_left_, drain_seqno_, locked_, intr, adm, target, wpc, wseqno>>
  BY DEF EnterOrBlock, adminVars, waitVars
<1>d. depends' = [depends EXCEPT ![s] = dep]
  BY DEF EnterOrBlock
<1>1. CASE would_block(s)
  <2>1. /\ cond_' = cond_ \cup {<<"trx", s>>}
        /\ pc' = [pc EXCEPT ![s] = "blocked"]
        /\ UNCHANGED <<last_entered_, state_, obj_, slot_cond_>>
    BY <1>1 DEF EnterOrBlock, SleepOnCond, slotVars
  <2>2. TypeOK'
    BY <1>u, <1>d, <2>1 DEF IInv, TypeOK, TrxPc, Thread
  <2>3. Windowed' /\ LeftMeansDone' /\ UnpositionedEmpty'
    BY <1>u, <2>1 DEF IInv, TypeOK, Windowed, LeftMeansDone, UnpositionedEmpty, Positioned
  <2>4. SlotsOwned'
    BY <1>u, <2>1 DEF IInv, TypeOK, SlotsOwned, Owns
  <2>5. SeqnosInSlots'
    BY <1>u, <1>d, <2>1 DEF IInv, TypeOK, SeqnosInSlots, SeqnoInSlot, may_enter, Positioned
  <2>. QED BY <2>2, <2>3, <2>4, <2>5 DEF IInv
<1>2. CASE ~ would_block(s)
  <2>1. s - last_left_ < Size
    BY <1>2 DEF would_block, OutOfWindow
  <2>2. last_entered_' = MaxOf(last_entered_, s) /\ UNCHANGED cond_
    BY <1>2 DEF EnterOrBlock
  <2>3. /\ last_entered_' \in Int /\ last_entered_' >= last_entered_ /\ last_entered_' >= s
        /\ last_entered_' <= MaxSeqno /\ last_entered_' - last_left_ < Size
    BY <2>1, <2>2 DEF MaxOf
  <2>4. \A t \in Seqno : t # s /\ last_left_ < t /\ t - last_left_ < Size
                           => indexof(t) # indexof(s)
    BY <2>1, OwnSlot
  <2>5. Windowed' /\ UnpositionedEmpty'
    BY <1>u, <2>3 DEF Windowed, UnpositionedEmpty, Positioned
  <2>6. CASE state_[indexof(s)] = "CANCELED"
    <3>1. /\ state_' = [state_ EXCEPT ![indexof(s)] = "IDLE"]
          /\ pc' = [pc EXCEPT ![s] = "eintr"]
          /\ UNCHANGED <<obj_, slot_cond_>>
      BY <1>2, <2>6 DEF EnterOrBlock
    <3>2. TypeOK'
      BY <1>u, <1>d, <2>2, <2>3, <3>1, <1>0 DEF IInv, TypeOK, TrxPc, States
    <3>3. LeftMeansDone'
      BY <1>u, <3>1 DEF IInv, TypeOK, LeftMeansDone
    <3>4. SlotsOwned'
      BY <1>u, <1>0, <2>4, <3>1 DEF IInv, TypeOK, SlotsOwned, Owns
    <3>5. SeqnosInSlots'
      BY <1>u, <1>d, <1>0, <2>3, <2>4, <3>1
      DEF IInv, TypeOK, SeqnosInSlots, SeqnoInSlot, may_enter, Positioned
    <3>. QED BY <2>5, <3>2, <3>3, <3>4, <3>5 DEF IInv
  <2>7. CASE state_[indexof(s)] # "CANCELED" /\ Condition(s, dep, last_left_)
    <3>1. /\ state_' = [state_ EXCEPT ![indexof(s)] = "APPLYING"]
          /\ obj_' = [obj_ EXCEPT ![indexof(s)] = s]
          /\ pc' = [pc EXCEPT ![s] = "inside"]
          /\ UNCHANGED slot_cond_
      BY <1>2, <2>7 DEF EnterOrBlock
    <3>2. TypeOK'
      BY <1>u, <1>d, <2>2, <2>3, <3>1, <1>0 DEF IInv, TypeOK, TrxPc, States
    <3>3. LeftMeansDone'
      BY <1>u, <3>1 DEF IInv, TypeOK, LeftMeansDone
    <3>4. SlotsOwned'
      BY <1>u, <1>0, <2>1, <2>4, <3>1 DEF IInv, TypeOK, SlotsOwned, Owns
    <3>5. SeqnosInSlots'
      BY <1>u, <1>d, <1>0, <2>3, <2>4, <2>7, <3>1
      DEF IInv, TypeOK, SeqnosInSlots, SeqnoInSlot, may_enter, Positioned
    <3>. QED BY <2>5, <3>2, <3>3, <3>4, <3>5 DEF IInv
  <2>8. CASE state_[indexof(s)] # "CANCELED" /\ ~ Condition(s, dep, last_left_)
    <3>1. /\ state_' = [state_ EXCEPT ![indexof(s)] = "WAITING"]
          /\ obj_' = [obj_ EXCEPT ![indexof(s)] = s]
          /\ pc' = [pc EXCEPT ![s] = "waiting"]
          /\ slot_cond_' = slot_cond_ \cup {s}
      BY <1>2, <2>8 DEF EnterOrBlock
    <3>2. TypeOK'
      BY <1>u, <1>d, <2>2, <2>3, <3>1, <1>0 DEF IInv, TypeOK, TrxPc, States
    <3>3. LeftMeansDone'
      BY <1>u, <3>1 DEF IInv, TypeOK, LeftMeansDone
    <3>4. SlotsOwned'
      BY <1>u, <1>0, <2>1, <2>4, <3>1 DEF IInv, TypeOK, SlotsOwned, Owns
    <3>5. SeqnosInSlots'
      BY <1>u, <1>d, <1>0, <2>3, <2>4, <3>1
      DEF IInv, TypeOK, SeqnosInSlots, SeqnoInSlot, may_enter, Positioned
    <3>. QED BY <2>5, <3>2, <3>3, <3>4, <3>5 DEF IInv
  <2>. QED BY <2>6, <2>7, <2>8
<1>. QED BY <1>1, <1>2

\* enter() after its wait: inside, or interrupted.
LEMMA EnterWokenStep ==
    ASSUME IInv, NEW s \in Seqno, EnterWoken(s)
    PROVE  IInv'
<1>. USE IInvFacts, TypeFacts
<1>0. indexof(s) \in Slot /\ pc[s] = "waiting"
  BY IndexFacts DEF EnterWoken
<1>u. UNCHANGED <<last_entered_, last_left_, drain_seqno_, locked_, obj_, cond_, depends, intr,
                  adm, target, wpc, wseqno>>
  BY DEF EnterWoken, adminVars, waitVars
<1>w. last_left_ < s /\ s - last_left_ < Size
  BY <1>0 DEF IInv, SeqnosInSlots, SeqnoInSlot
<1>4. \A t \in Seqno : t # s /\ last_left_ < t /\ t - last_left_ < Size
                         => indexof(t) # indexof(s)
  BY <1>w, OwnSlot
<1>5. Windowed'
  BY <1>u DEF IInv, Windowed
<1>6. UnpositionedEmpty'
  BY <1>u, <1>0 DEF IInv, UnpositionedEmpty, Positioned
<1>1. CASE UNCHANGED <<state_, pc>> /\ slot_cond_' = slot_cond_ \cup {s}
  BY <1>1, <1>u, <1>5, <1>6
  DEF IInv, TypeOK, SlotsOwned, Owns, SeqnosInSlots, SeqnoInSlot, may_enter, Positioned, LeftMeansDone
<1>2. CASE /\ state_[indexof(s)] = "CANCELED"
           /\ state_' = [state_ EXCEPT ![indexof(s)] = "IDLE"]
           /\ pc' = [pc EXCEPT ![s] = "eintr"]
           /\ UNCHANGED slot_cond_
  <2>1. TypeOK'
    BY <1>0, <1>2, <1>u DEF IInv, TypeOK, TrxPc, States
  <2>2. LeftMeansDone'
    BY <1>u, <1>2, <1>w DEF IInv, TypeOK, LeftMeansDone
  <2>3. SlotsOwned'
    BY <1>u, <1>0, <1>4, <1>2 DEF IInv, TypeOK, SlotsOwned, Owns
  <2>4. SeqnosInSlots'
    BY <1>u, <1>0, <1>4, <1>2 DEF IInv, TypeOK, SeqnosInSlots, SeqnoInSlot, may_enter, Positioned
  <2>. QED BY <1>5, <1>6, <2>1, <2>2, <2>3, <2>4 DEF IInv
<1>3. CASE /\ state_[indexof(s)] = "APPLYING" \/ (state_[indexof(s)] = "WAITING" /\ may_enter(s))
           /\ state_' = [state_ EXCEPT ![indexof(s)] = "APPLYING"]
           /\ pc' = [pc EXCEPT ![s] = "inside"]
           /\ UNCHANGED slot_cond_
  <2>1. TypeOK'
    BY <1>0, <1>3, <1>u DEF IInv, TypeOK, TrxPc, States
  <2>2. LeftMeansDone'
    BY <1>u, <1>3, <1>w DEF IInv, TypeOK, LeftMeansDone
  <2>3. SlotsOwned'
    BY <1>u, <1>0, <1>4, <1>3, <1>w DEF IInv, TypeOK, SlotsOwned, Owns
  <2>4. SeqnosInSlots'
    BY <1>u, <1>0, <1>4, <1>3 DEF IInv, TypeOK, SeqnosInSlots, SeqnoInSlot, may_enter, Positioned
  <2>. QED BY <1>5, <1>6, <2>1, <2>2, <2>3, <2>4 DEF IInv
<1>. QED BY <1>1, <1>2, <1>3 DEF EnterWoken

\* A step that touches neither the window, nor a slot, nor a transaction.
LEMMA QuietStep ==
    ASSUME IInv, TypeOK', UNCHANGED <<last_entered_, last_left_, state_, obj_, depends, pc>>,
           ~ Positioned => UNCHANGED <<intr, adm>>,
           \A s \in Seqno : pc[s] = "out" => intr'[s] = intr[s]
    PROVE  IInv'
<1>1. Windowed' /\ LeftMeansDone'
  BY DEF IInv, Windowed, LeftMeansDone
<1>2. SlotsOwned'
  BY DEF IInv, SlotsOwned, Owns
<1>3. SeqnosInSlots'
  BY DEF IInv, SeqnosInSlots, SeqnoInSlot, may_enter, Positioned
<1>4. UnpositionedEmpty'
  BY DEF IInv, UnpositionedEmpty, Positioned
<1>. QED BY <1>1, <1>2, <1>3, <1>4 DEF IInv

\* interrupt(): asleep, the seqno marked, or refused.
LEMMA InterruptOrBlockStep ==
    ASSUME IInv, NEW s \in Seqno, intr[s] \in {"requested", "blocked"}, InterruptOrBlock(s)
    PROVE  IInv'
<1>. USE IInvFacts, TypeFacts
<1>0. indexof(s) \in Slot
  BY IndexFacts
<1>u. UNCHANGED <<last_entered_, last_left_, drain_seqno_, locked_, obj_, depends, pc,
                  adm, target, wpc, wseqno>>
  BY DEF InterruptOrBlock, adminVars, waitVars
<1>5. Windowed' /\ LeftMeansDone' /\ Positioned /\ Positioned'
  BY <1>u DEF IInv, Windowed, LeftMeansDone, UnpositionedEmpty, Positioned
<1>6. UnpositionedEmpty'
  BY <1>5 DEF UnpositionedEmpty
<1>1. CASE UNCHANGED <<state_, slot_cond_>>
  <2>1. TypeOK'
    BY <1>1, <1>u DEF InterruptOrBlock, SleepOnCond, IInv, TypeOK, Thread
  <2>2. \A r \in Seqno : pc[r] = "out" => intr'[r] = intr[r]
    BY DEF InterruptOrBlock, IInv, TypeOK, SeqnosInSlots, SeqnoInSlot
  <2>. QED BY <1>1, <1>5, <1>u, <2>1, <2>2, QuietStep
<1>2. CASE /\ ~ OutOfWindow(s)
           /\ (state_[indexof(s)] = "IDLE" /\ s > last_left_) \/ state_[indexof(s)] = "WAITING"
           /\ state_' = [state_ EXCEPT ![indexof(s)] = "CANCELED"]
           /\ slot_cond_' = {t \in slot_cond_ : indexof(t) # indexof(s)}
           /\ UNCHANGED cond_
           /\ intr' = [intr EXCEPT ![s] = "done"]
  <2>1. TypeOK'
    BY <1>0, <1>2, <1>u DEF IInv, TypeOK, States
  <2>2. PICK t \in Seqno : /\ indexof(t) = indexof(s)
                           /\ last_left_ < t /\ t - last_left_ < Size
                           /\ pc[t] \notin {"inside", "done", "out"}
    <3>1. CASE state_[indexof(s)] = "WAITING"
      BY <1>0, <3>1 DEF IInv, SlotsOwned, Owns
    <3>2. CASE state_[indexof(s)] = "IDLE" /\ s > last_left_
      <4>1. pc[s] # "inside" /\ pc[s] # "done" /\ pc[s] # "out"
        BY <3>2, <1>5 DEF IInv, SeqnosInSlots, SeqnoInSlot
      <4>. QED BY <4>1, <3>2, <1>2 DEF OutOfWindow
    <3>. QED BY <1>2, <3>1, <3>2
  <2>3. \A r \in Seqno : r # t /\ last_left_ < r /\ r - last_left_ < Size
                           => indexof(r) # indexof(s)
    BY <2>2, OwnSlot
  <2>4. SlotsOwned'
    BY <1>0, <1>2, <1>u, <2>2, <2>3 DEF IInv, TypeOK, SlotsOwned, Owns
  <2>5. SeqnosInSlots'
    BY <1>0, <1>2, <1>u, <2>2, <2>3
    DEF IInv, TypeOK, SeqnosInSlots, SeqnoInSlot, may_enter, Positioned
  <2>. QED BY <1>5, <1>6, <2>1, <2>4, <2>5 DEF IInv
<1>. QED BY <1>1, <1>2 DEF InterruptOrBlock, CanCancel

\* post_leave(), for leave() and for self_cancel(): the seqno s is done.
LEMMA PostLeaveStep ==
    ASSUME IInv, NEW s \in Seqno, Positioned,
           last_left_ < s, s - last_left_ < Size,
           pc[s] \in {"inside", "out", "eintr", "cancelling"},
           last_entered_' = MaxOf(last_entered_, s),
           PostLeave(s, last_entered_'),
           pc' = [pc EXCEPT ![s] = "done"],
           UNCHANGED <<drain_seqno_, locked_, depends, intr, adm, target, wseqno>>
    PROVE  IInv'
<1>. USE IInvFacts, TypeFacts
<1>0. indexof(s) \in Slot
  BY IndexFacts
<1>1. /\ last_entered_' \in Int /\ last_entered_' >= last_entered_ /\ last_entered_' >= s
      /\ last_entered_' <= MaxSeqno /\ last_entered_' - last_left_ < Size
  BY DEF MaxOf
<1>2. obj_' = [obj_ EXCEPT ![indexof(s)] = 0] /\ cond_' \in {{}, cond_}
  BY DEF PostLeave, NotifyWindow
<1>3. \A t \in Seqno : t # s /\ last_left_ < t /\ t - last_left_ < Size
                         => indexof(t) # indexof(s)
  BY OwnSlot
<1>4. wpc' \in [Waiters -> {"out", "sleeping", "ok", "timeout"}] /\ slot_cond_' \subseteq Seqno
  BY DEF PostLeave, BroadcastWait, IInv, TypeOK
<1>5. CASE last_left_ + 1 # s
  <2>1. state_' = [state_ EXCEPT ![indexof(s)] = "FINISHED"] /\ last_left_' = last_left_
    BY <1>5 DEF PostLeave
  <2>2. TypeOK'
    BY <1>0, <1>1, <1>2, <1>4, <2>1 DEF IInv, TypeOK, TrxPc, States
  <2>3. Windowed' /\ LeftMeansDone' /\ UnpositionedEmpty'
    BY <1>1, <2>1 DEF IInv, TypeOK, Windowed, LeftMeansDone, UnpositionedEmpty, Positioned
  <2>4. SlotsOwned'
    BY <1>0, <1>3, <2>1 DEF IInv, TypeOK, SlotsOwned, Owns
  <2>5. SeqnosInSlots'
    BY <1>0, <1>1, <1>2, <1>3, <2>1
    DEF IInv, TypeOK, SeqnosInSlots, SeqnoInSlot, may_enter, Positioned
  <2>. QED BY <2>2, <2>3, <2>4, <2>5 DEF IInv
<1>6. CASE last_left_ + 1 = s
  <2>. DEFINE freed == [state_ EXCEPT ![indexof(s)] = "IDLE"]
  <2>1. PICK k \in s..last_entered_' :
           /\ CollectsUpTo(freed, s, last_entered_', k)
           /\ last_left_' = k
           /\ state_' = [x \in Slot |->
                           IF x \in WokenSlots(Collected(freed, s, k), k, last_entered_')
                           THEN "APPLYING" ELSE Collected(freed, s, k)[x]]
    BY <1>6 DEF PostLeave
  <2>. DEFINE st == Collected(freed, s, k)
              woken == WokenSlots(st, k, last_entered_')
  <2>2. k \in Int /\ s <= k /\ k <= last_entered_'
    BY <2>1, <1>1
  <2>3. freed \in [Slot -> States] /\ freed[indexof(s)] = "IDLE"
    BY <1>0 DEF IInv, TypeOK, States
  <2>4. \A x \in Slot : x # indexof(s) => freed[x] = state_[x]
    BY <1>0 DEF IInv, TypeOK
  \* what was collected had left
  <2>5. \A i \in Seqno : s < i /\ i <= k => pc[i] = "done"
    <3>1. SUFFICES ASSUME NEW i \in Seqno, s < i, i <= k PROVE pc[i] = "done"
      OBVIOUS
    <3>2. indexof(i) \in Slot /\ indexof(i) # indexof(s)
      BY <3>1, <2>2, <1>1, <1>3, IndexFacts
    <3>3. freed[indexof(i)] = "FINISHED"
      BY <3>1, <2>1, <2>2 DEF CollectsUpTo
    <3>4. state_[indexof(i)] = "FINISHED"
      BY <3>2, <3>3, <2>4
    <3>5. PICK t \in Seqno : /\ indexof(t) = indexof(i) /\ last_left_ < t
                             /\ t - last_left_ < Size /\ pc[t] = "done"
      BY <3>2, <3>4 DEF IInv, SlotsOwned, Owns
    <3>6. t = i
      BY <3>1, <3>5, <2>2, <1>1, OwnSlot
    <3>. QED BY <3>5, <3>6
  <2>6. LeftMeansDone'
    BY <2>1, <2>2, <2>5, <1>6 DEF LeftMeansDone, IInv, TypeOK
  <2>7. Windowed' /\ UnpositionedEmpty'
    BY <2>1, <2>2, <1>1 DEF Windowed, UnpositionedEmpty, Positioned
  \* slots above k keep their state, or go from WAITING to APPLYING
  <2>8. st \in [Slot -> States] /\ \A x \in Slot :
           /\ (\E i \in (s + 1)..k : indexof(i) = x) => st[x] = "IDLE"
           /\ (~ \E i \in (s + 1)..k : indexof(i) = x) => st[x] = freed[x]
    BY <2>3 DEF Collected, States
  <2>9. \A t \in Seqno : k < t /\ t - last_left_ < Size => st[indexof(t)] = state_[indexof(t)]
    <3>1. SUFFICES ASSUME NEW t \in Seqno, k < t, t - last_left_ < Size
                   PROVE  st[indexof(t)] = state_[indexof(t)]
      OBVIOUS
    <3>2. \A i \in (s + 1)..k : indexof(i) # indexof(t)
      BY <3>1, <2>2, <1>6, IndexFacts
    <3>3. indexof(t) \in Slot /\ indexof(t) # indexof(s)
      BY <3>1, <2>2, <1>3, <1>6, IndexFacts
    <3>. QED BY <3>2, <3>3, <2>8, <2>4
  <2>10. woken \subseteq Slot /\ \A x \in woken : st[x] = "WAITING" /\ Condition(obj_[x], depends[obj_[x]], k)
    BY DEF WokenSlots
  <2>. HIDE DEF woken, st, freed
  <2>11. \A x \in Slot : state_'[x] = IF x \in woken THEN "APPLYING" ELSE st[x]
    BY <2>1 DEF woken, st
  \* a slot that is not idle afterwards was not idle before
  <2>12. ASSUME NEW x \in Slot, st[x] # "IDLE"
         PROVE  \E t \in Seqno : /\ indexof(t) = x /\ k < t /\ t - k < Size /\ t # s
                                 /\ st[x] = state_[x] /\ Owns(t, st[x])
    <3>1. x # indexof(s) /\ st[x] = freed[x] /\ ~ \E i \in (s + 1)..k : indexof(i) = x
      BY <2>12, <2>8, <2>3
    <3>2. st[x] = state_[x]
      BY <3>1, <2>4
    <3>3. PICK t \in Seqno : /\ indexof(t) = x /\ last_left_ < t /\ t - last_left_ < Size
                             /\ Owns(t, state_[x])
      BY <3>2, <2>12 DEF IInv, SlotsOwned
    <3>4. t # s /\ k < t
      BY <3>1, <3>3, <2>2, <1>6
    <3>. QED BY <3>2, <3>3, <3>4, <2>2, <1>6
  <2>13. SlotsOwned'
    <3>1. SUFFICES ASSUME NEW x \in Slot, state_'[x] # "IDLE"
                   PROVE  \E t \in Seqno : /\ indexof(t) = x /\ k < t /\ t - k < Size
                                           /\ Owns(t, state_[x])'
      BY <2>1 DEF SlotsOwned, Owns
    <3>2. st[x] # "IDLE"
      BY <3>1, <2>10, <2>11
    <3>3. PICK t \in Seqno : /\ indexof(t) = x /\ k < t /\ t - k < Size /\ t # s
                             /\ Owns(t, st[x])
      BY <2>12, <3>2
    <3>4. Owns(t, state_[x])'
      BY <3>3, <2>10, <2>11 DEF Owns, IInv, TypeOK
    <3>. QED BY <3>3, <3>4
  <2>14. TypeOK'
    <3>1. state_' \in [Slot -> States]
      BY <2>1, <2>8 DEF States, st
    <3>. QED BY <3>1, <1>0, <1>1, <1>2, <1>4, <2>1, <2>2 DEF IInv, TypeOK, TrxPc
  <2>15. SeqnosInSlots'
    <3>1. SUFFICES ASSUME NEW t \in Seqno PROVE SeqnoInSlot(t)'
      BY DEF SeqnosInSlots
    <3>2. CASE t <= k
      <4>1. pc'[t] = "done" /\ ~ (last_left_' < t)
        BY <3>2, <2>1, <2>2, <2>6, TypeFacts DEF LeftMeansDone
      <4>. QED BY <4>1 DEF SeqnoInSlot
    <3>3. CASE k < t /\ t - last_left_ < Size
      <4>1. pc'[t] = pc[t] /\ indexof(t) \in Slot /\ obj_'[indexof(t)] = obj_[indexof(t)]
        BY <3>3, <2>2, <1>2, <1>3, <1>6, IndexFacts DEF IInv, TypeOK
      <4>2. st[indexof(t)] = state_[indexof(t)]
        BY <2>9, <3>3
      <4>3. state_'[indexof(t)] = state_[indexof(t)] \/
              (state_[indexof(t)] = "WAITING" /\ state_'[indexof(t)] = "APPLYING"
               /\ Condition(obj_[indexof(t)], depends[obj_[indexof(t)]], k))
        BY <4>1, <4>2, <2>10, <2>11
      <4>4. depends[t] \in Int
        BY DEF IInv, TypeOK
      <4>5. pc[t] \in {"waiting", "inside"} /\ state_'[indexof(t)] = "APPLYING"
               => Condition(t, depends[t], k)
        <5>1. SUFFICES ASSUME pc[t] \in {"waiting", "inside"}, state_'[indexof(t)] = "APPLYING"
                       PROVE  Condition(t, depends[t], k)
          OBVIOUS
        <5>2. CASE state_[indexof(t)] = "APPLYING"
          <6>1. Condition(t, depends[t], last_left_)
            BY <5>1, <5>2 DEF IInv, SeqnosInSlots, SeqnoInSlot, may_enter
          <6>. QED BY <6>1, <4>4, <3>3, <2>2, <1>6, ConditionStable
        <5>3. CASE state_[indexof(t)] # "APPLYING"
          BY <5>1, <5>3, <4>3 DEF IInv, SeqnosInSlots, SeqnoInSlot
        <5>. QED BY <5>2, <5>3
      <4>6. may_enter(t)' <=> Condition(t, depends[t], k)
        BY <2>1 DEF may_enter, Condition
      <4>7. SeqnoInSlot(t) /\ state_[indexof(t)] \in States
        BY <4>1 DEF IInv, TypeOK, SeqnosInSlots
      <4>8. pc[t] \in {"waiting", "inside"} =>
               /\ last_left_' < t /\ t <= last_entered_' /\ obj_'[indexof(t)] = t
               /\ state_'[indexof(t)] = "APPLYING" => may_enter(t)'
        BY <4>1, <4>5, <4>6, <4>7, <1>1, <2>1, <3>3 DEF SeqnoInSlot
      <4>9. pc[t] = "waiting" => state_'[indexof(t)] \in {"WAITING", "CANCELED", "APPLYING"}
        BY <4>3, <4>7 DEF SeqnoInSlot
      <4>10. pc[t] = "inside" => state_'[indexof(t)] = "APPLYING"
        BY <4>3, <4>7 DEF SeqnoInSlot
      <4>11. pc[t] = "done" => t <= last_entered_ /\ state_[indexof(t)] = "FINISHED"
        <5>1. last_left_ < t
          BY <2>2, <3>3, <1>6
        <5>. QED BY <4>7, <5>1, Zenon DEF SeqnoInSlot
      <4>12. pc[t] = "done" => t <= last_entered_' /\ state_'[indexof(t)] = "FINISHED"
        BY <4>3, <4>11, <1>1
      <4>13. pc[t] = "out" => intr'[t] = "no"
        BY <4>7 DEF SeqnoInSlot
      <4>. QED BY <4>1, <4>8, <4>9, <4>10, <4>12, <4>13 DEF SeqnoInSlot
    <3>4. CASE t - last_left_ >= Size
      BY <3>4, <1>1, <1>6, <2>1, <2>2 DEF IInv, TypeOK, SeqnosInSlots, SeqnoInSlot, Positioned
    <3>. QED BY <3>2, <3>3, <3>4, <2>2
  <2>. QED BY <2>6, <2>7, <2>13, <2>14, <2>15 DEF IInv
<1>. QED BY <1>5, <1>6

\* Leaving always passes through post_leave().
LEMMA LeaveStep ==
    ASSUME IInv, NEW s \in Seqno, Leave(s)
    PROVE  IInv'
<1>. USE IInvFacts, TypeFacts
<1>1. pc[s] = "inside" /\ last_left_ < s /\ s <= last_entered_ /\ s - last_left_ < Size
  BY DEF Leave, IInv, SeqnosInSlots, SeqnoInSlot
<1>2. last_entered_' = last_entered_ /\ last_entered_' = MaxOf(last_entered_, s)
  BY <1>1 DEF Leave, MaxOf
<1>3. Positioned
  BY <1>1 DEF IInv, UnpositionedEmpty
<1>4. /\ PostLeave(s, last_entered_')
      /\ pc' = [pc EXCEPT ![s] = "done"]
      /\ UNCHANGED <<drain_seqno_, locked_, depends, intr, adm, target, wseqno>>
  BY <1>2 DEF Leave, adminVars
<1>. QED BY <1>1, <1>2, <1>3, <1>4, PostLeaveStep

\* self_cancel(): asleep, through post_leave(), or FINISHED behind a drain.
LEMMA CancelOrBlockStep ==
    ASSUME IInv, NEW s \in Seqno, Positioned, last_left_ < s,
           pc[s] \in {"out", "eintr", "cancelling"}, CancelOrBlock(s)
    PROVE  IInv'
<1>. USE IInvFacts, TypeFacts
<1>0. indexof(s) \in Slot
  BY IndexFacts
<1>u. UNCHANGED <<drain_seqno_, locked_, depends, intr, adm, target, wseqno>>
  BY DEF CancelOrBlock, adminVars
<1>1. CASE OutOfWindow(s)
  <2>1. /\ cond_' = cond_ \cup {<<"trx", s>>}
        /\ pc' = [pc EXCEPT ![s] = "cancelling"]
        /\ UNCHANGED <<last_entered_, last_left_, state_, obj_, slot_cond_, wpc>>
    BY <1>1 DEF CancelOrBlock, SleepOnCond, slotVars
  <2>2. TypeOK'
    BY <1>u, <2>1 DEF IInv, TypeOK, TrxPc, Thread
  <2>3. Windowed' /\ LeftMeansDone' /\ UnpositionedEmpty'
    BY <1>u, <2>1 DEF IInv, TypeOK, Windowed, LeftMeansDone, UnpositionedEmpty, Positioned
  <2>4. SlotsOwned'
    BY <1>u, <2>1 DEF IInv, TypeOK, SlotsOwned, Owns
  <2>5. SeqnosInSlots'
    BY <1>u, <2>1 DEF IInv, TypeOK, SeqnosInSlots, SeqnoInSlot, may_enter, Positioned
  <2>. QED BY <2>2, <2>3, <2>4, <2>5 DEF IInv
<1>2. CASE ~ OutOfWindow(s)
  <2>1. s - last_left_ < Size
    BY <1>2 DEF OutOfWindow
  <2>2. last_entered_' = MaxOf(last_entered_, s) /\ pc' = [pc EXCEPT ![s] = "done"]
    BY <1>2 DEF CancelOrBlock
  <2>3. CASE s <= drain_seqno_
    <3>1. PostLeave(s, last_entered_')
      BY <1>2, <2>2, <2>3 DEF CancelOrBlock
    <3>. QED BY <1>u, <2>1, <2>2, <3>1, PostLeaveStep
  <2>4. CASE ~ (s <= drain_seqno_)
    <3>1. /\ state_' = [state_ EXCEPT ![indexof(s)] = "FINISHED"]
          /\ UNCHANGED <<last_left_, obj_, slot_cond_, cond_, wpc>>
      BY <1>2, <2>4 DEF CancelOrBlock
    <3>2. /\ last_entered_' \in Int /\ last_entered_' >= last_entered_ /\ last_entered_' >= s
          /\ last_entered_' <= MaxSeqno /\ last_entered_' - last_left_ < Size
      BY <2>1, <2>2 DEF MaxOf
    <3>3. \A t \in Seqno : t # s /\ last_left_ < t /\ t - last_left_ < Size
                             => indexof(t) # indexof(s)
      BY <2>1, OwnSlot
    <3>4. TypeOK'
      BY <1>0, <1>u, <2>2, <3>1, <3>2 DEF IInv, TypeOK, TrxPc, States
    <3>5. Windowed' /\ LeftMeansDone' /\ UnpositionedEmpty'
      BY <2>2, <3>1, <3>2 DEF IInv, TypeOK, Windowed, LeftMeansDone, UnpositionedEmpty, Positioned
    <3>6. SlotsOwned'
      BY <1>0, <2>1, <2>2, <3>1, <3>3 DEF IInv, TypeOK, SlotsOwned, Owns
    <3>7. SeqnosInSlots'
      BY <1>0, <1>u, <2>2, <3>1, <3>2, <3>3
      DEF IInv, TypeOK, SeqnosInSlots, SeqnoInSlot, may_enter, Positioned
    <3>. QED BY <3>4, <3>5, <3>6, <3>7 DEF IInv
  <2>. QED BY <2>3, <2>4
<1>. QED BY <1>1, <1>2

\* The end of a drain or a lock collects what finished meanwhile.
LEMMA CollectAndReopenStep ==
    ASSUME IInv, Positioned, CollectAndReopen, locked_' \in BOOLEAN,
           adm' \in [Admin -> {"out", "turn", "drain", "locked", "done"}],
           target' \in [Admin -> 0..MaxSeqno],
           UNCHANGED <<last_entered_, obj_, slot_cond_, depends, pc, intr, wseqno>>
    PROVE  IInv'
<1>. USE IInvFacts, TypeFacts
<1>1. PICK k \in last_left_..last_entered_ :
         /\ CollectsUpTo(state_, last_left_, last_entered_, k)
         /\ last_left_' = k
         /\ state_' = Collected(state_, last_left_, k)
  BY DEF CollectAndReopen
<1>2. k \in Int /\ last_left_ <= k /\ k <= last_entered_
  BY <1>1
<1>3. \A x \in Slot :
         /\ (\E i \in (last_left_ + 1)..k : indexof(i) = x) => state_'[x] = "IDLE"
         /\ (~ \E i \in (last_left_ + 1)..k : indexof(i) = x) => state_'[x] = state_[x]
  BY <1>1 DEF Collected
<1>4. \A i \in Seqno : last_left_ < i /\ i <= k => pc[i] = "done"
  <2>1. SUFFICES ASSUME NEW i \in Seqno, last_left_ < i, i <= k PROVE pc[i] = "done"
    OBVIOUS
  <2>2. indexof(i) \in Slot
    BY IndexFacts
  <2>3. state_[indexof(i)] = "FINISHED"
    BY <2>1, <1>1, <1>2 DEF CollectsUpTo
  <2>4. PICK t \in Seqno : /\ indexof(t) = indexof(i) /\ last_left_ < t
                           /\ t - last_left_ < Size /\ pc[t] = "done"
    BY <2>2, <2>3 DEF IInv, SlotsOwned, Owns
  <2>5. t = i
    BY <2>1, <2>4, <1>2, OwnSlot
  <2>. QED BY <2>4, <2>5
<1>5. LeftMeansDone' /\ Windowed' /\ UnpositionedEmpty'
  BY <1>1, <1>2, <1>4 DEF LeftMeansDone, Windowed, UnpositionedEmpty, Positioned
<1>6. TypeOK'
  <2>1. state_' \in [Slot -> States]
    BY <1>1 DEF Collected, IInv, TypeOK, States
  <2>2. wpc' \in [Waiters -> {"out", "sleeping", "ok", "timeout"}]
    BY DEF CollectAndReopen, BroadcastWait, IInv, TypeOK
  <2>3. drain_seqno_' \in 0..LLONG_MAX /\ cond_' = {}
    BY DEF CollectAndReopen, LLONG_MAX
  <2>4. last_left_' \in -1..MaxSeqno
    BY <1>1, <1>2
  <2>. QED BY <2>1, <2>2, <2>3, <2>4 DEF IInv, TypeOK
<1>7. SlotsOwned'
  <2>1. SUFFICES ASSUME NEW x \in Slot, state_'[x] # "IDLE"
                 PROVE  \E t \in Seqno : /\ indexof(t) = x /\ k < t /\ t - k < Size
                                         /\ Owns(t, state_[x])'
    BY <1>1 DEF SlotsOwned, Owns
  <2>2. state_'[x] = state_[x] /\ ~ \E i \in (last_left_ + 1)..k : indexof(i) = x
    BY <2>1, <1>3
  <2>3. PICK t \in Seqno : /\ indexof(t) = x /\ last_left_ < t /\ t - last_left_ < Size
                           /\ Owns(t, state_[x])
    BY <2>1, <2>2 DEF IInv, SlotsOwned
  <2>4. k < t /\ t - k < Size
    <3>1. t \in Int /\ t \notin (last_left_ + 1)..k
      BY <2>2, <2>3
    <3>. QED BY <3>1, <2>3, <1>2
  <2>5. Owns(t, state_[x])'
    BY <2>2, <2>3 DEF Owns
  <2>. QED BY <2>3, <2>4, <2>5
<1>8. SeqnosInSlots'
  <2>1. SUFFICES ASSUME NEW t \in Seqno PROVE SeqnoInSlot(t)'
    BY DEF SeqnosInSlots
  <2>2. CASE t <= k
    <3>1. pc'[t] = "done" /\ ~ (last_left_' < t)
      BY <2>2, <1>1, <1>2, <1>5 DEF LeftMeansDone
    <3>. QED BY <3>1 DEF SeqnoInSlot
  <2>3. CASE k < t /\ t - last_left_ < Size
    <3>1. indexof(t) \in Slot /\ \A i \in (last_left_ + 1)..k : indexof(i) # indexof(t)
      BY <2>3, <1>2, IndexFacts
    <3>2. state_'[indexof(t)] = state_[indexof(t)]
      BY <3>1, <1>3
    <3>3. last_left_ < t /\ last_left_' < t
      BY <2>3, <1>1, <1>2
    <3>4. depends[t] \in Int /\ SeqnoInSlot(t)
      BY DEF IInv, TypeOK, SeqnosInSlots
    <3>5. may_enter(t) => may_enter(t)'
      <4>1. ASSUME Condition(t, depends[t], last_left_) PROVE Condition(t, depends[t], k)
        BY <4>1, <3>4, <2>3, <1>2, ConditionStable
      <4>2. may_enter(t)' <=> Condition(t, depends[t], k)
        BY <1>1 DEF may_enter, Condition
      <4>. QED BY <4>1, <4>2 DEF may_enter
    <3>. QED BY <3>2, <3>3, <3>4, <3>5, Zenon DEF SeqnoInSlot
  <2>4. CASE t - last_left_ >= Size
    BY <2>4, <1>1, <1>2 DEF IInv, SeqnosInSlots, SeqnoInSlot, Positioned
  <2>. QED BY <2>2, <2>3, <2>4, <1>2
<1>. QED BY <1>5, <1>6, <1>7, <1>8 DEF IInv

\* The three steps of a drain or a lock that does not collect.
LEMMA AdminWaitStep ==
    ASSUME IInv, Positioned, AdminUnchanged, NEW a \in Admin, NEW upto \in 0..LLONG_MAX,
           target' \in [Admin -> 0..MaxSeqno],
           WaitTurn(a) \/ WaitDrained(a, upto) \/ LockEnd(a, upto)
    PROVE  IInv'
<1>1. locked_' \in BOOLEAN
  BY Zenon DEF WaitTurn, WaitDrained, LockEnd, IInv, TypeOK
<1>2. TypeOK'
  BY <1>1, SeqnoAssumption
  DEF IInv, TypeOK, WaitTurn, WaitDrained, LockEnd, SleepOnCond, AdminUnchanged, Thread, LLONG_MAX
<1>3. UNCHANGED <<last_entered_, last_left_, state_, obj_, depends, pc>>
  BY DEF WaitTurn, WaitDrained, LockEnd, AdminUnchanged
<1>4. intr' = intr
  BY DEF AdminUnchanged
<1>. QED BY <1>2, <1>3, <1>4, QuietStep

\* The end of drain(), whatever it was called with.
LEMMA DrainEndStep ==
    ASSUME IInv, Positioned, AdminUnchanged, NEW a \in Admin, NEW upto,
           target' \in [Admin -> 0..MaxSeqno], DrainEnd(a, upto)
    PROVE  IInv'
<1>1. locked_' \in BOOLEAN
  BY Zenon DEF DrainEnd, IInv, TypeOK
<1>2. adm' \in [Admin -> {"out", "turn", "drain", "locked", "done"}]
  BY DEF DrainEnd, IInv, TypeOK
<1>3. CollectAndReopen
  BY DEF DrainEnd
<1>4. UNCHANGED <<last_entered_, obj_, slot_cond_, depends, pc, intr, wseqno>>
  BY DEF AdminUnchanged
<1>. QED BY <1>1, <1>2, <1>3, <1>4, CollectAndReopenStep

\* drain(), lock() and unlock() keep the invariant.
LEMMA AdminStep ==
    ASSUME IInv, NEW a \in Admin, AdminNext(a)
    PROVE  IInv'
<1>. USE IInvFacts, TypeFacts
<1>0. /\ target[a] \in 0..LLONG_MAX /\ drain_seqno_ \in 0..LLONG_MAX
      /\ Positioned => last_entered_ \in 0..LLONG_MAX
  BY DEF IInv, TypeOK, LLONG_MAX
<1>1. adm[a] \in {"turn", "drain", "locked"} => Positioned
  BY DEF IInv, UnpositionedEmpty
<1>2. ASSUME NEW upto \in 0..MaxSeqno, Drain(a, upto) PROVE IInv'
  <2>1. target' \in [Admin -> 0..MaxSeqno] /\ upto \in 0..LLONG_MAX /\ Positioned /\ AdminUnchanged
    BY <1>2 DEF Drain, IInv, TypeOK, LLONG_MAX
  <2>2. WaitTurn(a) \/ WaitDrained(a, upto) \/ DrainEnd(a, upto)
    BY <1>2 DEF Drain
  <2>. QED BY <2>1, <2>2, AdminWaitStep, DrainEndStep
<1>3. CASE DrainRetry(a)
  <2>1. target' \in [Admin -> 0..MaxSeqno] /\ Positioned /\ AdminUnchanged
    BY <1>1, <1>3 DEF DrainRetry, IInv, TypeOK
  <2>2. \/ WaitTurn(a) \/ WaitDrained(a, target[a]) \/ DrainEnd(a, target[a])
        \/ WaitDrained(a, drain_seqno_) \/ DrainEnd(a, drain_seqno_)
    BY <1>3 DEF DrainRetry
  <2>. QED BY <1>0, <2>1, <2>2, AdminWaitStep, DrainEndStep
<1>4. CASE Lock(a)
  <2>1. target' \in [Admin -> 0..MaxSeqno] /\ Positioned /\ AdminUnchanged
    BY <1>4 DEF Lock, IInv, TypeOK
  <2>2. CASE /\ adm' = [adm EXCEPT ![a] = "done"]
             /\ UNCHANGED <<last_left_, drain_seqno_, locked_, state_, cond_, wpc>>
    <3>1. TypeOK'
      BY <2>1, <2>2 DEF IInv, TypeOK, AdminUnchanged
    <3>. QED BY <3>1, <2>1, <2>2, QuietStep DEF AdminUnchanged
  <2>3. CASE WaitTurn(a) \/ WaitDrained(a, last_entered_) \/ LockEnd(a, last_entered_)
    BY <1>0, <2>1, <2>3, AdminWaitStep
  <2>. QED BY <1>4, <2>2, <2>3 DEF Lock
<1>5. CASE LockRetry(a)
  <2>1. target' \in [Admin -> 0..MaxSeqno] /\ Positioned /\ AdminUnchanged
    BY <1>1, <1>5 DEF LockRetry, IInv, TypeOK
  <2>2. \/ WaitTurn(a) \/ WaitDrained(a, last_entered_) \/ LockEnd(a, last_entered_)
        \/ WaitDrained(a, drain_seqno_) \/ LockEnd(a, drain_seqno_)
    BY <1>5 DEF LockRetry
  <2>. QED BY <1>0, <2>1, <2>2, AdminWaitStep
<1>6. CASE Unlock(a)
  <2>1. target' \in [Admin -> 0..MaxSeqno] /\ Positioned /\ AdminUnchanged
    BY <1>1, <1>6 DEF Unlock, IInv, TypeOK
  <2>2. locked_' \in BOOLEAN
    BY <1>6, Zenon DEF Unlock
  <2>3. adm' \in [Admin -> {"out", "turn", "drain", "locked", "done"}] /\ CollectAndReopen
    BY <1>6 DEF Unlock, IInv, TypeOK
  <2>. QED BY <2>1, <2>2, <2>3, CollectAndReopenStep DEF AdminUnchanged
<1>. QED BY <1>2, <1>3, <1>4, <1>5, <1>6 DEF AdminNext

\* The thread that processes a seqno keeps the invariant.
LEMMA TrxStep ==
    ASSUME IInv, NEW s \in Seqno, TrxNext(s)
    PROVE  IInv'
<1>. USE IInvFacts, TypeFacts
<1>1. pc[s] \in {"out", "eintr", "blocked", "cancelling"} => last_left_ < s
  OBVIOUS
<1>2. pc[s] \in {"blocked", "cancelling"} => Positioned
  BY DEF IInv, UnpositionedEmpty
<1>3. CASE Enter(s)
  <2>1. PICK dep \in 0..MaxSeqno : EnterOrBlock(s, dep)
    BY <1>3 DEF Enter
  <2>. QED BY <1>1, <1>3, <2>1, EnterOrBlockStep DEF Enter
<1>4. CASE EnterRetry(s)
  <2>1. depends[s] \in 0..MaxSeqno /\ EnterOrBlock(s, depends[s]) /\ pc[s] = "blocked"
    BY <1>4 DEF EnterRetry, IInv, TypeOK
  <2>. QED BY <1>1, <1>2, <2>1, EnterOrBlockStep
<1>5. CASE SelfCancel(s)
  BY <1>1, <1>5, CancelOrBlockStep DEF SelfCancel
<1>6. CASE SelfCancelRetry(s)
  BY <1>1, <1>2, <1>6, CancelOrBlockStep DEF SelfCancelRetry
<1>. QED BY <1>3, <1>4, <1>5, <1>6, EnterWokenStep, LeaveStep DEF TrxNext

\* The thread that BF-aborts a transaction keeps the invariant.
LEMMA AbortStep ==
    ASSUME IInv, NEW s \in Seqno, AbortNext(s)
    PROVE  IInv'
<1>1. CASE AbortRequest(s)
  <2>1. TypeOK'
    BY <1>1 DEF AbortRequest, IInv, TypeOK, slotVars, adminVars, waitVars
  <2>2. Positioned /\ UNCHANGED <<last_entered_, last_left_, state_, obj_, depends, pc>>
    BY <1>1 DEF AbortRequest, slotVars, IInv, UnpositionedEmpty
  <2>3. \A r \in Seqno : pc[r] = "out" => intr'[r] = intr[r]
    BY <1>1 DEF AbortRequest, IInv, TypeOK
  <2>. QED BY <2>1, <2>2, <2>3, QuietStep
<1>2. CASE Interrupt(s)
  BY <1>2, InterruptOrBlockStep DEF Interrupt
<1>3. CASE InterruptRetry(s)
  BY <1>3, InterruptOrBlockStep DEF InterruptRetry
<1>. QED BY <1>1, <1>2, <1>3 DEF AbortNext

\* Re-positioning the monitor keeps the invariant.
LEMMA PositionStep ==
    ASSUME IInv, ResetPosition \/ \E p \in Positions : SetInitialPosition(p)
    PROVE  IInv'
<1>. USE IInvFacts, TypeFacts
<1>1. CASE ResetPosition
  <2>1. /\ last_entered_' = -1 /\ last_left_' = -1 /\ ~ Positioned'
        /\ UNCHANGED <<drain_seqno_, locked_, state_, obj_, slot_cond_, cond_, depends, pc,
                       intr, adm, target, wpc, wseqno>>
        /\ \A s \in Seqno : /\ pc[s] = "done" <=> s <= MaxOf(last_left_, 0)
                            /\ pc[s] \in {"out", "done"} /\ intr[s] \in {"no", "done"}
        /\ \A a \in Admin : adm[a] \in {"out", "done"}
    BY <1>1 DEF ResetPosition, Quiescent, slotVars, adminVars, waitVars, Positioned
  <2>2. TypeOK'
    BY <2>1 DEF IInv, TypeOK
  <2>3. \A x \in Slot : state_[x] = "IDLE"
    <3>1. SUFFICES ASSUME NEW x \in Slot, state_[x] # "IDLE" PROVE FALSE
      OBVIOUS
    <3>2. PICK t \in Seqno : last_left_ < t /\ Owns(t, state_[x])
      BY <3>1 DEF IInv, SlotsOwned
    <3>3. pc[t] = "out"
      BY <1>1, <2>1, <3>2 DEF MaxOf, ResetPosition, Positioned
    <3>. QED BY <3>1, <3>2, <3>3 DEF Owns, IInv, TypeOK, States
  <2>. QED BY <2>1, <2>2, <2>3
           DEF IInv, Windowed, LeftMeansDone, SlotsOwned, SeqnosInSlots, SeqnoInSlot, UnpositionedEmpty, Positioned
<1>2. ASSUME NEW p \in Positions, SetInitialPosition(p) PROVE IInv'
  <2>1. p \in 0..MaxSeqno
    BY PositionAssumption
  <2>2. UNCHANGED <<drain_seqno_, locked_, state_, obj_, slot_cond_, cond_, depends, intr,
                    adm, target, wseqno>>
    BY <1>2 DEF SetInitialPosition, slotVars, adminVars
  <2>3. wpc' \in [Waiters -> {"out", "sleeping", "ok", "timeout"}]
    BY <1>2 DEF SetInitialPosition, BroadcastWait, IInv, TypeOK
  <2>4. CASE last_entered_ = -1
    <3>1. /\ last_entered_' = p /\ last_left_' = p
          /\ pc' = [s \in Seqno |-> IF s <= p THEN "done" ELSE pc[s]]
      BY <1>2, <2>4 DEF SetInitialPosition
    <3>2. /\ \A x \in Slot : state_[x] = "IDLE"
          /\ \A s \in Seqno : pc[s] \in {"out", "done"}
          /\ \A s \in Seqno : pc[s] = "done" => s < p
      BY <1>2, <2>4 DEF SetInitialPosition, IInv, UnpositionedEmpty
    <3>3. TypeOK'
      BY <2>1, <2>2, <2>3, <3>1 DEF IInv, TypeOK, TrxPc
    <3>4. Windowed' /\ LeftMeansDone' /\ SlotsOwned' /\ UnpositionedEmpty'
      BY <2>1, <2>2, <3>1, <3>2 DEF Windowed, LeftMeansDone, SlotsOwned, UnpositionedEmpty, Positioned
    <3>5. SeqnosInSlots'
      <4>1. SUFFICES ASSUME NEW t \in Seqno PROVE SeqnoInSlot(t)'
        BY DEF SeqnosInSlots
      <4>2. CASE t <= p
        <5>1. pc'[t] = "done" /\ ~ (last_left_' < t)
          BY <2>1, <3>1, <4>2
        <5>. QED BY <5>1 DEF SeqnoInSlot
      <4>3. CASE ~ (t <= p)
        <5>1. pc[t] = "out" /\ pc'[t] = "out"
          BY <2>1, <3>1, <3>2, <4>3
        <5>2. intr'[t] = "no"
          BY <5>1, <2>2 DEF IInv, SeqnosInSlots, SeqnoInSlot
        <5>. QED BY <5>1, <5>2 DEF SeqnoInSlot
      <4>. QED BY <4>2, <4>3
    <3>. QED BY <3>3, <3>4, <3>5 DEF IInv
  <2>5. CASE last_entered_ # -1
    <3>1. UNCHANGED <<last_entered_, last_left_, pc>>
      BY <1>2, <2>5 DEF SetInitialPosition
    <3>2. TypeOK'
      BY <2>2, <2>3, <3>1 DEF IInv, TypeOK
    <3>. QED BY <2>2, <3>1, <3>2, QuietStep
  <2>. QED BY <2>4, <2>5
<1>. QED BY <1>1, <1>2

\* wait() and its timeout keep the invariant.
LEMMA WaitStep ==
    ASSUME IInv, NEW w \in Waiters, (\E s \in Seqno : Wait(w, s)) \/ WaitTimeout(w)
    PROVE  IInv'
<1>1. /\ UNCHANGED <<last_entered_, last_left_, drain_seqno_, locked_, state_, obj_, slot_cond_,
                     cond_, depends, pc, intr, adm, target>>
      /\ wpc' \in [Waiters -> {"out", "sleeping", "ok", "timeout"}]
      /\ wseqno' \in [Waiters -> 0..MaxSeqno]
  <2>1. CASE WaitTimeout(w)
    BY <2>1 DEF WaitTimeout, slotVars, adminVars, IInv, TypeOK
  <2>2. ASSUME NEW s \in Seqno, Wait(w, s)
        PROVE  /\ UNCHANGED <<last_entered_, last_left_, drain_seqno_, locked_, state_, obj_,
                              slot_cond_, cond_, depends, pc, intr, adm, target>>
               /\ wpc' \in [Waiters -> {"out", "sleeping", "ok", "timeout"}]
               /\ wseqno' \in [Waiters -> 0..MaxSeqno]
    BY <2>2, TypeFacts DEF Wait, slotVars, adminVars, IInv, TypeOK
  <2>. QED BY <2>1, <2>2
<1>2. TypeOK'
  BY <1>1 DEF IInv, TypeOK
<1>. QED BY <1>1, <1>2, QuietStep

\* IInv is inductive.
LEMMA NextIInv ==
    ASSUME IInv, [Next]_vars
    PROVE  IInv'
<1>1. CASE UNCHANGED vars
  <2>1. TypeOK'
    BY <1>1 DEF vars, IInv, TypeOK
  <2>. QED BY <1>1, <2>1, QuietStep DEF vars
<1>2. CASE Finished
  BY <1>1, <1>2 DEF Finished
<1>. QED BY <1>1, <1>2, TrxStep, AbortStep, AdminStep, PositionStep, WaitStep DEF Next

\* The slots, the window and the transactions always agree (IInv), whatever
\* the size of the monitor, the number of seqnos and of threads: this is what
\* every assertion and every decision in monitor.hpp rests on.
THEOREM InvariantHolds == Spec => []IInv
<1>1. Init => IInv
  BY InitIInv
<1>2. IInv /\ [Next]_vars => IInv'
  BY NextIInv
<1>. QED BY <1>1, <1>2, PTL DEF Spec

\* Type correctness of the monitor.
THEOREM TypeCorrect == Spec => []TypeOK
  BY InvariantHolds, PTL DEF IInv

\* Nobody is inside the monitor before its order class allows it.
THEOREM OrderHolds == Spec => []OrderRespected
<1>1. IInv => OrderRespected
  BY DEF IInv, SeqnosInSlots, SeqnoInSlot, OrderRespected
<1>. QED BY <1>1, InvariantHolds, PTL

\* last_left_ never passes a seqno that is still being processed.
THEOREM LeftIsDone == Spec => []LeftMeansDone
  BY InvariantHolds, PTL DEF IInv

\* The assertions of enter(), leave() and self_cancel() hold.
THEOREM AssertionsHold == Spec => []AssertsHold
<1>1. ASSUME IInv PROVE AssertsHold
  <2>. USE IInvFacts, TypeFacts
  <2>1. ASSUME NEW s \in Seqno, pc[s] \in {"out", "blocked", "eintr", "cancelling"}
        PROVE  s > last_left_ /\ (~ OutOfWindow(s) => state_[indexof(s)] \in {"IDLE", "CANCELED"})
    <3>1. s > last_left_
      BY <1>1, <2>1
    <3>. QED BY <1>1, <2>1, <3>1, FreeSlot
  <2>2. \A s \in Seqno :
          /\ pc[s] = "waiting" => state_[indexof(s)] \in {"WAITING", "CANCELED", "APPLYING"}
          /\ pc[s] = "inside" => state_[indexof(s)] = "APPLYING"
    BY <1>1 DEF IInv, SeqnosInSlots, SeqnoInSlot
  <2>3. state_[indexof(last_left_)] = "IDLE"
    <3>1. SUFFICES ASSUME state_[indexof(last_left_)] # "IDLE" PROVE FALSE
      OBVIOUS
    <3>2. indexof(last_left_) \in Slot
      BY <1>1, IndexFacts
    <3>3. PICK t \in Seqno : /\ indexof(t) = indexof(last_left_)
                             /\ last_left_ < t /\ t - last_left_ < Size
      BY <1>1, <3>1, <3>2 DEF IInv, SlotsOwned
    <3>. QED BY <1>1, <3>3, IndexFacts
  <2>4. last_left_ <= last_entered_
    BY <1>1
  <2>. QED BY <2>1, <2>2, <2>3, <2>4 DEF AssertsHold
<1>. QED BY <1>1, InvariantHolds, PTL

----------------------------------------------------------------------------
(* The refinement: galera::Monitor implements OrderedEntry.  Its slots,    *)
(* window, sleeping threads, drains and interrupts only ever let a seqno   *)
(* in when the seqnos it has to follow are really done.                    *)


\* the refinement mapping, and the definitions of the abstract state
Inside == {s \in Seqno : pc[s] = "inside"}
Done   == {s \in Seqno : pc[s] = "done"}

\* What every step of enter() does to the transaction and its dependencies.
LEMMA EnterAbstract ==
    ASSUME IInv, NEW s \in Seqno, NEW dep \in 0..(s - 1), EnterOrBlock(s, dep)
    PROVE  /\ depends' = [depends EXCEPT ![s] = dep]
           /\ last_left_' = last_left_
           /\ \E v \in TrxPc : /\ v # "done" /\ pc' = [pc EXCEPT ![s] = v]
                               /\ v = "inside" => Condition(s, dep, last_left_)
  BY DEF EnterOrBlock, TrxPc

\* A condition that holds means that the seqnos to be followed are done.
LEMMA ConditionMeansDone ==
    ASSUME IInv, NEW s \in Seqno, NEW dep \in 0..(s - 1), Condition(s, dep, last_left_)
    PROVE  \/ Order = "OOOC"
           \/ Order = "APPLY" /\ (s \in Local \/ \A i \in Seqno : i <= dep => pc[i] = "done")
           \/ Order = "LOCAL_OOOC" /\ s \in Local
           \/ Order \in {"LOCAL", "NO_OOOC"} /\ \A i \in Seqno : i <= s - 1 => pc[i] = "done"
  BY IInvFacts, TypeFacts DEF Condition

\* A seqno that goes inside is let in by the abstract specification.
LEMMA GoesIn ==
    ASSUME IInv, NEW s \in Seqno, NEW dep \in 0..(s - 1), Condition(s, dep, last_left_),
           pc[s] \notin {"inside", "done"}, pc' = [pc EXCEPT ![s] = "inside"],
           depends' = [depends EXCEPT ![s] = dep]
    PROVE  Abstract!GoIn(s)
<1>1. /\ depends'[s] = dep
      /\ \A i \in Seqno : pc[i] = "done" <=> pc'[i] = "done"
      /\ \A i \in Seqno : pc'[i] = "inside" <=> pc[i] = "inside" \/ i = s
  BY DEF IInv, TypeOK
<1>2. Abstract!MayGoIn(s)'
  BY <1>1, ConditionMeansDone DEF Abstract!MayGoIn, Abstract!DoneUpTo, Abstract!Seqno, Seqno
<1>. QED BY <1>1, <1>2 DEF Abstract!GoIn

\* What certification finds is an earlier seqno, from one step to the next.
LEMMA NextDependsEarlier ==
    ASSUME IInv, DependsEarlier, [Next]_vars
    PROVE  DependsEarlier'
<1>. USE TypeFacts
<1>1. ASSUME NEW s \in Seqno, NEW dep \in 0..(s - 1), depends' = [depends EXCEPT ![s] = dep]
      PROVE  DependsEarlier'
  BY <1>1 DEF DependsEarlier, IInv, TypeOK
<1>2. ASSUME depends' = depends PROVE DependsEarlier'
  BY <1>2 DEF DependsEarlier
<1>3. ASSUME NEW s \in Seqno, Enter(s) \/ EnterRetry(s) PROVE DependsEarlier'
  <2>1. depends[s] \in 0..(s - 1) /\ 0 \in 0..(s - 1)
    BY DEF DependsEarlier
  <2>2. PICK dep \in 0..(s - 1) : EnterOrBlock(s, dep)
    BY <1>3, <2>1 DEF Enter, EnterRetry
  <2>. QED BY <1>1, <2>2, EnterAbstract
<1>4. \/ \E s \in Seqno : Enter(s) \/ EnterRetry(s)
      \/ depends' = depends
  BY DEF Next, vars, TrxNext, EnterWoken, Leave, SelfCancel, SelfCancelRetry, CancelOrBlock,
         AbortNext, AbortRequest, Interrupt, InterruptRetry, InterruptOrBlock,
         AdminNext, Drain, DrainRetry, Lock, LockRetry, Unlock, AdminUnchanged,
         Wait, WaitTimeout, ResetPosition, SetInitialPosition, Finished
<1>. QED BY <1>2, <1>3, <1>4

\* A step of the thread that processes s is one of Certify, GoIn, GoOut and
\* Skip, or changes nothing the abstract specification knows of.
LEMMA TrxAbstract ==
    ASSUME IInv, DependsEarlier, NEW s \in Seqno, TrxNext(s)
    PROVE  [Abstract!Next]_(Abstract!vars)
<1>. USE IInvFacts, TypeFacts
<1>0. /\ s \in Abstract!Seqno
      /\ depends[s] \in 0..(s - 1) /\ 0 \in 0..(s - 1)
      /\ pc \in [Seqno -> TrxPc] /\ depends \in [Seqno -> 0..MaxSeqno]
  BY DEF Abstract!Seqno, Seqno, DependsEarlier, IInv, TypeOK
<1>1. ASSUME NEW dep \in 0..(s - 1), EnterOrBlock(s, dep), pc[s] \notin {"inside", "done"}
      PROVE  [Abstract!Next]_(Abstract!vars)
  <2>1. depends' = [depends EXCEPT ![s] = dep]
    BY <1>1, EnterAbstract
  <2>2. PICK v \in TrxPc : /\ v # "done" /\ pc' = [pc EXCEPT ![s] = v]
                           /\ v = "inside" => Condition(s, dep, last_left_)
    BY <1>1, EnterAbstract
  <2>3. CASE v = "inside"
    BY <1>0, <1>1, <2>1, <2>2, <2>3, GoesIn DEF Abstract!Next
  <2>4. CASE v # "inside"
    <3>1. Inside' = Inside /\ Done' = Done
      BY <1>0, <1>1, <2>2, <2>4 DEF Inside, Done
    <3>2. Abstract!Certify(s)
      BY <1>1, <2>1, <3>1 DEF Abstract!Certify, Inside, Done
    <3>. QED BY <1>0, <3>2 DEF Abstract!Next
  <2>. QED BY <2>3, <2>4
<1>2. CASE Enter(s) \/ EnterRetry(s)
  BY <1>0, <1>1, <1>2 DEF Enter, EnterRetry
<1>3. CASE EnterWoken(s)
  <2>1. pc[s] = "waiting" /\ depends' = depends /\ depends = [depends EXCEPT ![s] = depends[s]]
    BY <1>0, <1>3 DEF EnterWoken
  <2>2. CASE pc' = [pc EXCEPT ![s] = "inside"] /\ may_enter(s)
    BY <1>0, <2>1, <2>2, GoesIn DEF Abstract!Next, may_enter
  <2>3. CASE pc' = pc \/ pc' = [pc EXCEPT ![s] = "eintr"]
    <3>1. Inside' = Inside /\ Done' = Done
      BY <1>0, <2>1, <2>3 DEF Inside, Done
    <3>. QED BY <2>1, <3>1 DEF Abstract!vars, Inside, Done
  <2>4. state_[indexof(s)] = "APPLYING" => may_enter(s)
    BY <2>1 DEF IInv, SeqnosInSlots, SeqnoInSlot
  <2>. QED BY <1>3, <2>2, <2>3, <2>4 DEF EnterWoken
<1>4. CASE Leave(s)
  <2>1. pc[s] = "inside" /\ depends' = depends /\ pc' = [pc EXCEPT ![s] = "done"]
    BY <1>4 DEF Leave
  <2>2. Inside' = Inside \ {s} /\ Done' = Done \cup {s} /\ s \in Inside
    BY <1>0, <2>1 DEF Inside, Done
  <2>3. Abstract!GoOut(s)
    BY <2>1, <2>2 DEF Abstract!GoOut, Inside, Done
  <2>. QED BY <1>0, <2>3 DEF Abstract!Next
<1>5. ASSUME CancelOrBlock(s), pc[s] \notin {"inside", "done"}
      PROVE  [Abstract!Next]_(Abstract!vars)
  <2>1. depends' = depends
    BY <1>5 DEF CancelOrBlock
  <2>2. CASE pc' = [pc EXCEPT ![s] = "cancelling"]
    <3>1. Inside' = Inside /\ Done' = Done
      BY <1>0, <1>5, <2>2 DEF Inside, Done
    <3>. QED BY <2>1, <3>1 DEF Abstract!vars, Inside, Done
  <2>3. CASE pc' = [pc EXCEPT ![s] = "done"]
    <3>1. Inside' = Inside /\ Done' = Done \cup {s} /\ s \notin Inside \cup Done
      BY <1>0, <1>5, <2>3 DEF Inside, Done
    <3>2. Abstract!Skip(s)
      BY <2>1, <3>1 DEF Abstract!Skip, Inside, Done
    <3>. QED BY <1>0, <3>2 DEF Abstract!Next
  <2>. QED BY <1>5, <2>2, <2>3 DEF CancelOrBlock
<1>6. CASE SelfCancel(s) \/ SelfCancelRetry(s)
  BY <1>5, <1>6 DEF SelfCancel, SelfCancelRetry
<1>. QED BY <1>2, <1>3, <1>4, <1>6 DEF TrxNext

\* Every other step stutters, but for the installation of a snapshot.
LEMMA NextAbstract ==
    ASSUME IInv, DependsEarlier, [Next]_vars
    PROVE  [Abstract!Next]_(Abstract!vars)
<1>. USE IInvFacts, TypeFacts
<1>1. ASSUME UNCHANGED <<pc, depends>> PROVE UNCHANGED Abstract!vars
  <2>1. Inside' = Inside /\ Done' = Done
    BY <1>1 DEF Inside, Done
  <2>. QED BY <1>1, <2>1 DEF Abstract!vars, Inside, Done
<1>2. ASSUME NEW p \in Positions, SetInitialPosition(p), last_entered_ = -1
      PROVE  Abstract!Install(p)
  <2>1. p \in Int
    BY PositionAssumption, SeqnoAssumption
  <2>2. depends' = depends /\ pc' = [s \in Seqno |-> IF s <= p THEN "done" ELSE pc[s]]
    BY <1>2 DEF SetInitialPosition
  <2>3. \A s \in Seqno : pc[s] \in {"out", "done"}
    BY <1>2 DEF IInv, UnpositionedEmpty
  <2>4. Inside = {} /\ Inside' = {} /\ Done' = Done \cup {s \in Seqno : s <= p}
    BY <2>1, <2>2, <2>3 DEF Inside, Done
  <2>. QED BY <2>2, <2>4 DEF Abstract!Install, Abstract!Seqno, Seqno, Inside, Done
<1>3. ASSUME NEW p \in Positions, SetInitialPosition(p), last_entered_ # -1
      PROVE  UNCHANGED <<pc, depends>>
  BY <1>3 DEF SetInitialPosition
<1>4. \/ \E s \in Seqno : TrxNext(s)
      \/ \E p \in Positions : SetInitialPosition(p)
      \/ UNCHANGED <<pc, depends>>
  BY DEF Next, vars, AbortNext, AbortRequest, Interrupt, InterruptRetry, InterruptOrBlock,
         AdminNext, Drain, DrainRetry, Lock, LockRetry, Unlock, AdminUnchanged,
         Wait, WaitTimeout, ResetPosition, Finished
<1>. QED BY <1>1, <1>2, <1>3, <1>4, TrxAbstract DEF Abstract!Next

\* The monitor implements OrderedEntry, for every size of the monitor, every
\* order class and every set of threads: each step of monitor.hpp lets at most
\* one seqno in or out, and only when what it follows is done.
THEOREM MonitorImplementsOrderedEntry == Spec => ImplementsOrderedEntry
<1>1. Init => Abstract!Init
  <2>1. SUFFICES ASSUME Init PROVE Abstract!Init
    OBVIOUS
  <2>2. Inside = {} /\ Done = {s \in Seqno : s <= Position}
    BY <2>1 DEF Init, Inside, Done
  <2>. QED BY <2>1, <2>2, PositionAssumption
           DEF Init, Abstract!Init, Abstract!Seqno, Seqno, Inside, Done
<1>2. Init => DependsEarlier
  BY TypeFacts DEF Init, DependsEarlier
<1>3. IInv /\ DependsEarlier /\ [Next]_vars => DependsEarlier'
  BY NextDependsEarlier
<1>4. IInv /\ DependsEarlier /\ [Next]_vars => [Abstract!Next]_(Abstract!vars)
  BY NextAbstract
<1>. QED BY <1>1, <1>2, <1>3, <1>4, InvariantHolds, PTL
         DEF Spec, ImplementsOrderedEntry, Abstract!Spec
============================================================================
