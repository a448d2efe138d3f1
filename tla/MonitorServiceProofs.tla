------------------------ MODULE MonitorServiceProofs ------------------------
(***************************************************************************)
(* The service calls of galera::Monitor, for every instance: drain() and   *)
(* lock() give what they promise, update_last_left() leaves nothing behind,*)
(* and wait() lets nobody through early.  IInv of MonitorProofs is kept by *)
(* every step; here DrainOwned and WaitInWindow are added to it.           *)
(***************************************************************************)
EXTENDS MonitorProofs

\* update_last_left() came to a slot that is not FINISHED
Stops == last_left_ < last_entered_ => state_[indexof(last_left_ + 1)] # "FINISHED"

\* only the slots of collected seqnos are broadcast
WakesCollected ==
    \A w \in Waiters :
        \/ wpc'[w] = wpc[w]
        \/ /\ wpc[w] = "sleeping" /\ wpc'[w] = "ok"
           /\ \E i \in (last_left_ + 1)..last_left_' : indexof(i) = indexof(wseqno[w])

\* what a step of the thread that processes s does to the rest of the monitor
TrxEffect(s) ==
    /\ Positioned
    /\ UNCHANGED <<drain_seqno_, locked_, adm, target, wseqno>>
    /\ last_left_ <= last_left_'
    /\ \A t \in Seqno : t # s => pc'[t] = pc[t]
    /\ pc[s] # "done"
    /\ pc'[s] \in {"waiting", "inside"} => pc[s] \in {"waiting", "inside"} \/ s <= drain_seqno_
    /\ WakesCollected
    /\ last_left_' # last_left_ => Stops'
    /\ drain_seqno_ = LLONG_MAX /\ s = last_left_ + 1 /\ pc'[s] = "done" => last_left_' # last_left_

\* post_leave() moves last_left_ to a slot that is not FINISHED.
LEMMA PostLeaveEffect ==
    ASSUME IInv, NEW s \in Seqno, last_left_ < s, s - last_left_ < Size,
           last_entered_' = MaxOf(last_entered_, s), PostLeave(s, last_entered_'),
           UNCHANGED wseqno
    PROVE  /\ last_left_ <= last_left_'
           /\ WakesCollected
           /\ last_left_' # last_left_ => Stops'
           /\ s = last_left_ + 1 => last_left_' # last_left_
<1>. USE IInvFacts, TypeFacts
<1>1. CASE last_left_ + 1 # s
  <2>1. UNCHANGED <<last_left_, wpc>>
    BY <1>1 DEF PostLeave
  <2>. QED BY <1>1, <2>1 DEF WakesCollected
<1>2. CASE last_left_ + 1 = s
  <2>. DEFINE freed == [state_ EXCEPT ![indexof(s)] = "IDLE"]
  <2>1. PICK k \in s..last_entered_' :
           /\ CollectsUpTo(freed, s, last_entered_', k)
           /\ last_left_' = k
           /\ state_' = [x \in Slot |->
                           IF x \in WokenSlots(Collected(freed, s, k), k, last_entered_')
                           THEN "APPLYING" ELSE Collected(freed, s, k)[x]]
           /\ BroadcastWait(s..k)
    BY <1>2 DEF PostLeave
  <2>2. last_entered_' \in Int /\ k \in Int /\ s <= k /\ k <= last_entered_'
    BY <2>1 DEF MaxOf
  <2>3. WakesCollected
    BY <2>1, <2>2, <1>2 DEF BroadcastWait, WakesCollected, IInv, TypeOK
  <2>4. Stops'
    <3>1. SUFFICES ASSUME k < last_entered_' PROVE state_'[indexof(k + 1)] # "FINISHED"
      BY <2>1 DEF Stops, indexof
    <3>2. freed[indexof(k + 1)] # "FINISHED"
      BY <2>1, <3>1 DEF CollectsUpTo
    <3>3. indexof(k + 1) \in Slot
      BY <2>2, IndexFacts
    <3>4. Collected(freed, s, k)[indexof(k + 1)] # "FINISHED"
      BY <3>2, <3>3 DEF Collected
    <3>. QED BY <2>1, <3>3, <3>4
  <2>. QED BY <1>2, <2>1, <2>2, <2>3, <2>4
<1>. QED BY <1>1, <1>2

\* Every step of the thread that processes s has that effect.
LEMMA TrxHasEffect ==
    ASSUME IInv, NEW s \in Seqno, TrxNext(s)
    PROVE  TrxEffect(s)
<1>. USE IInvFacts, TypeFacts
<1>0. pc[s] \notin {"out", "done"} => Positioned
  BY DEF IInv, UnpositionedEmpty
<1>1. ASSUME NEW dep, EnterOrBlock(s, dep), pc[s] \in {"out", "eintr", "blocked"}, Positioned
      PROVE  TrxEffect(s)
  <2>1. UNCHANGED <<drain_seqno_, locked_, adm, target, wseqno, wpc, last_left_>>
    BY <1>1 DEF EnterOrBlock, adminVars, waitVars
  <2>2. \E v \in TrxPc : v # "done" /\ pc' = [pc EXCEPT ![s] = v]
    BY <1>1 DEF EnterOrBlock, TrxPc
  <2>3. pc'[s] \in {"waiting", "inside"} => s <= drain_seqno_
    BY <1>1 DEF EnterOrBlock, would_block, IInv, TypeOK
  <2>. QED BY <1>1, <2>1, <2>2, <2>3 DEF TrxEffect, WakesCollected, IInv, TypeOK
<1>2. CASE EnterWoken(s)
  <2>1. UNCHANGED <<drain_seqno_, locked_, adm, target, wseqno, wpc, last_left_>>
    BY <1>2 DEF EnterWoken, adminVars, waitVars
  <2>2. pc[s] = "waiting" /\ \E v \in TrxPc : v # "done" /\ pc' = [pc EXCEPT ![s] = v]
    BY <1>2 DEF EnterWoken, IInv, TypeOK, TrxPc
  <2>. QED BY <1>0, <2>1, <2>2 DEF TrxEffect, WakesCollected, IInv, TypeOK
<1>3. CASE Leave(s)
  <2>1. pc[s] = "inside" /\ last_left_ < s /\ s <= last_entered_ /\ s - last_left_ < Size
    BY <1>3 DEF Leave, IInv, SeqnosInSlots, SeqnoInSlot
  <2>2. last_entered_' = MaxOf(last_entered_, s) /\ PostLeave(s, last_entered_') /\ wseqno' = wseqno
    BY <1>3, <2>1 DEF Leave, MaxOf
  <2>3. /\ last_left_ <= last_left_' /\ WakesCollected
        /\ last_left_' # last_left_ => Stops'
        /\ s = last_left_ + 1 => last_left_' # last_left_
    BY <2>1, <2>2, PostLeaveEffect
  <2>4. pc' = [pc EXCEPT ![s] = "done"] /\ UNCHANGED <<drain_seqno_, locked_, adm, target, wseqno>>
    BY <1>3 DEF Leave, adminVars
  <2>. QED BY <1>0, <2>1, <2>3, <2>4 DEF TrxEffect, IInv, TypeOK
<1>4. ASSUME CancelOrBlock(s), pc[s] \in {"out", "eintr", "cancelling"}, Positioned
      PROVE  TrxEffect(s)
  <2>1. UNCHANGED <<drain_seqno_, locked_, adm, target, wseqno>>
    BY <1>4 DEF CancelOrBlock, adminVars
  <2>2. last_left_ < s
    BY <1>4
  <2>3. CASE pc' = [pc EXCEPT ![s] = "cancelling"] /\ UNCHANGED <<last_left_, wpc>>
    BY <1>4, <2>1, <2>3 DEF TrxEffect, WakesCollected, IInv, TypeOK
  <2>4. CASE ~ OutOfWindow(s) /\ s <= drain_seqno_
    <3>1. /\ last_entered_' = MaxOf(last_entered_, s) /\ PostLeave(s, last_entered_')
          /\ pc' = [pc EXCEPT ![s] = "done"]
      BY <1>4, <2>4 DEF CancelOrBlock
    <3>2. s - last_left_ < Size
      BY <2>4 DEF OutOfWindow
    <3>3. /\ last_left_ <= last_left_' /\ WakesCollected
          /\ last_left_' # last_left_ => Stops'
          /\ s = last_left_ + 1 => last_left_' # last_left_
      BY <2>1, <2>2, <3>1, <3>2, PostLeaveEffect
    <3>. QED BY <1>4, <2>1, <3>1, <3>3 DEF TrxEffect, IInv, TypeOK
  <2>5. CASE ~ OutOfWindow(s) /\ ~ (s <= drain_seqno_)
    <3>1. pc' = [pc EXCEPT ![s] = "done"] /\ UNCHANGED <<last_left_, wpc>>
      BY <1>4, <2>5 DEF CancelOrBlock
    <3>2. drain_seqno_ # LLONG_MAX
      BY <2>5 DEF LLONG_MAX
    <3>. QED BY <1>4, <2>1, <3>1, <3>2 DEF TrxEffect, WakesCollected, IInv, TypeOK
  <2>. QED BY <1>4, <2>3, <2>4, <2>5 DEF CancelOrBlock
<1>. QED BY <1>0, <1>1, <1>2, <1>3, <1>4 DEF TrxNext, Enter, EnterRetry, SelfCancel, SelfCancelRetry

\* nobody but a has drain_seqno_
Sole(a) == \A b \in Admin : b # a => ~ Holds(b)

\* what a step of drain(), lock() or unlock() does, by the part of the call it is
AdminEffect(a) ==
    /\ Positioned
    /\ UNCHANGED <<pc, last_entered_, wseqno>>
    /\ \A b \in Admin : b # a => target'[b] = target[b]
    /\ \/ WaitTurn(a) /\ ~ Holds(a)
       \/ \E upto \in 0..MaxSeqno :
             /\ WaitDrained(a, upto) \/ (a \in Lockers /\ LockEnd(a, upto))
             /\ a \in Drainers => upto = target'[a]
             /\ a \in Lockers =>
                  \A s \in Seqno : pc[s] \in {"waiting", "inside"} => s <= upto
             /\ Sole(a) /\ adm[a] # "locked"
       \/ a \in Drainers /\ Sole(a) /\ DrainEnd(a, target'[a])
       \/ /\ a \in Lockers /\ Sole(a) /\ locked_' = FALSE
          /\ CollectAndReopen
          /\ adm' = [adm EXCEPT ![a] = "done"]
       \/ /\ a \in Lockers /\ ~ Holds(a)
          /\ adm' = [adm EXCEPT ![a] = "done"]
          /\ UNCHANGED <<last_left_, drain_seqno_, locked_, state_, wpc>>

\* Every step of drain(), lock() and unlock() is one of those.
LEMMA AdminHasEffect ==
    ASSUME IInv, DrainOwned, NEW a \in Admin, AdminNext(a)
    PROVE  AdminEffect(a)
<1>. USE IInvFacts, TypeFacts
<1>0. adm[a] \in {"turn", "drain", "locked"} => Positioned
  BY DEF IInv, UnpositionedEmpty
<1>1. drain_seqno_ = LLONG_MAX \/ Holds(a) => Sole(a)
  BY DEF DrainOwned, Sole
<1>2. Positioned => /\ last_entered_ \in 0..MaxSeqno
                    /\ \A s \in Seqno : pc[s] \in {"waiting", "inside"} => s <= last_entered_
  BY DEF Positioned, IInv, SeqnosInSlots, SeqnoInSlot
<1>3. Holds(a) => drain_seqno_ \in 0..MaxSeqno
  BY DEF DrainOwned, IInv, TypeOK, LLONG_MAX
<1>4. AdminNext(a) => UNCHANGED <<pc, last_entered_, wseqno>>
  BY DEF AdminNext, Drain, DrainRetry, Lock, LockRetry, Unlock, AdminUnchanged
<1>5. ASSUME NEW upto \in 0..MaxSeqno, Drain(a, upto) PROVE AdminEffect(a)
  <2>1. target' = [target EXCEPT ![a] = upto] /\ target'[a] = upto /\ a \in Drainers
    BY <1>5 DEF Drain, IInv, TypeOK
  <2>2. a \notin Lockers /\ ~ Holds(a) /\ Positioned
    BY <1>5, <2>1, AdminAssumption DEF Drain, Holds
  <2>3. \/ WaitTurn(a)
        \/ drain_seqno_ = LLONG_MAX /\ (WaitDrained(a, upto) \/ DrainEnd(a, upto))
    BY <1>5 DEF Drain
  <2>. QED BY <1>1, <1>4, <2>1, <2>2, <2>3 DEF AdminEffect, Holds, IInv, TypeOK
<1>6. CASE DrainRetry(a)
  <2>1. target' = target /\ a \in Drainers /\ a \notin Lockers /\ target[a] \in 0..MaxSeqno
    BY <1>6, AdminAssumption DEF DrainRetry, IInv, TypeOK
  <2>2. Positioned
    BY <1>0, <1>6 DEF DrainRetry
  <2>3. CASE /\ adm[a] = "turn"
             /\ \/ WaitTurn(a)
                \/ drain_seqno_ = LLONG_MAX /\ (WaitDrained(a, target[a]) \/ DrainEnd(a, target[a]))
    BY <1>1, <1>4, <2>1, <2>2, <2>3 DEF AdminEffect, Holds
  <2>4. CASE adm[a] = "drain" /\ (WaitDrained(a, drain_seqno_) \/ DrainEnd(a, drain_seqno_))
    <3>1. Holds(a) /\ drain_seqno_ = target[a]
      BY <2>1, <2>4 DEF Holds, DrainOwned
    <3>. QED BY <1>1, <1>4, <2>1, <2>2, <2>4, <3>1 DEF AdminEffect
  <2>. QED BY <1>6, <2>3, <2>4 DEF DrainRetry
<1>7. CASE Lock(a)
  <2>1. target' = target /\ a \in Lockers /\ a \notin Drainers /\ Positioned /\ ~ Holds(a)
    BY <1>7, AdminAssumption DEF Lock, Holds
  <2>2. \/ WaitTurn(a)
        \/ /\ drain_seqno_ = LLONG_MAX
           /\ WaitDrained(a, last_entered_) \/ LockEnd(a, last_entered_)
        \/ /\ adm' = [adm EXCEPT ![a] = "done"]
           /\ UNCHANGED <<last_left_, drain_seqno_, locked_, state_, wpc>>
    BY <1>7 DEF Lock
  <2>. QED BY <1>1, <1>2, <1>4, <2>1, <2>2 DEF AdminEffect, Holds
<1>8. CASE LockRetry(a)
  <2>1. target' = target /\ a \in Lockers /\ a \notin Drainers
    BY <1>8, AdminAssumption DEF LockRetry
  <2>2. Positioned
    BY <1>0, <1>8 DEF LockRetry
  <2>3. CASE /\ adm[a] = "turn"
             /\ \/ WaitTurn(a)
                \/ /\ drain_seqno_ = LLONG_MAX
                   /\ WaitDrained(a, last_entered_) \/ LockEnd(a, last_entered_)
    BY <1>1, <1>2, <1>4, <2>1, <2>2, <2>3 DEF AdminEffect, Holds
  <2>4. CASE adm[a] = "drain" /\ (WaitDrained(a, drain_seqno_) \/ LockEnd(a, drain_seqno_))
    <3>1. Holds(a) /\ \A s \in Seqno : pc[s] \in {"waiting", "inside"} => s <= drain_seqno_
      BY <2>1, <2>4 DEF Holds, DrainOwned
    <3>. QED BY <1>1, <1>3, <1>4, <2>1, <2>2, <2>4, <3>1 DEF AdminEffect
  <2>. QED BY <1>8, <2>3, <2>4 DEF LockRetry
<1>9. CASE Unlock(a)
  BY <1>0, <1>1, <1>4, <1>9 DEF Unlock, AdminEffect, Holds
<1>. QED BY <1>5, <1>6, <1>7, <1>8, <1>9 DEF AdminNext

\* The end of a drain or a lock moves last_left_ to a slot that is not FINISHED.
LEMMA CollectEffect ==
    ASSUME IInv, CollectAndReopen, UNCHANGED <<last_entered_, wseqno>>
    PROVE  last_left_ <= last_left_' /\ WakesCollected /\ Stops' /\ drain_seqno_' = LLONG_MAX
<1>. USE IInvFacts, TypeFacts
<1>1. PICK k \in last_left_..last_entered_ :
         /\ CollectsUpTo(state_, last_left_, last_entered_, k)
         /\ last_left_' = k
         /\ state_' = Collected(state_, last_left_, k)
         /\ BroadcastWait((last_left_ + 1)..k)
  BY DEF CollectAndReopen
<1>2. k \in Int /\ last_left_ <= k
  BY <1>1
<1>3. WakesCollected
  BY <1>1 DEF BroadcastWait, WakesCollected, IInv, TypeOK
<1>4. Stops'
  <2>1. SUFFICES ASSUME k < last_entered_ PROVE state_'[indexof(k + 1)] # "FINISHED"
    BY <1>1 DEF Stops, indexof
  <2>2. state_[indexof(k + 1)] # "FINISHED" /\ indexof(k + 1) \in Slot
    BY <1>1, <1>2, <2>1, IndexFacts DEF CollectsUpTo
  <2>. QED BY <1>1, <2>2 DEF Collected
<1>. QED BY <1>1, <1>2, <1>3, <1>4 DEF CollectAndReopen

\* The steps of the remaining threads: they leave the transactions, the drain
\* and last_left_ alone, or re-position a monitor nobody uses.
LEMMA OtherEffect ==
    ASSUME IInv, [Next]_vars
    PROVE  \/ \E s \in Seqno : TrxNext(s)
           \/ \E a \in Admin : AdminNext(a)
           \/ UNCHANGED <<pc, last_left_, drain_seqno_, locked_, adm, target>>
           \/ /\ UNCHANGED <<drain_seqno_, locked_, adm, target>>
              /\ \A a \in Admin : adm[a] \in {"out", "done"}
              /\ \A s \in Seqno : pc[s] \in {"out", "done"} /\ pc'[s] \in {pc[s], "done"}
              /\ \A s \in Seqno : Positioned' /\ s = last_left_' + 1 => pc'[s] # "done"
<1>. USE IInvFacts, TypeFacts
<1>1. ASSUME NEW s \in Seqno, AbortNext(s)
      PROVE  UNCHANGED <<pc, last_left_, drain_seqno_, locked_, adm, target>>
  BY <1>1 DEF AbortNext, AbortRequest, Interrupt, InterruptRetry, InterruptOrBlock, adminVars
<1>2. ASSUME NEW w \in Waiters, (\E s \in Seqno : Wait(w, s)) \/ WaitTimeout(w)
      PROVE  UNCHANGED <<pc, last_left_, drain_seqno_, locked_, adm, target>>
  BY <1>2 DEF Wait, WaitTimeout, adminVars
<1>3. CASE UNCHANGED vars \/ Finished
  BY <1>3 DEF vars, Finished
<1>4. CASE ResetPosition
  BY <1>4 DEF ResetPosition, Quiescent, adminVars, Positioned
<1>5. ASSUME NEW p \in Positions, SetInitialPosition(p), last_entered_ # -1
      PROVE  UNCHANGED <<pc, last_left_, drain_seqno_, locked_, adm, target>>
  BY <1>5 DEF SetInitialPosition, adminVars
<1>6. ASSUME NEW p \in Positions, SetInitialPosition(p), last_entered_ = -1
      PROVE  /\ UNCHANGED <<drain_seqno_, locked_, adm, target>>
             /\ \A a \in Admin : adm[a] \in {"out", "done"}
             /\ \A s \in Seqno : pc[s] \in {"out", "done"} /\ pc'[s] \in {pc[s], "done"}
             /\ \A s \in Seqno : Positioned' /\ s = last_left_' + 1 => pc'[s] # "done"
  <2>1. p \in Int
    BY PositionAssumption, SeqnoAssumption
  <2>2. /\ last_left_' = p
        /\ pc' = [s \in Seqno |-> IF s <= p THEN "done" ELSE pc[s]]
        /\ \A s \in Seqno : pc[s] = "done" => s < p
        /\ UNCHANGED <<drain_seqno_, locked_, adm, target>>
    BY <1>6 DEF SetInitialPosition, adminVars
  <2>3. /\ \A a \in Admin : adm[a] \in {"out", "done"}
        /\ \A s \in Seqno : pc[s] \in {"out", "done"}
    BY <1>6 DEF IInv, UnpositionedEmpty
  <2>. QED BY <2>1, <2>2, <2>3
<1>. QED BY <1>1, <1>2, <1>3, <1>4, <1>5, <1>6 DEF Next

\* A seqno that was processed stays so.
LEMMA DoneStable ==
    ASSUME IInv, DrainOwned, [Next]_vars, NEW s \in Seqno, pc[s] = "done"
    PROVE  pc'[s] = "done"
<1>1. ASSUME NEW t \in Seqno, TrxNext(t) PROVE pc'[s] = "done"
  BY <1>1, TrxHasEffect DEF TrxEffect
<1>2. ASSUME NEW a \in Admin, AdminNext(a) PROVE pc'[s] = "done"
  BY <1>2, AdminHasEffect DEF AdminEffect
<1>. QED BY <1>1, <1>2, OtherEffect

\* DrainOwned is inductive relative to IInv.
LEMMA NextDrainOwned ==
    ASSUME IInv, IInv', DrainOwned, [Next]_vars
    PROVE  DrainOwned'
<1>. USE IInvFacts, TypeFacts
<1>1. ASSUME NEW s \in Seqno, TrxNext(s) PROVE DrainOwned'
  <2>1. TrxEffect(s)
    BY <1>1, TrxHasEffect
  <2>2. last_left_' \in Int
    BY IInvFacts DEF IInv, TypeOK
  <2>. QED BY <2>1, <2>2 DEF TrxEffect, DrainOwned, Holds
<1>2. ASSUME NEW a \in Admin, AdminNext(a) PROVE DrainOwned'
  <2>1. AdminEffect(a)
    BY <1>2, AdminHasEffect
  <2>2. /\ \A b \in Admin : b # a => target'[b] = target[b]
        /\ pc' = pc /\ Admin = Lockers \cup Drainers /\ Lockers \cap Drainers = {}
        /\ adm \in [Admin -> {"out", "turn", "drain", "locked", "done"}]
    BY <2>1, AdminAssumption DEF AdminEffect, Admin, IInv, TypeOK
  <2>3. CASE WaitTurn(a) /\ ~ Holds(a)
    BY <2>2, <2>3 DEF WaitTurn, DrainOwned, Holds
  <2>4. ASSUME NEW upto \in 0..MaxSeqno,
               WaitDrained(a, upto) \/ (a \in Lockers /\ LockEnd(a, upto)),
               a \in Drainers => upto = target'[a],
               a \in Lockers => \A s \in Seqno : pc[s] \in {"waiting", "inside"} => s <= upto,
               Sole(a), adm[a] # "locked"
        PROVE  DrainOwned'
    <3>1. drain_seqno_' = upto /\ upto # LLONG_MAX
      BY <2>4 DEF WaitDrained, LockEnd, LLONG_MAX
    <3>2. \A b \in Admin : b # a => ~ Holds(b)'
      BY <2>2, <2>4 DEF Sole, Holds, WaitDrained, LockEnd
    <3>3. ~ locked_
      BY <2>2, <2>4 DEF DrainOwned, Sole, Holds
    <3>4. CASE WaitDrained(a, upto)
      <4>1. adm'[a] = "drain" /\ locked_' = locked_ /\ last_left_ < upto
        BY <2>2, <3>4 DEF WaitDrained
      <4>. QED BY <2>2, <2>4, <3>1, <3>2, <3>3, <4>1 DEF DrainOwned, Holds
    <3>5. CASE a \in Lockers /\ LockEnd(a, upto)
      BY <2>2, <2>4, <3>1, <3>2, <3>5 DEF LockEnd, DrainOwned, Holds
    <3>. QED BY <2>4, <3>4, <3>5
  <2>5. CASE a \in Drainers /\ Sole(a) /\ DrainEnd(a, target'[a])
    <3>1. ~ locked_
      BY <2>2, <2>5 DEF DrainOwned, Sole, Holds
    <3>. QED BY <2>2, <2>5, <3>1 DEF DrainEnd, DrainOwned, Sole, Holds
  <2>6. CASE /\ a \in Lockers /\ Sole(a) /\ locked_' = FALSE
             /\ adm' = [adm EXCEPT ![a] = "done"]
    BY <2>2, <2>6 DEF DrainOwned, Sole, Holds
  <2>7. CASE /\ a \in Lockers /\ ~ Holds(a)
             /\ adm' = [adm EXCEPT ![a] = "done"]
             /\ UNCHANGED <<last_left_, drain_seqno_, locked_>>
    BY <2>2, <2>7 DEF DrainOwned, Holds
  <2>. QED BY <2>1, <2>3, <2>4, <2>5, <2>6, <2>7 DEF AdminEffect
<1>3. CASE UNCHANGED <<pc, last_left_, drain_seqno_, locked_, adm, target>>
  BY <1>3 DEF DrainOwned, Holds
<1>4. CASE /\ UNCHANGED <<drain_seqno_, locked_, adm, target>>
           /\ \A a \in Admin : adm[a] \in {"out", "done"}
  BY <1>4 DEF DrainOwned, Holds, Admin
<1>. QED BY <1>1, <1>2, <1>3, <1>4, OtherEffect

\* A drain that has returned stays true.
LEMMA NextDrained ==
    ASSUME IInv, DrainOwned, DrainedMeansDone, [Next]_vars
    PROVE  DrainedMeansDone'
<1>. USE IInvFacts, TypeFacts
<1>1. \A s \in Seqno : pc[s] = "done" => pc'[s] = "done"
  BY DoneStable
<1>2. ASSUME UNCHANGED <<adm, target>> PROVE DrainedMeansDone'
  BY <1>1, <1>2 DEF DrainedMeansDone
<1>3. ASSUME NEW a \in Admin, AdminNext(a) PROVE DrainedMeansDone'
  <2>1. AdminEffect(a)
    BY <1>3, AdminHasEffect
  <2>2. /\ \A b \in Admin : b # a => target'[b] = target[b]
        /\ pc' = pc /\ Drainers \subseteq Admin /\ Lockers \cap Drainers = {}
        /\ adm \in [Admin -> {"out", "turn", "drain", "locked", "done"}]
    BY <2>1, AdminAssumption DEF AdminEffect, Admin, IInv, TypeOK
  <2>3. \/ \A b \in Drainers : adm'[b] = "done" => b # a /\ adm[b] = "done"
        \/ /\ last_left_ >= target'[a]
           /\ \A b \in Drainers : b # a => adm'[b] = adm[b]
    BY <2>1, <2>2 DEF AdminEffect, WaitTurn, WaitDrained, LockEnd, DrainEnd
  <2>4. CASE \A b \in Drainers : adm'[b] = "done" => b # a /\ adm[b] = "done"
    BY <2>2, <2>4 DEF DrainedMeansDone
  <2>5. CASE last_left_ >= target'[a] /\ \A b \in Drainers : b # a => adm'[b] = adm[b]
    <3>1. target'[a] \in Int
      <4>1. IInv'
        BY NextIInv, <1>3 DEF Next
      <4>. QED BY <4>1 DEF IInv, TypeOK
    <3>2. \A s \in Seqno : s <= target'[a] => pc[s] = "done"
      BY <2>5, <3>1
    <3>. QED BY <2>2, <2>5, <3>2 DEF DrainedMeansDone
  <2>. QED BY <2>3, <2>4, <2>5
<1>4. ASSUME NEW s \in Seqno, TrxNext(s) PROVE DrainedMeansDone'
  BY <1>2, <1>4, TrxHasEffect DEF TrxEffect
<1>. QED BY <1>2, <1>3, <1>4, OtherEffect

\* Nothing is left uncollected, from one step to the next.
LEMMA NextCollected ==
    ASSUME IInv, IInv', DrainOwned, NothingUncollected, [Next]_vars
    PROVE  NothingUncollected'
<1>. USE IInvFacts, TypeFacts
<1>0. Stops' => NothingUncollected'
  <2>1. Stops' /\ Positioned' => \A s \in Seqno : s = last_left_' + 1 => pc'[s] # "done"
    <3>1. /\ last_left_' \in Int /\ last_entered_' \in Int
      BY DEF IInv, TypeOK
    <3>. QED BY <3>1 DEF IInv, SeqnosInSlots, SeqnoInSlot, Stops
  <2>. QED BY <2>1 DEF NothingUncollected
<1>1. ASSUME NEW s \in Seqno, TrxNext(s) PROVE NothingUncollected'
  <2>1. TrxEffect(s)
    BY <1>1, TrxHasEffect
  <2>. QED BY <1>0, <2>1 DEF TrxEffect, NothingUncollected, Positioned
<1>2. ASSUME NEW a \in Admin, AdminNext(a) PROVE NothingUncollected'
  <2>1. AdminEffect(a)
    BY <1>2, AdminHasEffect
  <2>2. CASE UNCHANGED <<last_left_, drain_seqno_>>
    BY <2>1, <2>2 DEF AdminEffect, NothingUncollected, Positioned
  <2>3. CASE drain_seqno_' \in 0..MaxSeqno
    BY <2>3 DEF NothingUncollected, LLONG_MAX
  <2>4. CASE CollectAndReopen
    BY <1>0, <2>1, <2>4, CollectEffect DEF AdminEffect
  <2>. QED BY <2>1, <2>2, <2>3, <2>4 DEF AdminEffect, WaitTurn, WaitDrained, LockEnd, DrainEnd
<1>3. CASE UNCHANGED <<pc, last_left_, drain_seqno_, locked_, adm, target>>
  BY <1>3 DEF NothingUncollected, Positioned
<1>. QED BY <1>1, <1>2, <1>3, OtherEffect DEF NothingUncollected

----------------------------------------------------------------------------
\* drain_seqno_ has one owner at a time, a monitor that is locked has drained,
\* a drain that returned has drained, and collection never stops early: the
\* four facts are inductive together with IInv.
ServiceInv == IInv /\ DrainOwned /\ DrainedMeansDone /\ NothingUncollected

\* A new monitor satisfies them.
LEMMA InitServiceInv == Init => ServiceInv
<1>. SUFFICES ASSUME Init PROVE ServiceInv
  OBVIOUS
<1>1. IInv
  BY InitIInv
<1>2. DrainOwned /\ DrainedMeansDone
  BY DEF Init, DrainOwned, DrainedMeansDone, Holds, Admin
<1>3. NothingUncollected
  BY PositionAssumption, TypeFacts DEF Init, NothingUncollected
<1>. QED BY <1>1, <1>2, <1>3 DEF ServiceInv

\* The monitor keeps them, in every interleaving of entering, leaving,
\* cancelled and interrupted transactions with drains, locks and waits.
THEOREM ServiceInvariantHolds == Spec => []ServiceInv
<1>1. ServiceInv /\ [Next]_vars => ServiceInv'
  <2>1. SUFFICES ASSUME ServiceInv, [Next]_vars PROVE ServiceInv'
    OBVIOUS
  <2>2. IInv'
    BY <2>1, NextIInv DEF ServiceInv
  <2>. QED BY <2>1, <2>2, NextDrainOwned, NextDrained, NextCollected DEF ServiceInv
<1>. QED BY <1>1, InitServiceInv, PTL DEF Spec

\* While the monitor is locked nobody is in it: lock() waits for every seqno
\* that had entered, and drain_seqno_ keeps the later ones out until unlock().
THEOREM LockHolds == Spec => []LockedIsEmpty
<1>1. ASSUME ServiceInv PROVE LockedIsEmpty
  <2>1. SUFFICES ASSUME locked_, NEW s \in Seqno, pc[s] \in {"waiting", "inside"} PROVE FALSE
    BY DEF LockedIsEmpty
  <2>2. PICK a \in Lockers : adm[a] = "locked" /\ Holds(a)
    BY <1>1, <2>1 DEF ServiceInv, DrainOwned, Holds
  <2>3. s <= drain_seqno_ /\ drain_seqno_ <= last_left_
    BY <1>1, <2>1, <2>2 DEF ServiceInv, DrainOwned
  <2>. QED BY <1>1, <2>1, <2>3, IInvFacts, TypeFacts DEF ServiceInv
<1>. QED BY <1>1, ServiceInvariantHolds, PTL

\* drain(upto) returns only when every seqno up to upto was processed.
THEOREM DrainHolds == Spec => []DrainedMeansDone
  BY ServiceInvariantHolds, PTL DEF ServiceInv

\* A finished seqno that is next in line never waits for somebody else's leave.
THEOREM CollectionHolds == Spec => []NothingUncollected
  BY ServiceInvariantHolds, PTL DEF ServiceInv

----------------------------------------------------------------------------
(* wait(): the thread sleeps on the slot of the seqno it asked for and does *)
(* not test last_left_ again, so it must not be woken for another seqno.    *)

WaitInv == WaitInWindow /\ WaitSeesWrites

\* Collecting wakes nobody too early.
LEMMA WakeSound ==
    ASSUME IInv, IInv', WaitInv, Positioned, Positioned', WakesCollected, wseqno' = wseqno,
           last_left_ <= last_left_',
           last_left_' - last_left_ < Size,
           \A s \in Seqno : pc[s] = "done" => pc'[s] = "done"
    PROVE  WaitInv'
<1>. USE IInvFacts, TypeFacts
<1>1. last_left_' \in Int /\ \A s \in Seqno : s <= last_left_' => pc'[s] = "done"
  BY DEF IInv, TypeOK, LeftMeansDone
<1>2. WaitInWindow'
  BY <1>1 DEF WaitInv, WaitInWindow, WakesCollected, IInv, TypeOK
<1>3. WaitSeesWrites'
  <2>1. SUFFICES ASSUME NEW w \in Waiters, wpc'[w] = "ok"
                 PROVE  \A s \in Seqno : s <= wseqno[w] => pc'[s] = "done"
    BY DEF WaitSeesWrites
  <2>2. CASE wpc[w] = "ok"
    BY <2>2 DEF WaitInv, WaitSeesWrites
  <2>3. CASE wpc[w] # "ok"
    <3>1. PICK i \in (last_left_ + 1)..last_left_' :
             indexof(i) = indexof(wseqno[w]) /\ wpc[w] = "sleeping"
      BY <2>1, <2>3 DEF WakesCollected
    <3>2. wseqno[w] \in Int /\ wseqno[w] - last_left_ < Size
      BY <3>1 DEF WaitInv, WaitInWindow, IInv, TypeOK
    <3>3. wseqno[w] <= last_left_'
      BY <1>1, <3>1, <3>2, IndexFacts
    <3>. QED BY <1>1, <3>2, <3>3
  <2>. QED BY <2>2, <2>3
<1>. QED BY <1>2, <1>3 DEF WaitInv

\* Re-positioning the monitor wakes nobody too early.
LEMMA PositionWakeSound ==
    ASSUME IInv, IInv', WaitInv, ResetPosition \/ \E p \in Positions : SetInitialPosition(p)
    PROVE  WaitInv'
<1>. USE IInvFacts, TypeFacts
<1>0. \A w \in Waiters : wseqno[w] \in Int
  BY DEF IInv, TypeOK
<1>1. CASE ResetPosition
  <2>1. /\ UNCHANGED <<pc, wpc, wseqno>> /\ Positioned
        /\ \A s \in Seqno : pc[s] = "done" <=> s <= MaxOf(last_left_, 0)
    BY <1>1 DEF ResetPosition, Quiescent, waitVars
  <2>2. ASSUME NEW p \in 0..MaxSeqno, \A s \in Seqno : pc[s] = "done" => s < p
        PROVE  last_left_ <= p
    <3>1. CASE last_left_ >= 1
      <4>1. last_left_ \in Seqno /\ pc[last_left_] = "done"
        BY <3>1 DEF IInv, TypeOK, Seqno, LeftMeansDone
      <4>. QED BY <2>2, <4>1
    <3>2. CASE ~ (last_left_ >= 1)
      BY <3>2
    <3>. QED BY <3>1, <3>2
  <2>3. WaitInWindow'
    BY <1>0, <1>1, <2>1, <2>2 DEF WaitInv, WaitInWindow, Positioned, ResetPosition
  <2>. QED BY <2>1, <2>3 DEF WaitInv, WaitSeesWrites
<1>2. ASSUME NEW p \in Positions, SetInitialPosition(p) PROVE WaitInv'
  <2>1. p \in 0..MaxSeqno /\ p \in Int
    BY PositionAssumption, SeqnoAssumption
  <2>2. wseqno' = wseqno /\ BroadcastWait({p})
    BY <1>2 DEF SetInitialPosition
  <2>3. /\ last_left_' = p
        /\ \A s \in Seqno : pc[s] = "done" => pc'[s] = "done"
        /\ \A s \in Seqno : s <= p => pc'[s] = "done"
        /\ \A w \in Waiters : wpc[w] = "sleeping" => wseqno[w] - p < Size
    <3>1. CASE last_entered_ = -1
      <4>1. /\ last_left_' = p /\ pc' = [s \in Seqno |-> IF s <= p THEN "done" ELSE pc[s]]
            /\ \A s \in Seqno : pc[s] = "done" => s < p
        BY <1>2, <3>1 DEF SetInitialPosition
      <4>. QED BY <2>1, <3>1, <4>1 DEF WaitInv, WaitInWindow
    <3>2. CASE last_entered_ # -1
      BY <1>2, <3>2 DEF SetInitialPosition, WaitInv, WaitInWindow
    <3>. QED BY <3>1, <3>2
  <2>4. WaitInWindow'
    BY <1>0, <2>1, <2>2, <2>3 DEF WaitInWindow, BroadcastWait, Positioned
  <2>5. WaitSeesWrites'
    <3>1. SUFFICES ASSUME NEW w \in Waiters, wpc'[w] = "ok"
                   PROVE  \A s \in Seqno : s <= wseqno[w] => pc'[s] = "done"
      BY <2>2 DEF WaitSeesWrites
    <3>2. CASE wpc[w] = "ok"
      BY <2>3, <3>2 DEF WaitInv, WaitSeesWrites
    <3>3. CASE wpc[w] # "ok"
      <4>1. wpc[w] = "sleeping" /\ indexof(p) = indexof(wseqno[w])
        BY <2>2, <3>1, <3>3 DEF BroadcastWait
      <4>2. wseqno[w] <= p
        BY <1>0, <2>1, <2>3, <4>1, IndexFacts
      <4>. QED BY <1>0, <2>1, <2>3, <4>2
    <3>. QED BY <3>2, <3>3
  <2>. QED BY <2>4, <2>5 DEF WaitInv
<1>. QED BY <1>1, <1>2

\* WaitInv is inductive relative to ServiceInv, if wait() is only called for
\* seqnos less than a turn of the slots away.
LEMMA NextWaitInv ==
    ASSUME MaxBacklog < Size, IInv, IInv', DrainOwned, WaitInv, [Next]_vars
    PROVE  WaitInv'
<1>. USE IInvFacts, TypeFacts
<1>0. /\ \A s \in Seqno : pc[s] = "done" => pc'[s] = "done"
      /\ last_left_' \in Int
      /\ \A w \in Waiters : wseqno[w] \in Int
  BY DoneStable DEF IInv, TypeOK
<1>1. ASSUME NEW s \in Seqno, TrxNext(s) PROVE WaitInv'
  <2>1. TrxEffect(s)
    BY <1>1, TrxHasEffect
  <2>2. last_left_' - last_left_ < Size
    <3>1. last_left_' = last_left_ \/ last_left_ + 1 = s
      BY <1>1 DEF TrxNext, Enter, EnterRetry, EnterOrBlock, EnterWoken, Leave, SelfCancel,
                  SelfCancelRetry, CancelOrBlock, PostLeave
    <3>2. last_left_' <= last_entered_' /\ last_entered_' \in Int
      BY DEF IInv, TypeOK, Windowed
    <3>3. last_entered_' \in {last_entered_, MaxOf(last_entered_, s)}
      BY <1>1 DEF TrxNext, Enter, EnterRetry, EnterOrBlock, EnterWoken, Leave, SelfCancel,
                  SelfCancelRetry, CancelOrBlock
    <3>. QED BY <1>0, <3>1, <3>2, <3>3 DEF MaxOf
  <2>3. Positioned'
    BY <2>1, <1>0 DEF TrxEffect, Positioned
  <2>. QED BY <1>0, <2>1, <2>2, <2>3, WakeSound DEF TrxEffect
<1>2. ASSUME NEW a \in Admin, AdminNext(a) PROVE WaitInv'
  <2>1. AdminEffect(a)
    BY <1>2, AdminHasEffect
  <2>2. CASE UNCHANGED <<last_left_, wpc>>
    BY <1>0, <2>1, <2>2 DEF AdminEffect, WaitInv, WaitInWindow, WaitSeesWrites, Positioned
  <2>3. CASE CollectAndReopen
    <3>1. last_left_ <= last_left_' /\ WakesCollected /\ wseqno' = wseqno /\ Positioned
      BY <2>1, <2>3, CollectEffect DEF AdminEffect
    <3>2. last_left_' <= last_entered_'
      BY DEF IInv, Windowed
    <3>3. last_left_' - last_left_ < Size /\ Positioned'
      BY <1>0, <2>1, <3>1, <3>2 DEF AdminEffect, Positioned
    <3>. QED BY <1>0, <3>1, <3>3, WakeSound
  <2>. QED BY <2>1, <2>2, <2>3 DEF AdminEffect, WaitTurn, WaitDrained, LockEnd, DrainEnd
<1>3. ASSUME UNCHANGED <<last_left_, pc, wpc, wseqno>> PROVE WaitInv'
  BY <1>3 DEF WaitInv, WaitInWindow, WaitSeesWrites, Positioned
<1>4. ASSUME NEW s \in Seqno, AbortNext(s) PROVE WaitInv'
  BY <1>3, <1>4 DEF AbortNext, AbortRequest, Interrupt, InterruptRetry, InterruptOrBlock, waitVars
<1>5. ASSUME NEW w \in Waiters, NEW s \in Seqno, Wait(w, s) PROVE WaitInv'
  <2>1. /\ wseqno' = [wseqno EXCEPT ![w] = s]
        /\ wpc' = [wpc EXCEPT ![w] = IF last_left_ < s THEN "sleeping" ELSE "ok"]
        /\ s - last_left_ < Size
        /\ UNCHANGED <<last_left_, pc>>
    BY <1>5, BacklogAssumption DEF Wait
  <2>2. ~ Positioned => \A p \in 0..MaxSeqno : s - p < Size
    BY <2>1 DEF Positioned
  <2>3. \A v \in Waiters \ {w} : wseqno'[v] = wseqno[v] /\ wpc'[v] = wpc[v]
    BY <2>1 DEF IInv, TypeOK
  <2>4. wseqno'[w] = s /\ wpc'[w] \in {"sleeping", "ok"} /\ (wpc'[w] = "ok" => s <= last_left_)
    BY <2>1 DEF IInv, TypeOK
  <2>5. WaitInWindow'
    BY <2>1, <2>2, <2>3, <2>4 DEF WaitInv, WaitInWindow, Positioned
  <2>6. WaitSeesWrites'
    BY <2>1, <2>3, <2>4 DEF WaitInv, WaitSeesWrites
  <2>. QED BY <2>5, <2>6 DEF WaitInv
<1>6. ASSUME NEW w \in Waiters, WaitTimeout(w) PROVE WaitInv'
  BY <1>6 DEF WaitTimeout, WaitInv, WaitInWindow, WaitSeesWrites, Positioned, IInv, TypeOK
<1>7. CASE UNCHANGED vars \/ Finished
  BY <1>3, <1>7 DEF vars, Finished
<1>. QED BY <1>1, <1>2, <1>4, <1>5, <1>6, <1>7, PositionWakeSound DEF Next

\* A causal read that wait() lets through sees every write up to the position it
\* asked for, for every instance in which no read asks for a seqno a turn of the
\* slots (2^16 in the code) ahead of last_left_.
THEOREM WaitHolds == ASSUME MaxBacklog < Size PROVE Spec => []WaitSeesWrites
<1>1. Init => WaitInv
  BY DEF Init, WaitInv, WaitInWindow, WaitSeesWrites
<1>2. ServiceInv /\ ServiceInv' /\ WaitInv /\ [Next]_vars => WaitInv'
  BY NextWaitInv DEF ServiceInv
<1>3. WaitInv => WaitSeesWrites
  BY DEF WaitInv
<1>. QED BY <1>1, <1>2, <1>3, ServiceInvariantHolds, PTL DEF Spec

============================================================================
