------------------------- MODULE SendMonitorProofs -------------------------
(***************************************************************************)
(* The safety of the GCS send monitor for every length of wait_q and every *)
(* set of senders and closers, under the usage assumption Prompt: SMInv is *)
(* inductive, and the mutual exclusion and the assertions follow from it.  *)
(***************************************************************************)
EXTENDS SendMonitorProperties, FiniteSetTheorems, WellFoundedInduction, TLAPS

\* The remainder of a number below two turns of the queue.
LEMMA Remainder ==
    ASSUME NEW x \in Nat, x < 2 * WaitQLen
    PROVE  x % WaitQLen = IF x < WaitQLen THEN x ELSE x - WaitQLen
<1>. DEFINE q == x \div WaitQLen  r == x % WaitQLen
<1>1. q \in Int /\ r \in 0..(WaitQLen - 1) /\ x = (WaitQLen * q) + r
  BY LenAssumption
<1>. HIDE DEF q, r
<1>2. q >= 0
  <2>1. SUFFICES ASSUME q <= -1 PROVE FALSE
    BY <1>1
  <2>2. WaitQLen * q <= WaitQLen * (-1)
    BY <1>1, <2>1, LenAssumption
  <2>. QED BY <1>1, <2>2, LenAssumption
<1>3. q <= 1
  <2>1. SUFFICES ASSUME q >= 2 PROVE FALSE
    BY <1>1
  <2>2. WaitQLen * q >= WaitQLen * 2
    BY <1>1, <2>1, LenAssumption
  <2>. QED BY <1>1, <2>2, LenAssumption
<1>4. q = 0 \/ q = 1
  BY <1>1, <1>2, <1>3
<1>5. r = IF x < WaitQLen THEN x ELSE x - WaitQLen
  BY <1>1, <1>4, LenAssumption
<1>. QED BY <1>5 DEF r

\* GCS_SM_INCREMENT wraps around once.
LEMMA StepValue ==
    \A i \in Slots, n \in 0..WaitQLen :
        /\ Step(i, n) = IF i + n < WaitQLen THEN i + n ELSE i + n - WaitQLen
        /\ Step(i, n) \in Slots
<1>1. SUFFICES ASSUME NEW i \in Slots, NEW n \in 0..WaitQLen
               PROVE  /\ Step(i, n) = IF i + n < WaitQLen THEN i + n ELSE i + n - WaitQLen
                      /\ Step(i, n) \in Slots
  OBVIOUS
<1>2. i + n \in Nat /\ i + n < 2 * WaitQLen
  BY LenAssumption DEF Slots
<1>. QED BY <1>2, Remainder, LenAssumption DEF Step, Slots

\* _gcs_sm_wake_up_next() stops somewhere: at the first place in use, or when
\* the queue is empty.
LEMMA SkippedExists ==
    ASSUME NEW n \in Nat, NEW h, NEW w
    PROVE  LET k == Skipped(n, h, w)
           IN  /\ k \in 0..n
               /\ \A i \in 0..(k - 1) : ~ w[Step(h, i)]
               /\ k < n => w[Step(h, k)]
<1>. DEFINE T == {k \in 0..n : k = n \/ w[Step(h, k)]}
<1>1. T \subseteq Nat /\ n \in T
  OBVIOUS
<1>2. PICK k \in T : \A y \in T : ~ (<<y, k>> \in OpToRel(<, Nat))
  BY <1>1, NatLessThanWellFounded, WFMin
<1>3. \A y \in T : ~ (y < k)
  BY <1>1, <1>2 DEF OpToRel
<1>4. k \in 0..n /\ \A i \in 0..(k - 1) : ~ w[Step(h, i)]
  BY <1>3
<1>5. k < n => w[Step(h, k)]
  OBVIOUS
<1>. QED BY <1>4, <1>5 DEF Skipped

----------------------------------------------------------------------------
(* What the steps of gcs_sm.h do to a queue, one at a time.                *)

\* place i is emptied; thread t leaves the line, joins it in place i; nobody in
\* line moves
Empties(i, w, c, w1, c1) ==
    w1 = [w EXCEPT ![i] = FALSE] /\ c1 = [c EXCEPT ![i] = NoThread]

Leaves(t, p, s, p1, s1) ==
    /\ p[t] \in InLine /\ p1[t] \notin InLine
    /\ \A u \in Threads : u # t => p1[u] = p[u] /\ s1[u] = s[u]

Fills(t, i, w, c, as, w1, c1, as1) ==
    w1 = [w EXCEPT ![i] = TRUE] /\ c1 = [c EXCEPT ![i] = t] /\ as1 = as \cup {t}

Joins(t, i, p, s, p1, s1) ==
    /\ p[t] \notin InLine /\ p1[t] \in InLine /\ s1[t] = i
    /\ \A u \in Threads : u # t => p1[u] = p[u] /\ s1[u] = s[u]
    /\ \A u \in Threads \ {t} : p[u] \in InLine => s[u] # i

SameLine(p, s, p1, s1) ==
    \A u \in Threads : p[u] \in InLine \/ p1[u] \in InLine => p1[u] = p[u] /\ s1[u] = s[u]

\* The head may pass places nobody waits in.
LEMMA SkipQueue ==
    ASSUME NEW n, NEW h, NEW tl, NEW w, NEW c, NEW as, NEW p, NEW s \in [Threads -> Slots],
           QueueOK(n, h, tl, w, c, as, p, s),
           NEW k \in 0..n, \A i \in 0..(k - 1) : ~ w[Step(h, i)]
    PROVE  QueueOK(n - k, Step(h, k), tl, w, c, as, p, s)
<1>. USE LenAssumption
<1>1. n \in 0..WaitQLen /\ h \in Slots /\ tl \in Slots /\ Step(tl, 1) = Step(h, n)
  BY DEF QueueOK
<1>2. n - k \in 0..WaitQLen /\ k \in 0..WaitQLen /\ Step(h, k) \in Slots
  BY <1>1, StepValue
<1>3. Step(Step(h, k), n - k) = Step(h, n)
  <2>1. \A i \in Slots : Step(i, n - k) = IF i + (n - k) < WaitQLen THEN i + (n - k)
                                           ELSE i + (n - k) - WaitQLen
    BY <1>2, StepValue
  <2>2. Step(h, k) = IF h + k < WaitQLen THEN h + k ELSE h + k - WaitQLen
    BY <1>1, <1>2, StepValue
  <2>3. Step(h, n) = IF h + n < WaitQLen THEN h + n ELSE h + n - WaitQLen
    BY <1>1, StepValue
  <2>4. Step(Step(h, k), n - k) = IF Step(h, k) + (n - k) < WaitQLen THEN Step(h, k) + (n - k)
                                  ELSE Step(h, k) + (n - k) - WaitQLen
    BY <1>2, <2>1
  <2>. QED BY <1>1, <1>2, <2>2, <2>3, <2>4 DEF Slots
<1>4. ASSUME NEW i \in Slots, w[i] PROVE Distance(i, Step(h, k)) < n - k
  <2>1. Distance(i, h) < n
    BY <1>4 DEF QueueOK
  <2>2. Distance(i, h) \in 0..WaitQLen /\ Distance(i, h) < WaitQLen
    BY <1>1 DEF Distance, Slots
  <2>3. Step(h, Distance(i, h)) = i
    <3>1. Step(h, Distance(i, h)) = IF h + Distance(i, h) < WaitQLen THEN h + Distance(i, h)
                                    ELSE h + Distance(i, h) - WaitQLen
      BY <1>1, <2>2, StepValue
    <3>. QED BY <1>1, <3>1 DEF Distance, Slots
  <2>4. Distance(i, h) >= k
    BY <1>2, <1>4, <2>2, <2>3
  <2>5. Step(h, k) = IF h + k < WaitQLen THEN h + k ELSE h + k - WaitQLen
    BY <1>1, <1>2, StepValue
  <2>. QED BY <1>1, <1>2, <2>1, <2>4, <2>5 DEF Distance, Slots
<1>5. ASSUME NEW t \in Threads, p[t] \in InLine, t \notin as, w[s[t]] PROVE s[t] = Step(h, k)
  <2>1. s[t] = h
    BY <1>5 DEF QueueOK
  <2>2. Step(h, 0) = h
    BY <1>1, StepValue DEF Slots
  <2>3. k = 0
    BY <1>1, <1>5, <2>1, <2>2
  <2>. QED BY <2>1, <2>2, <2>3
<1>. QED BY <1>1, <1>2, <1>3, <1>4, <1>5 DEF QueueOK

\* The waiter at the head may be signalled.
LEMMA SignalHead ==
    ASSUME NEW n, NEW h, NEW tl, NEW w, NEW c, NEW as, NEW p, NEW s \in [Threads -> Slots],
           QueueOK(n, h, tl, w, c, as, p, s), w[h]
    PROVE  QueueOK(n, h, tl, w, c, as \ {c[h]}, p, s)
<1>1. h \in Slots /\ s[c[h]] = h
  BY DEF QueueOK
<1>. QED BY <1>1 DEF QueueOK

\* _gcs_sm_wake_up_next() keeps the queue in order.
LEMMA WakeUpNextOK ==
    ASSUME NEW n, NEW h, NEW tl, NEW w, NEW c, NEW as, NEW p, NEW s \in [Threads -> Slots],
           QueueOK(n, h, tl, w, c, as, p, s), NEW in
    PROVE  LET q == WakeUpNext(n, h, in, w, c, as)
           IN  /\ QueueOK(q.users, q.head, tl, w, c, q.asleep, p, s)
               /\ in # 0 => q.users = n /\ q.head = h
<1>. DEFINE k == IF in = 0 THEN Skipped(n, h, w) ELSE 0
            g == Step(h, k)
            a == IF in = 0 /\ k < n THEN as \ {c[g]} ELSE as
<1>1. n \in 0..WaitQLen /\ n \in Nat /\ h \in Slots /\ Step(h, 0) = h
  BY LenAssumption, StepValue DEF QueueOK, Slots
<1>2. /\ k \in 0..n
      /\ \A i \in 0..(k - 1) : ~ w[Step(h, i)]
      /\ in = 0 /\ k < n => w[Step(h, k)]
  <2>1. CASE in = 0
    BY <1>1, <2>1, SkippedExists
  <2>2. CASE in # 0
    BY <1>1, <2>2
  <2>. QED BY <2>1, <2>2
<1>. HIDE DEF k
<1>3. QueueOK(n - k, g, tl, w, c, as, p, s)
  BY <1>2, SkipQueue
<1>4. QueueOK(n - k, g, tl, w, c, a, p, s)
  BY <1>2, <1>3, SignalHead
<1>5. in # 0 => n - k = n /\ g = h
  BY <1>1 DEF k
<1>6. WakeUpNext(n, h, in, w, c, as) = [users |-> n - k, head |-> g, asleep |-> a]
  BY DEF WakeUpNext, k
<1>. HIDE DEF g, a
<1>7. /\ WakeUpNext(n, h, in, w, c, as).users = n - k
      /\ WakeUpNext(n, h, in, w, c, as).head = g
      /\ WakeUpNext(n, h, in, w, c, as).asleep = a
  BY <1>6
<1>. QED BY <1>4, <1>5, <1>7

\* A thread that comes back from the wait empties its place.
LEMMA ClearPlace ==
    ASSUME NEW n, NEW h, NEW tl, NEW w, NEW c, NEW as, NEW p, NEW s \in [Threads -> Slots],
           QueueOK(n, h, tl, w, c, as, p, s),
           NEW t \in Threads, NEW p1, NEW s1, Leaves(t, p, s, p1, s1),
           NEW w1, NEW c1, Empties(s[t], w, c, w1, c1)
    PROVE  QueueOK(n, h, tl, w1, c1, as, p1, s1)
<1>. USE DEF Leaves
<1>1. /\ w \in [Slots -> BOOLEAN] /\ c \in [Slots -> Threads \cup {NoThread}]
      /\ s[t] \in Slots
      /\ \A u, v \in Threads : p[u] \in InLine /\ p[v] \in InLine /\ s[u] = s[v] => u = v
  BY DEF QueueOK
<1>2. w1 \in [Slots -> BOOLEAN] /\ c1 \in [Slots -> Threads \cup {NoThread}]
  BY <1>1 DEF Empties
<1>3. ~ w1[s[t]] /\ c1[s[t]] = NoThread /\ \A i \in Slots : i # s[t] => (w1[i] <=> w[i]) /\ c1[i] = c[i]
  BY <1>1 DEF Empties
<1>4. \A i \in Slots : w1[i] <=> c1[i] # NoThread
  BY <1>3 DEF QueueOK
<1>5. \A i \in Slots : w1[i] => w[i] /\ c1[i] = c[i] /\ c[i] \in Threads /\ c[i] # t
  BY <1>1, <1>3 DEF QueueOK
<1>6. \A i \in Slots : w1[i] => s1[c1[i]] = i /\ p1[c1[i]] \in InLine
  BY <1>5 DEF QueueOK
<1>7. \A u \in Threads : p1[u] \in InLine =>
         u # t /\ p1[u] = p[u] /\ s1[u] = s[u] /\ s[u] \in Slots /\ (w1[s[u]] <=> w[s[u]])
  BY <1>1, <1>3
<1>8. \A u \in Threads : p1[u] = "closing" => w1[s1[u]]
  BY <1>7 DEF QueueOK, InLine
<1>9. \A u, v \in Threads : p1[u] \in InLine /\ p1[v] \in InLine /\ s1[u] = s1[v] => u = v
  BY <1>1, <1>7
<1>10. \A u \in Threads : p1[u] \in InLine /\ u \notin as /\ w1[s1[u]] => s1[u] = h
  BY <1>7 DEF QueueOK
<1>11. \A i \in Slots : w1[i] => Distance(i, h) < n
  BY <1>5 DEF QueueOK
<1>. QED BY <1>2, <1>4, <1>6, <1>8, <1>9, <1>10, <1>11 DEF QueueOK

\* gcs_sm_interrupt() empties the place of a waiting thread and signals it.
LEMMA InterruptPlace ==
    ASSUME NEW n, NEW h, NEW tl, NEW w, NEW c, NEW as, NEW p, NEW s \in [Threads -> Slots],
           QueueOK(n, h, tl, w, c, as, p, s),
           NEW i \in Slots, w[i], p[c[i]] = "waiting",
           NEW w1, NEW c1, Empties(i, w, c, w1, c1)
    PROVE  QueueOK(n, h, tl, w1, c1, as \ {c[i]}, p, s)
<1>1. /\ w \in [Slots -> BOOLEAN] /\ c \in [Slots -> Threads \cup {NoThread}]
      /\ c[i] \in Threads /\ s[c[i]] = i
  BY DEF QueueOK
<1>2. w1 \in [Slots -> BOOLEAN] /\ c1 \in [Slots -> Threads \cup {NoThread}]
  BY <1>1 DEF Empties
<1>3. ~ w1[i] /\ c1[i] = NoThread /\ \A j \in Slots : j # i => (w1[j] <=> w[j]) /\ c1[j] = c[j]
  BY <1>1 DEF Empties
<1>4. \A j \in Slots : w1[j] <=> c1[j] # NoThread
  BY <1>3 DEF QueueOK
<1>5. \A j \in Slots : w1[j] => w[j] /\ c1[j] = c[j]
  BY <1>1, <1>3
<1>6. \A u \in Threads : p[u] = "closing" => w1[s[u]]
  BY <1>1, <1>3 DEF QueueOK, InLine
<1>7. \A u \in Threads : p[u] \in InLine /\ u \notin as \ {c[i]} /\ w1[s[u]] => s[u] = h
  BY <1>1, <1>3 DEF QueueOK
<1>. QED BY <1>2, <1>4, <1>5, <1>6, <1>7 DEF QueueOK

\* The tail may be advanced while the queue is not full.
LEMMA AdvanceTail ==
    ASSUME NEW n, NEW h, NEW tl, NEW w, NEW c, NEW as, NEW p, NEW s,
           QueueOK(n, h, tl, w, c, as, p, s), n < WaitQLen
    PROVE  /\ QueueOK(n + 1, h, Step(tl, 1), w, c, as, p, s)
           /\ Step(tl, 1) = Step(h, n) /\ Step(tl, 1) \in Slots
           /\ Distance(Step(tl, 1), h) = n
<1>. USE LenAssumption
<1>1. n \in 0..WaitQLen /\ h \in Slots /\ tl \in Slots /\ Step(tl, 1) = Step(h, n)
  BY DEF QueueOK
<1>n. 1 \in 0..WaitQLen /\ n + 1 \in 0..WaitQLen
  BY <1>1
<1>s. /\ Step(tl, 1) \in Slots
      /\ Step(h, n) = IF h + n < WaitQLen THEN h + n ELSE h + n - WaitQLen
      /\ Step(h, n + 1) = IF h + (n + 1) < WaitQLen THEN h + (n + 1) ELSE h + (n + 1) - WaitQLen
  BY <1>1, <1>n, StepValue
<1>2. Step(tl, 1) \in Slots /\ Distance(Step(tl, 1), h) = n
  BY <1>1, <1>s DEF Distance, Slots
<1>3. Step(Step(tl, 1), 1) = Step(h, n + 1)
  <2>1. Step(Step(tl, 1), 1) = IF Step(tl, 1) + 1 < WaitQLen THEN Step(tl, 1) + 1
                               ELSE Step(tl, 1) + 1 - WaitQLen
    BY <1>n, <1>s, StepValue
  <2>. QED BY <1>1, <1>s, <2>1 DEF Slots
<1>4. \A i \in Slots : w[i] => Distance(i, h) < n + 1
  BY <1>1 DEF QueueOK, Distance, Slots
<1>. QED BY <1>1, <1>n, <1>2, <1>3, <1>4 DEF QueueOK

\* _gcs_sm_enqueue_common() puts a thread to sleep in a free place at the tail.
LEMMA EnqueuePlace ==
    ASSUME NEW n, NEW h, NEW tl, NEW w, NEW c, NEW as, NEW p, NEW s \in [Threads -> Slots],
           QueueOK(n, h, tl, w, c, as, p, s), n < WaitQLen,
           NEW t \in Threads, NEW p1, NEW s1, NEW i, i = Step(tl, 1), Joins(t, i, p, s, p1, s1),
           NEW w1, NEW c1, NEW as1, Fills(t, i, w, c, as, w1, c1, as1)
    PROVE  /\ QueueOK(n + 1, h, i, w1, c1, as1, p1, s1)
           /\ n >= 1 => i # h
<1>. USE DEF Joins
<1>0. QueueOK(n + 1, h, i, w, c, as, p, s) /\ i \in Slots /\ Distance(i, h) = n
  <2>1. /\ QueueOK(n + 1, h, Step(tl, 1), w, c, as, p, s)
        /\ Step(tl, 1) \in Slots /\ Distance(Step(tl, 1), h) = n
    BY AdvanceTail, Zenon
  <2>. QED BY <2>1
<1>1. i \in Slots /\ Distance(i, h) = n /\ n \in 0..WaitQLen /\ h \in Slots
  BY <1>0 DEF QueueOK
<1>2. ~ w[i]
  BY <1>1 DEF QueueOK
<1>3. w \in [Slots -> BOOLEAN] /\ c \in [Slots -> Threads \cup {NoThread}]
  BY DEF QueueOK
<1>4. w1 \in [Slots -> BOOLEAN] /\ c1 \in [Slots -> Threads \cup {NoThread}]
  BY <1>1, <1>3 DEF Fills
<1>5. w1[i] /\ c1[i] = t /\ \A j \in Slots : j # i => (w1[j] <=> w[j]) /\ c1[j] = c[j]
  BY <1>1, <1>3 DEF Fills
<1>6. \A j \in Slots : w1[j] <=> c1[j] # NoThread
  BY <1>1, <1>5, ThreadAssumption DEF QueueOK
<1>7. \A j \in Slots : w1[j] => Distance(j, h) < n + 1
  BY <1>0, <1>1, <1>5 DEF QueueOK
<1>8. \A j \in Slots : w1[j] => s1[c1[j]] = j /\ p1[c1[j]] \in InLine
  <2>1. \A j \in Slots : j # i /\ w[j] => c[j] \in Threads /\ c[j] # t
    BY DEF QueueOK
  <2>. QED BY <1>5, <2>1 DEF QueueOK
<1>9. \A u, v \in Threads : p1[u] \in InLine /\ p1[v] \in InLine /\ s1[u] = s1[v] => u = v
  BY DEF QueueOK
<1>10. \A u \in Threads : p1[u] = "closing" => w1[s1[u]]
  BY <1>5 DEF QueueOK, InLine
<1>11. \A u \in Threads : p1[u] \in InLine /\ u \notin as1 /\ w1[s1[u]] => s1[u] = h
  <2>1. \A u \in Threads \ {t} : p1[u] \in InLine => s[u] # i /\ s[u] \in Slots
    OBVIOUS
  <2>2. \A u \in Threads \ {t} : p1[u] \in InLine /\ w1[s1[u]] => w[s[u]]
    BY <1>5, <2>1
  <2>. QED BY <2>2 DEF QueueOK, Fills
<1>12. n >= 1 => i # h
  BY <1>1 DEF Distance, Slots
<1>13. as1 \subseteq Threads
  BY DEF QueueOK, Fills
<1>. HIDE DEF Joins
<1>. QED BY <1>0, <1>4, <1>6, <1>7, <1>8, <1>9, <1>10, <1>11, <1>12, <1>13 DEF QueueOK

\* Threads that are not in line may do what they like.
LEMMA OutOfLine ==
    ASSUME NEW n, NEW h, NEW tl, NEW w, NEW c, NEW as, NEW p, NEW s,
           QueueOK(n, h, tl, w, c, as, p, s), NEW p1, NEW s1,
           SameLine(p, s, p1, s1)
    PROVE  QueueOK(n, h, tl, w, c, as, p1, s1)
<1>. USE DEF SameLine
<1>1. \A i \in Slots : w[i] => c[i] \in Threads
  BY DEF QueueOK
<1>2. \A u \in Threads : p1[u] = "closing" => w[s1[u]]
  BY DEF QueueOK, InLine
<1>. QED BY <1>1, <1>2 DEF QueueOK

----------------------------------------------------------------------------
(* The actions of the send monitor keep SMInv.                             *)

\* What the invariant says about the head of the queue.
LEMMA HeadFacts ==
    ASSUME SMInv
    PROVE  /\ users \in 0..WaitQLen /\ users \in Int /\ wait_q_head \in Slots /\ wait_q_tail \in Slots
           /\ slot \in [Threads -> Slots]
           /\ wait \in [Slots -> BOOLEAN] /\ cond \in [Slots -> Threads \cup {NoThread}]
           /\ wait[wait_q_head] => users >= 1 /\ entered = 0
           /\ entered # 0 => entered = 1 /\ users >= 1 /\ ~ wait[wait_q_head]
           /\ entered = 0 => \A t \in Threads : pc[t] # "inside"
<1>1. /\ users \in 0..WaitQLen /\ wait_q_head \in Slots /\ wait_q_tail \in Slots
      /\ wait \in [Slots -> BOOLEAN] /\ cond \in [Slots -> Threads \cup {NoThread}]
      /\ \A i \in Slots : wait[i] => Distance(i, wait_q_head) < users
  BY DEF SMInv, QueueOK
<1>2. Distance(wait_q_head, wait_q_head) = 0 /\ users \in Int
  BY <1>1, LenAssumption DEF Distance, Slots
<1>3. slot \in [Threads -> Slots] /\ entered \in 0..1
  BY DEF SMInv, TypeOK
<1>4. entered = 1 <=> \E t \in Threads : pc[t] = "inside"
  BY DEF SMInv, InsideOK
<1>5. \A t \in Threads : pc[t] = "inside" => ~ wait[wait_q_head] /\ users >= 1
  BY DEF SMInv, InsideOK
<1>. QED BY <1>1, <1>2, <1>3, <1>4, <1>5

\* gcs_sm_create() gives an empty monitor.
LEMMA InitSMInv == Init => SMInv
<1>1. SUFFICES ASSUME Init PROVE SMInv
  OBVIOUS
<1>. USE LenAssumption
<1>2. 0 \in Slots /\ 1 \in Slots /\ Step(0, 1) = Step(1, 0)
  BY DEF Slots, Step
<1>3. TypeOK
  <2>1. pause \in BOOLEAN /\ handle \in [Threads -> BOOLEAN] /\ aborted \in [Threads -> BOOLEAN]
    BY <1>1, Zenon DEF Init
  <2>2. /\ entered \in 0..1 /\ ret \in {"OK", "EBADFD"} /\ slot \in [Threads -> Slots]
        /\ pc \in [Threads -> SenderPc \cup CloserPc]
        /\ \A t \in Senders : pc[t] \in SenderPc
        /\ \A t \in Closers : pc[t] \in CloserPc
    BY <1>1, <1>2 DEF Init, SenderPc, CloserPc, Threads
  <2>. QED BY <2>1, <2>2 DEF TypeOK
<1>4. QueueOK(users, wait_q_head, wait_q_tail, wait, cond, asleep, pc, slot)
  <2>1. wait \in [Slots -> BOOLEAN] /\ cond \in [Slots -> Threads \cup {NoThread}] /\ asleep \subseteq Threads
    BY <1>1, Zenon DEF Init
  <2>2. \A i \in Slots : ~ wait[i] /\ cond[i] = NoThread
    BY <1>1 DEF Init
  <2>3. users = 0 /\ wait_q_head = 1 /\ wait_q_tail = 0 /\ \A t \in Threads : pc[t] \notin InLine
    BY <1>1 DEF Init, InLine
  <2>4. users \in 0..WaitQLen /\ \A t \in Threads : pc[t] # "closing"
    BY <2>3 DEF InLine
  <2>. QED BY <1>2, <2>1, <2>2, <2>3, <2>4 DEF QueueOK
<1>5. InsideOK
  BY <1>1 DEF Init, InsideOK
<1>. QED BY <1>3, <1>4, <1>5 DEF SMInv

\* gcs_sm_schedule() and gcs_sm_enter(): refused, inside, or asleep at the tail.
LEMMA SendStep ==
    ASSUME Prompt, SMInv, NEW t \in Senders, Send(t)
    PROVE  SMInv'
<1>. USE HeadFacts
<1>0. t \in Threads /\ t \notin Closers /\ pc[t] = "out" /\ UNCHANGED <<ret, pause, wait_q_head, aborted>>
  BY ThreadAssumption DEF Send, Threads
<1>1. CASE Refuse(t)
  BY <1>0, <1>1 DEF Refuse, SMInv, TypeOK, InsideOK
<1>2. CASE EnterAtOnce(t)
  <2>1. /\ users = 0 /\ users < WaitQLen /\ users' = users + 1 /\ entered' = entered + 1
        /\ wait_q_tail' = Step(wait_q_tail, 1)
        /\ slot' = [slot EXCEPT ![t] = Step(wait_q_tail, 1)]
        /\ pc' = [pc EXCEPT ![t] = "inside"]
        /\ UNCHANGED <<wait, cond, asleep, handle>>
    BY <1>2 DEF EnterAtOnce, Accepts, HasToWait
  <2>2. /\ QueueOK(users + 1, wait_q_head, Step(wait_q_tail, 1), wait, cond, asleep, pc, slot)
        /\ Step(wait_q_tail, 1) \in Slots
    BY <2>1, AdvanceTail DEF SMInv
  <2>3. pc \in [Threads -> SenderPc \cup CloserPc]
    BY DEF SMInv, TypeOK
  <2>4. SameLine(pc, slot, pc', slot')
    BY <1>0, <2>1, <2>3 DEF SameLine, InLine
  <2>5. QueueOK(users', wait_q_head', wait_q_tail', wait', cond', asleep', pc', slot')
    BY <1>0, <2>1, <2>2, <2>4, OutOfLine
  <2>6. entered = 0
    BY <2>1
  <2>7. TypeOK'
    BY <1>0, <2>1, <2>2, <2>6 DEF SMInv, TypeOK, SenderPc
  <2>8. InsideOK'
    BY <1>0, <2>1, <2>3, <2>6 DEF InsideOK
  <2>. QED BY <2>5, <2>7, <2>8 DEF SMInv
<1>3. CASE WaitInLine(t)
  <2>. DEFINE i == Step(wait_q_tail, 1)
  <2>1. /\ users < WaitQLen /\ users' = users + 1 /\ wait_q_tail' = i
        /\ wait' = [wait EXCEPT ![i] = TRUE] /\ cond' = [cond EXCEPT ![i] = t]
        /\ slot' = [slot EXCEPT ![t] = i] /\ asleep' = asleep \cup {t}
        /\ handle' = [handle EXCEPT ![t] = TRUE]
        /\ pc' = [pc EXCEPT ![t] = "waiting"] /\ UNCHANGED entered
        /\ \A u \in Threads \ {t} : pc[u] \in InLine => slot[u] # i
    BY <1>3 DEF WaitInLine, Accepts, Enqueue, Reusable, InLine
  <2>2. pc \in [Threads -> SenderPc \cup CloserPc]
    BY DEF SMInv, TypeOK
  <2>3. i \in Slots
    BY LenAssumption, StepValue
  <2>4. Joins(t, i, pc, slot, pc', slot') /\ Fills(t, i, wait, cond, asleep, wait', cond', asleep')
    BY <1>0, <2>1, <2>2 DEF InLine, Joins, Fills
  <2>. HIDE DEF i
  <2>5. /\ QueueOK(users, wait_q_head, wait_q_tail, wait, cond, asleep, pc, slot)
        /\ i = Step(wait_q_tail, 1) /\ slot \in [Threads -> Slots]
        /\ users < WaitQLen /\ t \in Threads
    BY <1>0, <2>1 DEF SMInv, i
  <2>6. /\ QueueOK(users + 1, wait_q_head, i, wait', cond', asleep', pc', slot')
        /\ users >= 1 => i # wait_q_head
    BY <2>4, <2>5, EnqueuePlace
  <2>7. TypeOK'
    BY <1>0, <2>1, <2>3 DEF SMInv, TypeOK, SenderPc
  <2>8. InsideOK'
    <3>1. \A u \in Threads : pc'[u] = "inside" <=> pc[u] = "inside"
      BY <1>0, <2>1, <2>2
    <3>2. entered # 0 => ~ wait'[wait_q_head]
      BY <2>1, <2>3, <2>6
    <3>. QED BY <1>0, <2>1, <3>1, <3>2 DEF SMInv, InsideOK
  <2>. QED BY <1>0, <2>1, <2>6, <2>7, <2>8 DEF SMInv
<1>. QED BY <1>1, <1>2, <1>3 DEF Send

\* Leaving passes the head, and wakes the next waiter unless there is a pause.
LEMMA LeaveCommonOK ==
    ASSUME NEW w, NEW c, NEW p, NEW s \in [Threads -> Slots], NEW in,
           QueueOK(users, wait_q_head, wait_q_tail, w, c, asleep, p, s),
           users >= 1, ~ w[wait_q_head], LeaveCommon(in, w, c)
    PROVE  QueueOK(users', wait_q_head', wait_q_tail, w, c, asleep', p, s)
<1>1. users \in Int /\ wait_q_head \in Slots /\ 1 \in 0..users
  BY LenAssumption DEF QueueOK
<1>2. Step(wait_q_head, 0) = wait_q_head
  BY <1>1, LenAssumption, StepValue DEF Slots
<1>3. \A i \in 0..(1 - 1) : ~ w[Step(wait_q_head, i)]
  BY <1>2
<1>4. QueueOK(users - 1, Step(wait_q_head, 1), wait_q_tail, w, c, asleep, p, s)
  BY <1>1, <1>3, SkipQueue
<1>5. CASE pause
  BY <1>4, <1>5 DEF LeaveCommon, SetQueue
<1>6. CASE ~ pause
  <2>. DEFINE q == WakeUpNext(users - 1, Step(wait_q_head, 1), in, w, c, asleep)
  <2>1. QueueOK(q.users, q.head, wait_q_tail, w, c, q.asleep, p, s)
    BY <1>4, WakeUpNextOK
  <2>2. users' = q.users /\ wait_q_head' = q.head /\ asleep' = q.asleep
    BY <1>6 DEF LeaveCommon, SetQueue
  <2>. QED BY <2>1, <2>2
<1>. QED BY <1>5, <1>6

\* gcs_sm_enter() after its wait: inside, closed, or interrupted.
LEMMA WokenStep ==
    ASSUME SMInv, NEW t \in Senders, Woken(t)
    PROVE  SMInv'
<1>. USE HeadFacts
<1>0. /\ t \in Threads /\ t \notin Closers /\ pc[t] = "waiting" /\ t \notin asleep
      /\ UNCHANGED <<ret, pause, wait_q_tail>>
  BY ThreadAssumption DEF Woken, Threads
<1>1. Empties(slot[t], wait, cond, wait', cond')
  BY DEF Woken, Empties
<1>2. /\ pc \in [Threads -> SenderPc \cup CloserPc] /\ slot[t] \in Slots
      /\ wait' \in [Slots -> BOOLEAN] /\ \A i \in Slots : wait'[i] => wait[i]
      /\ ~ wait'[slot[t]]
  BY <1>0, <1>1 DEF SMInv, TypeOK, Empties
<1>3. QueueOK(users, wait_q_head, wait_q_tail, wait, cond, asleep, pc, slot)
  BY DEF SMInv
<1>4. wait[slot[t]] => slot[t] = wait_q_head
  BY <1>0, <1>3 DEF QueueOK, InLine
<1>5. CASE /\ wait[slot[t]] /\ entered' = entered + 1 /\ pc' = [pc EXCEPT ![t] = "inside"]
           /\ UNCHANGED <<users, wait_q_head, asleep, slot, handle, aborted>>
  <2>1. Leaves(t, pc, slot, pc', slot')
    BY <1>0, <1>2, <1>5 DEF Leaves, InLine
  <2>2. QueueOK(users, wait_q_head, wait_q_tail, wait', cond', asleep, pc', slot')
    BY <1>0, <1>1, <1>3, <2>1, ClearPlace
  <2>3. entered = 0 /\ users >= 1 /\ ~ wait'[wait_q_head]
    BY <1>2, <1>4, <1>5
  <2>4. TypeOK'
    BY <1>0, <1>5, <2>3 DEF SMInv, TypeOK, SenderPc
  <2>5. InsideOK'
    BY <1>0, <1>2, <1>5, <2>3 DEF InsideOK
  <2>. QED BY <1>0, <1>5, <2>2, <2>4, <2>5 DEF SMInv
<1>6. ASSUME Return(t), UNCHANGED entered
      PROVE  /\ Leaves(t, pc, slot, pc', slot') /\ TypeOK'
             /\ \A u \in Threads : pc'[u] = "inside" <=> pc[u] = "inside"
  <2>1. 0 \in Slots
    BY LenAssumption DEF Slots
  <2>. QED BY <1>0, <1>2, <1>6, <2>1 DEF Return, Leaves, InLine, SMInv, TypeOK, SenderPc
<1>7. CASE wait[slot[t]] /\ LeaveCommon(entered, wait', cond') /\ Return(t) /\ UNCHANGED entered
  <2>1. entered = 0 /\ users >= 1 /\ ~ wait'[wait_q_head]
    BY <1>2, <1>4, <1>7
  <2>2. QueueOK(users, wait_q_head, wait_q_tail, wait', cond', asleep, pc', slot')
    BY <1>0, <1>1, <1>3, <1>6, <1>7, ClearPlace
  <2>3. slot' \in [Threads -> Slots]
    BY <1>6, <1>7 DEF TypeOK
  <2>4. QueueOK(users', wait_q_head', wait_q_tail, wait', cond', asleep', pc', slot')
    BY <1>7, <2>1, <2>2, <2>3, LeaveCommonOK
  <2>5. InsideOK'
    BY <1>6, <1>7, <2>1 DEF InsideOK
  <2>. QED BY <1>0, <1>6, <1>7, <2>4, <2>5 DEF SMInv
<1>8. CASE Return(t) /\ UNCHANGED <<entered, users, wait_q_head, asleep>>
  <2>1. QueueOK(users, wait_q_head, wait_q_tail, wait', cond', asleep, pc', slot')
    BY <1>0, <1>1, <1>3, <1>6, <1>8, ClearPlace
  <2>2. InsideOK'
    BY <1>2, <1>6, <1>8 DEF SMInv, InsideOK
  <2>. QED BY <1>0, <1>6, <1>8, <2>1, <2>2 DEF SMInv
<1>. QED BY <1>0, <1>5, <1>7, <1>8 DEF Woken, queueVars

\* gcs_sm_leave()
LEMMA LeaveStep ==
    ASSUME SMInv, NEW t \in Senders, Leave(t)
    PROVE  SMInv'
<1>. USE HeadFacts
<1>0. /\ t \in Threads /\ t \notin Closers /\ pc[t] = "inside"
      /\ UNCHANGED <<ret, pause, wait_q_tail, wait, cond>>
      /\ entered' = entered - 1 /\ LeaveCommon(entered - 1, wait, cond)
  BY ThreadAssumption DEF Leave, Threads
<1>1. entered = 1 /\ users >= 1 /\ ~ wait[wait_q_head] /\ \A u \in Threads : u # t => pc[u] # "inside"
  BY <1>0 DEF SMInv, InsideOK
<1>2. 0 \in Slots /\ pc \in [Threads -> SenderPc \cup CloserPc]
  BY LenAssumption DEF Slots, SMInv, TypeOK
<1>3. /\ \E v \in {"sent", "out"} : pc' = [pc EXCEPT ![t] = v]
      /\ slot' \in [Threads -> Slots] /\ \A u \in Threads : u # t => slot'[u] = slot[u]
      /\ handle' \in [Threads -> BOOLEAN] /\ aborted' \in [Threads -> BOOLEAN]
  BY <1>0, <1>2 DEF Leave, Return, SMInv, TypeOK
<1>4. SameLine(pc, slot, pc', slot')
  BY <1>0, <1>2, <1>3 DEF SameLine, InLine
<1>5. QueueOK(users, wait_q_head, wait_q_tail, wait, cond, asleep, pc', slot')
  BY <1>4, OutOfLine DEF SMInv
<1>6. QueueOK(users', wait_q_head', wait_q_tail, wait, cond, asleep', pc', slot')
  BY <1>0, <1>1, <1>3, <1>5, LeaveCommonOK
<1>7. TypeOK'
  <2>1. /\ pc' \in [Threads -> SenderPc \cup CloserPc]
        /\ \A u \in Senders : pc'[u] \in SenderPc
        /\ \A u \in Closers : pc'[u] \in CloserPc
    BY <1>0, <1>2, <1>3 DEF SMInv, TypeOK, SenderPc, Threads
  <2>2. entered' \in 0..1 /\ ret' \in {"OK", "EBADFD"} /\ pause' \in BOOLEAN
    BY <1>0, <1>1 DEF SMInv, TypeOK
  <2>. QED BY <1>3, <2>1, <2>2 DEF TypeOK
<1>8. InsideOK'
  BY <1>0, <1>1, <1>2, <1>3 DEF InsideOK
<1>. QED BY <1>0, <1>6, <1>7, <1>8 DEF SMInv

\* gcs_repl() returns
LEMMA DeliveredStep ==
    ASSUME SMInv, NEW t \in Senders, Delivered(t)
    PROVE  SMInv'
<1>0. /\ t \in Threads /\ t \notin Closers /\ pc[t] = "sent" /\ Return(t) /\ 0 \in Slots
      /\ UNCHANGED <<users, entered, ret, pause, wait_q_head, wait_q_tail, wait, cond, asleep>>
  BY ThreadAssumption, LenAssumption DEF Delivered, Threads, Slots
<1>1. pc \in [Threads -> SenderPc \cup CloserPc]
  BY DEF SMInv, TypeOK
<1>2. SameLine(pc, slot, pc', slot') /\ \A u \in Threads : pc'[u] = "inside" <=> pc[u] = "inside"
  BY <1>0, <1>1 DEF Return, SameLine, InLine, SMInv, TypeOK
<1>3. QueueOK(users, wait_q_head, wait_q_tail, wait, cond, asleep, pc', slot')
  BY <1>2, OutOfLine DEF SMInv
<1>4. TypeOK'
  BY <1>0 DEF Return, SMInv, TypeOK, SenderPc
<1>5. InsideOK'
  BY <1>0, <1>2 DEF SMInv, InsideOK
<1>. QED BY <1>0, <1>3, <1>4, <1>5 DEF SMInv

\* gcs_sm_interrupt(), under the usage assumption that the handle is current.
LEMMA InterruptStep ==
    ASSUME Prompt, SMInv, NEW t \in Senders, Interrupt(t)
    PROVE  SMInv'
<1>. USE HeadFacts
<1>0. /\ t \in Threads /\ aborted' = [aborted EXCEPT ![t] = TRUE]
      /\ UNCHANGED <<entered, ret, pause, wait_q_tail, pc, slot, handle>>
      /\ slot[t] \in Slots
  BY DEF Interrupt, Threads
<1>1. TypeOK'
  BY <1>0 DEF SMInv, TypeOK
<1>2. QueueOK(users, wait_q_head, wait_q_tail, wait, cond, asleep, pc, slot)
  BY DEF SMInv
<1>3. CASE ~ wait[slot[t]]
  BY <1>0, <1>1, <1>3 DEF Interrupt, Place, queueVars, SMInv, InsideOK
<1>4. CASE wait[slot[t]]
  <2>1. cond[slot[t]] = t /\ Interrupted(t)
    BY <1>4 DEF Interrupt, Current, Place
  <2>2. pc[t] = "waiting"
    BY <1>0, <1>2, <1>4, <2>1 DEF QueueOK, InLine, SMInv, TypeOK, SenderPc
  <2>3. Empties(slot[t], wait, cond, wait', cond')
    BY <2>1 DEF Interrupted, Place, Empties
  <2>4. QueueOK(users, wait_q_head, wait_q_tail, wait', cond', asleep \ {cond[slot[t]]}, pc, slot)
    BY <1>0, <1>2, <1>4, <2>1, <2>2, <2>3, InterruptPlace
  <2>5. \A i \in Slots : wait'[i] => wait[i]
    BY <1>0, <2>3 DEF Empties
  <2>6. CASE ~ pause /\ slot[t] = wait_q_head
    <3>. DEFINE q == WakeUpNext(users, wait_q_head, entered, wait', cond', asleep \ {cond[slot[t]]})
    <3>1. users' = q.users /\ wait_q_head' = q.head /\ asleep' = q.asleep
      BY <2>1, <2>6 DEF Interrupted, Place, SetQueue
    <3>2. QueueOK(q.users, q.head, wait_q_tail, wait', cond', q.asleep, pc, slot)
      BY <2>4, WakeUpNextOK
    <3>3. entered = 0
      BY <1>4, <2>6
    <3>4. InsideOK'
      BY <1>0, <3>3 DEF InsideOK
    <3>. QED BY <1>0, <1>1, <3>1, <3>2, <3>4 DEF SMInv
  <2>7. CASE ~ (~ pause /\ slot[t] = wait_q_head)
    <3>1. users' = users /\ wait_q_head' = wait_q_head /\ asleep' = asleep \ {cond[slot[t]]}
      BY <2>1, <2>7 DEF Interrupted, Place
    <3>2. InsideOK'
      BY <1>0, <2>5, <3>1 DEF SMInv, InsideOK
    <3>. QED BY <1>0, <1>1, <2>4, <3>1, <3>2 DEF SMInv
  <2>. QED BY <2>6, <2>7
<1>. QED BY <1>3, <1>4
\* gcs_sm_continue() wakes the next waiter, unless a thread is still inside.
LEMMA ContinueStep ==
    ASSUME SMInv, Continue
    PROVE  SMInv'
<1>. USE HeadFacts
<1>. DEFINE q == WakeUpNext(users, wait_q_head, entered, wait, cond, asleep)
<1>1. /\ users' = q.users /\ wait_q_head' = q.head /\ asleep' = q.asleep /\ pause' = FALSE
      /\ UNCHANGED <<entered, ret, wait_q_tail, wait, cond, pc, slot, handle, aborted>>
  BY DEF Continue, SetQueue, threadVars
<1>2. /\ QueueOK(q.users, q.head, wait_q_tail, wait, cond, q.asleep, pc, slot)
      /\ entered # 0 => q.users = users /\ q.head = wait_q_head
  BY WakeUpNextOK DEF SMInv
<1>. HIDE DEF q
<1>3. TypeOK'
  BY <1>1 DEF SMInv, TypeOK
<1>4. InsideOK'
  BY <1>1, <1>2 DEF SMInv, InsideOK
<1>. QED BY <1>1, <1>2, <1>3, <1>4 DEF SMInv

\* The loops of gcs_sm_close(): a closer joins the line at the tail, or finds
\* the queue empty or full.
LEMMA CloseLoopOK ==
    ASSUME Prompt, TypeOK, InsideOK, NEW t \in Closers, pc[t] # "inside",
           NEW p \in [Threads -> SenderPc \cup CloserPc], p[t] \notin InLine,
           \A u \in Threads \ {t} : p[u] = pc[u],
           NEW q, NEW w, NEW c,
           QueueOK(q.users, q.head, wait_q_tail, w, c, q.asleep, p, slot),
           entered # 0 => q.users >= 1 /\ ~ w[q.head],
           ret' \in {"OK", "EBADFD"}, pause' \in BOOLEAN,
           CloseLoop(t, q, w, c)
    PROVE  SMInv'
<1>0. /\ t \in Threads /\ t \notin Senders /\ wait_q_head' = q.head
      /\ UNCHANGED <<entered, handle, aborted>>
      /\ slot \in [Threads -> Slots] /\ pc \in [Threads -> SenderPc \cup CloserPc]
      /\ entered \in 0..1
  BY ThreadAssumption DEF CloseLoop, Threads, TypeOK
<1>1. ASSUME NEW v \in CloserPc, pc' = [pc EXCEPT ![t] = v], slot' \in [Threads -> Slots],
             entered # 0 => users' >= 1 /\ ~ wait'[wait_q_head']
      PROVE  TypeOK' /\ InsideOK'
  <2>1. v # "inside"
    BY DEF CloserPc
  <2>2. \A u \in Threads : pc'[u] = "inside" <=> pc[u] = "inside"
    BY <1>0, <1>1, <2>1
  <2>3. entered = 0 => \A u \in Threads : pc[u] # "inside"
    BY DEF InsideOK
  <2>4. InsideOK'
    BY <1>0, <1>1, <2>2, <2>3 DEF InsideOK
  <2>5. /\ pc' \in [Threads -> SenderPc \cup CloserPc]
        /\ \A u \in Senders : pc'[u] \in SenderPc
        /\ \A u \in Closers : pc'[u] \in CloserPc
    BY <1>0, <1>1 DEF TypeOK, Threads
  <2>6. TypeOK'
    BY <1>0, <1>1, <2>5 DEF TypeOK
  <2>. QED BY <2>4, <2>6
<1>2. CASE /\ q.users \in 1..(WaitQLen - 1)
           /\ Enqueue(t, q.users, w, c, q.asleep)
           /\ pc' = [pc EXCEPT ![t] = "closing"]
  <2>. DEFINE i == Step(wait_q_tail, 1)
  <2>1. /\ users' = q.users + 1 /\ wait_q_tail' = i
        /\ wait' = [w EXCEPT ![i] = TRUE] /\ cond' = [c EXCEPT ![i] = t]
        /\ slot' = [slot EXCEPT ![t] = i] /\ asleep' = q.asleep \cup {t}
        /\ \A u \in Threads \ {t} : pc[u] \in InLine => slot[u] # i
    BY <1>2 DEF Enqueue, Reusable, InLine
  <2>2. q.users >= 1 /\ q.users < WaitQLen /\ q.users \in Int
    BY <1>2, LenAssumption
  <2>3. /\ i \in Slots /\ q.head \in Slots /\ w \in [Slots -> BOOLEAN]
    BY LenAssumption, StepValue DEF QueueOK
  <2>4. Joins(t, i, p, slot, pc', slot') /\ Fills(t, i, w, c, q.asleep, wait', cond', asleep')
    BY <1>0, <1>2, <2>1 DEF InLine, Joins, Fills
  <2>. HIDE DEF i
  <2>5. i = Step(wait_q_tail, 1)
    BY DEF i
  <2>6. /\ QueueOK(q.users + 1, q.head, i, wait', cond', asleep', pc', slot')
        /\ q.users >= 1 => i # q.head
    BY <1>0, <2>2, <2>4, <2>5, EnqueuePlace
  <2>7. entered # 0 => ~ wait'[q.head]
    BY <2>1, <2>2, <2>3, <2>6
  <2>8. slot' \in [Threads -> Slots]
    BY <1>0, <2>1, <2>3
  <2>9. TypeOK' /\ InsideOK'
    BY <1>0, <1>1, <1>2, <2>1, <2>2, <2>7, <2>8 DEF CloserPc
  <2>. QED BY <1>0, <2>1, <2>6, <2>9 DEF SMInv
<1>3. CASE /\ users' = q.users /\ asleep' = q.asleep /\ wait' = w /\ cond' = c
           /\ pc' = [pc EXCEPT ![t] = IF q.users = 0 THEN "closed" ELSE "full"]
           /\ UNCHANGED <<wait_q_tail, slot>>
  <2>1. PICK v \in {"closed", "full"} : pc' = [pc EXCEPT ![t] = v]
    BY <1>3
  <2>2. SameLine(p, slot, pc', slot')
    BY <1>0, <1>3, <2>1 DEF SameLine, InLine
  <2>3. QueueOK(users', wait_q_head', wait_q_tail', wait', cond', asleep', pc', slot')
    BY <1>0, <1>3, <2>2, OutOfLine
  <2>4. TypeOK' /\ InsideOK'
    BY <1>0, <1>1, <1>3, <2>1 DEF CloserPc
  <2>. QED BY <2>3, <2>4 DEF SMInv
<1>. QED BY <1>2, <1>3 DEF CloseLoop

\* gcs_sm_close() up to its first wait; a pause ends first.
LEMMA CloseStep ==
    ASSUME Prompt, SMInv, NEW t \in Closers, Close(t) \/ CloseRetry(t)
    PROVE  SMInv'
<1>. USE HeadFacts
<1>. DEFINE b == Close(t) /\ pause
            k == WakeUpNext(users, wait_q_head, entered, wait, cond, asleep)
            q == IF b THEN k ELSE Queue
<1>1. t \in Threads /\ pc[t] \in {"out", "full"}
  BY DEF Close, CloseRetry, Threads
<1>2. pc[t] # "inside" /\ pc[t] \notin InLine /\ pc \in [Threads -> SenderPc \cup CloserPc]
  BY <1>1 DEF InLine, SMInv, TypeOK
<1>3. ret' \in {"OK", "EBADFD"} /\ pause' \in BOOLEAN
  BY DEF Close, CloseRetry, SMInv, TypeOK
<1>4. CloseLoop(t, q, wait, cond)
  <2>1. CASE Close(t)
    BY <2>1 DEF Close
  <2>2. CASE ~ Close(t)
    BY <2>2 DEF CloseRetry
  <2>. QED BY <2>1, <2>2
<1>5. /\ QueueOK(k.users, k.head, wait_q_tail, wait, cond, k.asleep, pc, slot)
      /\ entered # 0 => k.users = users /\ k.head = wait_q_head
  BY WakeUpNextOK DEF SMInv
<1>6. /\ QueueOK(Queue.users, Queue.head, wait_q_tail, wait, cond, Queue.asleep, pc, slot)
      /\ Queue.users = users /\ Queue.head = wait_q_head
  BY DEF SMInv, Queue
<1>7. /\ QueueOK(q.users, q.head, wait_q_tail, wait, cond, q.asleep, pc, slot)
      /\ entered # 0 => q.users >= 1 /\ ~ wait[q.head]
  BY <1>5, <1>6
<1>. HIDE DEF q
<1>8. TypeOK /\ InsideOK
  BY DEF SMInv
<1>. QED BY <1>2, <1>3, <1>4, <1>7, <1>8, CloseLoopOK

\* gcs_sm_close() after its wait.
LEMMA CloseWokenStep ==
    ASSUME Prompt, SMInv, NEW t \in Closers, CloseWoken(t)
    PROVE  SMInv'
<1>. USE HeadFacts
<1>. DEFINE p == [pc EXCEPT ![t] = "out"]
            w == [wait EXCEPT ![slot[t]] = FALSE]
            c == [cond EXCEPT ![slot[t]] = NoThread]
            q == [users |-> users - 1, head |-> Step(wait_q_head, 1), asleep |-> asleep]
<1>1. t \in Threads /\ pc[t] = "closing" /\ t \notin asleep /\ UNCHANGED <<ret, pause>>
  BY DEF CloseWoken, Threads
<1>2. pc \in [Threads -> SenderPc \cup CloserPc] /\ TypeOK /\ InsideOK
  BY DEF SMInv, TypeOK
<1>3. QueueOK(users, wait_q_head, wait_q_tail, wait, cond, asleep, pc, slot)
  BY DEF SMInv
<1>4. slot[t] \in Slots /\ slot[t] = wait_q_head /\ wait[wait_q_head]
  BY <1>1, <1>3 DEF QueueOK, InLine
<1>5. entered = 0 /\ users >= 1
  BY <1>4
<1>6. /\ p \in [Threads -> SenderPc \cup CloserPc] /\ p[t] \notin InLine
      /\ \A u \in Threads \ {t} : p[u] = pc[u]
  BY <1>1, <1>2 DEF InLine, CloserPc
<1>7. Leaves(t, pc, slot, p, slot) /\ Empties(slot[t], wait, cond, w, c)
  BY <1>1, <1>6 DEF Leaves, Empties, InLine
<1>8. CloseLoop(t, q, w, c) /\ ~ w[wait_q_head]
  BY <1>4 DEF CloseWoken
<1>q. q.users = users - 1 /\ q.head = Step(wait_q_head, 1) /\ q.asleep = asleep
  OBVIOUS
<1>. HIDE DEF p, w, c, q
<1>9. QueueOK(users, wait_q_head, wait_q_tail, w, c, asleep, p, slot)
  BY <1>1, <1>3, <1>7, ClearPlace
<1>10. Step(wait_q_head, 0) = wait_q_head /\ 1 \in 0..users
  BY <1>5, LenAssumption, StepValue DEF Slots
<1>11. \A i \in 0..(1 - 1) : ~ w[Step(wait_q_head, i)]
  BY <1>8, <1>10
<1>12. QueueOK(q.users, q.head, wait_q_tail, w, c, q.asleep, p, slot)
  BY <1>9, <1>10, <1>11, <1>q, SkipQueue
<1>13. ret' \in {"OK", "EBADFD"} /\ pause' \in BOOLEAN
  BY <1>1 DEF SMInv, TypeOK
<1>. QED BY <1>1, <1>2, <1>5, <1>6, <1>8, <1>12, <1>13, CloseLoopOK

\* gcs_sm_open() after gcs_sm_close() has returned.
LEMMA OpenStep ==
    ASSUME SMInv, Open
    PROVE  SMInv'
<1>1. /\ UNCHANGED <<users, entered, pause, wait_q_head, wait_q_tail, wait, cond, asleep,
                     slot, handle, aborted>>
      /\ ret' = "OK" /\ pc' = [t \in Threads |-> IF t \in Closers THEN "out" ELSE pc[t]]
      /\ \A t \in Closers : pc[t] \in {"out", "closed"}
  BY DEF Open
<1>2. SameLine(pc, slot, pc', slot') /\ \A u \in Threads : pc'[u] = "inside" <=> pc[u] = "inside"
  BY <1>1 DEF SameLine, InLine
<1>3. QueueOK(users, wait_q_head, wait_q_tail, wait, cond, asleep, pc', slot')
  BY <1>2, OutOfLine DEF SMInv
<1>4. TypeOK'
  BY <1>1, ThreadAssumption DEF SMInv, TypeOK, SenderPc, CloserPc, Threads
<1>5. InsideOK'
  BY <1>1, <1>2 DEF SMInv, InsideOK
<1>. QED BY <1>1, <1>3, <1>4, <1>5 DEF SMInv

\* Every step of the send monitor keeps SMInv.
LEMMA NextSMInv ==
    ASSUME Prompt, SMInv, [Next]_vars
    PROVE  SMInv'
<1>1. CASE UNCHANGED vars
  BY <1>1 DEF vars, SMInv, TypeOK, InsideOK, QueueOK
<1>2. CASE Pause
  <2>1. TypeOK'
    BY <1>2 DEF Pause, threadVars, SMInv, TypeOK
  <2>. QED BY <1>2, <2>1 DEF Pause, threadVars, SMInv, InsideOK, QueueOK
<1>3. ASSUME NEW t \in Senders, SenderNext(t) PROVE SMInv'
  BY <1>3, SendStep, WokenStep, LeaveStep, DeliveredStep, InterruptStep DEF SenderNext
<1>4. ASSUME NEW t \in Closers, CloserNext(t) PROVE SMInv'
  BY <1>4, CloseStep, CloseWokenStep DEF CloserNext
<1>. QED BY <1>1, <1>2, <1>3, <1>4, ContinueStep, OpenStep DEF Next

----------------------------------------------------------------------------
(* The properties.                                                         *)

\* wait_q stays in order whatever mix of senders, interrupts, pauses and closing
\* threads runs: the invariant on which the other two theorems rest.
THEOREM QueueInvariantHolds ==
    ASSUME Prompt
    PROVE  Spec => []SMInv
<1>. QED BY InitSMInv, NextSMInv, PTL DEF Spec

\* gcs_core_send() is serialised: entered counts the threads between
\* gcs_sm_enter() and gcs_sm_leave(), and there is at most one.
THEOREM ExclusiveSendHolds ==
    ASSUME Prompt
    PROVE  Spec => []ExclusiveSend
<1>1. SMInv => ExclusiveSend
  <2>1. SUFFICES ASSUME SMInv PROVE ExclusiveSend
    OBVIOUS
  <2>2. entered \in 0..1
    BY <2>1 DEF SMInv, TypeOK
  <2>3. CASE entered = 0
    <3>1. Inside = {}
      BY <2>1, <2>3 DEF Inside, SMInv, InsideOK
    <3>. QED BY <2>3, <3>1, FS_EmptySet DEF ExclusiveSend
  <2>4. CASE entered = 1
    <3>1. PICK t \in Threads : pc[t] = "inside"
      BY <2>1, <2>4 DEF SMInv, InsideOK
    <3>2. Inside = {t}
      BY <2>1, <3>1 DEF Inside, SMInv, InsideOK
    <3>3. Cardinality({t}) = 1
      BY FS_Singleton, Zenon
    <3>. QED BY <2>4, <3>2, <3>3 DEF ExclusiveSend
  <2>. QED BY <2>2, <2>3, <2>4
<1>. QED BY <1>1, QueueInvariantHolds, PTL

\* The assertions of gcs_sm.h never fail: a thread back from its wait finds
\* itself at the head or interrupted, and the thread inside has emptied its place.
THEOREM SendMonitorAssertsHold ==
    ASSUME Prompt
    PROVE  Spec => []AssertsHold
<1>1. SMInv => AssertsHold
  <2>1. SUFFICES ASSUME SMInv PROVE AssertsHold
    OBVIOUS
  <2>2. /\ wait_q_head \in Slots /\ slot \in [Threads -> Slots]
        /\ \A i \in Slots : wait[i] <=> cond[i] # NoThread
    BY <2>1, HeadFacts DEF SMInv, QueueOK
  <2>3. ASSUME NEW t \in Threads, pc[t] \in {"waiting", "closing"}, t \notin asleep, wait[slot[t]]
        PROVE  slot[t] = wait_q_head /\ cond[slot[t]] = t
    <3>1. slot[t] = wait_q_head /\ slot[t] \in Slots
      BY <2>1, <2>2, <2>3 DEF SMInv, QueueOK, InLine
    <3>2. cond[slot[t]] \in Threads /\ slot[cond[slot[t]]] = slot[t] /\ pc[cond[slot[t]]] \in InLine
      BY <2>1, <2>3, <3>1 DEF SMInv, QueueOK
    <3>. QED BY <2>1, <2>3, <3>1, <3>2 DEF SMInv, QueueOK, InLine
  <2>4. ASSUME NEW t \in Threads, pc[t] = "inside"
        PROVE  ~ wait[wait_q_head] /\ cond[wait_q_head] = NoThread
    BY <2>1, <2>2, <2>4 DEF SMInv, InsideOK
  <2>. QED BY <2>2, <2>3, <2>4 DEF AssertsHold
<1>. QED BY <1>1, QueueInvariantHolds, PTL
============================================================================
