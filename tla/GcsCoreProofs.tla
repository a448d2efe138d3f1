--------------------------- MODULE GcsCoreProofs ----------------------------
(***************************************************************************)
(* Proofs about GcsCore: what the group takes a process for is what the    *)
(* process holds (JoinedHasState of GcsCoreProperties).                    *)
(***************************************************************************)
EXTENDS GcsCoreProperties, FiniteSetTheorems, WellFoundedInduction, NaturalsInduction, TLAPS

----------------------------------------------------------------------------
(* Sequences, whatever their elements *)

\* a sequence of whatever
IsSeq(s) == \E S : s \in Seq(S)

\* A sequence is a function on 1..Len.
LEMMA SeqShape ==
    ASSUME NEW s, IsSeq(s)
    PROVE  Len(s) \in Nat /\ DOMAIN s = 1..Len(s) /\ (s # <<>> => Len(s) >= 1)
BY DEF IsSeq

\* The empty sequence.
LEMMA SeqEmpty == IsSeq(<<>>) /\ Len(<<>>) = 0
<1>1. <<>> \in Seq({})
  OBVIOUS
<1>. QED BY <1>1 DEF IsSeq

\* What Append adds and what it leaves.
LEMMA SeqAppend ==
    ASSUME NEW s, IsSeq(s), NEW m
    PROVE  /\ IsSeq(Append(s, m)) /\ Append(s, m) # <<>>
           /\ Len(Append(s, m)) = Len(s) + 1
           /\ \A i \in 1..Len(s) : Append(s, m)[i] = s[i]
           /\ Append(s, m)[Len(s) + 1] = m
<1>1. PICK S : s \in Seq(S)
  BY DEF IsSeq
<1>2. s \in Seq(S \cup {m})
  BY <1>1
<1>3. Append(s, m) \in Seq(S \cup {m})
  BY <1>2
<1>. QED BY <1>2, <1>3 DEF IsSeq

\* What Tail leaves.
LEMMA SeqTail ==
    ASSUME NEW s, IsSeq(s), s # <<>>
    PROVE  /\ IsSeq(Tail(s)) /\ Len(Tail(s)) = Len(s) - 1 /\ Len(s) \in Nat \ {0}
           /\ Head(s) = s[1]
           /\ \A i \in 1..(Len(s) - 1) : Tail(s)[i] = s[i + 1]
BY DEF IsSeq

\* A part of a sequence.
LEMMA SeqPart ==
    ASSUME NEW s, IsSeq(s), NEW k \in 0..Len(s)
    PROVE  /\ IsSeq(SubSeq(s, 1, k)) /\ Len(SubSeq(s, 1, k)) = k
           /\ \A i \in 1..k : SubSeq(s, 1, k)[i] = s[i]
           /\ IsSeq(SubSeq(s, k + 1, Len(s))) /\ Len(SubSeq(s, k + 1, Len(s))) = Len(s) - k
           /\ \A i \in 1..(Len(s) - k) : SubSeq(s, k + 1, Len(s))[i] = s[k + i]
<1>1. PICK S : s \in Seq(S)
  BY DEF IsSeq
<1>2. Len(s) \in Nat /\ k \in Nat /\ k <= Len(s)
  BY <1>1
<1>3. SubSeq(s, 1, k) \in Seq(S)
  BY <1>1, <1>2
<1>4. SubSeq(s, k + 1, Len(s)) \in Seq(S)
  BY <1>1, <1>2
<1>5. Len(SubSeq(s, 1, k)) = k /\ \A i \in 1..k : SubSeq(s, 1, k)[i] = s[i]
  BY <1>1, <1>2
<1>6. /\ Len(SubSeq(s, k + 1, Len(s))) = Len(s) - k
      /\ \A i \in 1..(Len(s) - k) : SubSeq(s, k + 1, Len(s))[i] = s[k + i]
  BY <1>1, <1>2
<1>. QED BY <1>3, <1>4, <1>5, <1>6 DEF IsSeq

\* Two sequences one after the other.
LEMMA SeqJoin ==
    ASSUME NEW s, NEW t, IsSeq(s), IsSeq(t)
    PROVE  /\ IsSeq(s \o t) /\ Len(s \o t) = Len(s) + Len(t)
           /\ \A i \in 1..Len(s) : (s \o t)[i] = s[i]
           /\ \A i \in 1..Len(t) : (s \o t)[Len(s) + i] = t[i]
<1>1. PICK S : s \in Seq(S)
  BY DEF IsSeq
<1>2. PICK T : t \in Seq(T)
  BY DEF IsSeq
<1>3. s \in Seq(S \cup T) /\ t \in Seq(S \cup T)
  BY <1>1, <1>2
<1>4. s \o t \in Seq(S \cup T)
  BY <1>3
<1>. QED BY <1>3, <1>4 DEF IsSeq

----------------------------------------------------------------------------
(* What ViewNonPrim keeps of the messages of the old view *)

\* A set of naturals has a least element.
LEMMA Least ==
    ASSUME NEW T, T \subseteq Nat, T # {}
    PROVE  \E n \in T : \A k \in T : n <= k
<1>1. \E n \in T : \A k \in T : ~ (<<k, n>> \in OpToRel(<, Nat))
  BY WFMin, NatLessThanWellFounded, Zenon
<1>2. PICK n \in T : \A k \in T : ~ (<<k, n>> \in OpToRel(<, Nat))
  BY <1>1
<1>3. \A k \in T : ~ (k < n)
  BY <1>2, Zenon DEF OpToRel
<1>. QED BY <1>3

\* one step of the recursion of SentBy, and its solution
KeptStep(s, S, f, i) ==
    IF i = 0 THEN <<>>
    ELSE IF s[i].from \in S THEN Append(f[i - 1], s[i]) ELSE f[i - 1]

Kept(s, S) == CHOOSE f : f = [i \in 0..Len(s) |-> KeptStep(s, S, f, i)]

\* The recursion has a solution.
LEMMA KeptExists ==
    ASSUME NEW s, IsSeq(s), NEW S
    PROVE  Kept(s, S) = [i \in 0..Len(s) |-> KeptStep(s, S, Kept(s, S), i)]
<1>. DEFINE Good(n) == \E f : f = [i \in 0..n |-> KeptStep(s, S, f, i)]
            Bad == {n \in Nat : ~ Good(n)}
<1>1. Good(0)
  <2>. DEFINE f == [i \in 0..0 |-> <<>>]
  <2>1. f = [i \in 0..0 |-> KeptStep(s, S, f, i)]
    BY DEF KeptStep
  <2>. QED BY <2>1
<1>2. ASSUME NEW n \in Nat, Good(n) PROVE Good(n + 1)
  <2>1. PICK f : f = [i \in 0..n |-> KeptStep(s, S, f, i)]
    BY <1>2
  <2>. DEFINE f1 == [i \in 0..(n + 1) |-> KeptStep(s, S, f, i)]
  <2>2. ASSUME NEW i \in 0..(n + 1) PROVE KeptStep(s, S, f, i) = KeptStep(s, S, f1, i)
    <3>1. CASE i = 0
      BY <3>1 DEF KeptStep
    <3>2. CASE i # 0
      <4>1. i - 1 \in 0..n /\ i - 1 \in 0..(n + 1)
        BY <3>2
      <4>2. f[i - 1] = KeptStep(s, S, f, i - 1) /\ f1[i - 1] = KeptStep(s, S, f, i - 1)
        BY <2>1, <4>1
      <4>3. f[i - 1] = f1[i - 1]
        BY <4>2
      <4>. HIDE DEF f1
      <4>. QED BY <3>2, <4>3 DEF KeptStep
    <3>. QED BY <3>1, <3>2
  <2>3. f1 = [i \in 0..(n + 1) |-> KeptStep(s, S, f1, i)]
    BY <2>2
  <2>. QED BY <2>3
<1>. HIDE DEF Good
<1>3. Bad = {}
  <2>1. SUFFICES ASSUME Bad # {} PROVE FALSE
    OBVIOUS
  <2>2. PICK n \in Bad : \A k \in Bad : n <= k
    <3>1. Bad \subseteq Nat
      OBVIOUS
    <3>. QED BY <2>1, <3>1, Least, Zenon
  <2>3. n # 0 /\ n - 1 \in Nat /\ n - 1 \notin Bad
    BY <1>1, <2>2
  <2>4. Good((n - 1) + 1)
    BY <1>2, <2>3
  <2>5. (n - 1) + 1 = n
    OBVIOUS
  <2>. QED BY <2>4, <2>5
<1>4. Len(s) \in Nat
  BY SeqShape
<1>5. Good(Len(s))
  BY <1>3, <1>4
<1>. QED BY <1>5 DEF Kept, Good

\* t consists of elements of the first n of s, in their order.
Picked(t, s, n) ==
    /\ IsSeq(t)
    /\ \E h : /\ \A a \in 1..Len(t) : h[a] \in 1..n /\ t[a] = s[h[a]]
              /\ \A a, b \in 1..Len(t) : a < b => h[a] < h[b]

\* What is picked of the first n is picked of the first n + 1, and one more may be.
LEMMA PickedMore ==
    ASSUME NEW s, NEW t, NEW n \in Nat, Picked(t, s, n)
    PROVE  Picked(t, s, n + 1) /\ Picked(Append(t, s[n + 1]), s, n + 1)
<1>1. IsSeq(t) /\ Len(t) \in Nat
  BY SeqShape DEF Picked
<1>2. PICK h : /\ \A a \in 1..Len(t) : h[a] \in 1..n /\ t[a] = s[h[a]]
               /\ \A a, b \in 1..Len(t) : a < b => h[a] < h[b]
  BY DEF Picked
<1>3. Picked(t, s, n + 1)
  <2>1. \A a \in 1..Len(t) : h[a] \in 1..(n + 1) /\ t[a] = s[h[a]]
    BY <1>2
  <2>. QED BY <1>1, <1>2, <2>1 DEF Picked
<1>4. Picked(Append(t, s[n + 1]), s, n + 1)
  <2>. DEFINE u == Append(t, s[n + 1])
              k == [a \in 1..(Len(t) + 1) |-> IF a = Len(t) + 1 THEN n + 1 ELSE h[a]]
  <2>1. /\ IsSeq(u) /\ Len(u) = Len(t) + 1 /\ \A i \in 1..Len(t) : u[i] = t[i]
        /\ u[Len(t) + 1] = s[n + 1]
    BY <1>1, SeqAppend
  <2>. HIDE DEF u
  <2>2. \A a \in 1..Len(u) : k[a] \in 1..(n + 1) /\ u[a] = s[k[a]]
    BY <1>1, <1>2, <2>1
  <2>3. \A a, b \in 1..Len(u) : a < b => k[a] < k[b]
    <3>1. SUFFICES ASSUME NEW a \in 1..Len(u), NEW b \in 1..Len(u), a < b PROVE k[a] < k[b]
      OBVIOUS
    <3>2. a \in 1..Len(t)
      BY <1>1, <2>1, <3>1
    <3>3. CASE b = Len(t) + 1
      BY <1>1, <1>2, <2>1, <3>2, <3>3
    <3>4. CASE b \in 1..Len(t)
      BY <1>1, <1>2, <2>1, <3>1, <3>2, <3>4
    <3>. QED BY <1>1, <2>1, <3>3, <3>4
  <2>. HIDE DEF k
  <2>. QED BY <2>1, <2>2, <2>3 DEF Picked, u
<1>. QED BY <1>3, <1>4

\* SentBy keeps elements of s, in their order.
LEMMA SentByPicks ==
    ASSUME NEW s, IsSeq(s), NEW S
    PROVE  Picked(SentBy(s, S), s, Len(s))
<1>. DEFINE F == Kept(s, S)
            Bad == {n \in 0..Len(s) : ~ Picked(F[n], s, n)}
<1>1. \A i \in 0..Len(s) : F[i] = KeptStep(s, S, F, i)
  <2>1. F = [i \in 0..Len(s) |-> KeptStep(s, S, F, i)]
    BY KeptExists
  <2>. HIDE DEF F
  <2>. QED BY <2>1
<1>2. SentBy(s, S) = F[Len(s)]
  BY DEF SentBy, Kept, KeptStep
<1>. HIDE DEF F
<1>3. Len(s) \in Nat
  BY SeqShape
<1>4. Bad = {}
  <2>1. SUFFICES ASSUME Bad # {} PROVE FALSE
    OBVIOUS
  <2>2. PICK n \in Bad : \A k \in Bad : n <= k
    <3>1. Bad \subseteq Nat
      BY <1>3
    <3>. QED BY <2>1, <3>1, Least, Zenon
  <2>3. CASE n = 0
    <3>1. F[n] = <<>>
      BY <1>1, <2>3, <1>3 DEF KeptStep
    <3>2. Picked(<<>>, s, n)
      BY SeqEmpty DEF Picked
    <3>. QED BY <2>2, <3>1, <3>2
  <2>4. CASE n # 0
    <3>1. n - 1 \in 0..Len(s) /\ n - 1 \in Nat /\ (n - 1) + 1 = n /\ ~ (n <= n - 1) /\ n \in 0..Len(s)
      BY <1>3, <2>4
    <3>2. Picked(F[n - 1], s, n - 1)
      BY <2>2, <3>1
    <3>3. Picked(F[n - 1], s, n) /\ Picked(Append(F[n - 1], s[n]), s, n)
      BY <3>1, <3>2, PickedMore, Zenon
    <3>4. F[n] = Append(F[n - 1], s[n]) \/ F[n] = F[n - 1]
      BY <1>1, <2>4, <3>1 DEF KeptStep
    <3>. QED BY <2>2, <3>3, <3>4
  <2>. QED BY <2>3, <2>4
<1>. QED BY <1>2, <1>3, <1>4

----------------------------------------------------------------------------
(* The quorum *)

\* A finite set that a relation orders has a top element.
LEMMA TopExists ==
    ASSUME NEW S, IsFiniteSet(S), S # {}, NEW R,
           \A x, y \in S : <<x, y>> \in R \/ <<y, x>> \in R,
           \A x, y, z \in S : <<x, y>> \in R /\ <<y, z>> \in R => <<x, z>> \in R
    PROVE  \E t \in S : \A x \in S : <<t, x>> \in R
<1>. DEFINE Topped(s) == \E t \in s : \A x \in s : <<t, x>> \in R
            Bad == {s \in SUBSET S : s # {} /\ ~ Topped(s)}
            T == {Cardinality(s) : s \in Bad}
<1>1. \A s \in SUBSET S : IsFiniteSet(s) /\ Cardinality(s) \in Nat
  BY FS_Subset, FS_CardinalityType
<1>2. Bad = {}
  <2>1. SUFFICES ASSUME Bad # {} PROVE FALSE
    OBVIOUS
  <2>2. T \subseteq Nat /\ T # {}
    BY <1>1, <2>1
  <2>3. PICK n \in T : \A k \in T : n <= k
    BY <2>2, Least, Zenon
  <2>4. PICK s \in Bad : \A r \in Bad : Cardinality(s) <= Cardinality(r)
    BY <2>3
  <2>5. PICK x \in s : TRUE
    BY <2>4
  <2>. DEFINE r == s \ {x}
  <2>6. /\ r \in SUBSET S /\ Cardinality(r) = Cardinality(s) - 1
        /\ Cardinality(s) \in Nat
    BY <1>1, <2>4, <2>5, FS_RemoveElement
  <2>7. r \notin Bad
    <3>1. ~ (Cardinality(s) <= Cardinality(r))
      <4>. HIDE DEF r
      <4>. QED BY <2>6
    <3>. HIDE DEF r, Bad
    <3>. QED BY <2>4, <3>1
  <2>8. CASE r = {}
    BY <2>4, <2>5, <2>8
  <2>9. CASE r # {}
    <3>1. PICK t \in r : \A y \in r : <<t, y>> \in R
      BY <2>6, <2>7, <2>9
    <3>2. CASE <<t, x>> \in R
      BY <2>4, <2>5, <3>1, <3>2
    <3>3. CASE <<x, t>> \in R
      <4>1. \A y \in r : <<x, y>> \in R
        BY <2>4, <2>5, <3>1, <3>3
      <4>2. <<x, x>> \in R
        BY <2>4, <2>5
      <4>. QED BY <2>4, <2>5, <4>1, <4>2
    <3>. QED BY <2>4, <2>5, <3>1, <3>2, <3>3
  <2>. QED BY <2>8, <2>9
<1>. QED BY <1>2

\* every process that the operator may bootstrap was started with a history
KnownHistories == MayBootstrap => \A p \in Procs : History[p].uuid # GU_UUID_NIL

\* the state message of a member, and what it says of the sender
IsState(s) ==
    /\ s = [uuid |-> s.uuid, group_uuid |-> s.group_uuid, prim_seqno |-> s.prim_seqno,
            received |-> s.received, prim_joined |-> s.prim_joined,
            prim_state |-> s.prim_state, current_state |-> s.current_state,
            cla |-> s.cla, bootstrap |-> s.bootstrap]
    /\ s.uuid \in Nat /\ s.group_uuid \in Nat /\ s.prim_seqno \in Int /\ s.received \in Int
    /\ s.prim_state \in NodeStates /\ s.current_state \in NodeStates
    /\ s.current_state = PRIM => s.prim_state = PRIM
    /\ KnownHistories /\ (s.current_state # NON_PRIM \/ s.prim_state # NON_PRIM \/ s.bootstrap)
          => s.group_uuid # GU_UUID_NIL

\* the state messages an exchange has collected
AllStates(states) ==
    /\ IsFiniteSet(DOMAIN states) /\ DOMAIN states \subseteq Nat
    /\ \A i \in DOMAIN states : IsState(states[i])

\* The members of a nonempty set have a representative, which has received
\* the most.
LEMMA RepresentativeExists ==
    ASSUME NEW states, AllStates(states), NEW S, S \subseteq DOMAIN states, S # {}
    PROVE  /\ Representative(states, S) \in S
           /\ \A j \in S : states[j].received <= states[Representative(states, S)].received
<1>. DEFINE Beats(i, j) == IF i < j THEN state_nodes_compare(states[i], states[j])
                                    ELSE ~ state_nodes_compare(states[j], states[i])
            R == {e \in S \X S : e[1] = e[2] \/ Beats(e[1], e[2])}
<1>1. IsFiniteSet(S)
  BY FS_Subset DEF AllStates
<1>2. \A i \in S : i \in Nat /\ states[i].received \in Int /\ states[i].prim_seqno \in Int
  BY DEF AllStates, IsState
<1>3. \A x, y \in S : <<x, y>> \in R \/ <<y, x>> \in R
  BY <1>2
<1>4. \A x, y, z \in S : <<x, y>> \in R /\ <<y, z>> \in R => <<x, z>> \in R
  <2>1. SUFFICES ASSUME NEW x \in S, NEW y \in S, NEW z \in S, x # y, y # z, x # z,
                        Beats(x, y), Beats(y, z)
                 PROVE  Beats(x, z)
    OBVIOUS
  <2>. QED BY <1>2, <2>1 DEF state_nodes_compare
<1>5. \E t \in S : \A x \in S : <<t, x>> \in R
  <2>. HIDE DEF R
  <2>. QED BY <1>1, <1>3, <1>4, TopExists
<1>6. \E t \in S : \A j \in S \ {t} : Beats(t, j)
  BY <1>5
<1>7. /\ Representative(states, S) \in S
      /\ \A j \in S \ {Representative(states, S)} : Beats(Representative(states, S), j)
  BY <1>6 DEF Representative
<1>. QED BY <1>2, <1>7 DEF state_nodes_compare

\* A re-merge or a bootstrap follows one of the members that count for it.
LEMMA RemergeFollows ==
    ASSUME NEW states, AllStates(states), NEW bootstrap,
           state_quorum_remerge(states, bootstrap) # GCS_QUORUM_NON_PRIMARY
    PROVE  \E i \in Eligible(states, bootstrap) :
               state_quorum_remerge(states, bootstrap) = Inherited(states[i])
<1>. DEFINE E == Eligible(states, bootstrap)
            C == Candidates(states, bootstrap)
            D == {First(C)} \cup Others(states, C)
            c == state_rep_candidate(states, C)
            M == {i \in E : StateOf(states[i]) = StateOf(states[c])}
            R == {e \in D \X D : \/ e[1] = e[2]
                                 \/ states[e[2]].received < states[e[1]].received
                                 \/ /\ states[e[2]].received = states[e[1]].received
                                    /\ e[1] < e[2]}
<1>1. C # {} /\ state_quorum_remerge(states, bootstrap) = Inherited(states[Representative(states, M)])
  BY DEF state_quorum_remerge
<1>2. E \subseteq DOMAIN states /\ C \subseteq E
  BY DEF Eligible, Candidates
<1>3. First(C) \in C
  <2>1. C \subseteq Nat
    BY <1>2 DEF AllStates
  <2>2. \E n \in C : \A k \in C : n <= k
    <3>. HIDE DEF C
    <3>. QED BY <1>1, <2>1, Least, Zenon
  <2>. QED BY <2>2 DEF First
<1>4. D \subseteq C /\ D # {}
  BY <1>3 DEF Others
<1>5. c \in D
  <2>. HIDE DEF C, E
  <2>1. IsFiniteSet(D)
    BY <1>2, <1>4, FS_Subset DEF AllStates
  <2>2. \A i \in D : i \in Nat /\ states[i].received \in Int
    BY <1>2, <1>4 DEF AllStates, IsState
  <2>3. \A x, y \in D : <<x, y>> \in R \/ <<y, x>> \in R
    <3>. HIDE DEF D
    <3>. QED BY <2>2
  <2>4. \A x, y, z \in D : <<x, y>> \in R /\ <<y, z>> \in R => <<x, z>> \in R
    <3>. HIDE DEF D
    <3>. QED BY <2>2
  <2>5. \E t \in D : \A x \in D : <<t, x>> \in R
    <3>. HIDE DEF D, R
    <3>. QED BY <1>4, <2>1, <2>3, <2>4, TopExists
  <2>6. \E i \in D : \A j \in D \ {i} : \/ states[j].received < states[i].received
                                        \/ states[j].received = states[i].received /\ i < j
    <3>. HIDE DEF D
    <3>. QED BY <2>5
  <2>. QED BY <2>6 DEF state_rep_candidate
<1>6. M # {} /\ M \subseteq E
  BY <1>2, <1>4, <1>5
<1>7. Representative(states, M) \in M
  BY <1>2, <1>6, RepresentativeExists
<1>. QED BY <1>1, <1>6, <1>7

\* The quorum follows one of the members: one that is joined, one that was
\* joined in its last primary configuration, or one that is bootstrapped.
LEMMA QuorumFollows ==
    ASSUME NEW states, AllStates(states), gcs_state_msg_get_quorum(states).primary
    PROVE  \E i \in DOMAIN states :
               /\ gcs_state_msg_get_quorum(states) = Inherited(states[i])
               /\ \/ gcs_node_is_joined(states[i].current_state)
                  \/ gcs_node_is_joined(states[i].prim_state)
                  \/ states[i].bootstrap
<1>. DEFINE q == gcs_state_msg_get_quorum(states)
<1>1. ~ GCS_QUORUM_NON_PRIMARY.primary
  BY DEF GCS_QUORUM_NON_PRIMARY
<1>2. \/ q = state_quorum_inherit(states)
      \/ q = state_quorum_remerge(states, FALSE)
      \/ q = state_quorum_remerge(states, TRUE)
  BY Zenon DEF gcs_state_msg_get_quorum
<1>3. q # GCS_QUORUM_NON_PRIMARY
  BY <1>1
<1>4. CASE q = state_quorum_inherit(states)
  <2>1. Joined(states) # {} /\ q = Inherited(states[Representative(states, Joined(states))])
    BY <1>3, <1>4 DEF state_quorum_inherit
  <2>2. Joined(states) \subseteq DOMAIN states
    BY DEF Joined
  <2>3. Representative(states, Joined(states)) \in Joined(states)
    BY <2>1, <2>2, RepresentativeExists
  <2>. QED BY <2>1, <2>3 DEF Joined
<1>5. CASE q = state_quorum_remerge(states, FALSE)
  <2>1. PICK i \in Eligible(states, FALSE) : state_quorum_remerge(states, FALSE) = Inherited(states[i])
    BY <1>3, <1>5, RemergeFollows, Zenon
  <2>2. i \in DOMAIN states /\ gcs_node_is_joined(states[i].prim_state)
    BY Zenon DEF Eligible
  <2>. QED BY <1>5, <2>1, <2>2
<1>6. CASE q = state_quorum_remerge(states, TRUE)
  <2>1. PICK i \in Eligible(states, TRUE) : state_quorum_remerge(states, TRUE) = Inherited(states[i])
    BY <1>3, <1>6, RemergeFollows, Zenon
  <2>2. i \in DOMAIN states /\ states[i].bootstrap
    BY Zenon DEF Eligible
  <2>. QED BY <1>6, <2>1, <2>2
<1>. QED BY <1>2, <1>4, <1>5, <1>6

----------------------------------------------------------------------------
(* The group context *)

\* a gcs_node
IsNode(n) ==
    /\ n = [status |-> n.status, last_applied |-> n.last_applied,
            count_last_applied |-> n.count_last_applied, bootstrap |-> n.bootstrap,
            donor |-> n.donor, joiner |-> n.joiner, state_msg |-> n.state_msg, app |-> n.app]
    /\ n.status \in NodeStates
    /\ n.state_msg = NoState \/ IsState(n.state_msg)

\* the nodes of a component
IsNodes(nodes) ==
    /\ nodes = [i \in DOMAIN nodes |-> nodes[i]]
    /\ IsFiniteSet(DOMAIN nodes) /\ DOMAIN nodes \subseteq Nat
    /\ \A i \in DOMAIN nodes : IsNode(nodes[i])

\* the states of gcs_group
GroupStates == {"NON_PRIMARY", "WAIT_STATE_UUID", "WAIT_STATE_MSG", "PRIMARY"}

\* the fields of a gcs_group
IsContext(g) ==
    g = [state |-> g.state, act_id |-> g.act_id, conf_id |-> g.conf_id,
         state_uuid |-> g.state_uuid, group_uuid |-> g.group_uuid,
         prim_seqno |-> g.prim_seqno, prim_num |-> g.prim_num, prim_state |-> g.prim_state,
         last_applied |-> g.last_applied, last_node |-> g.last_node,
         frag_reset |-> g.frag_reset, my_id |-> g.my_id, nodes |-> g.nodes]

\* the context of a process that has received a component
IsGroup(g) ==
    /\ IsContext(g) /\ IsNodes(g.nodes)
    /\ g.state \in GroupStates /\ g.prim_state \in NodeStates
    /\ g.act_id \in Int /\ g.prim_seqno \in Int
    /\ g.group_uuid \in Nat /\ g.state_uuid \in Nat
    /\ g.my_id \in Members(g)

\* The status in the primary component that ends is saved.
LEMMA SavePrim ==
    ASSUME NEW g, IsGroup(g)
    PROVE  LET h == SavePrimState(g)
           IN  /\ IsGroup(h) /\ h = [g EXCEPT !.prim_state = h.prim_state]
               /\ h.prim_state = IF g.state = "PRIMARY" THEN MyNode(g).status ELSE g.prim_state
               /\ h.nodes = g.nodes /\ h.my_id = g.my_id
BY DEF SavePrimState, IsGroup, IsContext, IsNodes, IsNode, MyNode, Members

\* group_redo_last_applied() changes nothing that matters here.
LEMMA Redo ==
    ASSUME NEW g, IsGroup(g)
    PROVE  LET h == group_redo_last_applied(g)
           IN  /\ IsGroup(h) /\ h.nodes = g.nodes /\ h.my_id = g.my_id
               /\ h.state = g.state /\ h.act_id = g.act_id /\ h.state_uuid = g.state_uuid 
               /\ h.group_uuid = g.group_uuid /\ h.prim_state = g.prim_state
BY DEF group_redo_last_applied, IsGroup, IsContext, IsNodes, IsNode, Members

\* what gcs_group_handle_comp_msg() does after it has left the old component
NewComponent(g, p, comp) ==
    IF ~ comp.prim THEN Remap(g, p, comp.members)
    ELSE group_redo_last_applied(
            [group_nodes_reset(Remap(g, p, comp.members)) EXCEPT
                !.state = "WAIT_STATE_UUID", !.state_uuid = GU_UUID_NIL])

\* a component that p is a member of
IsComponent(comp, p) ==
    /\ IsFiniteSet(comp.members) /\ comp.members \subseteq Nat /\ p \in comp.members

\* a context in which the own index is not yet up to date
IsLeft(g) ==
    /\ IsContext(g) /\ IsNodes(g.nodes)
    /\ g.state \in GroupStates /\ g.prim_state \in NodeStates
    /\ g.act_id \in Int /\ g.prim_seqno \in Int
    /\ g.group_uuid \in Nat /\ g.state_uuid \in Nat

\* own node in the new component
OwnIn(g, p) == IF p \in Members(g) THEN g.nodes[p] ELSE gcs_node_init

\* A node that is new to the group.
LEMMA InitNode == IsNode(gcs_node_init)
BY DEF gcs_node_init, IsNode, NodeStates, NON_PRIM, SYNCED

\* The nodes are those of the new component; own node is kept if it was there.
LEMMA Remapped ==
    ASSUME NEW g, IsLeft(g), NEW p \in Nat, NEW comp, IsComponent(comp, p)
    PROVE  LET h == Remap(g, p, comp.members)
           IN  /\ IsGroup(h) /\ Members(h) = comp.members /\ h.my_id = p /\ h.nodes[p] = OwnIn(g, p)
               /\ h.state = g.state /\ h.act_id = g.act_id /\ h.state_uuid = g.state_uuid
               /\ h.group_uuid = g.group_uuid /\ h.prim_state = g.prim_state
<1>. DEFINE h == Remap(g, p, comp.members)
            nodes == [i \in comp.members |-> IF i \in Members(g) THEN g.nodes[i] ELSE gcs_node_init]
<1>1. IsNodes(nodes) /\ DOMAIN nodes = comp.members /\ nodes[p] = OwnIn(g, p)
  BY InitNode DEF IsNodes, IsLeft, IsComponent, Members, OwnIn
<1>2. h = [g EXCEPT !.my_id = p, !.nodes = nodes]
  BY DEF Remap
<1>. HIDE DEF nodes, h
<1>3. /\ IsContext(h) /\ h.nodes = nodes /\ h.my_id = p /\ h.prim_seqno = g.prim_seqno
      /\ h.state = g.state /\ h.act_id = g.act_id /\ h.state_uuid = g.state_uuid
      /\ h.group_uuid = g.group_uuid /\ h.prim_state = g.prim_state
  BY <1>2 DEF IsLeft, IsContext
<1>4. IsGroup(h)
  BY <1>1, <1>3 DEF IsGroup, IsLeft, Members, IsComponent
<1>. QED BY <1>1, <1>3, <1>4 DEF h, Members

\* The action a node is in the middle of does not matter here.
LEMMA NodeApp ==
    ASSUME NEW n, IsNode(n), NEW a
    PROVE  LET k == [n EXCEPT !.app = a]
           IN  /\ IsNode(k) /\ k.status = n.status /\ k.state_msg = n.state_msg
               /\ k.bootstrap = n.bootstrap
BY DEF IsNode

\* Statuses and bootstrap marks survive the reset of the nodes.
LEMMA ResetNodes ==
    ASSUME NEW g, IsGroup(g)
    PROVE  LET h == group_nodes_reset(g)
           IN  /\ IsGroup(h) /\ Members(h) = Members(g) /\ h.my_id = g.my_id
               /\ h.state = g.state /\ h.act_id = g.act_id /\ h.state_uuid = g.state_uuid
               /\ h.group_uuid = g.group_uuid /\ h.prim_state = g.prim_state
               /\ \A i \in Members(g) :
                    /\ h.nodes[i].status = g.nodes[i].status
                    /\ h.nodes[i].state_msg = g.nodes[i].state_msg
                    /\ h.nodes[i].bootstrap = g.nodes[i].bootstrap
<1>. DEFINE own(n) == [n EXCEPT !.app.reset = TRUE]
            other(n) == [n EXCEPT !.app = [gcs_defrag_init EXCEPT !.reset = TRUE]]
            nodes == [i \in Members(g) |-> IF i = g.my_id THEN own(g.nodes[i]) ELSE other(g.nodes[i])]
            h == group_nodes_reset(g)
<1>1. ASSUME NEW n, IsNode(n)
      PROVE  /\ IsNode(own(n)) /\ own(n).status = n.status /\ own(n).state_msg = n.state_msg
             /\ own(n).bootstrap = n.bootstrap
             /\ IsNode(other(n)) /\ other(n).status = n.status /\ other(n).state_msg = n.state_msg
             /\ other(n).bootstrap = n.bootstrap
  <2>. DEFINE a == [n.app EXCEPT !.reset = TRUE]
              b == [gcs_defrag_init EXCEPT !.reset = TRUE]
  <2>1. own(n) = [n EXCEPT !.app = a]
    BY <1>1 DEF IsNode
  <2>2. other(n) = [n EXCEPT !.app = b]
    OBVIOUS
  <2>. HIDE DEF a, b, own, other
  <2>. QED BY <1>1, <2>1, <2>2, NodeApp
<1>2. h = [g EXCEPT !.nodes = nodes, !.frag_reset = TRUE]
  BY Zenon DEF group_nodes_reset
<1>. HIDE DEF own, other
<1>3. /\ IsNodes(nodes) /\ DOMAIN nodes = Members(g)
      /\ \A i \in Members(g) : /\ nodes[i].status = g.nodes[i].status
                               /\ nodes[i].state_msg = g.nodes[i].state_msg
                               /\ nodes[i].bootstrap = g.nodes[i].bootstrap
  BY <1>1 DEF IsNodes, IsGroup, Members
<1>. HIDE DEF nodes, h
<1>4. /\ IsContext(h) /\ h.nodes = nodes /\ h.my_id = g.my_id /\ h.prim_seqno = g.prim_seqno
      /\ h.state = g.state /\ h.act_id = g.act_id /\ h.state_uuid = g.state_uuid
      /\ h.group_uuid = g.group_uuid /\ h.prim_state = g.prim_state
  BY <1>2 DEF IsGroup, IsContext
<1>5. IsGroup(h)
  BY <1>3, <1>4 DEF IsGroup, Members
<1>. QED BY <1>3, <1>4, <1>5 DEF h, Members

\* The new component: members, own index and state; the rest is kept.
LEMMA NewComponentKeeps ==
    ASSUME NEW g, IsLeft(g), NEW p \in Nat, NEW comp, IsComponent(comp, p),
           ~ comp.prim => g.state = "NON_PRIMARY"
    PROVE  LET h == NewComponent(g, p, comp)
           IN  /\ IsGroup(h) /\ Members(h) = comp.members /\ h.my_id = p
               /\ h.state = IF comp.prim THEN "WAIT_STATE_UUID" ELSE "NON_PRIMARY"
               /\ h.state_uuid = IF comp.prim THEN GU_UUID_NIL ELSE g.state_uuid
               /\ h.act_id = g.act_id /\ h.group_uuid = g.group_uuid /\ h.prim_state = g.prim_state
               /\ h.nodes[p].status = OwnIn(g, p).status
               /\ h.nodes[p].state_msg = OwnIn(g, p).state_msg
               /\ h.nodes[p].bootstrap = OwnIn(g, p).bootstrap
<1>. DEFINE h == NewComponent(g, p, comp)
            a == Remap(g, p, comp.members)
            b == group_nodes_reset(a)
            c == [b EXCEPT !.state = "WAIT_STATE_UUID", !.state_uuid = GU_UUID_NIL]
<1>1. /\ IsGroup(a) /\ Members(a) = comp.members /\ a.my_id = p /\ a.nodes[p] = OwnIn(g, p)
      /\ a.state = g.state /\ a.act_id = g.act_id /\ a.state_uuid = g.state_uuid
      /\ a.group_uuid = g.group_uuid /\ a.prim_state = g.prim_state
  BY Remapped, ZenonT(60)
<1>2. CASE ~ comp.prim
  <2>1. h = a
    BY <1>2 DEF NewComponent
  <2>. HIDE DEF a, h
  <2>. QED BY <1>1, <1>2, <2>1 DEF h
<1>3. CASE comp.prim
  <2>1. h = group_redo_last_applied(c)
    BY <1>3 DEF NewComponent
  <2>2. p \in Members(a)
    BY <1>1 DEF IsComponent
  <2>. HIDE DEF a, h
  <2>3. /\ IsGroup(b) /\ Members(b) = Members(a) /\ b.my_id = a.my_id
        /\ b.state = a.state /\ b.act_id = a.act_id /\ b.state_uuid = a.state_uuid
        /\ b.group_uuid = a.group_uuid /\ b.prim_state = a.prim_state
        /\ \A i \in Members(a) :
             /\ b.nodes[i].status = a.nodes[i].status
             /\ b.nodes[i].state_msg = a.nodes[i].state_msg
             /\ b.nodes[i].bootstrap = a.nodes[i].bootstrap
    BY <1>1, ResetNodes, Zenon
  <2>. HIDE DEF b
  <2>4. /\ IsGroup(c) /\ c.nodes = b.nodes /\ c.my_id = b.my_id
        /\ c.state = "WAIT_STATE_UUID" /\ c.act_id = b.act_id /\ c.state_uuid = GU_UUID_NIL
        /\ c.group_uuid = b.group_uuid /\ c.prim_state = b.prim_state
    <3>1. /\ IsContext(c) /\ c.nodes = b.nodes /\ c.my_id = b.my_id
          /\ c.state = "WAIT_STATE_UUID" /\ c.act_id = b.act_id /\ c.state_uuid = GU_UUID_NIL
          /\ c.group_uuid = b.group_uuid /\ c.prim_state = b.prim_state
          /\ c.prim_seqno = b.prim_seqno
      <4>1. IsContext(b)
        BY <2>3 DEF IsGroup
      <4>2. c = [b EXCEPT !.state = "WAIT_STATE_UUID", !.state_uuid = GU_UUID_NIL]
        OBVIOUS
      <4>. HIDE DEF c
      <4>. QED BY ONLY <4>1, <4>2 DEF IsContext
    <3>. HIDE DEF c
    <3>. QED BY <2>3, <3>1 DEF IsGroup, GroupStates, GU_UUID_NIL, Members
  <2>. HIDE DEF c
  <2>5. /\ IsGroup(h) /\ h.nodes = c.nodes /\ h.my_id = c.my_id
        /\ h.state = c.state /\ h.act_id = c.act_id /\ h.state_uuid = c.state_uuid 
        /\ h.group_uuid = c.group_uuid /\ h.prim_state = c.prim_state
    BY <2>1, <2>4, Redo, Zenon
  <2>. QED BY <1>1, <1>3, <2>2, <2>3, <2>4, <2>5 DEF h, Members
<1>. QED BY <1>2, <1>3

\* One node gets a new status, or a bootstrap mark.
SetStatus(nodes, j, st) == [nodes EXCEPT ![j].status = st]
SetBootstrap(nodes, j) == [nodes EXCEPT ![j].bootstrap = TRUE]

\* What a new status leaves alone.
LEMMA NodeStatus ==
    ASSUME NEW nodes, IsNodes(nodes), NEW j, NEW st \in NodeStates
    PROVE  LET k == SetStatus(nodes, j, st)
           IN  /\ IsNodes(k) /\ DOMAIN k = DOMAIN nodes
               /\ \A i \in DOMAIN nodes :
                    /\ k[i].status = IF i = j THEN st ELSE nodes[i].status
                    /\ k[i].state_msg = nodes[i].state_msg /\ k[i].bootstrap = nodes[i].bootstrap
BY DEF IsNodes, IsNode, SetStatus

\* What a bootstrap mark leaves alone.
LEMMA NodeBootstrap ==
    ASSUME NEW nodes, IsNodes(nodes), NEW j
    PROVE  LET k == SetBootstrap(nodes, j)
           IN  /\ IsNodes(k) /\ DOMAIN k = DOMAIN nodes
               /\ \A i \in DOMAIN nodes :
                    k[i].status = nodes[i].status /\ k[i].state_msg = nodes[i].state_msg
<1>. DEFINE k == SetBootstrap(nodes, j)
<1>1. PICK b : b = TRUE
  OBVIOUS
<1>2. k = [nodes EXCEPT ![j].bootstrap = b]
  BY <1>1, Zenon DEF SetBootstrap
<1>. HIDE DEF k
<1>3. /\ IsNodes(k) /\ DOMAIN k = DOMAIN nodes
      /\ \A i \in DOMAIN nodes : k[i].status = nodes[i].status /\ k[i].state_msg = nodes[i].state_msg
  <2>1. /\ k = [i \in DOMAIN nodes |-> k[i]] /\ DOMAIN k = DOMAIN nodes
        /\ \A i \in DOMAIN nodes : k[i] = IF i = j THEN [nodes[i] EXCEPT !.bootstrap = b] ELSE nodes[i]
    BY <1>2 DEF IsNodes
  <2>2. ASSUME NEW n, IsNode(n)
        PROVE  LET l == [n EXCEPT !.bootstrap = b]
               IN  IsNode(l) /\ l.status = n.status /\ l.state_msg = n.state_msg
    BY <2>2 DEF IsNode
  <2>. QED BY <2>1, <2>2 DEF IsNodes
<1>. QED BY <1>3 DEF k

\* A context that leaves its primary component.
LEMMA GoNonPrimary ==
    ASSUME NEW g, IsLeft(g)
    PROVE  LET h == group_go_non_primary(g)
           IN  /\ IsLeft(h)
               /\ Members(h) = Members(g) /\ h.my_id = g.my_id
               /\ h.state = "NON_PRIMARY" /\ h.act_id = g.act_id /\ h.state_uuid = g.state_uuid
               /\ h.group_uuid = g.group_uuid /\ h.prim_state = g.prim_state
               /\ \A i \in Members(g) :
                    /\ h.nodes[i].status = IF i = g.my_id THEN NON_PRIM ELSE g.nodes[i].status
                    /\ h.nodes[i].state_msg = g.nodes[i].state_msg
                    /\ h.nodes[i].bootstrap = g.nodes[i].bootstrap
<1>. DEFINE h == group_go_non_primary(g)
            k == SetStatus(g.nodes, g.my_id, NON_PRIM)
<1>1. IsContext(g) /\ IsNodes(g.nodes)
  BY DEF IsLeft
<1>2. h = [g EXCEPT !.nodes = k, !.state = "NON_PRIMARY", !.conf_id = GCS_SEQNO_ILL]
  BY <1>1 DEF group_go_non_primary, IsContext, SetStatus
<1>3. NON_PRIM \in NodeStates
  BY DEF NON_PRIM, NodeStates, SYNCED
<1>4. /\ IsNodes(k) /\ DOMAIN k = DOMAIN g.nodes
      /\ \A i \in DOMAIN g.nodes :
           /\ k[i].status = IF i = g.my_id THEN NON_PRIM ELSE g.nodes[i].status
           /\ k[i].state_msg = g.nodes[i].state_msg /\ k[i].bootstrap = g.nodes[i].bootstrap
  BY <1>1, <1>3, NodeStatus
<1>. HIDE DEF k, h
<1>5. /\ IsContext(h) /\ h.nodes = k /\ h.my_id = g.my_id /\ h.prim_seqno = g.prim_seqno
      /\ h.state = "NON_PRIMARY" /\ h.act_id = g.act_id /\ h.state_uuid = g.state_uuid
      /\ h.group_uuid = g.group_uuid /\ h.prim_state = g.prim_state
  BY ONLY <1>1, <1>2 DEF IsContext
<1>6. IsLeft(h)
  BY <1>4, <1>5 DEF IsLeft, GroupStates
<1>. QED BY <1>4, <1>5, <1>6 DEF h, k, Members

\* Own node is marked for a bootstrap.
LEMMA MarkBootstrap ==
    ASSUME NEW g, IsLeft(g)
    PROVE  LET h == [g EXCEPT !.nodes[g.my_id].bootstrap = TRUE]
           IN  /\ IsLeft(h)
               /\ Members(h) = Members(g) /\ h.my_id = g.my_id
               /\ h.state = g.state /\ h.act_id = g.act_id /\ h.state_uuid = g.state_uuid
               /\ h.group_uuid = g.group_uuid /\ h.prim_state = g.prim_state
               /\ \A i \in Members(g) :
                    /\ h.nodes[i].status = g.nodes[i].status
                    /\ h.nodes[i].state_msg = g.nodes[i].state_msg
<1>. DEFINE h == [g EXCEPT !.nodes[g.my_id].bootstrap = TRUE]
            k == SetBootstrap(g.nodes, g.my_id)
<1>1. IsContext(g) /\ IsNodes(g.nodes)
  BY DEF IsLeft
<1>2. h = [g EXCEPT !.nodes = k]
  BY <1>1 DEF IsContext, SetBootstrap
<1>3. /\ IsNodes(k) /\ DOMAIN k = DOMAIN g.nodes
      /\ \A i \in DOMAIN g.nodes :
           k[i].status = g.nodes[i].status /\ k[i].state_msg = g.nodes[i].state_msg
  BY <1>1, NodeBootstrap
<1>. HIDE DEF k, h
<1>4. /\ IsContext(h) /\ h.nodes = k /\ h.my_id = g.my_id /\ h.prim_seqno = g.prim_seqno
      /\ h.state = g.state /\ h.act_id = g.act_id /\ h.state_uuid = g.state_uuid
      /\ h.group_uuid = g.group_uuid /\ h.prim_state = g.prim_state
  BY ONLY <1>1, <1>2 DEF IsContext
<1>5. IsLeft(h)
  BY <1>3, <1>4 DEF IsLeft
<1>. QED BY <1>3, <1>4, <1>5 DEF h, Members

\* gcs_group_handle_comp_msg(): the old component is left, then the new one entered.
LEMMA CompMsgParts ==
    ASSUME NEW g, NEW p, NEW comp, NEW v
    PROVE  gcs_group_handle_comp_msg(g, p, comp, v)
             = NewComponent(LeaveOldComponent(SavePrimState(g), p, comp, v), p, comp)
BY DEF gcs_group_handle_comp_msg, NewComponent

\* h is the context of p after its first component, of UUID v, when it was
\* started with the history [u, q]
Started(h, p, comp, v, u, q) ==
    /\ IsGroup(h) /\ Members(h) = comp.members /\ h.my_id = p
    /\ h.state = IF comp.prim THEN "WAIT_STATE_UUID" ELSE "NON_PRIMARY"
    /\ h.state_uuid = GU_UUID_NIL /\ h.prim_state = NON_PRIM
    /\ \/ h.group_uuid = u /\ h.act_id = q
       \/ u = GU_UUID_NIL /\ h.group_uuid = v /\ h.act_id = 0
    /\ h.nodes[p].status \in {NON_PRIM, JOINED}
    /\ h.nodes[p].status = JOINED => h.group_uuid # GU_UUID_NIL
    /\ h.nodes[p].state_msg = NoState /\ ~ h.nodes[p].bootstrap

\* The first component of a process: it keeps the history it was started with,
\* or starts a new one when it has none.
LEMMA FirstComp ==
    ASSUME NEW u \in Nat, NEW q \in Int, u = GU_UUID_NIL <=> q < 0,
           NEW p \in Nat \ {0}, NEW v \in Nat \ {0}, NEW comp, IsComponent(comp, p)
    PROVE  Started(gcs_group_handle_comp_msg(gcs_group_init(u, q), p, comp, v), p, comp, v, u, q)
<1>. DEFINE g == gcs_group_init(u, q)
            a == LeaveOldComponent(g, p, comp, v)
            h == gcs_group_handle_comp_msg(g, p, comp, v)
<1>1. /\ IsContext(g) /\ g.nodes = [i \in {0} |-> gcs_node_init] /\ g.my_id = 0 /\ Members(g) = {0}
      /\ g.state = "NON_PRIMARY" /\ g.act_id = q /\ g.group_uuid = u /\ g.state_uuid = GU_UUID_NIL
      /\ g.prim_state = NON_PRIM /\ g.prim_seqno = -1
  BY DEF gcs_group_init, IsContext, NODE_NO_ID, Members, GCS_SEQNO_ILL
<1>2. SavePrimState(g) = g
  BY <1>1, Zenon DEF SavePrimState
<1>3. h = NewComponent(a, p, comp)
  BY <1>2, CompMsgParts
<1>0. SUFFICES Started(h, p, comp, v, u, q)
  OBVIOUS
<1>. HIDE DEF g, h
<1>4. IsNodes([i \in {0} |-> gcs_node_init])
  <2>1. IsFiniteSet({0})
    BY FS_Singleton
  <2>. QED BY <2>1, InitNode DEF IsNodes
<1>5. IsLeft(g) /\ OwnIn(g, p) = gcs_node_init
  BY <1>1, <1>4 DEF IsLeft, GroupStates, NodeStates, NON_PRIM, SYNCED, OwnIn, GU_UUID_NIL
<1>6. /\ gcs_node_init.status = NON_PRIM /\ gcs_node_init.state_msg = NoState
      /\ ~ gcs_node_init.bootstrap
  BY DEF gcs_node_init
<1>7. CASE a = g
  <2>1. /\ IsGroup(h) /\ Members(h) = comp.members /\ h.my_id = p
        /\ h.state = IF comp.prim THEN "WAIT_STATE_UUID" ELSE "NON_PRIMARY"
        /\ h.state_uuid = IF comp.prim THEN GU_UUID_NIL ELSE a.state_uuid
        /\ h.act_id = a.act_id /\ h.group_uuid = a.group_uuid /\ h.prim_state = a.prim_state
        /\ h.nodes[p].status = OwnIn(a, p).status
        /\ h.nodes[p].state_msg = OwnIn(a, p).state_msg
        /\ h.nodes[p].bootstrap = OwnIn(a, p).bootstrap
    BY <1>1, <1>3, <1>5, <1>7, NewComponentKeeps
  <2>. HIDE DEF a
  <2>. QED BY <1>1, <1>5, <1>6, <1>7, <2>1 DEF Started, NON_PRIM, JOINED
<1>8. CASE ~ comp.prim \/ comp.bootstrap
  <2>1. \/ a = group_go_non_primary(g) /\ ~ comp.prim
        \/ a = [g EXCEPT !.nodes[g.my_id].bootstrap = TRUE] /\ comp.prim
    BY <1>1, <1>8, Zenon DEF LeaveOldComponent
  <2>2. /\ IsLeft(a) /\ OwnIn(a, p) = gcs_node_init
        /\ a.act_id = q /\ a.group_uuid = u /\ a.prim_state = NON_PRIM
        /\ a.state_uuid = GU_UUID_NIL /\ a.state = "NON_PRIMARY"
    <3>1. CASE a = group_go_non_primary(g)
      <4>1. /\ IsLeft(a) /\ Members(a) = Members(g)
            /\ a.state = "NON_PRIMARY" /\ a.act_id = g.act_id /\ a.state_uuid = g.state_uuid
            /\ a.group_uuid = g.group_uuid /\ a.prim_state = g.prim_state
        <5>. HIDE DEF a
        <5>. QED BY <1>5, <3>1, GoNonPrimary
      <4>. HIDE DEF a
      <4>. QED BY <1>1, <4>1 DEF OwnIn
    <3>2. CASE a = [g EXCEPT !.nodes[g.my_id].bootstrap = TRUE]
      <4>1. /\ IsLeft(a) /\ Members(a) = Members(g)
            /\ a.state = g.state /\ a.act_id = g.act_id /\ a.state_uuid = g.state_uuid
            /\ a.group_uuid = g.group_uuid /\ a.prim_state = g.prim_state
        BY <1>5, <3>2, MarkBootstrap
      <4>. HIDE DEF a
      <4>. QED BY <1>1, <4>1 DEF OwnIn
    <3>. QED BY <2>1, <3>1, <3>2
  <2>. HIDE DEF a
  <2>3. /\ IsGroup(h) /\ Members(h) = comp.members /\ h.my_id = p
        /\ h.state = IF comp.prim THEN "WAIT_STATE_UUID" ELSE "NON_PRIMARY"
        /\ h.state_uuid = IF comp.prim THEN GU_UUID_NIL ELSE a.state_uuid
        /\ h.act_id = a.act_id /\ h.group_uuid = a.group_uuid /\ h.prim_state = a.prim_state
        /\ h.nodes[p].status = OwnIn(a, p).status
        /\ h.nodes[p].state_msg = OwnIn(a, p).state_msg
        /\ h.nodes[p].bootstrap = OwnIn(a, p).bootstrap
    BY <1>3, <2>2, NewComponentKeeps
  <2>. QED BY <1>6, <2>2, <2>3 DEF Started, NON_PRIM, JOINED
<1>9. CASE comp.prim /\ ~ comp.bootstrap /\ IsFirstComponent(g, comp.members)
  <2>. DEFINE n == [gcs_node_init EXCEPT !.status = JOINED]
              nodes == [i \in {p} |-> n]
  <2>1. a = FirstComponent(g, p, v)
    BY <1>1, <1>9, Zenon DEF LeaveOldComponent
  <2>2. IsNode(n) /\ n.status = JOINED /\ n.state_msg = NoState /\ ~ n.bootstrap
    <3>1. IsNode(gcs_node_init) /\ JOINED \in NodeStates
      BY InitNode DEF JOINED, NodeStates, NON_PRIM, SYNCED
    <3>. QED BY <1>6, <3>1 DEF IsNode
  <2>3. g.nodes[NODE_NO_ID] = gcs_node_init
    BY <1>1 DEF NODE_NO_ID
  <2>4. a = [g EXCEPT !.prim_seqno = 0, !.prim_num = 1, !.state = "PRIMARY",
                      !.act_id = IF q < 0 THEN GCS_SEQNO_NIL ELSE q,
                      !.group_uuid = IF q < 0 THEN v ELSE u,
                      !.nodes = nodes]
    <3>1. [g.nodes[NODE_NO_ID] EXCEPT !.status = JOINED] = n
      BY <2>3
    <3>. HIDE DEF n
    <3>. QED BY <1>1, <2>1, <3>1 DEF FirstComponent
  <2>5. IsNodes(nodes) /\ DOMAIN nodes = {p} /\ nodes[p] = n
    <3>1. IsFiniteSet({p})
      BY FS_Singleton
    <3>. HIDE DEF n
    <3>. QED BY <2>2, <3>1 DEF IsNodes
  <2>. HIDE DEF nodes, n, a
  <2>6. /\ IsContext(a) /\ a.nodes = nodes /\ a.prim_seqno = 0
        /\ a.state = "PRIMARY" /\ a.act_id = (IF q < 0 THEN GCS_SEQNO_NIL ELSE q)
        /\ a.state_uuid = g.state_uuid
        /\ a.group_uuid = (IF q < 0 THEN v ELSE u) /\ a.prim_state = g.prim_state
    BY ONLY <1>1, <2>4 DEF IsContext
  <2>7. IsLeft(a) /\ OwnIn(a, p) = n
    BY <1>1, <2>5, <2>6 DEF IsLeft, GroupStates, NodeStates, NON_PRIM, SYNCED, OwnIn, GU_UUID_NIL,
                            Members, GCS_SEQNO_NIL
  <2>8. /\ IsGroup(h) /\ Members(h) = comp.members /\ h.my_id = p
        /\ h.state = IF comp.prim THEN "WAIT_STATE_UUID" ELSE "NON_PRIMARY"
        /\ h.state_uuid = IF comp.prim THEN GU_UUID_NIL ELSE a.state_uuid
        /\ h.act_id = a.act_id /\ h.group_uuid = a.group_uuid /\ h.prim_state = a.prim_state
        /\ h.nodes[p].status = OwnIn(a, p).status
        /\ h.nodes[p].state_msg = OwnIn(a, p).state_msg
        /\ h.nodes[p].bootstrap = OwnIn(a, p).bootstrap
    BY <1>3, <1>9, <2>7, NewComponentKeeps
  <2>9. \/ h.group_uuid = u /\ h.act_id = q /\ u # GU_UUID_NIL
        \/ u = GU_UUID_NIL /\ h.group_uuid = v /\ h.act_id = 0 /\ v # GU_UUID_NIL
    BY <2>6, <2>8 DEF GCS_SEQNO_NIL, GU_UUID_NIL
  <2>10. /\ h.state_uuid = GU_UUID_NIL /\ h.prim_state = NON_PRIM
         /\ h.nodes[p].status = JOINED /\ h.nodes[p].state_msg = NoState /\ ~ h.nodes[p].bootstrap
    BY <1>1, <1>9, <2>2, <2>6, <2>7, <2>8
  <2>11. h.group_uuid # GU_UUID_NIL
    BY <2>9
  <2>. QED BY <1>9, <2>8, <2>9, <2>10, <2>11 DEF Started
<1>10. CASE comp.prim /\ ~ comp.bootstrap /\ ~ IsFirstComponent(g, comp.members)
  <2>1. a = g
    BY <1>1, <1>10, Zenon DEF LeaveOldComponent
  <2>. QED BY <1>7, <2>1
<1>. QED BY <1>8, <1>9, <1>10

\* Every later component: what the process was in the primary component that
\* ends is saved, and its position is kept.
LEMMA LaterComp ==
    ASSUME NEW g, IsGroup(g), NEW p \in Nat \ {0}, g.my_id = p, NEW v, NEW comp, IsComponent(comp, p)
    PROVE  LET h == gcs_group_handle_comp_msg(g, p, comp, v)
           IN  /\ IsGroup(h) /\ Members(h) = comp.members /\ h.my_id = p
               /\ h.state = IF comp.prim THEN "WAIT_STATE_UUID" ELSE "NON_PRIMARY"
               /\ h.prim_state = IF g.state = "PRIMARY" THEN g.nodes[p].status ELSE g.prim_state
               /\ h.group_uuid = g.group_uuid /\ h.act_id = g.act_id
               /\ h.nodes[p].status = IF comp.prim THEN g.nodes[p].status ELSE NON_PRIM
               /\ h.nodes[p].state_msg = g.nodes[p].state_msg
               /\ h.nodes[p].bootstrap => comp.bootstrap \/ g.nodes[p].bootstrap
<1>. DEFINE s == SavePrimState(g)
            a == LeaveOldComponent(s, p, comp, v)
            h == gcs_group_handle_comp_msg(g, p, comp, v)
<1>1. /\ IsGroup(s) /\ s = [g EXCEPT !.prim_state = s.prim_state]
      /\ s.prim_state = IF g.state = "PRIMARY" THEN MyNode(g).status ELSE g.prim_state
      /\ s.nodes = g.nodes /\ s.my_id = g.my_id
  BY SavePrim
<1>2. h = NewComponent(a, p, comp)
  BY CompMsgParts
<1>. HIDE DEF s, h
<1>3. /\ s.state = g.state /\ s.act_id = g.act_id /\ s.group_uuid = g.group_uuid
  <2>1. IsContext(g)
    BY DEF IsGroup
  <2>. QED BY ONLY <1>1, <2>1 DEF IsContext
<1>4. IsLeft(s) /\ p \in Members(s) /\ p # 0
  BY <1>1 DEF IsGroup, IsLeft
<1>5. ~ IsFirstComponent(s, comp.members)
  BY <1>4 DEF IsFirstComponent, NODE_NO_ID
<1>6. \/ a = group_go_non_primary(s) /\ ~ comp.prim
      \/ a = [s EXCEPT !.nodes[s.my_id].bootstrap = TRUE] /\ comp.prim /\ comp.bootstrap
      \/ a = s /\ comp.prim
  BY <1>5, Zenon DEF LeaveOldComponent
<1>7. /\ IsLeft(a) /\ p \in Members(a)
      /\ ~ comp.prim => a.state = "NON_PRIMARY"
      /\ a.act_id = s.act_id /\ a.group_uuid = s.group_uuid /\ a.prim_state = s.prim_state
      /\ a.nodes[p].status = IF comp.prim THEN s.nodes[p].status ELSE NON_PRIM
      /\ a.nodes[p].state_msg = s.nodes[p].state_msg
      /\ a.nodes[p].bootstrap => comp.bootstrap \/ s.nodes[p].bootstrap
  <2>1. CASE a = group_go_non_primary(s) /\ ~ comp.prim
    <3>1. a = group_go_non_primary(s)
      BY <2>1
    <3>. HIDE DEF a
    <3>2. /\ IsLeft(a) /\ Members(a) = Members(s)
          /\ a.state = "NON_PRIMARY" /\ a.act_id = s.act_id
          /\ a.group_uuid = s.group_uuid /\ a.prim_state = s.prim_state
          /\ \A i \in Members(s) :
               /\ a.nodes[i].status = IF i = s.my_id THEN NON_PRIM ELSE s.nodes[i].status
               /\ a.nodes[i].state_msg = s.nodes[i].state_msg
               /\ a.nodes[i].bootstrap = s.nodes[i].bootstrap
      BY <1>4, <3>1, GoNonPrimary
    <3>. QED BY <1>1, <1>4, <2>1, <3>2
  <2>2. CASE a = [s EXCEPT !.nodes[s.my_id].bootstrap = TRUE] /\ comp.prim /\ comp.bootstrap
    <3>1. /\ IsLeft(a) /\ Members(a) = Members(s)
          /\ a.act_id = s.act_id
          /\ a.group_uuid = s.group_uuid /\ a.prim_state = s.prim_state
          /\ \A i \in Members(s) :
               /\ a.nodes[i].status = s.nodes[i].status
               /\ a.nodes[i].state_msg = s.nodes[i].state_msg
      BY <1>4, <2>2, MarkBootstrap
    <3>. HIDE DEF a
    <3>. QED BY <1>1, <1>4, <2>2, <3>1
  <2>3. CASE a = s /\ comp.prim
    <3>. HIDE DEF a
    <3>. QED BY <1>4, <2>3
  <2>. QED BY <1>6, <2>1, <2>2, <2>3
<1>. HIDE DEF a
<1>8. OwnIn(a, p) = a.nodes[p]
  BY <1>7 DEF OwnIn
<1>9. /\ IsGroup(h) /\ Members(h) = comp.members /\ h.my_id = p
      /\ h.state = IF comp.prim THEN "WAIT_STATE_UUID" ELSE "NON_PRIMARY"
      /\ h.act_id = a.act_id /\ h.group_uuid = a.group_uuid /\ h.prim_state = a.prim_state
      /\ h.nodes[p].status = OwnIn(a, p).status
      /\ h.nodes[p].state_msg = OwnIn(a, p).state_msg
      /\ h.nodes[p].bootstrap = OwnIn(a, p).bootstrap
  BY <1>2, <1>7, NewComponentKeeps
<1>. QED BY <1>1, <1>3, <1>7, <1>8, <1>9 DEF h, MyNode

\* The UUID of the exchange.
LEMMA UuidMsg ==
    ASSUME NEW g, IsGroup(g), NEW m, m.uuid \in Nat,
           NEW h, h = gcs_group_handle_uuid_msg(g, m), h # g
    PROVE  /\ IsGroup(h) /\ h.nodes = g.nodes /\ h.my_id = g.my_id
           /\ g.state = "WAIT_STATE_UUID" /\ h.state = "WAIT_STATE_MSG" /\ h.state_uuid = m.uuid
           /\ h.act_id = g.act_id /\ h.group_uuid = g.group_uuid /\ h.prim_state = g.prim_state
<1>1. g.state = "WAIT_STATE_UUID" /\ h = [g EXCEPT !.state_uuid = m.uuid, !.state = "WAIT_STATE_MSG"]
  BY Zenon DEF gcs_group_handle_uuid_msg
<1>2. IsContext(g)
  BY DEF IsGroup
<1>3. /\ IsContext(h) /\ h.nodes = g.nodes /\ h.my_id = g.my_id /\ h.prim_seqno = g.prim_seqno
      /\ h.state = "WAIT_STATE_MSG" /\ h.state_uuid = m.uuid
      /\ h.act_id = g.act_id /\ h.group_uuid = g.group_uuid /\ h.prim_state = g.prim_state
  BY ONLY <1>1, <1>2 DEF IsContext
<1>. QED BY <1>1, <1>3 DEF IsGroup, GroupStates, Members

\* What a process says of itself is true of it.
LEMMA OwnState ==
    ASSUME NEW g, IsGroup(g), MyNode(g).status = PRIM => g.prim_state = PRIM,
           KnownHistories /\ (\/ MyNode(g).status # NON_PRIM \/ g.prim_state # NON_PRIM
                              \/ MyNode(g).bootstrap) => g.group_uuid # GU_UUID_NIL,
           NEW s, s = gcs_group_get_state(g)
    PROVE  /\ IsState(s) /\ s.uuid = g.state_uuid
           /\ s.received = g.act_id /\ s.group_uuid = g.group_uuid /\ s.prim_state = g.prim_state
           /\ s.current_state = MyNode(g).status /\ s.bootstrap = MyNode(g).bootstrap
BY DEF gcs_group_get_state, IsState, IsGroup, IsNodes, IsNode, MyNode, Members

\* A state message is recorded.
LEMMA RecordState ==
    ASSUME NEW g, IsGroup(g), NEW m, IsState(m.state), NEW h, h = gcs_node_record_state(g, m)
    PROVE  /\ IsGroup(h) /\ Members(h) = Members(g) /\ h.my_id = g.my_id
           /\ h.state = g.state /\ h.act_id = g.act_id /\ h.state_uuid = g.state_uuid
           /\ h.group_uuid = g.group_uuid /\ h.prim_state = g.prim_state
           /\ \A i \in Members(g) :
                /\ h.nodes[i].bootstrap = g.nodes[i].bootstrap
                /\ i # m.from => h.nodes[i] = g.nodes[i]
                /\ i = m.from => /\ h.nodes[i].state_msg = m.state
                                 /\ h.nodes[i].status = m.state.current_state
<1>. DEFINE set(n) == [n EXCEPT !.state_msg = m.state, !.status = m.state.current_state]
            nodes == [i \in Members(g) |-> IF i = m.from THEN set(g.nodes[i]) ELSE g.nodes[i]]
<1>1. IsContext(g) /\ IsNodes(g.nodes)
  BY DEF IsGroup
<1>2. h = [g EXCEPT !.nodes = nodes]
  <2>1. h = [g EXCEPT !.nodes = [[g.nodes EXCEPT ![m.from].state_msg = m.state]
                                    EXCEPT ![m.from].status = m.state.current_state]]
    BY <1>1 DEF gcs_node_record_state, IsContext
  <2>2. [[g.nodes EXCEPT ![m.from].state_msg = m.state]
            EXCEPT ![m.from].status = m.state.current_state] = nodes
    BY <1>1 DEF IsNodes, Members
  <2>. QED BY <2>1, <2>2, Zenon
<1>3. ASSUME NEW n, IsNode(n)
      PROVE  /\ IsNode(set(n)) /\ set(n).bootstrap = n.bootstrap
             /\ set(n).state_msg = m.state /\ set(n).status = m.state.current_state
  <2>1. m.state.current_state \in NodeStates
    BY DEF IsState
  <2>2. set(n) = [n EXCEPT !.state_msg = m.state, !.status = m.state.current_state]
    OBVIOUS
  <2>. HIDE DEF set
  <2>3. PICK a, c : a = m.state /\ c = m.state.current_state
    OBVIOUS
  <2>4. set(n) = [n EXCEPT !.state_msg = a, !.status = c] /\ c \in NodeStates /\ IsState(a)
    BY <2>1, <2>2, <2>3
  <2>5. IsNode(set(n)) /\ set(n).bootstrap = n.bootstrap /\ set(n).state_msg = a /\ set(n).status = c
    BY ONLY <1>3, <2>4 DEF IsNode
  <2>. QED BY <2>3, <2>5
<1>. HIDE DEF set
<1>4. /\ IsNodes(nodes) /\ DOMAIN nodes = Members(g)
      /\ \A i \in Members(g) :
           /\ nodes[i].bootstrap = g.nodes[i].bootstrap
           /\ i # m.from => nodes[i] = g.nodes[i]
           /\ i = m.from => /\ nodes[i].state_msg = m.state
                            /\ nodes[i].status = m.state.current_state
  BY <1>1, <1>3 DEF IsNodes, Members
<1>. HIDE DEF nodes
<1>5. /\ IsContext(h) /\ h.nodes = nodes /\ h.my_id = g.my_id /\ h.prim_seqno = g.prim_seqno
      /\ h.state = g.state /\ h.act_id = g.act_id /\ h.state_uuid = g.state_uuid
      /\ h.group_uuid = g.group_uuid /\ h.prim_state = g.prim_state
  BY ONLY <1>1, <1>2 DEF IsContext
<1>. QED BY <1>4, <1>5 DEF IsGroup, Members

\* A member of a primary component is not taken for a non-primary one.
LEMMA StatusType ==
    ASSUME NEW s, IsState(s), NEW q
    PROVE  /\ gcs_node_update_status(s, q) \in NodeStates
           /\ ~ q.primary <=> gcs_node_update_status(s, q) = NON_PRIM
BY DEF gcs_node_update_status, IsState, NodeStates, NON_PRIM, PRIM, JOINED, SYNCED

\* The exchange is complete: every state message is one of this exchange.
LEMMA CompleteStates ==
    ASSUME NEW g, IsGroup(g), g.state_uuid # GU_UUID_NIL, ExchangeComplete(g)
    PROVE  AllStates(States(g)) /\ DOMAIN States(g) = Members(g)
<1>1. \A i \in Members(g) : IsState(g.nodes[i].state_msg)
  <2>1. SUFFICES ASSUME NEW i \in Members(g) PROVE IsState(g.nodes[i].state_msg)
    OBVIOUS
  <2>2. IsNode(g.nodes[i]) /\ g.nodes[i].state_msg.uuid = g.state_uuid
    BY DEF ExchangeComplete, IsGroup, IsNodes, Members
  <2>3. NoState.uuid = GU_UUID_NIL
    BY DEF NoState
  <2>. QED BY <2>2, <2>3 DEF IsNode
<1>. QED BY <1>1 DEF AllStates, States, IsGroup, IsNodes, Members

\* The end of the exchange: the component follows one of its members, or is
\* not primary.
LEMMA PostExchange ==
    ASSUME NEW g, IsGroup(g), g.state_uuid # GU_UUID_NIL, ExchangeComplete(g),
           NEW q, q = gcs_state_msg_get_quorum(States(g)),
           NEW h, h = group_post_state_exchange(g)
    PROVE  /\ IsGroup(h) /\ Members(h) = Members(g) /\ h.my_id = g.my_id
           /\ h.prim_state = g.prim_state
           /\ h.nodes[g.my_id].state_msg = g.nodes[g.my_id].state_msg
           /\ ~ h.nodes[g.my_id].bootstrap
           /\ h.nodes[g.my_id].status = gcs_node_update_status(g.nodes[g.my_id].state_msg, q)
           /\ q.primary => /\ h.state = "PRIMARY" /\ h.act_id = q.act_id /\ h.group_uuid = q.group_uuid
                           /\ \E i \in Members(g) : 
                                /\ q = Inherited(g.nodes[i].state_msg)
                                /\ IsState(g.nodes[i].state_msg)
                                /\ \/ gcs_node_is_joined(g.nodes[i].state_msg.current_state)
                                   \/ gcs_node_is_joined(g.nodes[i].state_msg.prim_state)
                                   \/ g.nodes[i].state_msg.bootstrap
           /\ ~ q.primary => /\ h.state = "NON_PRIMARY" /\ h.act_id = g.act_id
                             /\ h.group_uuid = g.group_uuid
<1>. DEFINE st(i) == gcs_node_update_status(g.nodes[i].state_msg, q)
            cla(i) == IF q.primary THEN CountLastApplied(g.nodes[i].state_msg, st(i))
                                   ELSE g.nodes[i].count_last_applied
            set(i) == [g.nodes[i] EXCEPT !.status = st(i), !.bootstrap = FALSE,
                                         !.count_last_applied = cla(i)]
            nodes == [i \in Members(g) |-> set(i)]
<1>1. AllStates(States(g)) /\ DOMAIN States(g) = Members(g)
  BY CompleteStates
<1>2. \A i \in Members(g) : States(g)[i] = g.nodes[i].state_msg /\ IsState(g.nodes[i].state_msg)
  BY <1>1 DEF States, AllStates
<1>3. ASSUME NEW i \in Members(g)
      PROVE  /\ IsNode(set(i)) /\ set(i).status = st(i)
             /\ set(i).state_msg = g.nodes[i].state_msg /\ ~ set(i).bootstrap
  <2>1. st(i) \in NodeStates
    BY <1>2, StatusType
  <2>2. IsNode(g.nodes[i])
    BY DEF IsGroup, IsNodes, Members
  <2>3. PICK b : b = FALSE
    OBVIOUS
  <2>4. set(i) = [g.nodes[i] EXCEPT !.status = st(i), !.bootstrap = b, !.count_last_applied = cla(i)]
    BY <2>3, Zenon
  <2>. HIDE DEF set, st, cla
  <2>5. IsNode(set(i)) /\ set(i).status = st(i) /\ set(i).state_msg = g.nodes[i].state_msg
    BY <2>1, <2>2, <2>4 DEF IsNode
  <2>6. set(i).bootstrap = b
    BY <2>2, <2>4 DEF IsNode
  <2>. QED BY <2>3, <2>5, <2>6
<1>4. IsNodes(nodes) /\ DOMAIN nodes = Members(g) /\ \A i \in Members(g) : nodes[i] = set(i)
  <2>. HIDE DEF set
  <2>. QED BY <1>3 DEF IsGroup, IsNodes, Members
<1>5. IsContext(g) /\ g.my_id \in Members(g)
  BY DEF IsGroup
<1>6. CASE q.primary
  <2>. DEFINE num == Cardinality({i \in Members(g) : gcs_node_is_joined(nodes[i].status)})
  <2>1. h = [g EXCEPT !.nodes = nodes, !.state = "PRIMARY",
                      !.act_id = q.act_id, !.conf_id = q.conf_id + 1,
                      !.prim_seqno = q.conf_id + 1,
                      !.group_uuid = q.group_uuid, !.state_uuid = GU_UUID_NIL,
                      !.prim_num = num]
    BY <1>6, Zenon DEF group_post_state_exchange
  <2>. HIDE DEF nodes, num
  <2>2. /\ IsContext(h) /\ h.nodes = nodes /\ h.my_id = g.my_id
        /\ h.prim_seqno = q.conf_id + 1 /\ h.state_uuid = GU_UUID_NIL
        /\ h.state = "PRIMARY" /\ h.act_id = q.act_id
        /\ h.group_uuid = q.group_uuid /\ h.prim_state = g.prim_state
    BY ONLY <1>5, <2>1 DEF IsContext
  <2>3. PICK i \in DOMAIN States(g) :
               /\ q = Inherited(States(g)[i])
               /\ \/ gcs_node_is_joined(States(g)[i].current_state)
                  \/ gcs_node_is_joined(States(g)[i].prim_state)
                  \/ States(g)[i].bootstrap
    BY <1>1, <1>6, QuorumFollows
  <2>4. /\ i \in Members(g) /\ q = Inherited(g.nodes[i].state_msg)
        /\ IsState(g.nodes[i].state_msg)
        /\ \/ gcs_node_is_joined(g.nodes[i].state_msg.current_state)
           \/ gcs_node_is_joined(g.nodes[i].state_msg.prim_state)
           \/ g.nodes[i].state_msg.bootstrap
    BY <1>1, <1>2, <2>3
  <2>5. q.act_id \in Int /\ q.conf_id \in Int /\ q.group_uuid \in Nat
    BY <2>4 DEF Inherited, IsState
  <2>6. IsGroup(h) /\ Members(h) = Members(g)
    <3>1. g.prim_state \in NodeStates
      BY DEF IsGroup
    <3>2. q.conf_id + 1 \in Int /\ "PRIMARY" \in GroupStates /\ GU_UUID_NIL \in Nat
      BY <2>5 DEF GroupStates, GU_UUID_NIL
    <3>3. IsNodes(h.nodes) /\ Members(h) = Members(g)
      BY <1>4, <2>2 DEF Members
    <3>. QED BY ONLY <1>5, <2>2, <2>5, <3>1, <3>2, <3>3 DEF IsGroup
  <2>. HIDE DEF set
  <2>. QED BY <1>3, <1>4, <1>5, <1>6, <2>2, <2>4, <2>6
<1>7. CASE ~ q.primary
  <2>. DEFINE a == [g EXCEPT !.nodes = nodes]
  <2>1. h = group_go_non_primary(a)
    BY <1>7, Zenon DEF group_post_state_exchange
  <2>. HIDE DEF nodes
  <2>2. /\ IsContext(a) /\ a.nodes = nodes /\ a.my_id = g.my_id /\ a.prim_seqno = g.prim_seqno
        /\ a.state = g.state /\ a.act_id = g.act_id /\ a.state_uuid = g.state_uuid
        /\ a.group_uuid = g.group_uuid /\ a.prim_state = g.prim_state
    BY ONLY <1>5 DEF IsContext
  <2>. HIDE DEF a
  <2>3. IsLeft(a) /\ Members(a) = Members(g)
    BY <1>4, <2>2 DEF IsLeft, IsGroup, Members
  <2>4. /\ IsLeft(h) /\ Members(h) = Members(a) /\ h.my_id = a.my_id
        /\ h.state = "NON_PRIMARY" /\ h.act_id = a.act_id
        /\ h.group_uuid = a.group_uuid /\ h.prim_state = a.prim_state
        /\ \A i \in Members(a) :
             /\ h.nodes[i].status = IF i = a.my_id THEN NON_PRIM ELSE a.nodes[i].status
             /\ h.nodes[i].state_msg = a.nodes[i].state_msg
             /\ h.nodes[i].bootstrap = a.nodes[i].bootstrap
    BY <2>1, <2>3, GoNonPrimary
  <2>5. IsGroup(h)
    BY <1>5, <2>2, <2>3, <2>4 DEF IsLeft, IsGroup
  <2>6. st(g.my_id) = NON_PRIM
    BY <1>2, <1>5, <1>7, StatusType
  <2>. HIDE DEF set, st
  <2>7. h.nodes[g.my_id].status = st(g.my_id)
    BY <1>5, <2>2, <2>3, <2>4, <2>6
  <2>. QED BY <1>3, <1>4, <1>5, <1>7, <2>2, <2>3, <2>4, <2>5, <2>7 DEF st
<1>. QED BY <1>6, <1>7

\* h differs from g in nothing that matters here but act_id.
Alike(g, h) ==
    /\ IsGroup(h) /\ Members(h) = Members(g) /\ h.my_id = g.my_id
    /\ h.state = g.state /\ h.state_uuid = g.state_uuid
    /\ h.group_uuid = g.group_uuid /\ h.prim_state = g.prim_state
    /\ \A i \in Members(g) : /\ h.nodes[i].status = g.nodes[i].status
                             /\ h.nodes[i].state_msg = g.nodes[i].state_msg
                             /\ h.nodes[i].bootstrap = g.nodes[i].bootstrap

\* A fragment of an action is put in its place.
Put(g, j, x, a) == [g EXCEPT !.frag_reset = x, !.nodes[j].app = a]

\* Putting it there changes nothing that matters here.
LEMMA PutFragment ==
    ASSUME NEW g, IsGroup(g), NEW j, NEW x, NEW a, NEW h, h = Put(g, j, x, a)
    PROVE  Alike(g, h) /\ h.act_id = g.act_id
<1>. DEFINE set(n) == [n EXCEPT !.app = a]
            nodes == [i \in Members(g) |-> IF i = j THEN set(g.nodes[i]) ELSE g.nodes[i]]
<1>1. IsContext(g) /\ IsNodes(g.nodes)
  BY DEF IsGroup
<1>2. h = [g EXCEPT !.frag_reset = x, !.nodes = nodes]
  <2>1. h = [g EXCEPT !.frag_reset = x, !.nodes = [g.nodes EXCEPT ![j].app = a]]
    BY <1>1 DEF IsContext, Put
  <2>2. [g.nodes EXCEPT ![j].app = a] = nodes
    BY <1>1 DEF IsNodes, Members
  <2>. QED BY <2>1, <2>2, Zenon
<1>3. ASSUME NEW n, IsNode(n)
      PROVE  /\ IsNode(set(n)) /\ set(n).status = n.status /\ set(n).state_msg = n.state_msg
             /\ set(n).bootstrap = n.bootstrap
  BY <1>3, NodeApp
<1>. HIDE DEF set
<1>4. /\ IsNodes(nodes) /\ DOMAIN nodes = Members(g)
      /\ \A i \in Members(g) : /\ nodes[i].status = g.nodes[i].status
                               /\ nodes[i].state_msg = g.nodes[i].state_msg
                               /\ nodes[i].bootstrap = g.nodes[i].bootstrap
  BY <1>1, <1>3 DEF IsNodes, Members
<1>. HIDE DEF nodes
<1>5. /\ IsContext(h) /\ h.nodes = nodes /\ h.my_id = g.my_id /\ h.prim_seqno = g.prim_seqno
      /\ h.state = g.state /\ h.act_id = g.act_id /\ h.state_uuid = g.state_uuid
      /\ h.group_uuid = g.group_uuid /\ h.prim_state = g.prim_state
  BY ONLY <1>1, <1>2 DEF IsContext
<1>. QED BY <1>4, <1>5 DEF IsGroup, Members, Alike

\* An action is ordered in a primary component only, and takes the next seqno;
\* nothing else changes.
LEMMA ActMsg ==
    ASSUME NEW g, IsGroup(g), NEW p, NEW m, NEW r, r = gcs_group_handle_act_msg(g, p, m)
    PROVE  /\ Alike(g, r.g)
           /\ r.out = "ordered" => g.state = "PRIMARY" /\ r.g.act_id = g.act_id + 1
           /\ r.out # "ordered" => r.g.act_id = g.act_id
<1>. DEFINE local == m.from = p
            frag == gcs_defrag_handle_frag(g.nodes[m.from].app, m, local)
            x == g.frag_reset /\ (~ local \/ m.frag # 0)
            g1 == [g EXCEPT !.frag_reset = x, !.nodes[m.from].app = frag.df]
            g2 == [g1 EXCEPT !.act_id = @ + 1]
<1>1. \/ r = [g |-> g1, out |-> "none"]
      \/ r = [g |-> g1, out |-> "EPROTO"]
      \/ r = [g |-> g1, out |-> "request"]
      \/ r = [g |-> g2, out |-> "ordered"] /\ g1.state = "PRIMARY"
      \/ r = [g |-> g1, out |-> IF local THEN "restart" ELSE "none"]
  <2>. DEFINE ret == frag.ret
  <2>1. r = CASE ret = "more"   -> [g |-> g1, out |-> "none"]
          [] ret = "EPROTO" -> [g |-> g1, out |-> "EPROTO"]
          [] ret = "done" /\ m.kind = "request" -> [g |-> g1, out |-> "request"]
          [] ret = "done" /\ m.kind = "action" /\ Orderly(g1, m, local)
                                 -> [g |-> g2, out |-> "ordered"]
          [] OTHER               -> [g |-> g1, out |-> IF local THEN "restart" ELSE "none"]
    BY Zenon DEF gcs_group_handle_act_msg
  <2>2. Orderly(g1, m, local) => g1.state = "PRIMARY"
    BY Zenon DEF Orderly
  <2>. HIDE DEF ret, g1, g2, local
  <2>. QED BY <2>1, <2>2, Zenon
<1>. HIDE DEF local, frag, x
<1>2. Alike(g, g1) /\ g1.act_id = g.act_id
  <2>1. PICK y, a, j : y = x /\ a = frag.df /\ j = m.from
    OBVIOUS
  <2>2. g1 = Put(g, j, y, a)
    BY <2>1, Zenon DEF Put
  <2>. HIDE DEF g1
  <2>. QED BY <2>2, PutFragment
<1>. HIDE DEF g1
<1>3. Alike(g1, g2) /\ g2.act_id = g1.act_id + 1
  <2>1. g2 = [g1 EXCEPT !.act_id = g1.act_id + 1] /\ IsGroup(g1) /\ IsContext(g1)
    BY <1>2 DEF Alike, IsGroup
  <2>. HIDE DEF g2
  <2>2. /\ IsContext(g2) /\ g2.nodes = g1.nodes /\ g2.my_id = g1.my_id /\ g2.prim_seqno = g1.prim_seqno
        /\ g2.state = g1.state /\ g2.act_id = g1.act_id + 1 /\ g2.state_uuid = g1.state_uuid
        /\ g2.group_uuid = g1.group_uuid /\ g2.prim_state = g1.prim_state
    BY ONLY <2>1 DEF IsContext
  <2>. QED BY <2>1, <2>2 DEF IsGroup, Members, Alike
<1>. HIDE DEF g2
<1>4. Alike(g, g2) /\ g2.act_id = g.act_id + 1
  BY <1>2, <1>3 DEF Alike
<1>5. g1.state = g.state
  BY <1>2 DEF Alike
<1>6. CASE r = [g |-> g2, out |-> "ordered"] /\ g1.state = "PRIMARY"
  BY <1>4, <1>5, <1>6
<1>7. CASE r.g = g1 /\ r.out # "ordered"
  BY <1>2, <1>7
<1>. QED BY <1>1, <1>6, <1>7

\* A donor is a member that is synced.
LEMMA DonorSynced ==
    ASSUME NEW g, IsGroup(g), NEW j, NEW name, NEW d, d = group_select_donor(g, j, name), d # NODE_NO_ID
    PROVE  /\ d \in Members(g) /\ g.nodes[d].status >= SYNCED
           /\ name = DESYNC => d = j
<1>. DEFINE synced == {i \in Members(g) : MayDonate(g, i)}
<1>1. \/ name = DESYNC /\ j \in synced /\ d = j
      \/ name = ANY /\ synced # {} /\ d = Min(synced)
      \/ name # DESYNC /\ d \in synced
  BY DEF group_select_donor, DESYNC, ANY
<1>2. synced \subseteq Nat
  BY DEF IsGroup, IsNodes, Members
<1>3. synced # {} => Min(synced) \in synced
  <2>. HIDE DEF synced
  <2>1. synced # {} => \E n \in synced : \A k \in synced : n <= k
    BY <1>2, Least
  <2>. QED BY <2>1 DEF Min
<1>4. d \in synced
  BY <1>1, <1>3
<1>. QED BY <1>1, <1>4 DEF MayDonate, DESYNC, ANY

\* Only the nodes change.
WithNodes(g, nodes) == [g EXCEPT !.nodes = nodes]

\* What other nodes leave alone.
LEMMA OtherNodes ==
    ASSUME NEW g, IsGroup(g), NEW nodes, IsNodes(nodes), DOMAIN nodes = Members(g),
           NEW h, h = WithNodes(g, nodes)
    PROVE  /\ IsGroup(h) /\ Members(h) = Members(g) /\ h.my_id = g.my_id /\ h.nodes = nodes
           /\ h.state = g.state /\ h.act_id = g.act_id /\ h.state_uuid = g.state_uuid
           /\ h.group_uuid = g.group_uuid /\ h.prim_state = g.prim_state
<1>1. IsContext(g) /\ h = [g EXCEPT !.nodes = nodes]
  BY DEF IsGroup, WithNodes
<1>2. /\ IsContext(h) /\ h.nodes = nodes /\ h.my_id = g.my_id /\ h.prim_seqno = g.prim_seqno
      /\ h.state = g.state /\ h.act_id = g.act_id /\ h.state_uuid = g.state_uuid
      /\ h.group_uuid = g.group_uuid /\ h.prim_state = g.prim_state
  BY ONLY <1>1 DEF IsContext
<1>. QED BY <1>2 DEF IsGroup, Members

\* A joiner and its donor are chosen.
JoinerNodes(nodes, j, d) == [nodes EXCEPT ![j].status = JOINER, ![j].donor = d]
DonorNodes(nodes, j, d) == [nodes EXCEPT ![d].status = DONOR, ![d].joiner = j]

\* What becoming a joiner leaves alone.
LEMMA JoinerStatus ==
    ASSUME NEW nodes, IsNodes(nodes), NEW j, NEW d, NEW k, k = JoinerNodes(nodes, j, d)
    PROVE  /\ IsNodes(k) /\ DOMAIN k = DOMAIN nodes
           /\ \A i \in DOMAIN nodes :
                /\ k[i].status = IF i = j THEN JOINER ELSE nodes[i].status
                /\ k[i].state_msg = nodes[i].state_msg /\ k[i].bootstrap = nodes[i].bootstrap
<1>. DEFINE set(n) == [n EXCEPT !.status = JOINER, !.donor = d]
<1>1. PICK c : c = JOINER /\ c \in NodeStates
  BY DEF JOINER, NodeStates, NON_PRIM, SYNCED
<1>2. /\ k = [i \in DOMAIN nodes |-> k[i]] /\ DOMAIN k = DOMAIN nodes
      /\ \A i \in DOMAIN nodes : k[i] = IF i = j THEN set(nodes[i]) ELSE nodes[i]
  BY DEF IsNodes, JoinerNodes
<1>3. ASSUME NEW n, IsNode(n)
      PROVE  /\ IsNode(set(n)) /\ set(n).status = JOINER
             /\ set(n).state_msg = n.state_msg /\ set(n).bootstrap = n.bootstrap
  <2>1. set(n) = [n EXCEPT !.status = c, !.donor = d]
    BY <1>1
  <2>. HIDE DEF set
  <2>2. c \in NodeStates
    BY <1>1
  <2>3. /\ IsNode(set(n)) /\ set(n).status = c
        /\ set(n).state_msg = n.state_msg /\ set(n).bootstrap = n.bootstrap
    BY ONLY <1>3, <2>1, <2>2 DEF IsNode
  <2>. QED BY <1>1, <2>3
<1>. HIDE DEF set
<1>. QED BY <1>2, <1>3 DEF IsNodes

\* What becoming a donor leaves alone.
LEMMA DonorStatus ==
    ASSUME NEW nodes, IsNodes(nodes), NEW j, NEW d, NEW k, k = DonorNodes(nodes, j, d)
    PROVE  /\ IsNodes(k) /\ DOMAIN k = DOMAIN nodes
           /\ \A i \in DOMAIN nodes :
                /\ k[i].status = IF i = d THEN DONOR ELSE nodes[i].status
                /\ k[i].state_msg = nodes[i].state_msg /\ k[i].bootstrap = nodes[i].bootstrap
<1>. DEFINE set(n) == [n EXCEPT !.status = DONOR, !.joiner = j]
<1>1. PICK c : c = DONOR /\ c \in NodeStates
  BY DEF DONOR, NodeStates, NON_PRIM, SYNCED
<1>2. /\ k = [i \in DOMAIN nodes |-> k[i]] /\ DOMAIN k = DOMAIN nodes
      /\ \A i \in DOMAIN nodes : k[i] = IF i = d THEN set(nodes[i]) ELSE nodes[i]
  BY DEF IsNodes, DonorNodes
<1>3. ASSUME NEW n, IsNode(n)
      PROVE  /\ IsNode(set(n)) /\ set(n).status = DONOR
             /\ set(n).state_msg = n.state_msg /\ set(n).bootstrap = n.bootstrap
  <2>1. set(n) = [n EXCEPT !.status = c, !.joiner = j]
    BY <1>1
  <2>. HIDE DEF set
  <2>2. c \in NodeStates
    BY <1>1
  <2>3. /\ IsNode(set(n)) /\ set(n).status = c
        /\ set(n).state_msg = n.state_msg /\ set(n).bootstrap = n.bootstrap
    BY ONLY <1>3, <2>1, <2>2 DEF IsNode
  <2>. QED BY <1>1, <2>3
<1>. HIDE DEF set
<1>. QED BY <1>2, <1>3 DEF IsNodes

\* h is g but for the status of its members.
SameButStatus(g, h) ==
    /\ IsGroup(h) /\ Members(h) = Members(g) /\ h.my_id = g.my_id
    /\ h.state = g.state /\ h.act_id = g.act_id /\ h.state_uuid = g.state_uuid
    /\ h.group_uuid = g.group_uuid /\ h.prim_state = g.prim_state
    /\ \A i \in Members(g) : /\ h.nodes[i].state_msg = g.nodes[i].state_msg
                             /\ h.nodes[i].bootstrap = g.nodes[i].bootstrap

\* A state request makes a joiner of a member that needs the state and sent the
\* request, and a donor of a synced one.
LEMMA StateRequest ==
    ASSUME NEW g, IsGroup(g), NEW m, NEW h, h = gcs_group_handle_state_request(g, m)
    PROVE  /\ SameButStatus(g, h)
           /\ \A i \in Members(g) :
                \/ h.nodes[i].status = g.nodes[i].status
                \/ g.nodes[i].status >= SYNCED /\ h.nodes[i].status = DONOR
                \/ g.nodes[i].status = PRIM /\ h.nodes[i].status = JOINER /\ i = m.from
           /\ h.nodes[g.my_id].status = JOINER /\ h # g /\ m.from = g.my_id =>
                  g.nodes[g.my_id].status = PRIM
<1>. DEFINE j == m.from
            d == group_select_donor(g, j, m.donor)
            k == JoinerNodes(g.nodes, j, d)
            l == DonorNodes(k, j, d)
<1>1. CASE h = g
  BY <1>1 DEF SameButStatus
<1>2. CASE h # g
  <2>1. IsContext(g) /\ IsNodes(g.nodes) /\ g.my_id \in Members(g)
    BY DEF IsGroup
  <2>2. /\ ~ Refused(g, m) /\ d # NODE_NO_ID
        /\ h = [[g EXCEPT !.nodes[j].status = JOINER, !.nodes[j].donor = d]
                  EXCEPT !.nodes[d].status = DONOR, !.nodes[d].joiner = j]
    BY <1>2, Zenon DEF gcs_group_handle_state_request
  <2>3. /\ d \in Members(g) /\ g.nodes[d].status >= SYNCED
        /\ m.donor = DESYNC => d = j
    BY <2>2, DonorSynced
  <2>. HIDE DEF d
  <2>4. [g EXCEPT !.nodes[j].status = JOINER, !.nodes[j].donor = d] = WithNodes(g, k)
    BY <2>1 DEF JoinerNodes, WithNodes, IsContext
  <2>5. /\ IsNodes(k) /\ DOMAIN k = DOMAIN g.nodes
        /\ \A i \in DOMAIN g.nodes :
             /\ k[i].status = IF i = j THEN JOINER ELSE g.nodes[i].status
             /\ k[i].state_msg = g.nodes[i].state_msg /\ k[i].bootstrap = g.nodes[i].bootstrap
    BY <2>1, JoinerStatus
  <2>. HIDE DEF k
  <2>6. /\ IsGroup(WithNodes(g, k)) /\ WithNodes(g, k).nodes = k /\ IsContext(WithNodes(g, k))
        /\ Members(WithNodes(g, k)) = Members(g)
    BY <2>5, OtherNodes DEF Members, IsGroup
  <2>7. [WithNodes(g, k) EXCEPT !.nodes[d].status = DONOR, !.nodes[d].joiner = j]
          = WithNodes(WithNodes(g, k), l)
    <3>1. PICK g1 : g1 = WithNodes(g, k)
      OBVIOUS
    <3>2. IsContext(g1) /\ g1.nodes = k
      BY <2>6, <3>1
    <3>3. [g1 EXCEPT !.nodes[d].status = DONOR, !.nodes[d].joiner = j] = WithNodes(g1, l)
      BY ONLY <3>2 DEF DonorNodes, WithNodes, IsContext
    <3>. HIDE DEF l
    <3>. QED BY <3>1, <3>3
  <2>8. /\ IsNodes(l) /\ DOMAIN l = DOMAIN k
        /\ \A i \in DOMAIN k :
             /\ l[i].status = IF i = d THEN DONOR ELSE k[i].status
             /\ l[i].state_msg = k[i].state_msg /\ l[i].bootstrap = k[i].bootstrap
    BY <2>5, DonorStatus
  <2>. HIDE DEF l
  <2>9. h = WithNodes(WithNodes(g, k), l)
    BY <2>2, <2>4, <2>7
  <2>10. h = WithNodes(g, l)
    BY <2>1, <2>9 DEF WithNodes, IsContext
  <2>11. SameButStatus(g, h) /\ h.nodes = l
    <3>1. DOMAIN l = Members(g)
      BY <2>5, <2>8 DEF Members
    <3>2. /\ IsGroup(h) /\ Members(h) = Members(g) /\ h.my_id = g.my_id /\ h.nodes = l
          /\ h.state = g.state /\ h.act_id = g.act_id /\ h.state_uuid = g.state_uuid
          /\ h.group_uuid = g.group_uuid /\ h.prim_state = g.prim_state
      BY <2>8, <2>10, <3>1, OtherNodes
    <3>. QED BY <2>5, <2>8, <3>2 DEF SameButStatus, Members
  <2>12. \A i \in Members(g) :
            h.nodes[i].status = IF i = d THEN DONOR ELSE IF i = j THEN JOINER ELSE g.nodes[i].status
    BY <2>5, <2>8, <2>11 DEF Members
  <2>13. d # j => g.nodes[j].status = PRIM
    BY <2>2, <2>3 DEF Refused
  <2>14. DONOR # JOINER
    BY DEF DONOR, JOINER
  <2>. QED BY <2>1, <2>3, <2>11, <2>12, <2>13, <2>14
<1>. QED BY <1>1, <1>2

\* One member's last_applied, or its status and whether it counts, are set.
AppliedNodes(nodes, j, v) == [nodes EXCEPT ![j].last_applied = v]
CountedNodes(nodes, j, st, c) == [nodes EXCEPT ![j].status = st, ![j].count_last_applied = c]

\* What last_applied leaves alone.
LEMMA AppliedStatus ==
    ASSUME NEW nodes, IsNodes(nodes), NEW j, NEW v, NEW k, k = AppliedNodes(nodes, j, v)
    PROVE  /\ IsNodes(k) /\ DOMAIN k = DOMAIN nodes
           /\ \A i \in DOMAIN nodes :
                /\ k[i].status = nodes[i].status
                /\ k[i].state_msg = nodes[i].state_msg /\ k[i].bootstrap = nodes[i].bootstrap
<1>. DEFINE set(n) == [n EXCEPT !.last_applied = v]
<1>1. /\ k = [i \in DOMAIN nodes |-> k[i]] /\ DOMAIN k = DOMAIN nodes
      /\ \A i \in DOMAIN nodes : k[i] = IF i = j THEN set(nodes[i]) ELSE nodes[i]
  BY DEF IsNodes, AppliedNodes
<1>2. ASSUME NEW n, IsNode(n)
      PROVE  /\ IsNode(set(n)) /\ set(n).status = n.status
             /\ set(n).state_msg = n.state_msg /\ set(n).bootstrap = n.bootstrap
  BY ONLY <1>2 DEF IsNode
<1>. HIDE DEF set
<1>. QED BY <1>1, <1>2 DEF IsNodes

\* What a new status that counts, or does not, leaves alone.
LEMMA CountedStatus ==
    ASSUME NEW nodes, IsNodes(nodes), NEW j, NEW st \in NodeStates, NEW c,
           NEW k, k = CountedNodes(nodes, j, st, c)
    PROVE  /\ IsNodes(k) /\ DOMAIN k = DOMAIN nodes
           /\ \A i \in DOMAIN nodes :
                /\ k[i].status = IF i = j THEN st ELSE nodes[i].status
                /\ k[i].state_msg = nodes[i].state_msg /\ k[i].bootstrap = nodes[i].bootstrap
<1>. DEFINE set(n) == [n EXCEPT !.status = st, !.count_last_applied = c]
<1>1. /\ k = [i \in DOMAIN nodes |-> k[i]] /\ DOMAIN k = DOMAIN nodes
      /\ \A i \in DOMAIN nodes : k[i] = IF i = j THEN set(nodes[i]) ELSE nodes[i]
  BY DEF IsNodes, CountedNodes
<1>2. ASSUME NEW n, IsNode(n)
      PROVE  /\ IsNode(set(n)) /\ set(n).status = st
             /\ set(n).state_msg = n.state_msg /\ set(n).bootstrap = n.bootstrap
  <2>1. set(n) = [n EXCEPT !.status = st, !.count_last_applied = c] /\ st \in NodeStates
    OBVIOUS
  <2>. HIDE DEF set
  <2>. QED BY ONLY <1>2, <2>1 DEF IsNode
<1>. HIDE DEF set
<1>. QED BY <1>1, <1>2 DEF IsNodes

\* A LAST message changes nothing that matters here.
LEMMA LastMsg ==
    ASSUME NEW g, IsGroup(g), NEW m, NEW h, h = gcs_group_handle_last_msg(g, m)
    PROVE  Alike(g, h) /\ h.act_id = g.act_id
<1>1. PICK v : v = IF m.seqno < g.nodes[m.from].last_applied THEN g.nodes[m.from].last_applied
                   ELSE m.seqno
  OBVIOUS
<1>. DEFINE k == AppliedNodes(g.nodes, m.from, v)
            g1 == WithNodes(g, k)
<1>2. IsContext(g) /\ IsNodes(g.nodes)
  BY DEF IsGroup
<1>3. [g EXCEPT !.nodes[m.from].last_applied = IF m.seqno < @ THEN @ ELSE m.seqno] = g1
  <2>1. PICK j : j = m.from
    OBVIOUS
  <2>2. [g EXCEPT !.nodes[j].last_applied = v] = WithNodes(g, AppliedNodes(g.nodes, j, v))
    BY ONLY <1>2 DEF IsContext, AppliedNodes, WithNodes
  <2>. QED BY <1>1, <2>1, <2>2, Zenon
<1>4. /\ IsNodes(k) /\ DOMAIN k = DOMAIN g.nodes
      /\ \A i \in DOMAIN g.nodes :
           /\ k[i].status = g.nodes[i].status
           /\ k[i].state_msg = g.nodes[i].state_msg /\ k[i].bootstrap = g.nodes[i].bootstrap
  BY <1>2, AppliedStatus
<1>5. h = group_redo_last_applied(g1) \/ h = g1
  <2>. HIDE DEF g1
  <2>. QED BY <1>3, Zenon DEF gcs_group_handle_last_msg
<1>. HIDE DEF k
<1>6. /\ IsGroup(g1) /\ Members(g1) = Members(g) /\ g1.my_id = g.my_id /\ g1.nodes = k
      /\ g1.state = g.state /\ g1.act_id = g.act_id /\ g1.state_uuid = g.state_uuid
      /\ g1.group_uuid = g.group_uuid /\ g1.prim_state = g.prim_state
  BY <1>4, OtherNodes DEF Members
<1>. HIDE DEF g1
<1>7. /\ IsGroup(h) /\ h.nodes = g1.nodes /\ h.my_id = g1.my_id
      /\ h.state = g1.state /\ h.act_id = g1.act_id /\ h.state_uuid = g1.state_uuid 
      /\ h.group_uuid = g1.group_uuid /\ h.prim_state = g1.prim_state
  BY <1>5, <1>6, Redo
<1>. QED BY <1>4, <1>6, <1>7 DEF Alike, Members

\* A JOIN message: its sender is joined, or needs the state again.
LEMMA JoinMsg ==
    ASSUME NEW g, IsGroup(g), NEW m, NEW h, h = gcs_group_handle_join_msg(g, m)
    PROVE  /\ SameButStatus(g, h)
           /\ \A i \in Members(g) :
                \/ h.nodes[i].status = g.nodes[i].status
                \/ i = m.from /\ g.nodes[i].status = DONOR /\ h.nodes[i].status = JOINED
                \/ i = m.from /\ g.nodes[i].status = JOINER /\ m.ok /\ h.nodes[i].status = JOINED
                \/ i = m.from /\ g.nodes[i].status = JOINER /\ h.nodes[i].status = PRIM
<1>. DEFINE st == g.nodes[m.from].status
            k(c) == SetStatus(g.nodes, m.from, c)
<1>1. IsContext(g) /\ IsNodes(g.nodes)
  BY DEF IsGroup
<1>2. ASSUME NEW c \in NodeStates, NEW x,
             h = [g EXCEPT !.nodes[m.from].status = c] \/ h = [g EXCEPT !.nodes[m.from].status = c, !.prim_num = x]
      PROVE  /\ SameButStatus(g, h)
             /\ \A i \in Members(g) : h.nodes[i].status = IF i = m.from THEN c ELSE g.nodes[i].status
  <2>1. h = [g EXCEPT !.nodes = k(c)] \/ h = [g EXCEPT !.nodes = k(c), !.prim_num = x]
    <3>1. PICK j : j = m.from
      OBVIOUS
    <3>2. /\ [g EXCEPT !.nodes[j].status = c] = [g EXCEPT !.nodes = SetStatus(g.nodes, j, c)]
          /\ [g EXCEPT !.nodes[j].status = c, !.prim_num = x]
                = [g EXCEPT !.nodes = SetStatus(g.nodes, j, c), !.prim_num = x]
      BY ONLY <1>1 DEF IsContext, SetStatus
    <3>. QED BY <1>2, <3>1, <3>2
  <2>2. /\ IsNodes(k(c)) /\ DOMAIN k(c) = DOMAIN g.nodes
        /\ \A i \in DOMAIN g.nodes :
             /\ k(c)[i].status = IF i = m.from THEN c ELSE g.nodes[i].status
             /\ k(c)[i].state_msg = g.nodes[i].state_msg /\ k(c)[i].bootstrap = g.nodes[i].bootstrap
    BY <1>1, <1>2, NodeStatus
  <2>. HIDE DEF k
  <2>3. /\ IsContext(h) /\ h.nodes = k(c) /\ h.my_id = g.my_id /\ h.prim_seqno = g.prim_seqno
        /\ h.state = g.state /\ h.act_id = g.act_id /\ h.state_uuid = g.state_uuid
        /\ h.group_uuid = g.group_uuid /\ h.prim_state = g.prim_state
    BY ONLY <1>1, <2>1 DEF IsContext
  <2>4. SameButStatus(g, h)
    BY <2>2, <2>3 DEF SameButStatus, IsGroup, Members
  <2>. QED BY <2>2, <2>3, <2>4 DEF Members
<1>3. JOINED \in NodeStates /\ PRIM \in NodeStates /\ DONOR # JOINER
  BY DEF JOINED, PRIM, NodeStates, NON_PRIM, SYNCED, DONOR, JOINER
<1>4. \/ st = DONOR /\ h = [g EXCEPT !.nodes[m.from].status = JOINED]
      \/ st = JOINER /\ m.ok /\ h = [g EXCEPT !.nodes[m.from].status = JOINED, !.prim_num = g.prim_num + 1]
      \/ st = JOINER /\ h = [g EXCEPT !.nodes[m.from].status = PRIM]
      \/ h = g
  BY <1>3, Zenon DEF gcs_group_handle_join_msg
<1>. HIDE DEF k
<1>5. CASE st = DONOR /\ h = [g EXCEPT !.nodes[m.from].status = JOINED]
  <2>1. /\ SameButStatus(g, h)
        /\ \A i \in Members(g) : h.nodes[i].status = IF i = m.from THEN JOINED ELSE g.nodes[i].status
    BY <1>2, <1>3, <1>5
  <2>. QED BY <1>5, <2>1
<1>6. CASE st = JOINER /\ m.ok /\ h = [g EXCEPT !.nodes[m.from].status = JOINED, !.prim_num = g.prim_num + 1]
  <2>1. /\ SameButStatus(g, h)
        /\ \A i \in Members(g) : h.nodes[i].status = IF i = m.from THEN JOINED ELSE g.nodes[i].status
    BY <1>2, <1>3, <1>6
  <2>. QED BY <1>6, <2>1
<1>7. CASE st = JOINER /\ h = [g EXCEPT !.nodes[m.from].status = PRIM]
  <2>1. /\ SameButStatus(g, h)
        /\ \A i \in Members(g) : h.nodes[i].status = IF i = m.from THEN PRIM ELSE g.nodes[i].status
    BY <1>2, <1>3, <1>7
  <2>. QED BY <1>7, <2>1
<1>8. CASE h = g
  BY <1>8 DEF SameButStatus
<1>. QED BY <1>4, <1>5, <1>6, <1>7, <1>8

\* A SYNC message: its sender is synced if it was joined.
LEMMA SyncMsg ==
    ASSUME NEW g, IsGroup(g), NEW m, NEW h, h = gcs_group_handle_sync_msg(g, m)
    PROVE  /\ SameButStatus(g, h)
           /\ \A i \in Members(g) : \/ h.nodes[i].status = g.nodes[i].status
                                    \/ g.nodes[i].status = JOINED /\ h.nodes[i].status = SYNCED
<1>1. CASE h = g
  BY <1>1 DEF SameButStatus
<1>2. CASE h # g
  <2>1. PICK c : c = TRUE
    OBVIOUS
  <2>2. PICK st : st = SYNCED /\ st \in NodeStates
    BY DEF SYNCED, NodeStates, NON_PRIM
  <2>3. PICK j : j = m.from
    OBVIOUS
  <2>. DEFINE k == CountedNodes(g.nodes, j, st, c)
              g1 == WithNodes(g, k)
  <2>4. IsContext(g) /\ IsNodes(g.nodes)
    BY DEF IsGroup
  <2>5. [g EXCEPT !.nodes[j].status = st, !.nodes[j].count_last_applied = c] = g1
    BY ONLY <2>4 DEF IsContext, CountedNodes, WithNodes
  <2>6. /\ IsNodes(k) /\ DOMAIN k = DOMAIN g.nodes
        /\ \A i \in DOMAIN g.nodes :
             /\ k[i].status = IF i = j THEN st ELSE g.nodes[i].status
             /\ k[i].state_msg = g.nodes[i].state_msg /\ k[i].bootstrap = g.nodes[i].bootstrap
    <3>1. k = CountedNodes(g.nodes, j, st, c) /\ st \in NodeStates
      BY <2>2
    <3>. HIDE DEF k
    <3>. QED BY ONLY <2>4, <3>1, CountedStatus
  <2>. HIDE DEF k
  <2>7. h = group_redo_last_applied(g1) /\ g.nodes[j].status = JOINED
    <3>. HIDE DEF g1
    <3>. QED BY <1>2, <2>1, <2>2, <2>3, <2>5, Zenon DEF gcs_group_handle_sync_msg
  <2>8. /\ IsGroup(g1) /\ Members(g1) = Members(g) /\ g1.my_id = g.my_id /\ g1.nodes = k
        /\ g1.state = g.state /\ g1.act_id = g.act_id /\ g1.state_uuid = g.state_uuid
        /\ g1.group_uuid = g.group_uuid /\ g1.prim_state = g.prim_state
    BY <2>6, OtherNodes DEF Members
  <2>. HIDE DEF g1
  <2>9. /\ IsGroup(h) /\ h.nodes = g1.nodes /\ h.my_id = g1.my_id
        /\ h.state = g1.state /\ h.act_id = g1.act_id /\ h.state_uuid = g1.state_uuid 
        /\ h.group_uuid = g1.group_uuid /\ h.prim_state = g1.prim_state
    BY <2>7, <2>8, Redo
  <2>10. SameButStatus(g, h)
    BY <2>6, <2>8, <2>9 DEF SameButStatus, Members
  <2>. QED BY <2>2, <2>6, <2>7, <2>8, <2>9, <2>10 DEF Members
<1>. QED BY <1>1, <1>2

----------------------------------------------------------------------------
(* The messages a process has yet to receive.  In these definitions s is    *)
(* inbox[p], g is group[p], d is data[p], x is up[p] and vs is views.       *)

\* messages of p itself
IsJoin(p, m) == m.t = "JOIN" /\ m.from = p
IsOwnState(p, m) == m.t = "STATE" /\ m.from = p

\* what a message may say
Sound(p, m, vs) ==
    /\ m.t = "COMP" => m.view \in 1..Len(vs) /\ p \in vs[m.view].members
    /\ m.t = "UUID" => m.uuid \in 1..Len(vs)
    /\ m.t = "STATE" => IsState(m.state) /\ m.state.uuid \in 1..Len(vs)

\* two messages, m before n: components come in order, an exchange is started
\* once and its own state message is sent after its UUID is received, and
\* there is one own JOIN message
Apart(p, m, n) ==
    /\ m.t = "COMP" /\ n.t = "COMP" => m.view < n.view
    /\ m.t = "UUID" /\ n.t = "UUID" => m.uuid # n.uuid
    /\ m.t = "UUID" /\ IsOwnState(p, n) => m.uuid # n.state.uuid
    /\ IsOwnState(p, m) /\ n.t = "UUID" => m.state.uuid # n.uuid
    /\ ~ (IsJoin(p, m) /\ IsJoin(p, n))

\* the state message s tells where g is
Tells(g, s) ==
    s.received = g.act_id /\ s.group_uuid = g.group_uuid /\ s.prim_state = g.prim_state

\* a message and the context: no exchange is started twice, and the own state
\* message of the exchange still tells where the process is
Fits(p, g, m) ==
    /\ m.t = "UUID" => m.uuid # MyNode(g).state_msg.uuid
    /\ IsOwnState(p, m) /\ g.state = "WAIT_STATE_MSG" /\ m.state.uuid = g.state_uuid
          => Tells(g, m.state)

\* the message at i belongs to the component p is in
Live(s, i) == \A j \in 1..(i - 1) : s[j].t # "COMP"

\* an own JOIN message is about the state transfer p is in the middle of, or
\* will be received before the exchange is over
JoinFits(p, s, g, d, i) ==
    /\ g.state = "PRIMARY" => /\ MyNode(g).status # PRIM
                              /\ MyNode(g).status = JOINER /\ s[i].ok => d.have = TRUE
    /\ g.state = "WAIT_STATE_MSG" =>
          /\ MyNode(g).state_msg.uuid # g.state_uuid
          /\ \A j \in 1..(i - 1) : IsOwnState(p, s[j]) => s[j].state.uuid # g.state_uuid

\* own JOIN messages of this component
Joins(p, s, g, d) == \A i \in 1..Len(s) : IsJoin(p, s[i]) /\ Live(s, i) => JoinFits(p, s, g, d, i)

\* what p has to receive, but for own JOIN messages
Plain(p, s, g, vs) ==
    /\ IsSeq(s)
    /\ \A i \in 1..Len(s) : Sound(p, s[i], vs) /\ Fits(p, g, s[i])
    /\ \A i, j \in 1..Len(s) : i < j => Apart(p, s[i], s[j])

\* what p has to receive
Box(p, s, g, d, vs) == Plain(p, s, g, vs) /\ Joins(p, s, g, d)

\* there is no own JOIN message of this component
NoLiveJoin(p, s) == \A i \in 1..Len(s) : ~ (IsJoin(p, s[i]) /\ Live(s, i))

\* A message is received: what is known of the others, and of it.
LEMMA BoxTail ==
    ASSUME NEW p, NEW s, NEW g, NEW d, NEW vs, Box(p, s, g, d, vs), s # <<>>
    PROVE  /\ Plain(p, Tail(s), g, vs)
           /\ Sound(p, Head(s), vs) /\ Fits(p, g, Head(s))
           /\ \A i \in 1..Len(Tail(s)) : Apart(p, Head(s), Tail(s)[i])
           /\ Head(s).t # "COMP" => Joins(p, Tail(s), g, d)
           /\ IsOwnState(p, Head(s)) /\ g.state = "WAIT_STATE_MSG"
                 /\ Head(s).state.uuid = g.state_uuid => NoLiveJoin(p, Tail(s))
           /\ IsJoin(p, Head(s)) => JoinFits(p, s, g, d, 1) /\ NoLiveJoin(p, Tail(s))
<1>. DEFINE t == Tail(s)
<1>1. /\ IsSeq(t) /\ Len(t) = Len(s) - 1 /\ Len(s) \in Nat \ {0} /\ Head(s) = s[1]
      /\ \A i \in 1..(Len(s) - 1) : t[i] = s[i + 1]
  BY SeqTail DEF Box, Plain
<1>. HIDE DEF t
<1>2. \A i \in 1..Len(t) : i + 1 \in 1..Len(s) /\ t[i] = s[i + 1] /\ 1 < i + 1
  BY <1>1
<1>3. 1 \in 1..Len(s)
  BY <1>1
<1>4. \A i \in 1..Len(t) : Sound(p, t[i], vs) /\ Fits(p, g, t[i])
  BY <1>2 DEF Box, Plain
<1>5. \A i, j \in 1..Len(t) : i < j => Apart(p, t[i], t[j])
  <2>1. SUFFICES ASSUME NEW i \in 1..Len(t), NEW j \in 1..Len(t), i < j PROVE Apart(p, t[i], t[j])
    OBVIOUS
  <2>2. i + 1 < j + 1
    BY <1>1, <2>1
  <2>. QED BY <1>2, <2>2 DEF Box, Plain
<1>6. \A i \in 1..Len(t) : Apart(p, s[1], t[i])
  BY <1>2, <1>3 DEF Box, Plain
<1>7. ASSUME NEW i \in 1..Len(t), Head(s).t # "COMP", Live(t, i) PROVE Live(s, i + 1)
  <2>1. SUFFICES ASSUME NEW j \in 1..((i + 1) - 1) PROVE s[j].t # "COMP"
    BY DEF Live
  <2>2. CASE j = 1
    BY <1>1, <1>7, <2>2
  <2>3. CASE j # 1
    <3>1. j - 1 \in 1..(i - 1) /\ j - 1 \in 1..Len(t) /\ (j - 1) + 1 = j
      BY <1>1, <2>3
    <3>. QED BY <1>2, <1>7, <3>1 DEF Live
  <2>. QED BY <2>2, <2>3
<1>8. ASSUME Head(s).t # "COMP", NEW i \in 1..Len(t), IsJoin(p, t[i]), Live(t, i)
      PROVE  JoinFits(p, s, g, d, i + 1)
  BY <1>2, <1>7, <1>8 DEF Box, Joins
<1>9. Head(s).t # "COMP" => Joins(p, t, g, d)
  <2>1. SUFFICES ASSUME Head(s).t # "COMP", NEW i \in 1..Len(t), IsJoin(p, t[i]), Live(t, i)
                 PROVE  JoinFits(p, t, g, d, i)
    BY DEF Joins
  <2>2. JoinFits(p, s, g, d, i + 1)
    BY <1>8, <2>1
  <2>3. \A j \in 1..(i - 1) : j + 1 \in 1..((i + 1) - 1) /\ t[j] = s[j + 1]
    BY <1>1
  <2>4. t[i] = s[i + 1]
    BY <1>2
  <2>. QED BY <2>2, <2>3, <2>4 DEF JoinFits
<1>10. ASSUME IsOwnState(p, Head(s)), g.state = "WAIT_STATE_MSG", Head(s).state.uuid = g.state_uuid
       PROVE  NoLiveJoin(p, t)
  <2>1. SUFFICES ASSUME NEW i \in 1..Len(t), IsJoin(p, t[i]), Live(t, i) PROVE FALSE
    BY DEF NoLiveJoin
  <2>2. JoinFits(p, s, g, d, i + 1)
    BY <1>8, <1>10, <2>1 DEF IsOwnState
  <2>3. 1 \in 1..((i + 1) - 1)
    BY <1>1
  <2>. QED BY <1>1, <1>10, <2>2, <2>3 DEF JoinFits
<1>11. ASSUME IsJoin(p, Head(s))
       PROVE  JoinFits(p, s, g, d, 1) /\ NoLiveJoin(p, t)
  <2>1. Live(s, 1)
    BY DEF Live
  <2>2. JoinFits(p, s, g, d, 1)
    BY <1>1, <1>3, <1>11, <2>1 DEF Box, Joins
  <2>3. NoLiveJoin(p, t)
    BY <1>1, <1>6, <1>11 DEF NoLiveJoin, Apart
  <2>. QED BY <2>2, <2>3
<1>12. Sound(p, s[1], vs) /\ Fits(p, g, s[1])
  BY <1>3 DEF Box, Plain
<1>13. Plain(p, t, g, vs)
  BY <1>1, <1>4, <1>5 DEF Plain
<1>. QED BY <1>1, <1>6, <1>9, <1>10, <1>11, <1>12, <1>13 DEF t

\* A message is delivered.
LEMMA BoxAppend ==
    ASSUME NEW p, NEW s, NEW g, NEW d, NEW vs, Box(p, s, g, d, vs), NEW m,
           Sound(p, m, vs), Fits(p, g, m), \A i \in 1..Len(s) : Apart(p, s[i], m),
           IsJoin(p, m) => /\ g.state = "PRIMARY" /\ MyNode(g).status # PRIM
                           /\ MyNode(g).status = JOINER /\ m.ok => d.have = TRUE
    PROVE  Box(p, Append(s, m), g, d, vs)
<1>. DEFINE t == Append(s, m)
<1>1. /\ IsSeq(t) /\ Len(t) = Len(s) + 1 /\ \A i \in 1..Len(s) : t[i] = s[i]
      /\ t[Len(s) + 1] = m /\ Len(s) \in Nat
  BY SeqAppend, SeqShape DEF Box, Plain
<1>. HIDE DEF t
<1>2. \A i \in 1..Len(t) : (i \in 1..Len(s) /\ t[i] = s[i]) \/ (i = Len(s) + 1 /\ t[i] = m)
  <2>1. SUFFICES ASSUME NEW i \in 1..Len(t)
                 PROVE  (i \in 1..Len(s) /\ t[i] = s[i]) \/ (i = Len(s) + 1 /\ t[i] = m)
    OBVIOUS
  <2>2. CASE i \in 1..Len(s)
    BY <1>1, <2>2, Zenon
  <2>3. CASE i = Len(s) + 1
    BY <1>1, <2>3, Zenon
  <2>4. i \in 1..Len(s) \/ i = Len(s) + 1
    BY <1>1
  <2>. QED BY <2>2, <2>3, <2>4
<1>3. \A i \in 1..Len(t) : Sound(p, t[i], vs) /\ Fits(p, g, t[i])
  BY <1>2 DEF Box, Plain
<1>4. \A i, j \in 1..Len(t) : i < j => Apart(p, t[i], t[j])
  <2>1. SUFFICES ASSUME NEW i \in 1..Len(t), NEW j \in 1..Len(t), i < j PROVE Apart(p, t[i], t[j])
    OBVIOUS
  <2>2. i \in 1..Len(s)
    BY <1>1, <2>1
  <2>3. CASE j \in 1..Len(s)
    BY <1>1, <2>1, <2>2, <2>3 DEF Box, Plain
  <2>4. CASE j = Len(s) + 1
    BY <1>1, <2>2, <2>4
  <2>. QED BY <1>2, <2>3, <2>4
<1>5. Joins(p, t, g, d)
  <2>1. SUFFICES ASSUME NEW i \in 1..Len(t), IsJoin(p, t[i]), Live(t, i) PROVE JoinFits(p, t, g, d, i)
    BY DEF Joins
  <2>2. CASE i \in 1..Len(s)
    <3>1. \A j \in 1..(i - 1) : t[j] = s[j]
      BY <1>1, <2>2
    <3>2. Live(s, i) /\ t[i] = s[i]
      BY <1>1, <2>1, <2>2, <3>1 DEF Live
    <3>3. JoinFits(p, s, g, d, i)
      BY <2>1, <2>2, <3>2 DEF Box, Joins
    <3>. QED BY <3>1, <3>2, <3>3 DEF JoinFits
  <2>3. CASE i = Len(s) + 1
    BY <1>1, <2>1, <2>3 DEF JoinFits
  <2>. QED BY <1>2, <2>2, <2>3
<1>6. Plain(p, t, g, vs)
  BY <1>1, <1>3, <1>4 DEF Plain
<1>. QED BY <1>5, <1>6 DEF Box, t

\* t is s with c after k of its messages and what S has sent of the rest
Splits(s, k, c, S, t) == t = Append(SubSeq(s, 1, k), c) \o SentBy(SubSeq(s, k + 1, Len(s)), S)

\* A component is delivered ahead of some of the messages of the old view.
LEMMA BoxSplit ==
    ASSUME NEW p, NEW s, NEW g, NEW d, NEW vs, Box(p, s, g, d, vs), NEW k \in 0..Len(s), NEW S,
           NEW c, c.t = "COMP", Sound(p, c, vs),
           \A i \in 1..Len(s) : s[i].t = "COMP" => i <= k /\ s[i].view < c.view,
           NEW t, Splits(s, k, c, S, t)
    PROVE  /\ Box(p, t, g, d, vs) /\ t # <<>>
           /\ \A a \in 1..Len(t) : t[a] = c \/ \E i \in 1..Len(s) : t[a] = s[i]
           /\ Head(t).t = "COMP" \/ (s # <<>> /\ Head(t) = Head(s))
<1>. DEFINE b == SubSeq(s, 1, k)
            e == SubSeq(s, k + 1, Len(s))
            f == SentBy(e, S)
            bc == Append(b, c)
<1>1. IsSeq(s) /\ Len(s) \in Nat /\ k \in Nat /\ k <= Len(s)
  BY SeqShape DEF Box, Plain
<1>2. /\ IsSeq(b) /\ Len(b) = k /\ \A i \in 1..k : b[i] = s[i]
      /\ IsSeq(e) /\ Len(e) = Len(s) - k /\ \A i \in 1..(Len(s) - k) : e[i] = s[k + i]
  BY <1>1, SeqPart, Zenon
<1>3. Picked(f, e, Len(e))
  <2>. HIDE DEF e
  <2>. QED BY <1>2, SentByPicks
<1>4. t = bc \o f
  BY DEF Splits
<1>. HIDE DEF b, e, f
<1>5. /\ IsSeq(bc) /\ Len(bc) = k + 1 /\ \A i \in 1..k : bc[i] = s[i]
      /\ bc[k + 1] = c
  BY <1>2, SeqAppend
<1>. HIDE DEF bc
<1>6. IsSeq(f) /\ Len(f) \in Nat
  BY <1>3, SeqShape DEF Picked
<1>7. /\ IsSeq(t) /\ Len(t) = Len(bc) + Len(f)
      /\ \A i \in 1..Len(bc) : t[i] = bc[i]
      /\ \A i \in 1..Len(f) : t[Len(bc) + i] = f[i]
  <2>1. /\ IsSeq(bc \o f) /\ Len(bc \o f) = Len(bc) + Len(f)
        /\ \A i \in 1..Len(bc) : (bc \o f)[i] = bc[i]
        /\ \A i \in 1..Len(f) : (bc \o f)[Len(bc) + i] = f[i]
    BY ONLY <1>5, <1>6, SeqJoin
  <2>. QED BY <1>4, <2>1, Zenon
<1>8. PICK h : /\ \A a \in 1..Len(f) : h[a] \in 1..Len(e) /\ f[a] = e[h[a]]
               /\ \A x, y \in 1..Len(f) : x < y => h[x] < h[y]
  BY <1>3 DEF Picked
<1>. DEFINE at == [a \in 1..Len(t) |-> IF a <= k THEN a ELSE k + h[a - (k + 1)]]
<1>9. t[k + 1] = c /\ k + 1 \in 1..Len(t)
  BY <1>5, <1>6, <1>7
<1>10. ASSUME NEW a \in 1..Len(t), a # k + 1
       PROVE  /\ at[a] \in 1..Len(s) /\ t[a] = s[at[a]]
              /\ a <= k => at[a] = a
              /\ a > k => at[a] > k
  <2>1. CASE a <= k
    BY <1>1, <1>5, <1>7, <2>1
  <2>2. CASE a > k
    <3>1. a - (k + 1) \in 1..Len(f) /\ Len(bc) + (a - (k + 1)) = a
      BY <1>1, <1>5, <1>6, <1>7, <1>10, <2>2
    <3>2. h[a - (k + 1)] \in 1..Len(e) /\ f[a - (k + 1)] = e[h[a - (k + 1)]]
      BY <1>8, <3>1
    <3>3. t[a] = f[a - (k + 1)]
      BY <1>7, <3>1
    <3>4. at[a] = k + h[a - (k + 1)]
      BY <1>1, <2>2
    <3>. HIDE DEF at
    <3>5. h[a - (k + 1)] \in 1..(Len(s) - k)
      BY <1>2, <3>2
    <3>6. at[a] \in 1..Len(s) /\ at[a] > k
      BY <1>1, <3>4, <3>5
    <3>7. e[h[a - (k + 1)]] = s[k + h[a - (k + 1)]]
      BY <1>2, <3>5
    <3>. QED BY <1>1, <2>2, <3>2, <3>3, <3>4, <3>6, <3>7
  <2>. QED BY <2>1, <2>2
<1>11. ASSUME NEW x \in 1..Len(t), NEW y \in 1..Len(t), x # k + 1, y # k + 1, x < y
       PROVE  at[x] < at[y]
  <2>1. CASE x <= k /\ y <= k
    BY <1>10, <1>11, <2>1
  <2>2. CASE x <= k /\ y > k
    BY <1>1, <1>10, <1>11, <2>2
  <2>3. CASE x > k /\ y > k
    <3>1. x - (k + 1) \in 1..Len(f) /\ y - (k + 1) \in 1..Len(f) /\ x - (k + 1) < y - (k + 1)
      BY <1>5, <1>6, <1>7, <1>11, <2>3
    <3>2. h[x - (k + 1)] < h[y - (k + 1)]
      BY <1>8, <3>1
    <3>3. h[x - (k + 1)] \in Int /\ h[y - (k + 1)] \in Int
      BY <1>2, <1>8, <3>1
    <3>4. at[x] = k + h[x - (k + 1)] /\ at[y] = k + h[y - (k + 1)]
      BY <2>3
    <3>. HIDE DEF at
    <3>. QED BY <3>2, <3>3, <3>4
  <2>. QED BY <1>11, <2>1, <2>2, <2>3
<1>. HIDE DEF at
<1>12. \A a \in 1..Len(t) : t[a] = c \/ \E i \in 1..Len(s) : t[a] = s[i]
  BY <1>9, <1>10
<1>13. \A a \in 1..Len(t) : Sound(p, t[a], vs) /\ Fits(p, g, t[a])
  <2>1. Fits(p, g, c)
    BY DEF Fits, IsOwnState
  <2>. QED BY <1>12, <2>1 DEF Box, Plain
<1>14. \A x, y \in 1..Len(t) : x < y => Apart(p, t[x], t[y])
  <2>1. SUFFICES ASSUME NEW x \in 1..Len(t), NEW y \in 1..Len(t), x < y PROVE Apart(p, t[x], t[y])
    OBVIOUS
  <2>2. CASE x # k + 1 /\ y # k + 1
    <3>1. at[x] \in 1..Len(s) /\ t[x] = s[at[x]] /\ at[y] \in 1..Len(s) /\ t[y] = s[at[y]]
      BY <1>10, <2>2
    <3>2. at[x] < at[y]
      BY <1>11, <2>1, <2>2
    <3>. QED BY <3>1, <3>2 DEF Box, Plain
  <2>3. CASE x = k + 1
    <3>1. y # k + 1 /\ y > k
      BY <2>1, <2>3
    <3>2. at[y] \in 1..Len(s) /\ t[y] = s[at[y]] /\ at[y] > k
      BY <1>10, <3>1
    <3>3. t[y].t # "COMP"
      <4>1. ~ (at[y] <= k)
        BY <1>1, <3>2
      <4>. QED BY <3>2, <4>1
    <3>. QED BY <1>9, <2>3, <3>3 DEF Apart, IsOwnState, IsJoin
  <2>4. CASE y = k + 1 /\ x # k + 1
    <3>1. at[x] \in 1..Len(s) /\ t[x] = s[at[x]]
      BY <1>10, <2>4
    <3>2. t[x].t = "COMP" => t[x].view < c.view
      BY <3>1
    <3>. QED BY <1>9, <2>4, <3>2 DEF Apart, IsOwnState, IsJoin
  <2>. QED BY <2>2, <2>3, <2>4
<1>15. Joins(p, t, g, d)
  <2>1. SUFFICES ASSUME NEW a \in 1..Len(t), IsJoin(p, t[a]), Live(t, a) PROVE JoinFits(p, t, g, d, a)
    BY DEF Joins
  <2>2. ~ (a > k + 1)
    <3>1. SUFFICES ASSUME a > k + 1 PROVE FALSE
      OBVIOUS
    <3>2. k + 1 \in 1..(a - 1)
      BY <3>1
    <3>. QED BY <1>9, <2>1, <3>2 DEF Live
  <2>3. a # k + 1
    BY <1>9, <2>1 DEF IsJoin
  <2>4. a <= k /\ a \in 1..Len(s) /\ t[a] = s[a]
    BY <1>10, <2>2, <2>3
  <2>5. \A j \in 1..(a - 1) : t[j] = s[j]
    BY <1>5, <1>6, <1>7, <2>4
  <2>6. Live(s, a)
    BY <2>1, <2>5 DEF Live
  <2>7. JoinFits(p, s, g, d, a)
    BY <2>1, <2>4, <2>6 DEF Box, Joins
  <2>. QED BY <2>4, <2>5, <2>7 DEF JoinFits
<1>16. t # <<>> /\ Head(t) = t[1]
  <2>1. t # <<>>
    <3>1. Len(t) # Len(<<>>)
      BY <1>9, SeqEmpty
    <3>. QED BY <3>1
  <2>. QED BY <1>7, <2>1, SeqTail
<1>17. Head(t).t = "COMP" \/ (s # <<>> /\ Head(t) = Head(s))
  <2>1. CASE k = 0
    <3>1. t[1] = c
      BY <1>9, <2>1
    <3>. QED BY <1>16, <3>1, Zenon
  <2>2. CASE k # 0
    <3>1. t[1] = s[1] /\ Len(s) # 0
      BY <1>1, <1>5, <1>6, <1>7, <2>2
    <3>2. s # <<>>
      BY <3>1, SeqEmpty
    <3>3. Head(s) = s[1]
      BY <1>1, <3>2, SeqTail
    <3>. QED BY <1>16, <3>1, <3>2, <3>3
  <2>. QED BY <2>1, <2>2
<1>. QED BY <1>7, <1>12, <1>13, <1>14, <1>15, <1>16, <1>17 DEF Box, Plain

\* The context changes, and with it nothing that the messages depend on.
LEMMA BoxStatus ==
    ASSUME NEW p, NEW s, NEW g, NEW d, NEW vs, Box(p, s, g, d, vs), NEW h, NEW e,
           h.state = g.state, h.state_uuid = g.state_uuid, h.group_uuid = g.group_uuid,
           h.prim_state = g.prim_state, MyNode(h).state_msg = MyNode(g).state_msg,
           g.state = "WAIT_STATE_MSG" => h.act_id = g.act_id,
           g.state = "PRIMARY" /\ MyNode(g).status # PRIM =>
               /\ MyNode(h).status # PRIM
               /\ MyNode(h).status = JOINER => /\ MyNode(g).status = JOINER
                                               /\ d.have = TRUE => e.have = TRUE
    PROVE  Box(p, s, h, e, vs)
<1>1. Plain(p, s, h, vs)
  BY DEF Box, Plain, Fits, Tells
<1>2. Joins(p, s, h, e)
  BY DEF Box, Joins, JoinFits
<1>. QED BY <1>1, <1>2 DEF Box

----------------------------------------------------------------------------
(* The state of a process *)

\* the application's state
IsData(d) == d = [uuid |-> d.uuid, seqno |-> d.seqno, have |-> d.have] /\ d.have \in BOOLEAN

\* the history p holds is the group's, up to act_id; it has received it
Matches(g, d) == d.uuid = g.group_uuid /\ d.seqno = g.act_id
Holds(g, d) == Matches(g, d) /\ (g.group_uuid # GU_UUID_NIL => d.have = TRUE)

\* the own state message of the exchange that is going on
Exchanging(g, vs) ==
    /\ MyNode(g).state_msg.uuid \in 0..Len(vs)
    /\ g.state = "WAIT_STATE_MSG" =>
          /\ g.state_uuid # GU_UUID_NIL
          /\ MyNode(g).state_msg.uuid = g.state_uuid => Tells(g, MyNode(g).state_msg)

\* what p holds is what its status says, in a primary component, or what its
\* status in the last one says, after that
Carries(g, d) ==
    /\ g.state = "PRIMARY" => /\ MyNode(g).status # NON_PRIM
                              /\ MyNode(g).status >= DONOR => Holds(g, d)
                              /\ MyNode(g).status = JOINER => Matches(g, d)
    /\ g.state # "PRIMARY" => /\ g.prim_state = NON_PRIM \/ g.prim_state >= DONOR => Holds(g, d)
                              /\ g.prim_state = JOINER => Matches(g, d)
                              /\ MyNode(g).status = PRIM => g.prim_state = PRIM

\* a process that has been in a primary component has a history
Rooted(g) ==
    /\ MyNode(g).bootstrap => MayBootstrap
    /\ KnownHistories /\ (MayBootstrap \/ MyNode(g).status # NON_PRIM \/ g.prim_state # NON_PRIM)
          => g.group_uuid # GU_UUID_NIL

\* p has received a component
Own(p, g, d, vs) ==
    IsGroup(g) /\ g.my_id = p /\ Exchanging(g, vs) /\ Carries(g, d) /\ Rooted(g)

\* p has not received its first component
New(p, x, s, g, d) ==
    /\ g = gcs_group_init(History[p].uuid, History[p].seqno)
    /\ d = [uuid |-> History[p].uuid, seqno |-> History[p].seqno,
            have |-> History[p].uuid # GU_UUID_NIL]
    /\ IF s = <<>> THEN x # "up" ELSE Head(s).t = "COMP"

\* a process with its messages, context and state
IsProcess(p, x, s, g, d, vs) ==
    IsData(d) /\ Box(p, s, g, d, vs) /\ (New(p, x, s, g, d) \/ Own(p, g, d, vs))

\* Own node is one of the members.
LEMMA OwnMember ==
    ASSUME NEW p, NEW g, IsGroup(g), g.my_id = p
    PROVE  /\ p \in Members(g) /\ MyNode(g) = g.nodes[p] /\ IsNode(MyNode(g))
           /\ MyNode(g).status \in NodeStates /\ MyNode(g).state_msg.uuid \in Nat
<1>1. NoState.uuid \in Nat
  BY DEF NoState, GU_UUID_NIL
<1>. QED BY <1>1 DEF IsGroup, IsNodes, IsNode, IsState, Members, MyNode

\* A context that differs in what does not matter here, or in the status of
\* its members: what is left to show of it.
LEMMA OwnStatus ==
    ASSUME NEW p, NEW g, NEW d, NEW vs, Own(p, g, d, vs), NEW h, NEW e, IsGroup(h),
           h.my_id = g.my_id, h.state = g.state, h.state_uuid = g.state_uuid,
           h.group_uuid = g.group_uuid, h.prim_state = g.prim_state,
           MyNode(h).state_msg = MyNode(g).state_msg, MyNode(h).bootstrap = MyNode(g).bootstrap,
           g.state = "WAIT_STATE_MSG" => h.act_id = g.act_id,
           MyNode(h).status # NON_PRIM => MyNode(g).status # NON_PRIM,
           Carries(h, e)
    PROVE  Own(p, h, e, vs)
<1>1. Exchanging(h, vs)
  BY DEF Own, Exchanging, Tells
<1>2. Rooted(h)
  BY DEF Own, Rooted
<1>. QED BY <1>1, <1>2 DEF Own

\* LAST messages, and what is not heard in this state.
LEMMA LastStep ==
    ASSUME NEW p, NEW s, NEW g, NEW d, NEW vs, Box(p, s, g, d, vs), Own(p, g, d, vs), NEW m,
           NEW h, h = gcs_group_handle_last_msg(g, m)
    PROVE  /\ Box(p, s, h, d, vs) /\ Own(p, h, d, vs)
           /\ MyNode(h).state_msg = MyNode(g).state_msg
<1>1. Alike(g, h) /\ h.act_id = g.act_id /\ IsGroup(g) /\ g.my_id = p
  BY LastMsg DEF Own
<1>2. /\ IsGroup(h) /\ h.my_id = g.my_id /\ h.state = g.state /\ h.state_uuid = g.state_uuid
      /\ h.group_uuid = g.group_uuid /\ h.prim_state = g.prim_state
      /\ MyNode(h).status = MyNode(g).status /\ MyNode(h).state_msg = MyNode(g).state_msg
      /\ MyNode(h).bootstrap = MyNode(g).bootstrap
  BY <1>1, OwnMember DEF Alike, MyNode
<1>3. Carries(h, d)
  BY <1>1, <1>2 DEF Own, Carries, Holds, Matches
<1>4. Own(p, h, d, vs)
  BY <1>1, <1>2, <1>3, OwnStatus
<1>5. Box(p, s, h, d, vs)
  BY <1>1, <1>2, BoxStatus
<1>. QED BY <1>2, <1>4, <1>5

\* SYNC messages.
LEMMA SyncStep ==
    ASSUME NEW p, NEW s, NEW g, NEW d, NEW vs, Box(p, s, g, d, vs), Own(p, g, d, vs),
           g.state = "PRIMARY", NEW m, NEW h, h = gcs_group_handle_sync_msg(g, m)
    PROVE  /\ Box(p, s, h, d, vs) /\ Own(p, h, d, vs)
           /\ MyNode(h).state_msg = MyNode(g).state_msg
<1>1. /\ SameButStatus(g, h) /\ IsGroup(g) /\ g.my_id = p
      /\ \A i \in Members(g) : \/ h.nodes[i].status = g.nodes[i].status
                               \/ g.nodes[i].status = JOINED /\ h.nodes[i].status = SYNCED
  BY SyncMsg DEF Own
<1>2. /\ IsGroup(h) /\ h.my_id = g.my_id /\ h.state = g.state /\ h.state_uuid = g.state_uuid
      /\ h.group_uuid = g.group_uuid /\ h.prim_state = g.prim_state /\ h.act_id = g.act_id
      /\ MyNode(h).state_msg = MyNode(g).state_msg /\ MyNode(h).bootstrap = MyNode(g).bootstrap
      /\ \/ MyNode(h).status = MyNode(g).status
         \/ MyNode(g).status = JOINED /\ MyNode(h).status = SYNCED
  BY <1>1, OwnMember DEF SameButStatus, MyNode
<1>3. Carries(h, d)
  <2>1. MyNode(g).status \in NodeStates
    BY <1>1, OwnMember
  <2>. QED BY <1>2, <2>1 DEF Own, Carries, Holds, Matches, JOINED, SYNCED, NON_PRIM, DONOR, JOINER, NodeStates
<1>4. Own(p, h, d, vs)
  <2>1. MyNode(h).status # NON_PRIM => MyNode(g).status # NON_PRIM
    BY <1>2 DEF JOINED, NON_PRIM
  <2>. QED BY <1>1, <1>2, <1>3, <2>1, OwnStatus
<1>5. Box(p, s, h, d, vs)
  <2>1. /\ MyNode(g).status # PRIM => MyNode(h).status # PRIM
        /\ MyNode(h).status = JOINER => MyNode(g).status = JOINER
    BY <1>2 DEF JOINED, SYNCED, PRIM, JOINER
  <2>. QED BY <1>1, <1>2, <2>1, BoxStatus
<1>. QED BY <1>2, <1>4, <1>5

\* an own JOIN message is the last one and tells the truth
TransferOver(p, s, g, d, m) ==
    m.from = p => NoLiveJoin(p, s) /\ (MyNode(g).status = JOINER /\ m.ok => d.have = TRUE)

\* JOIN messages: the transfer the message is about has come to its end.
LEMMA JoinStep ==
    ASSUME NEW p, NEW s, NEW g, NEW d, NEW vs, Box(p, s, g, d, vs), Own(p, g, d, vs),
           g.state = "PRIMARY", NEW m, NEW h, h = gcs_group_handle_join_msg(g, m),
           TransferOver(p, s, g, d, m)
    PROVE  /\ Box(p, s, h, d, vs) /\ Own(p, h, d, vs)
           /\ MyNode(h).state_msg = MyNode(g).state_msg
<1>1. /\ SameButStatus(g, h) /\ IsGroup(g) /\ g.my_id = p
      /\ \A i \in Members(g) :
           \/ h.nodes[i].status = g.nodes[i].status
           \/ i = m.from /\ g.nodes[i].status = DONOR /\ h.nodes[i].status = JOINED
           \/ i = m.from /\ g.nodes[i].status = JOINER /\ m.ok /\ h.nodes[i].status = JOINED
           \/ i = m.from /\ g.nodes[i].status = JOINER /\ h.nodes[i].status = PRIM
  BY JoinMsg DEF Own
<1>2. /\ IsGroup(h) /\ h.my_id = g.my_id /\ h.state = g.state /\ h.state_uuid = g.state_uuid
      /\ h.group_uuid = g.group_uuid /\ h.prim_state = g.prim_state /\ h.act_id = g.act_id
      /\ MyNode(h).state_msg = MyNode(g).state_msg /\ MyNode(h).bootstrap = MyNode(g).bootstrap
      /\ \/ MyNode(h).status = MyNode(g).status
         \/ p = m.from /\ MyNode(g).status = DONOR /\ MyNode(h).status = JOINED
         \/ p = m.from /\ MyNode(g).status = JOINER /\ m.ok /\ MyNode(h).status = JOINED
         \/ p = m.from /\ MyNode(g).status = JOINER /\ MyNode(h).status = PRIM
  BY <1>1, OwnMember DEF SameButStatus, MyNode
<1>3. MyNode(g).status \in NodeStates
  BY <1>1, OwnMember
<1>4. Carries(h, d)
  BY <1>2, <1>3 DEF TransferOver, Own, Carries, Holds, Matches, JOINED, PRIM, NON_PRIM, DONOR, JOINER, NodeStates
<1>5. Own(p, h, d, vs)
  <2>1. MyNode(h).status # NON_PRIM => MyNode(g).status # NON_PRIM
    BY <1>2 DEF DONOR, JOINER, NON_PRIM
  <2>. QED BY <1>1, <1>2, <1>4, <2>1, OwnStatus
<1>6. Box(p, s, h, d, vs)
  <2>1. CASE MyNode(h).status = MyNode(g).status
    BY ONLY Box(p, s, g, d, vs), <1>1, <1>2, <2>1, BoxStatus
  <2>2. CASE p = m.from
    <3>1. Plain(p, s, h, vs)
      BY <1>2 DEF Box, Plain, Fits, Tells
    <3>. QED BY <2>2, <3>1 DEF TransferOver, Box, Joins, NoLiveJoin
  <2>. QED BY <1>2, <2>1, <2>2
<1>. QED BY <1>2, <1>5, <1>6

\* Actions: an ordered one extends the history of a process that follows the
\* group, and a process whose own request is taken up starts from an empty one.
LEMMA ActStep ==
    ASSUME NEW p, NEW s, NEW g, NEW d, NEW vs, Box(p, s, g, d, vs), Own(p, g, d, vs), IsData(d),
           NEW m, NEW r, r = gcs_group_handle_act_msg(g, p, m), NEW h, NEW e,
           h = IF r.out = "request" THEN gcs_group_handle_state_request(r.g, m) ELSE r.g,
           r.out = "ordered" => e = Extended(d, h),
           r.out = "request" =>
               e = IF m.from = p /\ h # r.g /\ MyNode(h).status = JOINER
                   THEN [uuid |-> h.group_uuid, seqno |-> h.act_id, have |-> FALSE] ELSE d,
           r.out \notin {"ordered", "request"} => e = d
    PROVE  /\ Box(p, s, h, e, vs) /\ Own(p, h, e, vs) /\ IsData(e)
           /\ MyNode(h).state_msg = MyNode(g).state_msg
<1>1. /\ Alike(g, r.g)
      /\ r.out = "ordered" => g.state = "PRIMARY" /\ r.g.act_id = g.act_id + 1
      /\ r.out # "ordered" => r.g.act_id = g.act_id
      /\ IsGroup(g) /\ g.my_id = p
  BY ActMsg DEF Own
<1>2. PICK k : k = r.g
  OBVIOUS
<1>3. /\ IsGroup(k) /\ k.my_id = g.my_id /\ k.state = g.state /\ k.state_uuid = g.state_uuid
      /\ k.group_uuid = g.group_uuid /\ k.prim_state = g.prim_state
      /\ MyNode(k).status = MyNode(g).status /\ MyNode(k).state_msg = MyNode(g).state_msg
      /\ MyNode(k).bootstrap = MyNode(g).bootstrap
  BY <1>1, <1>2, OwnMember DEF Alike, MyNode
<1>4. MyNode(g).status \in NodeStates /\ g.act_id \in Int
  BY <1>1, OwnMember DEF IsGroup
<1>5. CASE r.out = "ordered"
  <2>1. h = k /\ g.state = "PRIMARY" /\ h.act_id = g.act_id + 1 /\ e = Extended(d, h)
    BY <1>1, <1>2, <1>5
  <2>2. /\ IsData(e) /\ e.uuid = d.uuid /\ e.have = d.have
        /\ e.seqno = IF /\ MyNode(h).status >= JOINER
                        /\ d.uuid = h.group_uuid /\ d.seqno + 1 = h.act_id
                     THEN d.seqno + 1 ELSE d.seqno
    BY <2>1 DEF Extended, IsData
  <2>3. Matches(g, d) /\ MyNode(g).status >= JOINER => Matches(h, e)
    BY <1>3, <1>4, <2>1, <2>2 DEF Matches
  <2>4. Carries(h, e)
    <3>1. MyNode(g).status >= DONOR => MyNode(g).status >= JOINER /\ Holds(g, d)
      BY <1>4, <2>1 DEF Own, Carries, NodeStates, DONOR, JOINER, NON_PRIM, SYNCED
    <3>2. MyNode(g).status = JOINER => MyNode(g).status >= JOINER /\ Matches(g, d)
      BY <2>1 DEF Own, Carries, JOINER
    <3>3. MyNode(g).status # NON_PRIM
      BY <2>1 DEF Own, Carries
    <3>4. MyNode(h).status = MyNode(g).status /\ h.group_uuid = g.group_uuid /\ h.state = "PRIMARY"
      BY <1>3, <2>1
    <3>5. MyNode(h).status >= DONOR => Holds(h, e)
      BY <2>2, <2>3, <3>1, <3>4 DEF Holds
    <3>6. MyNode(h).status = JOINER => Matches(h, e)
      BY <2>3, <3>2, <3>4
    <3>. QED BY <3>3, <3>4, <3>5, <3>6 DEF Carries
  <2>5. Own(p, h, e, vs)
    BY <1>1, <1>3, <2>1, <2>4, OwnStatus
  <2>6. Box(p, s, h, e, vs)
    BY ONLY Box(p, s, g, d, vs), <1>1, <1>3, <2>1, <2>2, BoxStatus
  <2>. QED BY <1>3, <2>1, <2>2, <2>5, <2>6
<1>6. CASE r.out = "request"
  <2>1. /\ h = gcs_group_handle_state_request(k, m) /\ k.act_id = g.act_id
        /\ e = IF m.from = p /\ h # k /\ MyNode(h).status = JOINER
               THEN [uuid |-> h.group_uuid, seqno |-> h.act_id, have |-> FALSE] ELSE d
    BY <1>1, <1>2, <1>6
  <2>2. /\ SameButStatus(k, h)
        /\ \A i \in Members(k) :
             \/ h.nodes[i].status = k.nodes[i].status
             \/ k.nodes[i].status >= SYNCED /\ h.nodes[i].status = DONOR
             \/ k.nodes[i].status = PRIM /\ h.nodes[i].status = JOINER /\ i = m.from
        /\ h.nodes[k.my_id].status = JOINER /\ h # k /\ m.from = k.my_id =>
               k.nodes[k.my_id].status = PRIM
    BY ONLY <1>3, <2>1, StateRequest
  <2>3. /\ IsGroup(h) /\ h.my_id = g.my_id /\ h.state = g.state /\ h.state_uuid = g.state_uuid
        /\ h.group_uuid = g.group_uuid /\ h.prim_state = g.prim_state /\ h.act_id = g.act_id
        /\ MyNode(h).state_msg = MyNode(g).state_msg /\ MyNode(h).bootstrap = MyNode(g).bootstrap
        /\ \/ MyNode(h).status = MyNode(g).status
           \/ MyNode(g).status >= SYNCED /\ MyNode(h).status = DONOR
           \/ MyNode(g).status = PRIM /\ MyNode(h).status = JOINER /\ p = m.from
        /\ MyNode(h).status = JOINER /\ h # k /\ m.from = p => MyNode(g).status = PRIM
    <3>1. k.my_id = p /\ p \in Members(k) /\ MyNode(k) = k.nodes[p]
      BY ONLY <1>1, <1>3, OwnMember
    <3>2. /\ IsGroup(h) /\ h.my_id = p /\ h.state = k.state /\ h.state_uuid = k.state_uuid
          /\ h.group_uuid = k.group_uuid /\ h.prim_state = k.prim_state /\ h.act_id = k.act_id
          /\ h.nodes[p].state_msg = k.nodes[p].state_msg
          /\ h.nodes[p].bootstrap = k.nodes[p].bootstrap
      BY ONLY <2>2, <3>1 DEF SameButStatus
    <3>3. MyNode(h) = h.nodes[p]
      BY ONLY <3>2 DEF MyNode
    <3>4. \/ h.nodes[p].status = k.nodes[p].status
          \/ k.nodes[p].status >= SYNCED /\ h.nodes[p].status = DONOR
          \/ k.nodes[p].status = PRIM /\ h.nodes[p].status = JOINER /\ p = m.from
      BY ONLY <2>2, <3>1
    <3>5. h.nodes[p].status = JOINER /\ h # k /\ m.from = p => k.nodes[p].status = PRIM
      BY ONLY <2>2, <3>1
    <3>. QED BY ONLY <1>1, <1>3, <2>1, <3>1, <3>2, <3>3, <3>4, <3>5
  <2>4. CASE MyNode(g).status = PRIM /\ MyNode(h).status = JOINER /\ p = m.from
    <3>1. h # k
      BY <1>3, <2>4 DEF PRIM, JOINER
    <3>2. e = [uuid |-> h.group_uuid, seqno |-> h.act_id, have |-> FALSE]
      BY <2>1, <2>4, <3>1
    <3>3. IsData(e) /\ Matches(h, e)
      BY <3>2 DEF IsData, Matches
    <3>4. Carries(h, e)
      BY <2>3, <2>4, <3>3 DEF Own, Carries, JOINER, DONOR, NON_PRIM, PRIM
    <3>5. Own(p, h, e, vs)
      <4>1. MyNode(h).status # NON_PRIM => MyNode(g).status # NON_PRIM
        BY <2>4 DEF PRIM, NON_PRIM
      <4>. QED BY <1>1, <2>3, <3>4, <4>1, OwnStatus
    <3>6. Box(p, s, h, e, vs)
      BY ONLY Box(p, s, g, d, vs), <1>1, <2>3, <2>4, BoxStatus
    <3>. QED BY <2>3, <3>3, <3>5, <3>6
  <2>5. CASE \/ MyNode(h).status = MyNode(g).status
             \/ MyNode(g).status >= SYNCED /\ MyNode(h).status = DONOR
    <3>1. e = d
      BY <2>1, <2>3, <2>5 DEF PRIM, JOINER, DONOR, SYNCED
    <3>2. Carries(h, d)
      BY <1>4, <2>3, <2>5 DEF Own, Carries, Holds, Matches, JOINER, DONOR, NON_PRIM, PRIM, SYNCED, NodeStates
    <3>3. /\ MyNode(h).status # NON_PRIM => MyNode(g).status # NON_PRIM
          /\ MyNode(g).status # PRIM => MyNode(h).status # PRIM
          /\ MyNode(h).status = JOINER => MyNode(g).status = JOINER
      BY <1>4, <2>5 DEF PRIM, NON_PRIM, DONOR, JOINER, SYNCED, NodeStates
    <3>4. Own(p, h, d, vs)
      BY <1>1, <2>3, <3>2, <3>3, OwnStatus
    <3>5. Box(p, s, h, d, vs)
      BY ONLY Box(p, s, g, d, vs), <1>1, <2>3, <3>3, BoxStatus
    <3>. QED BY <2>3, <3>1, <3>4, <3>5
  <2>. QED BY <2>3, <2>4, <2>5
<1>7. CASE r.out \notin {"ordered", "request"}
  <2>1. h = k /\ h.act_id = g.act_id /\ e = d
    BY <1>1, <1>2, <1>7
  <2>2. Carries(h, d)
    BY <1>3, <2>1 DEF Own, Carries, Holds, Matches
  <2>3. Own(p, h, d, vs)
    BY <1>1, <1>3, <2>1, <2>2, OwnStatus
  <2>4. Box(p, s, h, d, vs)
    BY ONLY Box(p, s, g, d, vs), <1>1, <1>3, <2>1, BoxStatus
  <2>. QED BY <1>3, <2>1, <2>3, <2>4
<1>. QED BY <1>5, <1>6, <1>7

\* A context that waits for an exchange, or for a primary component, is not
\* concerned by the messages of the old one.
LEMMA BoxWaits ==
    ASSUME NEW p, NEW s, NEW g, NEW vs, Plain(p, s, g, vs), NEW h, NEW e,
           h.state \in {"WAIT_STATE_UUID", "NON_PRIMARY"},
           \/ MyNode(h).state_msg = MyNode(g).state_msg
           \/ MyNode(h).state_msg = NoState
    PROVE  Box(p, s, h, e, vs)
<1>1. \A i \in 1..Len(s) : s[i].t = "UUID" => s[i].uuid # MyNode(h).state_msg.uuid
  <2>1. SUFFICES ASSUME NEW i \in 1..Len(s), s[i].t = "UUID" PROVE s[i].uuid # MyNode(h).state_msg.uuid
    OBVIOUS
  <2>2. s[i].uuid # MyNode(g).state_msg.uuid /\ s[i].uuid \in 1..Len(vs)
    BY <2>1 DEF Plain, Fits, Sound
  <2>3. CASE MyNode(h).state_msg = NoState
    <3>1. NoState.uuid = 0 /\ s[i].uuid # 0
      BY <2>2 DEF NoState, GU_UUID_NIL
    <3>. QED BY <2>3, <3>1
  <2>. QED BY <2>2, <2>3
<1>2. Plain(p, s, h, vs)
  BY <1>1 DEF Plain, Fits
<1>3. Joins(p, s, h, e)
  BY DEF Joins, JoinFits
<1>. QED BY <1>2, <1>3 DEF Box

\* A component.
LEMMA CompStep ==
    ASSUME NEW p \in Procs, NEW x, NEW s, NEW g, NEW d, NEW vs, IsProcess(p, x, s, g, d, vs),
           s # <<>>, Head(s).t = "COMP", NEW v, v = Head(s).view, v \in 1..Len(vs),
           NEW c, IsComponent(c, p), c.bootstrap => MayBootstrap, IsSeq(vs),
           NEW h, h = gcs_group_handle_comp_msg(g, p, c, v),
           NEW e, e = IF h.group_uuid = g.group_uuid THEN d
                      ELSE [uuid |-> h.group_uuid, seqno |-> h.act_id, have |-> TRUE]
    PROVE  /\ Box(p, Tail(s), h, e, vs) /\ Own(p, h, e, vs) /\ IsData(e)
           /\ Members(h) = c.members
           /\ MyNode(h).state_msg = MyNode(g).state_msg \/ MyNode(h).state_msg = NoState
<1>1. Plain(p, Tail(s), g, vs)
  BY BoxTail DEF IsProcess
<1>2. p \in Nat \ {0} /\ v \in Nat \ {0} /\ Len(vs) \in Nat
  BY GcsAssumption, SeqShape
<1>3. CASE New(p, x, s, g, d)
  <2>1. PICK u, q : u = History[p].uuid /\ q = History[p].seqno
    OBVIOUS
  <2>2. u \in Nat /\ q \in Int /\ (u = GU_UUID_NIL <=> q < 0)
    BY <2>1, GcsAssumption
  <2>3. g = gcs_group_init(u, q) /\ d = [uuid |-> u, seqno |-> q, have |-> u # GU_UUID_NIL]
    BY <1>3, <2>1 DEF New
  <2>4. /\ IsGroup(h) /\ Members(h) = c.members /\ h.my_id = p
        /\ h.state = IF c.prim THEN "WAIT_STATE_UUID" ELSE "NON_PRIMARY"
        /\ h.state_uuid = GU_UUID_NIL /\ h.prim_state = NON_PRIM
        /\ \/ h.group_uuid = u /\ h.act_id = q
           \/ u = GU_UUID_NIL /\ h.group_uuid = v /\ h.act_id = 0
        /\ h.nodes[p].status \in {NON_PRIM, JOINED}
        /\ h.nodes[p].status = JOINED => h.group_uuid # GU_UUID_NIL
        /\ h.nodes[p].state_msg = NoState /\ ~ h.nodes[p].bootstrap
    <3>1. h = gcs_group_handle_comp_msg(gcs_group_init(u, q), p, c, v) /\ IsComponent(c, p)
      BY <2>3
    <3>2. Started(h, p, c, v, u, q)
      BY ONLY <1>2, <2>2, <3>1, FirstComp
    <3>. QED BY <3>2 DEF Started
  <2>5. g.group_uuid = u
    BY <2>3 DEF gcs_group_init
  <2>6. Holds(h, e) /\ IsData(e)
    <3>1. CASE h.group_uuid = u
      <4>1. h.act_id = q /\ e = d
        BY <1>2, <2>4, <2>5, <3>1 DEF GU_UUID_NIL
      <4>2. d.uuid = u /\ d.seqno = q /\ (u # GU_UUID_NIL => d.have = TRUE)
        BY <2>3
      <4>. QED BY <3>1, <4>1, <4>2 DEF Holds, Matches, IsProcess
    <3>2. CASE h.group_uuid # u
      BY <2>5, <3>2 DEF Holds, Matches, IsData
    <3>. QED BY <3>1, <3>2
  <2>7. MyNode(h) = h.nodes[p]
    BY <2>4, OwnMember
  <2>8. h.state \in {"WAIT_STATE_UUID", "NON_PRIMARY"}
    BY <2>4
  <2>9. Box(p, Tail(s), h, e, vs)
    BY <1>1, <2>4, <2>7, <2>8, BoxWaits
  <2>10. Exchanging(h, vs)
    BY <1>2, <2>4, <2>7, <2>8 DEF Exchanging, NoState, GU_UUID_NIL
  <2>11. Carries(h, e)
    BY <2>4, <2>6, <2>7, <2>8 DEF Carries, NON_PRIM, JOINED, PRIM, JOINER, DONOR
  <2>12. Rooted(h)
    <3>1. KnownHistories /\ MayBootstrap => h.group_uuid # GU_UUID_NIL
      BY <2>1, <2>4 DEF KnownHistories
    <3>. QED BY <2>4, <2>7, <3>1 DEF Rooted
  <2>. QED BY <2>4, <2>6, <2>7, <2>9, <2>10, <2>11, <2>12 DEF Own
<1>4. CASE Own(p, g, d, vs)
  <2>1. IsGroup(g) /\ g.my_id = p /\ MyNode(g) = g.nodes[p] /\ MyNode(g).status \in NodeStates
    BY <1>4, OwnMember DEF Own
  <2>2. /\ IsGroup(h) /\ Members(h) = c.members /\ h.my_id = p
        /\ h.state = IF c.prim THEN "WAIT_STATE_UUID" ELSE "NON_PRIMARY"
        /\ h.prim_state = IF g.state = "PRIMARY" THEN g.nodes[p].status ELSE g.prim_state
        /\ h.group_uuid = g.group_uuid /\ h.act_id = g.act_id
        /\ h.nodes[p].status = IF c.prim THEN g.nodes[p].status ELSE NON_PRIM
        /\ h.nodes[p].state_msg = g.nodes[p].state_msg
        /\ h.nodes[p].bootstrap => c.bootstrap \/ g.nodes[p].bootstrap
    BY ONLY <1>2, <2>1, IsComponent(c, p), h = gcs_group_handle_comp_msg(g, p, c, v), LaterComp
  <2>3. e = d /\ IsData(e)
    BY <2>2 DEF IsProcess
  <2>4. MyNode(h) = h.nodes[p]
    BY <2>2, OwnMember
  <2>5. h.state \in {"WAIT_STATE_UUID", "NON_PRIMARY"}
    BY <2>2
  <2>6. Box(p, Tail(s), h, e, vs)
    BY <1>1, <2>1, <2>2, <2>4, <2>5, BoxWaits
  <2>7. Exchanging(h, vs)
    BY <1>4, <2>1, <2>2, <2>4, <2>5 DEF Exchanging, Own
  <2>8. Carries(h, d)
    <3>1. /\ Matches(g, d) => Matches(h, d)
          /\ Holds(g, d) => Holds(h, d)
      BY <2>2 DEF Matches, Holds
    <3>2. MyNode(h).status = PRIM => MyNode(g).status = PRIM
      BY <2>1, <2>2, <2>4 DEF NON_PRIM, PRIM
    <3>3. CASE g.state = "PRIMARY"
      <4>1. h.prim_state = MyNode(g).status
        BY <2>1, <2>2, <3>3
      <4>2. /\ MyNode(g).status # NON_PRIM
            /\ MyNode(g).status >= DONOR => Holds(g, d)
            /\ MyNode(g).status = JOINER => Matches(g, d)
        BY <1>4, <3>3 DEF Own, Carries
      <4>. QED BY <2>5, <3>1, <3>2, <4>1, <4>2 DEF Carries
    <3>4. CASE g.state # "PRIMARY"
      <4>1. h.prim_state = g.prim_state
        BY <2>2, <3>4
      <4>2. /\ g.prim_state = NON_PRIM \/ g.prim_state >= DONOR => Holds(g, d)
            /\ g.prim_state = JOINER => Matches(g, d)
            /\ MyNode(g).status = PRIM => g.prim_state = PRIM
        BY <1>4, <3>4 DEF Own, Carries
      <4>. QED BY <2>5, <3>1, <3>2, <4>1, <4>2 DEF Carries
    <3>. QED BY <3>3, <3>4
  <2>9. Rooted(h)
    <3>1. MyNode(h).bootstrap => MayBootstrap
      BY <1>4, <2>1, <2>2, <2>4 DEF Own, Rooted
    <3>2. MyNode(h).status # NON_PRIM => MyNode(g).status # NON_PRIM
      BY <2>1, <2>2, <2>4
    <3>3. h.prim_state # NON_PRIM => MyNode(g).status # NON_PRIM \/ g.prim_state # NON_PRIM
      BY <2>1, <2>2
    <3>. QED BY <1>4, <2>2, <3>1, <3>2, <3>3 DEF Own, Rooted
  <2>. QED BY <2>1, <2>2, <2>3, <2>4, <2>6, <2>7, <2>8, <2>9 DEF Own
<1>. QED BY <1>3, <1>4 DEF IsProcess

\* The UUID of an exchange: the state message that p sends tells where it is.
LEMMA UuidStep ==
    ASSUME NEW p, NEW s, NEW g, NEW d, NEW vs, Box(p, s, g, d, vs), Own(p, g, d, vs), IsSeq(vs),
           s # <<>>, NEW m, m = Head(s), m.t = "UUID",
           NEW h, h = gcs_group_handle_uuid_msg(g, m), h # g,
           NEW n, n = [t |-> "STATE", from |-> p, state |-> gcs_group_get_state(h)]
    PROVE  /\ Box(p, Tail(s), h, d, vs) /\ Own(p, h, d, vs)
           /\ n.state.uuid = m.uuid /\ Sound(p, n, vs) /\ Fits(p, h, n)
           /\ \A i \in 1..Len(Tail(s)) : Apart(p, Tail(s)[i], n)
           /\ MyNode(h).state_msg = MyNode(g).state_msg
<1>1. /\ Plain(p, Tail(s), g, vs) /\ Sound(p, m, vs) /\ Fits(p, g, m)
      /\ \A i \in 1..Len(Tail(s)) : Apart(p, m, Tail(s)[i])
  BY BoxTail
<1>2. PICK t : t = Tail(s)
  OBVIOUS
<1>3. m.uuid \in 1..Len(vs) /\ Len(vs) \in Nat /\ m.uuid \in Nat /\ m.uuid # 0
  BY <1>1, SeqShape DEF Sound
<1>4. /\ IsGroup(h) /\ h.nodes = g.nodes /\ h.my_id = g.my_id
      /\ g.state = "WAIT_STATE_UUID" /\ h.state = "WAIT_STATE_MSG" /\ h.state_uuid = m.uuid
      /\ h.act_id = g.act_id /\ h.group_uuid = g.group_uuid /\ h.prim_state = g.prim_state
  BY <1>3, UuidMsg DEF Own
<1>5. MyNode(h) = MyNode(g) /\ m.uuid # MyNode(h).state_msg.uuid
  BY <1>1, <1>4 DEF MyNode, Fits
<1>6. \A i \in 1..Len(t) : /\ IsOwnState(p, t[i]) => t[i].state.uuid # m.uuid
                           /\ t[i].t = "UUID" => t[i].uuid # m.uuid
  BY <1>1, <1>2 DEF Apart
<1>7. Plain(p, t, h, vs)
  <2>1. \A i \in 1..Len(t) : Fits(p, h, t[i])
    BY <1>1, <1>2, <1>4, <1>5, <1>6 DEF Plain, Fits
  <2>. QED BY <1>1, <1>2, <2>1 DEF Plain
<1>8. Joins(p, t, h, d)
  <2>1. SUFFICES ASSUME NEW i \in 1..Len(t) PROVE JoinFits(p, t, h, d, i)
    BY DEF Joins
  <2>2. Len(t) \in Nat
    BY <1>7, SeqShape DEF Plain
  <2>3. \A j \in 1..(i - 1) : j \in 1..Len(t)
    BY <2>2
  <2>. QED BY <1>4, <1>5, <1>6, <2>3 DEF JoinFits
<1>9. Own(p, h, d, vs)
  <2>1. Exchanging(h, vs)
    BY <1>3, <1>4, <1>5 DEF Own, Exchanging, GU_UUID_NIL
  <2>2. Carries(h, d)
    BY <1>4, <1>5 DEF Own, Carries, Holds, Matches
  <2>3. Rooted(h)
    BY <1>4, <1>5 DEF Own, Rooted
  <2>. QED BY <1>4, <2>1, <2>2, <2>3 DEF Own
<1>10. /\ IsState(n.state) /\ n.state.uuid = m.uuid /\ Tells(h, n.state)
       /\ n.t = "STATE" /\ n.from = p
  <2>1. /\ MyNode(h).status = PRIM => h.prim_state = PRIM
        /\ KnownHistories /\ (\/ MyNode(h).status # NON_PRIM \/ h.prim_state # NON_PRIM
                              \/ MyNode(h).bootstrap) => h.group_uuid # GU_UUID_NIL
    BY <1>4, <1>9 DEF Own, Carries, Rooted
  <2>2. PICK st : st = gcs_group_get_state(h)
    OBVIOUS
  <2>3. /\ IsState(st) /\ st.uuid = h.state_uuid
        /\ st.received = h.act_id /\ st.group_uuid = h.group_uuid /\ st.prim_state = h.prim_state
    BY <1>4, <2>1, <2>2, OwnState
  <2>. QED BY <1>4, <2>2, <2>3 DEF Tells
<1>11. Sound(p, n, vs) /\ Fits(p, h, n) /\ ~ IsJoin(p, n)
  BY <1>3, <1>10 DEF Sound, Fits, IsJoin
<1>12. \A i \in 1..Len(t) : Apart(p, t[i], n)
  BY <1>6, <1>10 DEF Apart, IsJoin
<1>. QED BY <1>2, <1>5, <1>7, <1>8, <1>9, <1>10, <1>11, <1>12 DEF Box

\* A state message is recorded: p is still where its own one says.
LEMMA RecordStep ==
    ASSUME NEW p, NEW s, NEW g, NEW d, NEW vs, Box(p, s, g, d, vs), Own(p, g, d, vs), IsSeq(vs),
           s # <<>>, NEW m, m = Head(s), m.t = "STATE",
           g.state = "WAIT_STATE_MSG", m.state.uuid = g.state_uuid,
           NEW h, h = gcs_node_record_state(g, m)
    PROVE  /\ Box(p, Tail(s), h, d, vs) /\ Own(p, h, d, vs)
           /\ h.state = g.state /\ h.state_uuid = g.state_uuid
           /\ \/ MyNode(h).state_msg = MyNode(g).state_msg
              \/ MyNode(h).state_msg = m.state /\ IsOwnState(p, m)
<1>1. /\ Plain(p, Tail(s), g, vs) /\ Sound(p, m, vs) /\ Fits(p, g, m)
      /\ \A i \in 1..Len(Tail(s)) : Apart(p, m, Tail(s)[i])
      /\ Joins(p, Tail(s), g, d)
      /\ IsOwnState(p, m) => NoLiveJoin(p, Tail(s))
  BY BoxTail
<1>2. IsState(m.state) /\ m.state.uuid \in 1..Len(vs) /\ Len(vs) \in Nat
  BY <1>1, SeqShape DEF Sound
<1>3. /\ IsGroup(h) /\ Members(h) = Members(g) /\ h.my_id = g.my_id
      /\ h.state = g.state /\ h.act_id = g.act_id /\ h.state_uuid = g.state_uuid
      /\ h.group_uuid = g.group_uuid /\ h.prim_state = g.prim_state
      /\ \A i \in Members(g) :
           /\ h.nodes[i].bootstrap = g.nodes[i].bootstrap
           /\ i # m.from => h.nodes[i] = g.nodes[i]
           /\ i = m.from => /\ h.nodes[i].state_msg = m.state
                            /\ h.nodes[i].status = m.state.current_state
  BY <1>2, RecordState DEF Own
<1>4. /\ IsGroup(g) /\ g.my_id = p /\ p \in Members(g) /\ MyNode(g) = g.nodes[p]
      /\ MyNode(h) = h.nodes[p]
  BY <1>3, OwnMember DEF Own
<1>5. CASE m.from # p
  <2>1. MyNode(h) = MyNode(g)
    BY <1>3, <1>4, <1>5
  <2>2. Box(p, Tail(s), g, d, vs)
    BY <1>1 DEF Box
  <2>3. Box(p, Tail(s), h, d, vs)
    BY ONLY <1>3, <2>1, <2>2, BoxStatus
  <2>4. Carries(h, d)
    BY <1>3, <2>1 DEF Own, Carries, Holds, Matches
  <2>5. Own(p, h, d, vs)
    BY <1>3, <1>4, <2>1, <2>4, OwnStatus
  <2>. QED BY <1>3, <2>1, <2>3, <2>5
<1>6. CASE m.from = p
  <2>1. /\ MyNode(h).state_msg = m.state /\ MyNode(h).status = m.state.current_state
        /\ MyNode(h).bootstrap = MyNode(g).bootstrap /\ IsOwnState(p, m)
    BY <1>3, <1>4, <1>6 DEF IsOwnState
  <2>2. Tells(g, m.state)
    BY <1>1, <2>1 DEF Fits
  <2>3. Plain(p, Tail(s), h, vs)
    <3>1. \A i \in 1..Len(Tail(s)) : Fits(p, h, Tail(s)[i])
      BY <1>1, <1>3, <2>1 DEF Plain, Fits, Apart, Tells
    <3>. QED BY <1>1, <3>1 DEF Plain
  <2>4. Box(p, Tail(s), h, d, vs)
    BY <1>1, <2>1, <2>3 DEF Box, Joins, NoLiveJoin
  <2>5. Exchanging(h, vs)
    BY <1>2, <1>3, <2>1, <2>2 DEF Own, Exchanging, Tells
  <2>6. Carries(h, d)
    <3>1. MyNode(h).status = PRIM => h.prim_state = PRIM
      BY <1>2, <1>3, <2>1, <2>2 DEF IsState, Tells
    <3>. QED BY <1>3, <3>1 DEF Own, Carries, Holds, Matches
  <2>7. Rooted(h)
    <3>1. KnownHistories /\ m.state.current_state # NON_PRIM => g.group_uuid # GU_UUID_NIL
      BY <1>2, <2>2 DEF IsState, Tells
    <3>. QED BY <1>3, <2>1, <3>1 DEF Own, Rooted
  <2>. QED BY <1>3, <1>4, <2>1, <2>4, <2>5, <2>6, <2>7 DEF Own
<1>. QED BY <1>5, <1>6

\* The exchange is over: p is taken for what it was if it is where the group
\* is, and for a member that needs the state if it is not.
LEMMA ExchangeStep ==
    ASSUME NEW p, NEW s, NEW g, NEW d, NEW vs, Box(p, s, g, d, vs), Own(p, g, d, vs),
           g.state = "WAIT_STATE_MSG", ExchangeComplete(g),
           NEW h, h = group_post_state_exchange(g)
    PROVE  /\ Box(p, s, h, d, vs) /\ Own(p, h, d, vs)
           /\ MyNode(h).state_msg = MyNode(g).state_msg
<1>. DEFINE n == MyNode(g).state_msg
<1>1. PICK q : q = gcs_state_msg_get_quorum(States(g))
  OBVIOUS
<1>2. /\ IsGroup(g) /\ g.my_id = p /\ p \in Members(g) /\ MyNode(g) = g.nodes[p]
      /\ g.state_uuid # GU_UUID_NIL
  BY OwnMember DEF Own, Exchanging
<1>3. /\ IsGroup(h) /\ Members(h) = Members(g) /\ h.my_id = g.my_id
      /\ h.prim_state = g.prim_state
      /\ h.nodes[g.my_id].state_msg = g.nodes[g.my_id].state_msg
      /\ ~ h.nodes[g.my_id].bootstrap
      /\ h.nodes[g.my_id].status = gcs_node_update_status(g.nodes[g.my_id].state_msg, q)
      /\ q.primary => /\ h.state = "PRIMARY" /\ h.act_id = q.act_id /\ h.group_uuid = q.group_uuid
                      /\ \E i \in Members(g) : 
                           /\ q = Inherited(g.nodes[i].state_msg)
                           /\ IsState(g.nodes[i].state_msg)
                           /\ \/ gcs_node_is_joined(g.nodes[i].state_msg.current_state)
                              \/ gcs_node_is_joined(g.nodes[i].state_msg.prim_state)
                              \/ g.nodes[i].state_msg.bootstrap
      /\ ~ q.primary => /\ h.state = "NON_PRIMARY" /\ h.act_id = g.act_id
                        /\ h.group_uuid = g.group_uuid
  BY <1>1, <1>2, PostExchange
<1>4. /\ MyNode(h) = h.nodes[p] /\ MyNode(h).state_msg = n /\ ~ MyNode(h).bootstrap
      /\ MyNode(h).status = gcs_node_update_status(n, q)
  BY <1>2, <1>3, OwnMember
<1>5. n.uuid = g.state_uuid /\ Tells(g, n) /\ IsState(n)
  <2>1. n.uuid = g.state_uuid
    BY <1>2 DEF ExchangeComplete
  <2>2. n # NoState
    BY <1>2, <2>1 DEF NoState
  <2>3. IsState(n)
    BY <1>2, <2>2, OwnMember DEF IsNode
  <2>. QED BY <2>1, <2>3 DEF Own, Exchanging
<1>. HIDE DEF n
<1>6. Plain(p, s, h, vs)
  <2>1. h.state # "WAIT_STATE_MSG"
    BY <1>3
  <2>2. MyNode(h).state_msg = MyNode(g).state_msg
    BY <1>4 DEF n
  <2>. QED BY <2>1, <2>2 DEF Box, Plain, Fits
<1>7. NoLiveJoin(p, s)
  BY <1>5 DEF Box, Joins, JoinFits, NoLiveJoin, n
<1>8. Box(p, s, h, d, vs)
  BY <1>6, <1>7 DEF Box, Joins, NoLiveJoin
<1>9. Exchanging(h, vs)
  BY <1>3, <1>4 DEF Own, Exchanging, n
<1>10. g.prim_state \in NodeStates
  BY <1>2 DEF IsGroup
<1>11. CASE q.primary
  <2>1. h.state = "PRIMARY" /\ h.act_id = q.act_id /\ h.group_uuid = q.group_uuid
    BY <1>3, <1>11
  <2>2. KnownHistories => h.group_uuid # GU_UUID_NIL
    <3>1. PICK i \in Members(g) : 
                           /\ q = Inherited(g.nodes[i].state_msg)
                           /\ IsState(g.nodes[i].state_msg)
                           /\ \/ gcs_node_is_joined(g.nodes[i].state_msg.current_state)
                              \/ gcs_node_is_joined(g.nodes[i].state_msg.prim_state)
                              \/ g.nodes[i].state_msg.bootstrap
      BY <1>3, <1>11
    <3>2. q.group_uuid = g.nodes[i].state_msg.group_uuid
      BY <3>1 DEF Inherited
    <3>3. \A st \in NodeStates : gcs_node_is_joined(st) => st # NON_PRIM
      BY DEF gcs_node_is_joined, NON_PRIM, DONOR
    <3>. QED BY <2>1, <3>1, <3>2, <3>3 DEF IsState
  <2>3. Rooted(h)
    BY <1>4, <2>2 DEF Rooted
  <2>4. Carries(h, d)
    <3>1. CASE ~ UpToDate(n, q)
      <4>1. MyNode(h).status = PRIM
        BY <1>4, <1>11, <3>1 DEF gcs_node_update_status
      <4>. QED BY <2>1, <4>1 DEF Carries, PRIM, NON_PRIM, DONOR, JOINER
    <3>2. CASE UpToDate(n, q)
      <4>1. h.group_uuid = g.group_uuid /\ h.act_id = g.act_id
        BY <1>5, <2>1, <3>2 DEF UpToDate, Tells
      <4>2. MyNode(h).status = IF g.prim_state = NON_PRIM THEN JOINED ELSE g.prim_state
        BY <1>4, <1>5, <1>11, <3>2 DEF gcs_node_update_status, Tells
      <4>3. /\ g.prim_state = NON_PRIM \/ g.prim_state >= DONOR => Holds(g, d)
            /\ g.prim_state = JOINER => Matches(g, d)
        BY DEF Own, Carries
      <4>4. /\ Matches(g, d) => Matches(h, d)
            /\ Holds(g, d) => Holds(h, d)
        BY <4>1 DEF Matches, Holds
      <4>. QED BY <2>1, <4>2, <4>3, <4>4 DEF Carries, NON_PRIM, JOINED, JOINER
    <3>. QED BY <3>1, <3>2
  <2>. QED BY <1>2, <1>3, <1>4, <1>8, <1>9, <2>3, <2>4 DEF Own, n
<1>12. CASE ~ q.primary
  <2>1. h.state = "NON_PRIMARY" /\ h.act_id = g.act_id /\ h.group_uuid = g.group_uuid
    BY <1>3, <1>12
  <2>2. MyNode(h).status = NON_PRIM
    BY <1>4, <1>12 DEF gcs_node_update_status
  <2>3. Rooted(h)
    BY <1>3, <1>4, <2>1, <2>2 DEF Own, Rooted
  <2>4. Carries(h, d)
    BY <1>3, <2>1, <2>2 DEF Own, Carries, Holds, Matches, NON_PRIM, PRIM
  <2>. QED BY <1>2, <1>3, <1>4, <1>8, <1>9, <2>3, <2>4 DEF Own, n
<1>. QED BY <1>11, <1>12

----------------------------------------------------------------------------
(* All processes.  X, B, G, D and V are up, inbox, group, data and views.   *)

\* no exchange of UUID u has reached p
Untouched(p, s, g, u) ==
    /\ MyNode(g).state_msg.uuid # u
    /\ \A i \in 1..Len(s) : /\ s[i].t = "UUID" => s[i].uuid # u
                            /\ IsOwnState(p, s[i]) => s[i].state.uuid # u

\* p will be the one to start the exchange of view u
Leads(p, s, vs, u) ==
    /\ \E i \in 1..Len(s) : s[i].t = "COMP" /\ s[i].view = u
    /\ \A j \in vs[u].members : p <= j

\* the views the backend has formed
IsViews(vs) ==
    /\ IsSeq(vs)
    /\ \A v \in 1..Len(vs) : vs[v].members \subseteq Procs /\ (vs[v].bootstrap => MayBootstrap)

\* the exchanges that are still to be started are new to everyone
Ahead(B, G, V) ==
    \A q \in Procs, u \in 1..Len(V) :
        Leads(q, B[q], V, u) => \A p \in Procs : Untouched(p, B[p], G[p], u)

\* a function of the processes
IsFun(f) == f = [p \in Procs |-> f[p]]

\* the inductive invariant, by the variables it is about
Invariant(X, B, G, D, V) ==
    /\ IsFun(X) /\ IsFun(B) /\ IsFun(G) /\ IsFun(D) /\ IsViews(V)
    /\ \A p \in Procs : IsProcess(p, X[p], B[p], G[p], D[p], V)
    /\ Ahead(B, G, V)

\* f with another value at p
Put1(f, p, a) == [f EXCEPT ![p] = a]

\* The value at p is replaced, the others stay.
LEMMA PutFun ==
    ASSUME NEW f, IsFun(f), NEW p \in Procs, NEW a
    PROVE  /\ IsFun(Put1(f, p, a)) /\ Put1(f, p, a)[p] = a
           /\ \A q \in Procs : q # p => Put1(f, p, a)[q] = f[q]
BY DEF IsFun, Put1

\* One process moves: what is left to show of it.
LEMMA Local ==
    ASSUME NEW X, NEW B, NEW G, NEW D, NEW V, Invariant(X, B, G, D, V), NEW p \in Procs,
           NEW x, NEW t, NEW h, NEW e, IsProcess(p, x, t, h, e, V),
           \A u \in 1..Len(V) : Untouched(p, B[p], G[p], u) => Untouched(p, t, h, u),
           \A i \in 1..Len(t) : t[i].t = "COMP" => \E j \in 1..Len(B[p]) : t[i] = B[p][j]
    PROVE  Invariant(Put1(X, p, x), Put1(B, p, t), Put1(G, p, h), Put1(D, p, e), V)
<1>. DEFINE X1 == Put1(X, p, x)
            B1 == Put1(B, p, t)
            G1 == Put1(G, p, h)
            D1 == Put1(D, p, e)
<1>1. IsFun(X1) /\ IsFun(B1) /\ IsFun(G1) /\ IsFun(D1)
  BY PutFun DEF Invariant
<1>2. X1[p] = x /\ B1[p] = t /\ G1[p] = h /\ D1[p] = e
  BY PutFun DEF Invariant
<1>3. \A q \in Procs : q # p => X1[q] = X[q] /\ B1[q] = B[q] /\ G1[q] = G[q] /\ D1[q] = D[q]
  BY PutFun DEF Invariant
<1>. HIDE DEF X1, B1, G1, D1
<1>4. \A q \in Procs : IsProcess(q, X1[q], B1[q], G1[q], D1[q], V)
  BY <1>2, <1>3 DEF Invariant
<1>5. Ahead(B1, G1, V)
  <2>1. SUFFICES ASSUME NEW q \in Procs, NEW u \in 1..Len(V), Leads(q, B1[q], V, u), NEW r \in Procs
                 PROVE  Untouched(r, B1[r], G1[r], u)
    BY DEF Ahead
  <2>2. Leads(q, B[q], V, u)
    <3>1. CASE q = p
      BY <1>2, <2>1, <3>1 DEF Leads
    <3>2. CASE q # p
      BY <1>3, <2>1, <3>2
    <3>. QED BY <3>1, <3>2
  <2>3. Untouched(r, B[r], G[r], u)
    BY <2>2 DEF Invariant, Ahead
  <2>. QED BY <1>2, <1>3, <2>3
<1>. QED BY <1>1, <1>4, <1>5 DEF Invariant, X1, B1, G1, D1

\* what the processes of R have to receive after n was sent to them
Sent(B, R, n) == [q \in Procs |-> IF q \in R THEN Append(B[q], n) ELSE B[q]]

\* A message is sent: what is left to show of it.
LEMMA Cast ==
    ASSUME NEW X, NEW B, NEW G, NEW D, NEW V, Invariant(X, B, G, D, V),
           NEW R, \A q \in R : q \in Procs /\ X[q] = "up", NEW n, n.t # "COMP",
           \A q \in R : /\ Sound(q, n, V) /\ Fits(q, G[q], n)
                        /\ \A i \in 1..Len(B[q]) : Apart(q, B[q][i], n)
                        /\ IsJoin(q, n) => /\ G[q].state = "PRIMARY" /\ MyNode(G[q]).status # PRIM
                                           /\ MyNode(G[q]).status = JOINER /\ n.ok => D[q].have = TRUE,
           \A q \in Procs, u \in 1..Len(V) :
               Leads(q, B[q], V, u) => /\ n.t = "UUID" => n.uuid # u
                                       /\ n.t = "STATE" => n.state.uuid # u
    PROVE  Invariant(X, Sent(B, R, n), G, D, V)
<1>. DEFINE B1 == Sent(B, R, n)
<1>1. IsFun(B1) /\ \A q \in Procs : B1[q] = IF q \in R THEN Append(B[q], n) ELSE B[q]
  BY DEF IsFun, Sent
<1>. HIDE DEF B1
<1>2. \A q \in Procs : IsSeq(B[q])
  BY DEF Invariant, IsProcess, Box, Plain
<1>3. ASSUME NEW q \in R
      PROVE  /\ B1[q] = Append(B[q], n) /\ B1[q] # <<>> /\ Len(B1[q]) = Len(B[q]) + 1
             /\ Len(B[q]) \in Nat
             /\ \A i \in 1..Len(B[q]) : B1[q][i] = B[q][i]
             /\ B1[q][Len(B[q]) + 1] = n
             /\ B[q] # <<>> => Head(B1[q]) = Head(B[q])
  <2>1. q \in Procs /\ IsSeq(B[q]) /\ B1[q] = Append(B[q], n)
    BY <1>1, <1>2, <1>3
  <2>2. /\ IsSeq(Append(B[q], n)) /\ Append(B[q], n) # <<>>
        /\ Len(Append(B[q], n)) = Len(B[q]) + 1
        /\ \A i \in 1..Len(B[q]) : Append(B[q], n)[i] = B[q][i]
        /\ Append(B[q], n)[Len(B[q]) + 1] = n
    <3>1. PICK b : b = B[q]
      OBVIOUS
    <3>2. IsSeq(b)
      BY <2>1, <3>1
    <3>3. /\ IsSeq(Append(b, n)) /\ Append(b, n) # <<>>
          /\ Len(Append(b, n)) = Len(b) + 1
          /\ \A i \in 1..Len(b) : Append(b, n)[i] = b[i]
          /\ Append(b, n)[Len(b) + 1] = n
      BY ONLY <3>2, SeqAppend
    <3>. QED BY <3>1, <3>3, Zenon
  <2>3. Len(B[q]) \in Nat
    BY <2>1, SeqShape
  <2>4. B[q] # <<>> => Head(B1[q]) = Head(B[q])
    <3>1. SUFFICES ASSUME B[q] # <<>> PROVE Head(B1[q]) = Head(B[q])
      OBVIOUS
    <3>2. Head(B[q]) = B[q][1] /\ Len(B[q]) \in Nat \ {0}
      BY <2>1, <3>1, SeqTail
    <3>3. Head(B1[q]) = B1[q][1]
      BY <2>1, <2>2, SeqTail, Zenon
    <3>4. 1 \in 1..Len(B[q])
      BY <3>2
    <3>5. Append(B[q], n)[1] = B[q][1]
      BY ONLY <2>2, <3>4
    <3>6. B1[q] = Append(B[q], n)
      BY <2>1
    <3>. QED BY ONLY <3>2, <3>3, <3>5, <3>6, Zenon
  <2>. QED BY <2>1, <2>2, <2>3, <2>4, Zenon
<1>4. ASSUME NEW q \in Procs PROVE IsProcess(q, X[q], B1[q], G[q], D[q], V)
  <2>1. IsProcess(q, X[q], B[q], G[q], D[q], V)
    BY DEF Invariant
  <2>2. CASE q \notin R
    BY <1>1, <2>1, <2>2
  <2>3. CASE q \in R
    <3>1. Box(q, B1[q], G[q], D[q], V)
      <4>1. Box(q, Append(B[q], n), G[q], D[q], V)
        BY <2>1, <2>3, BoxAppend DEF IsProcess
      <4>. QED BY <1>3, <2>3, <4>1
    <3>2. New(q, X[q], B[q], G[q], D[q]) => New(q, X[q], B1[q], G[q], D[q])
      BY <1>3, <2>3, Zenon DEF New
    <3>. QED BY <2>1, <3>1, <3>2 DEF IsProcess
  <2>. QED BY <2>2, <2>3
<1>5. Ahead(B1, G, V)
  <2>1. SUFFICES ASSUME NEW q \in Procs, NEW u \in 1..Len(V), Leads(q, B1[q], V, u), NEW r \in Procs
                 PROVE  Untouched(r, B1[r], G[r], u)
    BY DEF Ahead
  <2>2. ASSUME NEW a \in R, NEW i \in 1..Len(B1[a])
        PROVE  B1[a][i] = n \/ (i \in 1..Len(B[a]) /\ B1[a][i] = B[a][i])
    <3>1. i = Len(B[a]) + 1 \/ i \in 1..Len(B[a])
      BY <1>3, <2>2
    <3>. QED BY <1>3, <2>2, <3>1, Zenon
  <2>3. Leads(q, B[q], V, u)
    <3>1. PICK i \in 1..Len(B1[q]) : B1[q][i].t = "COMP" /\ B1[q][i].view = u
      BY <2>1 DEF Leads
    <3>2. CASE q \in R
      BY <2>1, <2>2, <3>1, <3>2 DEF Leads
    <3>3. CASE q \notin R
      BY <1>1, <2>1, <3>3
    <3>. QED BY <3>2, <3>3
  <2>4. Untouched(r, B[r], G[r], u)
    BY <2>3 DEF Invariant, Ahead
  <2>5. CASE r \in R
    <3>1. /\ n.t = "UUID" => n.uuid # u
          /\ n.t = "STATE" => n.state.uuid # u
      BY <2>3
    <3>. QED BY <2>2, <2>4, <2>5, <3>1 DEF Untouched, IsOwnState
  <2>6. CASE r \notin R
    BY <1>1, <2>4, <2>6
  <2>. QED BY <2>5, <2>6
<1>. QED BY <1>1, <1>4, <1>5 DEF Invariant, B1


\* the view w is formed after those of V
Forms(V, w, W) ==
    w.members \subseteq Procs /\ (w.bootstrap => MayBootstrap) /\ W = Append(V, w)

\* The views only grow.
LEMMA ViewsGrow ==
    ASSUME NEW V, IsViews(V), NEW w, NEW W, Forms(V, w, W)
    PROVE  /\ IsViews(W) /\ Len(W) = Len(V) + 1 /\ Len(V) \in Nat
           /\ \A u \in 1..Len(V) : W[u] = V[u]
           /\ W[Len(V) + 1] = w
<1>1. IsSeq(V) /\ Len(V) \in Nat
  BY SeqShape DEF IsViews
<1>2. /\ IsSeq(W) /\ Len(W) = Len(V) + 1
      /\ \A u \in 1..Len(V) : W[u] = V[u]
      /\ W[Len(V) + 1] = w
  BY <1>1, SeqAppend DEF Forms
<1>3. \A v \in 1..Len(W) : W[v].members \subseteq Procs /\ (W[v].bootstrap => MayBootstrap)
  <2>1. SUFFICES ASSUME NEW v \in 1..Len(W)
                 PROVE  W[v].members \subseteq Procs /\ (W[v].bootstrap => MayBootstrap)
    OBVIOUS
  <2>2. v \in 1..Len(V) \/ v = Len(V) + 1
    BY <1>1, <1>2
  <2>. QED BY <1>2, <2>2 DEF IsViews, Forms
<1>. QED BY <1>1, <1>2, <1>3 DEF IsViews

\* What is known of a process stays true when a view is formed.
LEMMA OwnGrows ==
    ASSUME NEW V, NEW W, Len(V) \in Nat, Len(W) = Len(V) + 1, \A u \in 1..Len(V) : W[u] = V[u],
           NEW p, NEW s, NEW g, NEW d
    PROVE  /\ Box(p, s, g, d, V) => Box(p, s, g, d, W)
           /\ Own(p, g, d, V) => Own(p, g, d, W)
<1>1. ASSUME NEW m, Sound(p, m, V) PROVE Sound(p, m, W)
  <2>1. \A u \in 1..Len(V) : u \in 1..Len(W)
    OBVIOUS
  <2>. QED BY <1>1, <2>1 DEF Sound
<1>2. Box(p, s, g, d, V) => Box(p, s, g, d, W)
  BY <1>1 DEF Box, Plain
<1>3. \A u \in 0..Len(V) : u \in 0..Len(W)
  OBVIOUS
<1>4. Own(p, g, d, V) => Own(p, g, d, W)
  BY <1>3 DEF Own, Exchanging
<1>. QED BY <1>2, <1>4

\* No exchange of a view that is yet to be formed has reached a process.
LEMMA FutureUntouched ==
    ASSUME NEW X, NEW B, NEW G, NEW D, NEW V, Invariant(X, B, G, D, V), NEW p \in Procs
    PROVE  Untouched(p, B[p], G[p], Len(V) + 1)
<1>1. Len(V) \in Nat
  BY SeqShape DEF Invariant, IsViews
<1>2. IsProcess(p, X[p], B[p], G[p], D[p], V)
  BY DEF Invariant
<1>3. MyNode(G[p]).state_msg.uuid \in 0..Len(V)
  <2>1. CASE New(p, X[p], B[p], G[p], D[p])
    <3>1. MyNode(G[p]).state_msg.uuid = 0
      BY <2>1 DEF New, gcs_group_init, gcs_node_init, MyNode, NoState, GU_UUID_NIL, NODE_NO_ID
    <3>. QED BY <1>1, <3>1
  <2>2. CASE Own(p, G[p], D[p], V)
    BY <2>2 DEF Own, Exchanging
  <2>. QED BY <1>2, <2>1, <2>2 DEF IsProcess
<1>4. \A i \in 1..Len(B[p]) : Sound(p, B[p][i], V)
  BY <1>2 DEF IsProcess, Box, Plain
<1>5. \A u \in 0..Len(V) : u # Len(V) + 1
  BY <1>1
<1>6. \A u \in 1..Len(V) : u \in 0..Len(V)
  BY <1>1
<1>. QED BY <1>3, <1>4, <1>5, <1>6 DEF Untouched, Sound, IsOwnState

\* A view is formed: what is left to show of the messages its members have.
LEMMA Formed ==
    ASSUME NEW X, NEW B, NEW G, NEW D, NEW V, Invariant(X, B, G, D, V),
           NEW w, NEW W, Forms(V, w, W),
           NEW c, c.t = "COMP", c.view = Len(V) + 1,
           NEW X1, IsFun(X1), NEW B1, IsFun(B1),
           \A q \in Procs \ w.members : X1[q] = X[q] /\ B1[q] = B[q],
           \A q \in w.members :
               /\ Box(q, B1[q], G[q], D[q], W) /\ B1[q] # <<>>
               /\ \A a \in 1..Len(B1[q]) :
                    B1[q][a] = c \/ \E i \in 1..Len(B[q]) : B1[q][a] = B[q][i]
               /\ Head(B1[q]).t = "COMP" \/ (B[q] # <<>> /\ Head(B1[q]) = Head(B[q]))
    PROVE  Invariant(X1, B1, G, D, W)
<1>1. IsViews(V)
  BY DEF Invariant
<1>2. /\ IsViews(W) /\ Len(W) = Len(V) + 1 /\ Len(V) \in Nat
      /\ \A u \in 1..Len(V) : W[u] = V[u]
      /\ W[Len(V) + 1] = w
  BY <1>1, ViewsGrow
<1>3. ASSUME NEW q \in Procs PROVE IsProcess(q, X1[q], B1[q], G[q], D[q], W)
  <2>1. IsProcess(q, X[q], B[q], G[q], D[q], V)
    BY DEF Invariant
  <2>2. /\ Box(q, B[q], G[q], D[q], V) => Box(q, B[q], G[q], D[q], W)
        /\ Own(q, G[q], D[q], V) => Own(q, G[q], D[q], W)
    BY <1>2, OwnGrows
  <2>3. CASE q \in w.members
    <3>1. New(q, X[q], B[q], G[q], D[q]) => New(q, X1[q], B1[q], G[q], D[q])
      BY <2>3, Zenon DEF New
    <3>. QED BY <2>1, <2>2, <2>3, <3>1 DEF IsProcess
  <2>4. CASE q \notin w.members
    BY <2>1, <2>2, <2>4 DEF IsProcess
  <2>. QED BY <2>3, <2>4
<1>4. ASSUME NEW r \in Procs, NEW u, Untouched(r, B[r], G[r], u) PROVE Untouched(r, B1[r], G[r], u)
  <2>1. CASE r \in w.members
    BY <1>4, <2>1 DEF Untouched, IsOwnState
  <2>2. CASE r \notin w.members
    BY <1>4, <2>2
  <2>. QED BY <2>1, <2>2
<1>5. Ahead(B1, G, W)
  <2>1. SUFFICES ASSUME NEW q \in Procs, NEW u \in 1..Len(W), Leads(q, B1[q], W, u), NEW r \in Procs
                 PROVE  Untouched(r, B1[r], G[r], u)
    BY DEF Ahead
  <2>2. CASE u = Len(V) + 1
    BY <1>4, <2>2, FutureUntouched
  <2>3. CASE u \in 1..Len(V)
    <3>1. PICK a \in 1..Len(B1[q]) : B1[q][a].t = "COMP" /\ B1[q][a].view = u
      BY <2>1 DEF Leads
    <3>2. u # c.view
      BY <1>2, <2>3
    <3>3. \E i \in 1..Len(B[q]) : B[q][i].t = "COMP" /\ B[q][i].view = u
      BY <3>1, <3>2
    <3>4. Leads(q, B[q], V, u)
      BY <1>2, <2>1, <2>3, <3>3 DEF Leads
    <3>5. Untouched(r, B[r], G[r], u)
      BY <2>3, <3>4 DEF Invariant, Ahead
    <3>. QED BY <1>4, <3>5
  <2>. QED BY <1>2, <2>1, <2>2, <2>3
<1>. QED BY <1>2, <1>3, <1>5 DEF Invariant


\* t is s and c after it
Ends(s, c, t) == t = Append(s, c)

\* The new component is what a member has to receive last.
LEMMA BoxComp ==
    ASSUME NEW V, IsViews(V), NEW w, NEW W, Forms(V, w, W), NEW p \in w.members,
           NEW s, NEW g, NEW d, Box(p, s, g, d, V), NEW c, c.t = "COMP", c.view = Len(V) + 1,
           NEW t, Ends(s, c, t)
    PROVE  /\ Box(p, t, g, d, W) /\ t # <<>>
           /\ \A a \in 1..Len(t) : t[a] = c \/ \E i \in 1..Len(s) : t[a] = s[i]
           /\ Head(t).t = "COMP" \/ (s # <<>> /\ Head(t) = Head(s))
<1>1. /\ Len(W) = Len(V) + 1 /\ Len(V) \in Nat
      /\ \A u \in 1..Len(V) : W[u] = V[u]
      /\ W[Len(V) + 1] = w
  BY ViewsGrow
<1>2. Box(p, s, g, d, W)
  BY <1>1, OwnGrows
<1>3. Sound(p, c, W) /\ Fits(p, g, c) /\ ~ IsJoin(p, c)
  <2>1. Len(V) + 1 \in 1..Len(W)
    BY <1>1
  <2>. QED BY <1>1, <2>1 DEF Sound, Fits, IsJoin, IsOwnState
<1>4. \A i \in 1..Len(s) : Apart(p, s[i], c)
  <2>1. SUFFICES ASSUME NEW i \in 1..Len(s) PROVE Apart(p, s[i], c)
    OBVIOUS
  <2>2. s[i].t = "COMP" => s[i].view \in 1..Len(V)
    BY DEF Box, Plain, Sound
  <2>3. s[i].t = "COMP" => s[i].view < c.view
    BY <1>1, <2>2
  <2>. QED BY <2>3 DEF Apart, IsJoin, IsOwnState
<1>5. Box(p, t, g, d, W)
  BY ONLY <1>2, <1>3, <1>4, Ends(s, c, t), BoxAppend DEF Ends
<1>6. IsSeq(s)
  BY DEF Box, Plain
<1>7. /\ IsSeq(t) /\ t # <<>> /\ Len(t) = Len(s) + 1
      /\ \A i \in 1..Len(s) : t[i] = s[i]
      /\ t[Len(s) + 1] = c
  BY ONLY <1>6, Ends(s, c, t), SeqAppend DEF Ends
<1>8. Len(s) \in Nat /\ Head(t) = t[1] /\ (s # <<>> => Head(s) = s[1] /\ Len(s) \in Nat \ {0})
  BY ONLY <1>6, <1>7, SeqTail, SeqShape
<1>9. ASSUME NEW a \in 1..Len(t) PROVE t[a] = c \/ \E i \in 1..Len(s) : t[a] = s[i]
  <2>1. a \in 1..Len(s) \/ a = Len(s) + 1
    BY <1>7, <1>8, <1>9
  <2>. QED BY <1>7, <2>1, Zenon
<1>10. Head(t).t = "COMP" \/ (s # <<>> /\ Head(t) = Head(s))
  <2>1. CASE s = <<>>
    <3>1. Len(s) + 1 = 1
      BY <2>1, SeqEmpty
    <3>. QED BY <1>7, <1>8, <3>1, Zenon
  <2>2. CASE s # <<>>
    <3>1. 1 \in 1..Len(s)
      BY <1>8, <2>2
    <3>. QED BY <1>7, <1>8, <2>2, <3>1, Zenon
  <2>. QED BY <2>1, <2>2
<1>. QED BY <1>5, <1>7, <1>9, <1>10

\* The inductive invariant: every process holds what its context and the messages
\* on their way to it say, and the exchanges still to be started are new to all.
Inv == Invariant(up, inbox, group, data, views)

\* A view of the members of S, after all the messages of the old one.
LEMMA AppendView ==
    ASSUME Inv, NEW S \in SUBSET Procs, NEW pr, NEW b, b => MayBootstrap,
           AppendComp(S), Install(S, pr, b)
    PROVE  Inv'
<1>1. PICK w : w = [members |-> S, prim |-> pr, bootstrap |-> b]
  OBVIOUS
<1>2. w.members = S /\ (w.bootstrap => MayBootstrap) /\ w.members \subseteq Procs
  BY <1>1
<1>3. views' = Append(views, w) /\ group' = group /\ data' = data
  BY <1>1 DEF Install, ghosts
<1>4. Forms(views, w, views')
  BY <1>2, <1>3 DEF Forms
<1>5. PICK c : c = Comp
  OBVIOUS
<1>6. c.t = "COMP" /\ c.view = Len(views) + 1
  BY <1>5 DEF Comp, NextView
<1>7. IsFun(up') /\ \A q \in Procs \ w.members : up'[q] = up[q]
  BY <1>2 DEF Install, IsFun
<1>8. /\ IsFun(inbox') /\ \A q \in Procs \ w.members : inbox'[q] = inbox[q]
      /\ \A q \in w.members : inbox'[q] = Append(inbox[q], c)
  BY <1>2, <1>5 DEF AppendComp, IsFun
<1>9. IsViews(views) /\ \A q \in Procs : Box(q, inbox[q], group[q], data[q], views)
  BY DEF Inv, Invariant, IsProcess
<1>10. ASSUME NEW q \in w.members
       PROVE  /\ Box(q, inbox'[q], group[q], data[q], views') /\ inbox'[q] # <<>>
              /\ \A a \in 1..Len(inbox'[q]) :
                   inbox'[q][a] = c \/ \E i \in 1..Len(inbox[q]) : inbox'[q][a] = inbox[q][i]
              /\ Head(inbox'[q]).t = "COMP" \/ (inbox[q] # <<>> /\ Head(inbox'[q]) = Head(inbox[q]))
  <2>1. Box(q, inbox[q], group[q], data[q], views)
    BY <1>2, <1>9, <1>10
  <2>2. inbox'[q] = Append(inbox[q], c)
    BY <1>8, <1>10
  <2>3. PICK s, t, g, d : s = inbox[q] /\ t = inbox'[q] /\ g = group[q] /\ d = data[q]
    OBVIOUS
  <2>4. Box(q, s, g, d, views) /\ Ends(s, c, t)
    BY <2>1, <2>2, <2>3, Zenon DEF Ends
  <2>5. /\ Box(q, t, g, d, views') /\ t # <<>>
        /\ \A a \in 1..Len(t) : t[a] = c \/ \E i \in 1..Len(s) : t[a] = s[i]
        /\ Head(t).t = "COMP" \/ (s # <<>> /\ Head(t) = Head(s))
    <3>1. IsViews(views) /\ q \in w.members
      BY <1>9, <1>10
    <3>. QED BY ONLY <1>4, <1>6, <2>4, <3>1, BoxComp
  <2>. QED BY <2>3, <2>5, Zenon
<1>11. Invariant(up', inbox', group, data, views')
  BY ONLY Inv, <1>4, <1>6, <1>7, <1>8, <1>10, Formed DEF Inv
<1>. QED BY <1>3, <1>11 DEF Inv


\* Max of a bounded set of naturals.
LEMMA MaxBound ==
    ASSUME NEW N \in Nat, NEW T, T \subseteq 0..N, T # {}
    PROVE  Max(T) \in T /\ \A i \in T : i <= Max(T)
<1>. DEFINE U == {N - i : i \in T}
<1>1. U \subseteq Nat /\ U # {}
  <2>1. \A i \in T : N - i \in Nat
    OBVIOUS
  <2>2. PICK i : i \in T
    OBVIOUS
  <2>3. N - i \in U
    BY <2>2
  <2>. QED BY <2>1, <2>3
<1>2. PICK n \in U : \A k \in U : n <= k
  BY <1>1, Least
<1>3. PICK m \in T : n = N - m
  BY <1>2
<1>4. \A i \in T : m >= i
  <2>1. SUFFICES ASSUME NEW i \in T PROVE m >= i
    OBVIOUS
  <2>2. N - i \in U
    OBVIOUS
  <2>3. N - m <= N - i
    BY <1>2, <1>3, <2>2
  <2>. QED BY <2>3
<1>5. Max(T) \in T /\ \A i \in T : Max(T) >= i
  BY <1>4, Zenon DEF Max
<1>. QED BY <1>5

\* The messages of the view that the backend of p is in come after the
\* components.
LEMMA CurrentAfter ==
    ASSUME NEW p \in Procs, IsSeq(inbox[p]), NEW n \in Nat, n <= Current(p)
    PROVE  /\ Len(inbox[p]) \in Nat /\ Len(inbox[p]) - n \in 0..Len(inbox[p])
           /\ \A i \in 1..Len(inbox[p]) : inbox[p][i].t = "COMP" => i <= Len(inbox[p]) - n
<1>1. PICK s : s = inbox[p]
  OBVIOUS
<1>2. IsSeq(s) /\ Len(s) \in Nat /\ DOMAIN s = 1..Len(s)
  BY <1>1, SeqShape
<1>3. PICK T : T = {0} \cup {i \in DOMAIN s : s[i].t = "COMP"}
  OBVIOUS
<1>4. T \subseteq 0..Len(s) /\ T # {}
  BY <1>2, <1>3
<1>5. Max(T) \in T /\ \A i \in T : i <= Max(T)
  BY <1>2, <1>4, MaxBound
<1>6. n <= Len(s) - Max(T)
  BY <1>1, <1>3 DEF Current
<1>7. Max(T) \in 0..Len(s)
  BY <1>4, <1>5
<1>8. Len(s) - n \in 0..Len(s) /\ Max(T) <= Len(s) - n
  BY <1>2, <1>6, <1>7
<1>9. ASSUME NEW i \in 1..Len(s), s[i].t = "COMP" PROVE i <= Len(s) - n
  <2>1. i \in T
    BY <1>2, <1>3, <1>9
  <2>2. i <= Max(T)
    BY <1>5, <2>1
  <2>. QED BY <1>2, <1>7, <1>8, <2>2
<1>. QED BY <1>1, <1>2, <1>8, <1>9, Zenon


\* A view that is delivered before the last n messages of the old one.
LEMMA SplitView ==
    ASSUME Inv, NEW S \in SUBSET Procs, NEW n \in Nat, \A p \in S : n <= Current(p),
           NEW pr, NEW b, b => MayBootstrap, Install(S, pr, b),
           inbox' = [p \in Procs |->
               IF p \notin S THEN inbox[p]
               ELSE LET k == Len(inbox[p]) - n
                    IN  Append(SubSeq(inbox[p], 1, k), Comp)
                        \o SentBy(SubSeq(inbox[p], k + 1, k + n), S)]
    PROVE  Inv'
<1>1. PICK w : w = [members |-> S, prim |-> pr, bootstrap |-> b]
  OBVIOUS
<1>2. w.members = S /\ (w.bootstrap => MayBootstrap) /\ w.members \subseteq Procs
  BY <1>1
<1>3. views' = Append(views, w) /\ group' = group /\ data' = data
  BY <1>1 DEF Install, ghosts
<1>4. Forms(views, w, views')
  BY <1>2, <1>3 DEF Forms
<1>5. PICK c : c = Comp
  OBVIOUS
<1>6. c.t = "COMP" /\ c.view = Len(views) + 1
  BY <1>5 DEF Comp, NextView
<1>7. IsFun(up') /\ \A q \in Procs \ w.members : up'[q] = up[q]
  BY <1>2 DEF Install, IsFun
<1>8. IsFun(inbox') /\ \A q \in Procs \ w.members : inbox'[q] = inbox[q]
  BY <1>2 DEF IsFun
<1>9. ASSUME NEW q \in w.members
      PROVE  inbox'[q] = Append(SubSeq(inbox[q], 1, Len(inbox[q]) - n), c)
                         \o SentBy(SubSeq(inbox[q], (Len(inbox[q]) - n) + 1, (Len(inbox[q]) - n) + n), S)
  BY <1>2, <1>5, <1>9
<1>10. IsViews(views) /\ \A q \in Procs : Box(q, inbox[q], group[q], data[q], views)
  BY DEF Inv, Invariant, IsProcess
<1>11. /\ Len(views') = Len(views) + 1 /\ Len(views) \in Nat
       /\ \A u \in 1..Len(views) : views'[u] = views[u]
       /\ views'[Len(views) + 1] = w
  BY <1>4, <1>10, ViewsGrow
<1>12. ASSUME NEW q \in w.members
       PROVE  /\ Box(q, inbox'[q], group[q], data[q], views') /\ inbox'[q] # <<>>
              /\ \A a \in 1..Len(inbox'[q]) :
                   inbox'[q][a] = c \/ \E i \in 1..Len(inbox[q]) : inbox'[q][a] = inbox[q][i]
              /\ Head(inbox'[q]).t = "COMP" \/ (inbox[q] # <<>> /\ Head(inbox'[q]) = Head(inbox[q]))
  <2>1. PICK s, t, g, d : s = inbox[q] /\ t = inbox'[q] /\ g = group[q] /\ d = data[q]
    OBVIOUS
  <2>2. q \in Procs /\ Box(q, s, g, d, views) /\ IsSeq(inbox[q])
    BY <1>2, <1>10, <1>12, <2>1 DEF Box, Plain
  <2>3. PICK k : k = Len(s) - n
    OBVIOUS
  <2>4. /\ Len(s) \in Nat /\ k \in 0..Len(s)
        /\ \A i \in 1..Len(s) : s[i].t = "COMP" => i <= k
    BY <1>2, <1>12, <2>1, <2>2, <2>3, CurrentAfter
  <2>5. k + n = Len(s)
    BY <2>3, <2>4
  <2>6. Splits(s, k, c, S, t)
    <3>1. t = Append(SubSeq(s, 1, k), c) \o SentBy(SubSeq(s, k + 1, k + n), S)
      BY <1>9, <1>12, <2>1, <2>3, Zenon
    <3>. QED BY <2>5, <3>1, Zenon DEF Splits
  <2>7. Box(q, s, g, d, views')
    BY <1>11, <2>2, OwnGrows
  <2>8. Sound(q, c, views')
    <3>1. Len(views) + 1 \in 1..Len(views')
      BY <1>11
    <3>. QED BY <1>6, <1>11, <1>12, <3>1 DEF Sound
  <2>9. \A i \in 1..Len(s) : s[i].t = "COMP" => i <= k /\ s[i].view < c.view
    <3>1. \A i \in 1..Len(s) : s[i].t = "COMP" => s[i].view \in 1..Len(views)
      BY <2>2 DEF Box, Plain, Sound
    <3>2. \A v \in 1..Len(views) : v < c.view
      BY <1>6, <1>11
    <3>. QED BY <2>4, <3>1, <3>2
  <2>10. /\ Box(q, t, g, d, views') /\ t # <<>>
         /\ \A a \in 1..Len(t) : t[a] = c \/ \E i \in 1..Len(s) : t[a] = s[i]
         /\ Head(t).t = "COMP" \/ (s # <<>> /\ Head(t) = Head(s))
    BY ONLY <1>6, <2>4, <2>6, <2>7, <2>8, <2>9, BoxSplit
  <2>. QED BY ONLY <2>1, <2>10, Zenon
<1>13. Invariant(up', inbox', group, data, views')
  BY ONLY Inv, <1>4, <1>6, <1>7, <1>8, <1>12, Formed DEF Inv
<1>. QED BY <1>3, <1>13 DEF Inv

\* The backend forms a view.
LEMMA ViewStep ==
    ASSUME Inv, View
    PROVE  Inv'
<1>1. CASE ViewFirst
  BY <1>1, AppendView, GcsAssumption DEF ViewFirst
<1>2. CASE ViewPrim
  BY <1>2, AppendView DEF ViewPrim
<1>3. CASE ViewNonPrim
  <2>1. PICK v \in DOMAIN views : \E S \in SUBSET In(v), n \in 0..Max({0} \cup {Current(p) : p \in In(v)}) :
            /\ \A p \in S : n <= Current(p)
            /\ inbox' = [p \in Procs |->
                   IF p \notin S THEN inbox[p]
                   ELSE LET k == Len(inbox[p]) - n
                        IN  Append(SubSeq(inbox[p], 1, k), Comp)
                            \o SentBy(SubSeq(inbox[p], k + 1, k + n), S)]
            /\ Install(S, FALSE, FALSE)
    BY <1>3, Zenon DEF ViewNonPrim
  <2>2. PICK S \in SUBSET In(v), n \in 0..Max({0} \cup {Current(p) : p \in In(v)}) :
            /\ \A p \in S : n <= Current(p)
            /\ inbox' = [p \in Procs |->
                   IF p \notin S THEN inbox[p]
                   ELSE LET k == Len(inbox[p]) - n
                        IN  Append(SubSeq(inbox[p], 1, k), Comp)
                            \o SentBy(SubSeq(inbox[p], k + 1, k + n), S)]
            /\ Install(S, FALSE, FALSE)
    BY <2>1, Zenon
  <2>3. n \in Nat
    OBVIOUS
  <2>4. S \in SUBSET Procs
    BY DEF In
  <2>. QED BY <2>2, <2>3, <2>4, SplitView
<1>4. CASE ViewRemerge
  BY <1>4, AppendView DEF ViewRemerge
<1>5. CASE ViewBootstrap
  <2>1. PICK v \in DOMAIN views : AppendComp(In(v)) /\ Install(In(v), TRUE, TRUE)
    BY <1>5, Zenon DEF ViewBootstrap
  <2>2. In(v) \in SUBSET Procs /\ (TRUE => MayBootstrap)
    BY <1>5 DEF In, ViewBootstrap
  <2>. QED BY <2>1, <2>2, AppendView
<1>. QED BY <1>1, <1>2, <1>3, <1>4, <1>5 DEF View


----------------------------------------------------------------------------
(* The sending threads *)

\* A process sends a message that starts no exchange and ends no transfer.
LEMMA SendPlain ==
    ASSUME Inv, NEW p \in Procs, NEW m, m.t \in {"ACT", "LAST", "SYNC"},
           inbox' = Broadcast(inbox, p, m), UNCHANGED <<up, views, group, data>>
    PROVE  Inv'
<1>1. inbox' = Sent(inbox, In(bview[p]), m)
  BY DEF Broadcast, Sent
<1>2. \A q \in In(bview[p]) : q \in Procs /\ up[q] = "up"
  BY DEF In
<1>3. m.t # "COMP" /\ m.t # "UUID" /\ m.t # "STATE" /\ m.t # "JOIN"
  OBVIOUS
<1>4. \A q, n : Sound(q, m, views) /\ Fits(q, group[q], m) /\ Apart(q, n, m) /\ ~ IsJoin(q, m)
  BY <1>3 DEF Sound, Fits, Apart, IsJoin, IsOwnState
<1>5. Invariant(up, Sent(inbox, In(bview[p]), m), group, data, views)
  BY ONLY Inv, <1>2, <1>3, <1>4, Cast DEF Inv
<1>. QED BY <1>1, <1>5 DEF Inv

\* A process ends its part of a state transfer.
LEMMA SendJoinStep ==
    ASSUME Inv, NEW p \in Procs, SendJoin(p)
    PROVE  Inv'
<1>1. PICK m : m = [t |-> "JOIN", from |-> p, ok |-> Transferred(p)]
  OBVIOUS
<1>2. inbox' = Sent(inbox, In(bview[p]), m) /\ UNCHANGED <<up, views, group, data>>
  BY <1>1 DEF SendJoin, Broadcast, Sent, net, ghosts
<1>3. \A q \in In(bview[p]) : q \in Procs /\ up[q] = "up"
  BY DEF In
<1>4. m.t = "JOIN" /\ m.from = p /\ m.ok = Transferred(p) /\ m.t # "COMP" /\ m.t # "UUID" /\ m.t # "STATE"
  BY <1>1
<1>5. \A q : Sound(q, m, views) /\ Fits(q, group[q], m)
  BY <1>4 DEF Sound, Fits, IsOwnState
<1>6. IsProcess(p, up[p], inbox[p], group[p], data[p], views)
  BY DEF Inv, Invariant
<1>7. IsSeq(inbox[p]) /\ data[p].have \in BOOLEAN
  BY <1>6 DEF IsProcess, Box, Plain, IsData
<1>8. DOMAIN inbox[p] = 1..Len(inbox[p])
  BY <1>7, SeqShape
<1>9. \A i \in 1..Len(inbox[p]) : ~ IsJoin(p, inbox[p][i])
  BY <1>8 DEF SendJoin, IsJoin
<1>10. \A q \in In(bview[p]) : \A i \in 1..Len(inbox[q]) : Apart(q, inbox[q][i], m)
  BY <1>4, <1>9 DEF Apart, IsJoin, IsOwnState
<1>11. \A q : IsJoin(q, m) => q = p
  BY <1>4 DEF IsJoin
<1>12. /\ group[p].state = "PRIMARY" /\ MyNode(group[p]).status # PRIM
       /\ MyNode(group[p]).status = JOINER /\ m.ok => data[p].have = TRUE
  <2>1. group[p].state = "PRIMARY"
    BY DEF SendJoin, CoreSends, CoreState
  <2>2. MyNode(group[p]).status # PRIM
    BY DEF SendJoin, MyStatus, PRIM, DONOR, JOINER
  <2>3. MyNode(group[p]).status = JOINER => m.ok = data[p].have
    BY <1>4 DEF Transferred, MyStatus
  <2>. QED BY <1>7, <2>1, <2>2, <2>3
<1>13. Invariant(up, Sent(inbox, In(bview[p]), m), group, data, views)
  BY ONLY Inv, <1>3, <1>4, <1>5, <1>10, <1>11, <1>12, Cast DEF Inv
<1>. QED BY <1>2, <1>13 DEF Inv

\* One process moves, in the state of the model.
LEMMA LocalStep ==
    ASSUME Inv, NEW p \in Procs, NEW x, NEW t, NEW h, NEW e,
           IsProcess(p, x, t, h, e, views),
           \A u \in 1..Len(views) : Untouched(p, inbox[p], group[p], u) => Untouched(p, t, h, u),
           \A i \in 1..Len(t) : t[i].t = "COMP" => \E j \in 1..Len(inbox[p]) : t[i] = inbox[p][j],
           up' = Put1(up, p, x), inbox' = Put1(inbox, p, t), group' = Put1(group, p, h),
           data' = Put1(data, p, e), views' = views
    PROVE  Inv'
<1>1. Invariant(Put1(up, p, x), Put1(inbox, p, t), Put1(group, p, h), Put1(data, p, e), views)
  BY Local DEF Inv
<1>. QED BY <1>1 DEF Inv

\* A function is not changed by its own value.
LEMMA PutSame ==
    ASSUME NEW f, IsFun(f), NEW p \in Procs
    PROVE  f = Put1(f, p, f[p])
BY DEF IsFun, Put1

\* The state reaches a joiner.
LEMMA TransferStep ==
    ASSUME Inv, NEW p \in Procs, Transfer(p)
    PROVE  Inv'
<1>1. PICK s, g, d, y : s = inbox[p] /\ g = group[p] /\ d = data[p] /\ y = up[p]
  OBVIOUS
<1>2. IsProcess(p, y, s, g, d, views)
  BY <1>1 DEF Inv, Invariant
<1>3. MyNode(g).status = JOINER /\ ~ d.have
  BY <1>1 DEF Transfer, MyStatus
<1>4. PICK q \in Procs : data' = [data EXCEPT ![p].have = data[q].have]
  BY DEF Transfer
<1>5. data[q].have \in BOOLEAN
  BY DEF Inv, Invariant, IsProcess, IsData
<1>6. PICK e : e = [d EXCEPT !.have = data[q].have]
  OBVIOUS
<1>7. data' = Put1(data, p, e)
  BY <1>1, <1>4, <1>6 DEF Put1
<1>8. d = [uuid |-> d.uuid, seqno |-> d.seqno, have |-> d.have]
  BY <1>2 DEF IsProcess, IsData
<1>9. e = [uuid |-> d.uuid, seqno |-> d.seqno, have |-> data[q].have]
  BY ONLY <1>6, <1>8
<1>10. IsData(e) /\ e.uuid = d.uuid /\ e.seqno = d.seqno
  BY <1>5, <1>9 DEF IsData
<1>11. d.have # TRUE
  BY <1>3
<1>12. Own(p, g, d, views)
  <2>1. ~ New(p, y, s, g, d)
    BY <1>3 DEF New, gcs_group_init, gcs_node_init, MyNode, NODE_NO_ID, JOINER, NON_PRIM
  <2>. QED BY <1>2, <2>1 DEF IsProcess
<1>13. Carries(g, e)
  <2>1. g.state = "PRIMARY" => MyNode(g).status # NON_PRIM /\ ~ (MyNode(g).status >= DONOR)
    BY <1>3 DEF JOINER, NON_PRIM, DONOR
  <2>2. Holds(g, d) => Holds(g, e)
    BY <1>10, <1>11 DEF Holds, Matches
  <2>3. Matches(g, d) => Matches(g, e)
    BY <1>10 DEF Matches
  <2>. QED BY <1>12, <2>1, <2>2, <2>3 DEF Own, Carries
<1>14. Own(p, g, e, views)
  BY <1>12, <1>13 DEF Own
<1>15. Box(p, s, g, e, views)
  <2>1. Box(p, s, g, d, views)
    BY <1>2 DEF IsProcess
  <2>2. d.have = TRUE => e.have = TRUE
    BY <1>11
  <2>. QED BY ONLY <2>1, <2>2, BoxStatus
<1>16. IsProcess(p, y, s, g, e, views)
  BY <1>10, <1>14, <1>15 DEF IsProcess
<1>17. /\ up' = Put1(up, p, y) /\ inbox' = Put1(inbox, p, s) /\ group' = Put1(group, p, g)
       /\ views' = views
  BY <1>1, PutSame DEF Transfer, net, Inv, Invariant
<1>. QED BY <1>1, <1>7, <1>16, <1>17, LocalStep


\* What the sending threads do.
LEMMA SendStep ==
    ASSUME Inv, NEW p \in Procs, Send(p)
    PROVE  Inv'
<1>1. CASE SendFirst(p)
  <2>1. PICK of : inbox' = Broadcast(inbox, p, Fragment(p, send_act_no[p], used'[p]["act"], 0, of))
    BY <1>1 DEF SendFirst
  <2>2. \A id, act, frag : Fragment(p, id, act, frag, of).t = "ACT"
    BY DEF Fragment
  <2>3. UNCHANGED <<up, views, group, data>>
    BY <1>1 DEF SendFirst, net, ghosts
  <2>. QED BY <2>1, <2>2, <2>3, SendPlain
<1>2. CASE SendNext(p)
  <2>1. PICK m : m.t = "ACT" /\ inbox' = Broadcast(inbox, p, m)
    <3>1. Fragment(p, snd[p].id, snd[p].act, snd[p].next, snd[p].of).t = "ACT"
      BY DEF Fragment
    <3>. QED BY <1>2, <3>1 DEF SendNext
  <2>2. UNCHANGED <<up, views, group, data>>
    BY <1>2 DEF SendNext, net, ghosts
  <2>. QED BY <2>1, <2>2, SendPlain
<1>3. CASE SendFails(p)
  <2>1. UNCHANGED <<up, views, group, data, inbox>>
    BY <1>3 DEF SendFails, net, ghosts
  <2>. QED BY <2>1 DEF Inv
<1>4. CASE SendLast(p)
  <2>1. PICK m : m.t = "LAST" /\ inbox' = Broadcast(inbox, p, m)
    <3>1. [t |-> "LAST", from |-> p, seqno |-> data[p].seqno].t = "LAST"
      OBVIOUS
    <3>. QED BY <1>4, <3>1 DEF SendLast
  <2>2. UNCHANGED <<up, views, group, data>>
    BY <1>4 DEF SendLast, net, ghosts
  <2>. QED BY <2>1, <2>2, SendPlain
<1>5. ASSUME NEW donor, SendRequest(p, donor) PROVE Inv'
  <2>1. PICK m : m.t = "ACT" /\ inbox' = Broadcast(inbox, p, m)
    <3>1. PICK m : m = [t |-> "ACT", from |-> p, kind |-> "request", donor |-> donor,
                        id |-> send_act_no[p], act |-> 0, frag |-> 0, of |-> 1]
      OBVIOUS
    <3>2. m.t = "ACT" /\ inbox' = Broadcast(inbox, p, m)
      BY <1>5, <3>1 DEF SendRequest
    <3>. QED BY <3>2
  <2>2. UNCHANGED <<up, views, group, data>>
    BY <1>5 DEF SendRequest, net, ghosts
  <2>. QED BY <2>1, <2>2, SendPlain
<1>6. CASE SendStateRequest(p)
  BY <1>5, <1>6 DEF SendStateRequest
<1>7. CASE SendDesync(p)
  BY <1>5, <1>7 DEF SendDesync
<1>8. CASE Transfer(p)
  BY <1>8, TransferStep
<1>9. CASE SendJoin(p)
  BY <1>9, SendJoinStep
<1>10. CASE SendSync(p)
  <2>1. PICK m : m.t = "SYNC" /\ inbox' = Broadcast(inbox, p, m)
    <3>1. [t |-> "SYNC", from |-> p].t = "SYNC"
      OBVIOUS
    <3>. QED BY <1>10, <3>1 DEF SendSync
  <2>2. UNCHANGED <<up, views, group, data>>
    BY <1>10 DEF SendSync, net, ghosts
  <2>. QED BY <2>1, <2>2, SendPlain
<1>. QED BY <1>1, <1>2, <1>3, <1>4, <1>6, <1>7, <1>8, <1>9, <1>10 DEF Send

\* A process with nothing to receive.
LEMMA NothingToReceive ==
    ASSUME NEW p, NEW x, NEW g, NEW d, NEW vs, IsData(d), x # "up",
           New(p, x, <<>>, g, d) \/ Own(p, g, d, vs)
    PROVE  IsProcess(p, x, <<>>, g, d, vs)
<1>1. Box(p, <<>>, g, d, vs)
  BY SeqEmpty DEF Box, Plain, Joins
<1>. QED BY <1>1 DEF IsProcess

\* A process stops: it receives no more.
LEMMA Stopped ==
    ASSUME Inv, NEW p \in Procs, NEW x, x # "up", NEW h, IsData(data[p]),
           New(p, x, <<>>, h, data[p]) \/ Own(p, h, data[p], views),
           \A u \in 1..Len(views) :
               Untouched(p, inbox[p], group[p], u) => MyNode(h).state_msg.uuid # u,
           up' = Put1(up, p, x), inbox' = Put1(inbox, p, <<>>), group' = Put1(group, p, h),
           data' = data, views' = views
    PROVE  Inv'
<1>1. IsProcess(p, x, <<>>, h, data[p], views)
  BY NothingToReceive
<1>2. \A u \in 1..Len(views) : Untouched(p, inbox[p], group[p], u) => Untouched(p, <<>>, h, u)
  BY SeqEmpty DEF Untouched
<1>3. \A i \in 1..Len(<<>>) : <<>>[i].t = "COMP" => \E j \in 1..Len(inbox[p]) : <<>>[i] = inbox[p][j]
  BY SeqEmpty
<1>4. data' = Put1(data, p, data[p])
  BY PutSame DEF Inv, Invariant
<1>. QED BY <1>1, <1>2, <1>3, <1>4, LocalStep

\* A process is killed, or leaves.
LEMMA StopStep ==
    ASSUME Inv, NEW p \in Procs, NEW how \in Stops, Stop(p, how)
    PROVE  Inv'
<1>1. how # "up"
  BY GcsAssumption
<1>2. IsProcess(p, up[p], inbox[p], group[p], data[p], views)
  BY DEF Inv, Invariant
<1>3. New(p, how, <<>>, group[p], data[p]) \/ Own(p, group[p], data[p], views)
  BY <1>1, <1>2 DEF IsProcess, New
<1>4. group' = Put1(group, p, group[p])
  BY PutSame DEF Inv, Invariant, Stop
<1>5. up' = Put1(up, p, how) /\ inbox' = Put1(inbox, p, <<>>) /\ data' = data /\ views' = views
  BY DEF Stop, Put1, ghosts
<1>6. IsData(data[p])
  BY <1>2 DEF IsProcess
<1>7. \A u \in 1..Len(views) :
          Untouched(p, inbox[p], group[p], u) => MyNode(group[p]).state_msg.uuid # u
  BY DEF Untouched
<1>. QED BY <1>1, <1>3, <1>4, <1>5, <1>6, <1>7, Stopped


----------------------------------------------------------------------------
(* The receiving thread *)

\* A process that has received the message it had to receive first.
LEMMA Received ==
    ASSUME Inv, NEW p \in Procs, inbox[p] # <<>>, NEW h, NEW e,
           Box(p, Tail(inbox[p]), h, e, views), Own(p, h, e, views), IsData(e),
           \A u \in 1..Len(views) :
               Untouched(p, inbox[p], group[p], u) => MyNode(h).state_msg.uuid # u
    PROVE  Invariant(up, Put1(inbox, p, Tail(inbox[p])), Put1(group, p, h), Put1(data, p, e), views)
<1>1. PICK s, t : s = inbox[p] /\ t = Tail(inbox[p])
  OBVIOUS
<1>2. IsSeq(s) /\ s # <<>> /\ t = Tail(s)
  BY <1>1 DEF Inv, Invariant, IsProcess, Box, Plain
<1>3. /\ IsSeq(t) /\ Len(t) = Len(s) - 1 /\ Len(s) \in Nat \ {0}
      /\ \A i \in 1..(Len(s) - 1) : t[i] = s[i + 1]
  BY <1>2, SeqTail, Zenon
<1>4. \A i \in 1..Len(t) : i + 1 \in 1..Len(s) /\ t[i] = s[i + 1]
  BY <1>3
<1>5. \A u \in 1..Len(views) : Untouched(p, s, group[p], u) => Untouched(p, t, h, u)
  BY <1>1, <1>4 DEF Untouched
<1>6. \A i \in 1..Len(t) : t[i].t = "COMP" => \E j \in 1..Len(s) : t[i] = s[j]
  BY <1>4
<1>7. IsProcess(p, up[p], t, h, e, views)
  BY <1>1 DEF IsProcess
<1>8. \A u \in 1..Len(views) : Untouched(p, inbox[p], group[p], u) => Untouched(p, t, h, u)
  BY ONLY <1>1, <1>5
<1>9. \A i \in 1..Len(t) : t[i].t = "COMP" => \E j \in 1..Len(inbox[p]) : t[i] = inbox[p][j]
  BY ONLY <1>1, <1>6
<1>10. Invariant(Put1(up, p, up[p]), Put1(inbox, p, t), Put1(group, p, h), Put1(data, p, e), views)
  BY ONLY Inv, p \in Procs, <1>7, <1>8, <1>9, Local DEF Inv
<1>11. up = Put1(up, p, up[p])
  BY PutSame DEF Inv, Invariant
<1>. QED BY <1>1, <1>10, <1>11, Zenon

\* Receiving is all that happens.
LEMMA ReceivedStep ==
    ASSUME Inv, NEW p \in Procs, inbox[p] # <<>>, NEW h, NEW e,
           Box(p, Tail(inbox[p]), h, e, views), Own(p, h, e, views), IsData(e),
           \A u \in 1..Len(views) :
               Untouched(p, inbox[p], group[p], u) => MyNode(h).state_msg.uuid # u,
           up' = up, inbox' = Consumed(p), group' = Put1(group, p, h), data' = Put1(data, p, e),
           views' = views
    PROVE  Inv'
<1>1. Invariant(up, Put1(inbox, p, Tail(inbox[p])), Put1(group, p, h), Put1(data, p, e), views)
  BY Received
<1>2. inbox' = Put1(inbox, p, Tail(inbox[p]))
  BY DEF Consumed, Put1
<1>. QED BY <1>1, <1>2 DEF Inv

\* A process that receives anything but a component has received its first one.
LEMMA ReceivesOwn ==
    ASSUME Inv, NEW p \in Procs, inbox[p] # <<>>, Head(inbox[p]).t # "COMP"
    PROVE  /\ IsData(data[p]) /\ Own(p, group[p], data[p], views)
           /\ Box(p, inbox[p], group[p], data[p], views)
           /\ Box(p, Tail(inbox[p]), group[p], data[p], views)
           /\ IsSeq(views)
<1>1. IsProcess(p, up[p], inbox[p], group[p], data[p], views) /\ IsSeq(views)
  BY DEF Inv, Invariant, IsViews
<1>2. ~ New(p, up[p], inbox[p], group[p], data[p])
  BY DEF New
<1>3. Box(p, inbox[p], group[p], data[p], views)
  BY <1>1 DEF IsProcess
<1>4. PICK s : s = inbox[p]
  OBVIOUS
<1>5. Box(p, s, group[p], data[p], views) /\ s # <<>> /\ Head(s).t # "COMP"
  BY <1>3, <1>4
<1>6. Plain(p, Tail(s), group[p], views) /\ Joins(p, Tail(s), group[p], data[p])
  BY ONLY <1>5, BoxTail
<1>7. Box(p, Tail(s), group[p], data[p], views)
  BY <1>6 DEF Box
<1>. QED BY <1>1, <1>2, <1>3, <1>4, <1>7 DEF IsProcess

\* The message changes nothing.
LEMMA IgnoredStep ==
    ASSUME Inv, NEW p \in Procs, inbox[p] # <<>>, Head(inbox[p]).t # "COMP",
           up' = up, inbox' = Consumed(p), group' = group, data' = data, views' = views
    PROVE  Inv'
<1>1. group' = Put1(group, p, group[p]) /\ data' = Put1(data, p, data[p])
  BY PutSame DEF Inv, Invariant
<1>2. \A u \in 1..Len(views) :
          Untouched(p, inbox[p], group[p], u) => MyNode(group[p]).state_msg.uuid # u
  BY DEF Untouched
<1>. QED BY <1>1, <1>2, ReceivesOwn, ReceivedStep

\* A LAST message is received.
LEMMA RecvLastStep ==
    ASSUME Inv, NEW p \in Procs, RecvLast(p)
    PROVE  Inv'
<1>1. /\ inbox[p] # <<>> /\ Head(inbox[p]).t # "COMP" /\ inbox' = Consumed(p)
      /\ up' = up /\ data' = data /\ views' = views
  BY DEF RecvLast, Head1, net
<1>2. CASE group[p].state # "PRIMARY"
  <2>1. group' = group
    BY <1>2 DEF RecvLast
  <2>. QED BY <1>1, <2>1, IgnoredStep
<1>3. CASE group[p].state = "PRIMARY"
  <2>1. PICK h : h = gcs_group_handle_last_msg(group[p], Head(inbox[p]))
    OBVIOUS
  <2>2. group' = Put1(group, p, h) /\ data' = Put1(data, p, data[p])
    BY <1>1, <1>3, <2>1, PutSame DEF RecvLast, Become, Put1, Inv, Invariant
  <2>3. /\ IsData(data[p]) /\ Own(p, group[p], data[p], views)
        /\ Box(p, Tail(inbox[p]), group[p], data[p], views)
    BY <1>1, ReceivesOwn
  <2>4. /\ Box(p, Tail(inbox[p]), h, data[p], views) /\ Own(p, h, data[p], views)
        /\ MyNode(h).state_msg = MyNode(group[p]).state_msg
    BY <2>1, <2>3, LastStep
  <2>5. \A u \in 1..Len(views) :
            Untouched(p, inbox[p], group[p], u) => MyNode(h).state_msg.uuid # u
    BY <2>4 DEF Untouched
  <2>. QED BY <1>1, <2>2, <2>3, <2>4, <2>5, ReceivedStep
<1>. QED BY <1>2, <1>3


\* A SYNC message is received.
LEMMA RecvSyncStep ==
    ASSUME Inv, NEW p \in Procs, RecvSync(p)
    PROVE  Inv'
<1>1. /\ inbox[p] # <<>> /\ Head(inbox[p]).t # "COMP" /\ inbox' = Consumed(p)
      /\ up' = up /\ data' = data /\ views' = views
  BY DEF RecvSync, Head1, net, ghosts
<1>2. CASE group[p].state # "PRIMARY"
  <2>1. group' = group
    BY <1>2 DEF RecvSync
  <2>. QED BY <1>1, <2>1, IgnoredStep
<1>3. CASE group[p].state = "PRIMARY"
  <2>1. PICK h : h = gcs_group_handle_sync_msg(group[p], Head(inbox[p]))
    OBVIOUS
  <2>2. group' = Put1(group, p, h) /\ data' = Put1(data, p, data[p])
    BY <1>1, <1>3, <2>1, PutSame DEF RecvSync, Put1, Inv, Invariant
  <2>3. /\ IsData(data[p]) /\ Own(p, group[p], data[p], views)
        /\ Box(p, Tail(inbox[p]), group[p], data[p], views)
    BY <1>1, ReceivesOwn
  <2>4. /\ Box(p, Tail(inbox[p]), h, data[p], views) /\ Own(p, h, data[p], views)
        /\ MyNode(h).state_msg = MyNode(group[p]).state_msg
    BY <1>3, <2>1, <2>3, SyncStep
  <2>5. \A u \in 1..Len(views) :
            Untouched(p, inbox[p], group[p], u) => MyNode(h).state_msg.uuid # u
    BY <2>4 DEF Untouched
  <2>. QED BY <1>1, <2>2, <2>3, <2>4, <2>5, ReceivedStep
<1>. QED BY <1>2, <1>3

\* A JOIN message is received.
LEMMA RecvJoinStep ==
    ASSUME Inv, NEW p \in Procs, RecvJoin(p)
    PROVE  Inv'
<1>1. PICK m : m = Head(inbox[p])
  OBVIOUS
<1>2. /\ inbox[p] # <<>> /\ m.t = "JOIN" /\ Head(inbox[p]).t # "COMP"
      /\ data' = data /\ views' = views
  BY <1>1 DEF RecvJoin, Head1
<1>3. CASE group[p].state # "PRIMARY"
  <2>1. group' = group /\ inbox' = Consumed(p) /\ up' = up
    BY <1>3 DEF RecvJoin
  <2>. QED BY <1>2, <2>1, IgnoredStep
<1>4. CASE group[p].state = "PRIMARY"
  <2>1. PICK h : h = gcs_group_handle_join_msg(group[p], m)
    OBVIOUS
  <2>2. group' = Put1(group, p, h) /\ data' = Put1(data, p, data[p])
    BY <1>1, <1>2, <1>4, <2>1, PutSame DEF RecvJoin, Put1, Inv, Invariant
  <2>3. /\ IsData(data[p]) /\ Own(p, group[p], data[p], views)
        /\ Box(p, inbox[p], group[p], data[p], views)
        /\ Box(p, Tail(inbox[p]), group[p], data[p], views)
    BY <1>2, ReceivesOwn
  <2>4. TransferOver(p, Tail(inbox[p]), group[p], data[p], m)
    <3>1. PICK s : s = inbox[p]
      OBVIOUS
    <3>2. Box(p, s, group[p], data[p], views) /\ s # <<>> /\ m = Head(s)
      BY <1>1, <1>2, <2>3, <3>1
    <3>3. IsJoin(p, m) => JoinFits(p, s, group[p], data[p], 1) /\ NoLiveJoin(p, Tail(s))
      BY ONLY <3>2, BoxTail
    <3>4. IsSeq(s)
      BY <3>2 DEF Box, Plain
    <3>5. m = s[1]
      BY <3>2, <3>4, SeqTail
    <3>. QED BY <1>2, <1>4, <3>1, <3>3, <3>5 DEF TransferOver, IsJoin, JoinFits
  <2>5. /\ Box(p, Tail(inbox[p]), h, data[p], views) /\ Own(p, h, data[p], views)
        /\ MyNode(h).state_msg = MyNode(group[p]).state_msg
    <3>1. PICK t, g, d : t = Tail(inbox[p]) /\ g = group[p] /\ d = data[p]
      OBVIOUS
    <3>2. /\ Own(p, g, d, views) /\ Box(p, t, g, d, views) /\ g.state = "PRIMARY"
          /\ h = gcs_group_handle_join_msg(g, m)
          /\ TransferOver(p, t, g, d, m)
      BY <1>4, <2>1, <2>3, <2>4, <3>1
    <3>3. /\ Box(p, t, h, d, views) /\ Own(p, h, d, views)
          /\ MyNode(h).state_msg = MyNode(g).state_msg
      BY ONLY <3>2, JoinStep
    <3>. QED BY <3>1, <3>3, Zenon
  <2>6. \A u \in 1..Len(views) :
            Untouched(p, inbox[p], group[p], u) => MyNode(h).state_msg.uuid # u
    BY <2>5 DEF Untouched
  <2>7. CASE inbox' = Consumed(p) /\ up' = up
    BY <1>2, <2>2, <2>3, <2>5, <2>6, <2>7, ReceivedStep
  <2>8. CASE inbox' = Put1(inbox, p, <<>>) /\ up' = Put1(up, p, "down")
    <3>1. "down" # "up"
      OBVIOUS
    <3>. QED BY <1>2, <2>2, <2>3, <2>5, <2>6, <2>8, <3>1, Stopped
  <2>9. \/ inbox' = Consumed(p) /\ up' = up
        \/ inbox' = Put1(inbox, p, <<>>) /\ up' = Put1(up, p, "down")
    BY DEF RecvJoin, Put1
  <2>. QED BY <2>7, <2>8, <2>9
<1>. QED BY <1>3, <1>4

\* A fragment of an action is received, or the last of a state request.
LEMMA RecvActStep ==
    ASSUME Inv, NEW p \in Procs, RecvAct(p)
    PROVE  Inv'
<1>1. PICK m, r : m = Head(inbox[p]) /\ r = gcs_group_handle_act_msg(group[p], p, m)
  OBVIOUS
<1>2. PICK h : h = IF r.out = "request" THEN gcs_group_handle_state_request(r.g, m) ELSE r.g
  OBVIOUS
<1>3. /\ inbox[p] # <<>> /\ Head(inbox[p]).t # "COMP" /\ inbox' = Consumed(p)
      /\ up' = up /\ views' = views
  BY DEF RecvAct, Head1, net
<1>4. CASE group' = group /\ data' = data
  BY <1>3, <1>4, IgnoredStep
<1>5. PICK e : e = CASE r.out = "ordered" -> Extended(data[p], h)
                     [] r.out = "request" /\ m.from = p /\ h # r.g /\ MyNode(h).status = JOINER ->
                           [uuid |-> h.group_uuid, seqno |-> h.act_id, have |-> FALSE]
                     [] OTHER -> data[p]
  OBVIOUS
<1>6. CASE group' = Put1(group, p, h) /\ data' = Put1(data, p, e)
  <2>1. /\ IsData(data[p]) /\ Own(p, group[p], data[p], views)
        /\ Box(p, Tail(inbox[p]), group[p], data[p], views)
    BY <1>3, ReceivesOwn
  <2>2. r.out = "ordered" => e = Extended(data[p], h)
    BY <1>5
  <2>3. r.out = "request" =>
            e = IF m.from = p /\ h # r.g /\ MyNode(h).status = JOINER
                THEN [uuid |-> h.group_uuid, seqno |-> h.act_id, have |-> FALSE] ELSE data[p]
    BY <1>5
  <2>4. r.out \notin {"ordered", "request"} => e = data[p]
    BY <1>5
  <2>5. /\ Box(p, Tail(inbox[p]), h, e, views) /\ Own(p, h, e, views) /\ IsData(e)
        /\ MyNode(h).state_msg = MyNode(group[p]).state_msg
    BY ONLY <1>1, <1>2, <2>1, <2>2, <2>3, <2>4, ActStep
  <2>6. \A u \in 1..Len(views) :
            Untouched(p, inbox[p], group[p], u) => MyNode(h).state_msg.uuid # u
    BY <2>5 DEF Untouched
  <2>. QED BY <1>3, <1>6, <2>5, <2>6, ReceivedStep
<1>7. \/ group' = group /\ data' = data
      \/ group' = Put1(group, p, h) /\ data' = Put1(data, p, e)
  BY <1>1, <1>2, <1>5 DEF RecvAct, Become, Put1
<1>. QED BY <1>4, <1>6, <1>7


\* A state message: it is recorded, and ends the exchange if it is the last.
LEMMA StateStep ==
    ASSUME NEW p, NEW s, NEW g, NEW d, NEW vs, Box(p, s, g, d, vs), Own(p, g, d, vs), IsSeq(vs),
           s # <<>>, NEW m, m = Head(s), m.t = "STATE",
           NEW h, h = gcs_group_handle_state_msg(g, m)
    PROVE  /\ Box(p, Tail(s), h, d, vs) /\ Own(p, h, d, vs)
           /\ \/ MyNode(h).state_msg = MyNode(g).state_msg
              \/ MyNode(h).state_msg = m.state /\ IsOwnState(p, m)
<1>1. CASE g.state # "WAIT_STATE_MSG" \/ m.state.uuid # g.state_uuid
  <2>1. h = g
    BY <1>1 DEF gcs_group_handle_state_msg
  <2>2. Plain(p, Tail(s), g, vs) /\ Joins(p, Tail(s), g, d)
    BY BoxTail
  <2>. QED BY <2>1, <2>2 DEF Box
<1>2. CASE g.state = "WAIT_STATE_MSG" /\ m.state.uuid = g.state_uuid
  <2>1. PICK k : k = gcs_node_record_state(g, m)
    OBVIOUS
  <2>2. h = IF ExchangeComplete(k) THEN group_post_state_exchange(k) ELSE k
    BY <1>2, <2>1 DEF gcs_group_handle_state_msg
  <2>3. /\ Box(p, Tail(s), k, d, vs) /\ Own(p, k, d, vs)
        /\ k.state = g.state /\ k.state_uuid = g.state_uuid
        /\ \/ MyNode(k).state_msg = MyNode(g).state_msg
           \/ MyNode(k).state_msg = m.state /\ IsOwnState(p, m)
    BY <1>2, <2>1, RecordStep
  <2>4. CASE ExchangeComplete(k)
    <3>1. h = group_post_state_exchange(k)
      BY <2>2, <2>4
    <3>2. /\ Box(p, Tail(s), h, d, vs) /\ Own(p, h, d, vs)
          /\ MyNode(h).state_msg = MyNode(k).state_msg
      BY <1>2, <2>3, <2>4, <3>1, ExchangeStep
    <3>. QED BY <2>3, <3>2
  <2>5. CASE ~ ExchangeComplete(k)
    BY <2>2, <2>3, <2>5
  <2>. QED BY <2>4, <2>5
<1>. QED BY <1>1, <1>2

\* A state message is received.
LEMMA RecvStateStep ==
    ASSUME Inv, NEW p \in Procs, RecvState(p)
    PROVE  Inv'
<1>1. PICK m, s : m = Head(inbox[p]) /\ s = inbox[p]
  OBVIOUS
<1>2. /\ inbox[p] # <<>> /\ m.t = "STATE" /\ Head(inbox[p]).t # "COMP"
      /\ data' = data /\ views' = views
  BY <1>1 DEF RecvState, Head1
<1>3. PICK h : h = gcs_group_handle_state_msg(group[p], m)
  OBVIOUS
<1>4. group' = Put1(group, p, h) /\ data' = Put1(data, p, data[p])
  BY <1>1, <1>2, <1>3, PutSame DEF RecvState, Become, Put1, Inv, Invariant
<1>5. /\ IsData(data[p]) /\ Own(p, group[p], data[p], views)
      /\ Box(p, inbox[p], group[p], data[p], views) /\ IsSeq(views)
  BY <1>2, ReceivesOwn
<1>6. /\ Box(p, Tail(s), h, data[p], views) /\ Own(p, h, data[p], views)
      /\ \/ MyNode(h).state_msg = MyNode(group[p]).state_msg
         \/ MyNode(h).state_msg = m.state /\ IsOwnState(p, m)
  <2>1. Box(p, s, group[p], data[p], views) /\ s # <<>> /\ m = Head(s)
    BY <1>1, <1>2, <1>5
  <2>. QED BY ONLY <1>2, <1>3, <1>5, <2>1, StateStep
<1>7. \A u \in 1..Len(views) :
          Untouched(p, inbox[p], group[p], u) => MyNode(h).state_msg.uuid # u
  <2>1. IsSeq(s) /\ s # <<>>
    BY <1>1, <1>2, <1>5 DEF Box, Plain
  <2>2. m = s[1] /\ 1 \in 1..Len(s)
    BY <1>1, <2>1, SeqTail
  <2>3. \A u : Untouched(p, s, group[p], u) => MyNode(h).state_msg.uuid # u
    BY <1>6, <2>2 DEF Untouched
  <2>. QED BY ONLY <1>1, <2>3
<1>8. Box(p, Tail(inbox[p]), h, data[p], views)
  BY ONLY <1>1, <1>6
<1>9. CASE inbox' = Consumed(p) /\ up' = up
  BY <1>2, <1>4, <1>5, <1>6, <1>7, <1>8, <1>9, ReceivedStep
<1>10. CASE inbox' = Put1(inbox, p, <<>>) /\ up' = Put1(up, p, "down")
  <2>1. "down" # "up"
    OBVIOUS
  <2>. QED BY <1>2, <1>4, <1>5, <1>6, <1>7, <1>10, <2>1, Stopped
<1>11. \/ inbox' = Consumed(p) /\ up' = up
       \/ inbox' = Put1(inbox, p, <<>>) /\ up' = Put1(up, p, "down")
  BY DEF RecvState, Put1
<1>. QED BY <1>9, <1>10, <1>11

\* The exchanges that p is to start are among those it was to start before.
LEMMA LeadsTail ==
    ASSUME NEW s, IsSeq(s), s # <<>>, NEW p, NEW vs, NEW u, Leads(p, Tail(s), vs, u)
    PROVE  Leads(p, s, vs, u)
<1>1. PICK t : t = Tail(s)
  OBVIOUS
<1>2. /\ IsSeq(t) /\ Len(t) = Len(s) - 1 /\ Len(s) \in Nat \ {0}
      /\ \A i \in 1..(Len(s) - 1) : t[i] = s[i + 1]
  BY <1>1, SeqTail, Zenon
<1>3. \A i \in 1..Len(t) : i + 1 \in 1..Len(s) /\ t[i] = s[i + 1]
  BY <1>2
<1>4. Leads(p, t, vs, u)
  BY <1>1
<1>. QED BY ONLY <1>3, <1>4 DEF Leads

\* The UUID of an exchange is received.
LEMMA RecvUuidStep ==
    ASSUME Inv, NEW p \in Procs, RecvUuid(p)
    PROVE  Inv'
<1>1. PICK m, s : m = Head(inbox[p]) /\ s = inbox[p]
  OBVIOUS
<1>2. /\ inbox[p] # <<>> /\ m.t = "UUID" /\ Head(inbox[p]).t # "COMP"
      /\ up' = up /\ data' = data /\ views' = views
  BY <1>1 DEF RecvUuid, Head1, net, ghosts
<1>3. PICK h : h = gcs_group_handle_uuid_msg(group[p], m)
  OBVIOUS
<1>4. group' = Put1(group, p, h)
  BY <1>1, <1>3 DEF RecvUuid, Become, Put1
<1>5. CASE h = group[p]
  <2>1. inbox' = Consumed(p) /\ group' = group
    BY <1>1, <1>3, <1>4, <1>5, PutSame DEF RecvUuid, Inv, Invariant
  <2>. QED BY <1>2, <2>1, IgnoredStep
<1>6. CASE h # group[p]
  <2>1. PICK n : n = [t |-> "STATE", from |-> p, state |-> gcs_group_get_state(h)]
    OBVIOUS
  <2>2. PICK B : B = Put1(inbox, p, Tail(s))
    OBVIOUS
  <2>3. inbox' = Sent(B, In(bview[p]), n)
    BY <1>1, <1>3, <1>6, <2>1, <2>2 DEF RecvUuid, Broadcast, Consumed, Put1, Sent
  <2>4. /\ IsData(data[p]) /\ Own(p, group[p], data[p], views)
        /\ Box(p, s, group[p], data[p], views) /\ IsSeq(views) /\ IsSeq(s) /\ s # <<>>
    BY <1>1, <1>2, ReceivesOwn DEF Box, Plain
  <2>5. /\ Box(p, Tail(s), h, data[p], views) /\ Own(p, h, data[p], views)
        /\ n.state.uuid = m.uuid /\ Sound(p, n, views) /\ Fits(p, h, n)
        /\ \A i \in 1..Len(Tail(s)) : Apart(p, Tail(s)[i], n)
        /\ MyNode(h).state_msg = MyNode(group[p]).state_msg
    BY <1>1, <1>2, <1>3, <1>6, <2>1, <2>4, UuidStep
  <2>6. Invariant(up, B, group', data, views)
    <3>1. Invariant(up, Put1(inbox, p, Tail(inbox[p])), Put1(group, p, h), Put1(data, p, data[p]), views)
      <4>1. Box(p, Tail(inbox[p]), h, data[p], views)
        BY <1>1, <2>5
      <4>2. \A u \in 1..Len(views) :
                Untouched(p, inbox[p], group[p], u) => MyNode(h).state_msg.uuid # u
        BY <2>5 DEF Untouched
      <4>. QED BY <1>2, <2>4, <2>5, <4>1, <4>2, Received
    <3>2. data = Put1(data, p, data[p])
      BY PutSame DEF Inv, Invariant
    <3>. QED BY <1>1, <1>4, <2>2, <3>1, <3>2, Zenon
  <2>7. /\ B[p] = Tail(s) /\ group'[p] = h
        /\ \A q \in Procs : q # p => B[q] = inbox[q] /\ group'[q] = group[q]
    <3>1. IsFun(inbox) /\ IsFun(group)
      BY DEF Inv, Invariant
    <3>2. B[p] = Tail(s) /\ \A q \in Procs : q # p => B[q] = inbox[q]
      <4>1. PICK t : t = Tail(s)
        OBVIOUS
      <4>2. B = Put1(inbox, p, t)
        BY <2>2, <4>1, Zenon
      <4>3. B[p] = t /\ \A q \in Procs : q # p => B[q] = inbox[q]
        BY ONLY <3>1, <4>2, p \in Procs, PutFun
      <4>. QED BY <4>1, <4>3
    <3>3. group'[p] = h /\ \A q \in Procs : q # p => group'[q] = group[q]
      BY ONLY <1>4, <3>1, p \in Procs, PutFun
    <3>. QED BY <3>2, <3>3
  <2>8. n.t = "STATE" /\ n.from = p
    BY <2>1
  <2>9. \A q \in In(bview[p]) : q \in Procs /\ up[q] = "up"
    BY DEF In
  <2>10. ASSUME NEW q \in In(bview[p])
         PROVE  /\ Sound(q, n, views) /\ Fits(q, group'[q], n) /\ ~ IsJoin(q, n)
                /\ \A i \in 1..Len(B[q]) : Apart(q, B[q][i], n)
    <3>1. CASE q = p
      <4>1. ~ IsJoin(p, n)
        BY <2>8 DEF IsJoin
      <4>2. \A i \in 1..Len(B[p]) : Apart(p, B[p][i], n)
        BY ONLY <2>5, <2>7
      <4>. QED BY <2>5, <2>7, <3>1, <4>1, <4>2
    <3>2. CASE q # p
      <4>1. ~ IsOwnState(q, n) /\ n.t # "COMP" /\ n.t # "UUID" /\ ~ IsJoin(q, n)
        BY <2>8, <3>2 DEF IsOwnState, IsJoin
      <4>2. Sound(q, n, views)
        BY <2>5, <4>1 DEF Sound
      <4>. QED BY <4>1, <4>2 DEF Fits, Apart
    <3>. QED BY <3>1, <3>2
  <2>11. ASSUME NEW q \in Procs, NEW u \in 1..Len(views), Leads(q, B[q], views, u)
         PROVE  n.state.uuid # u
    <3>1. Leads(q, inbox[q], views, u)
      <4>1. CASE q = p
        <5>1. Leads(p, Tail(s), views, u)
          BY <2>7, <2>11, <4>1
        <5>2. Leads(p, s, views, u)
          BY <2>4, <5>1, LeadsTail
        <5>. QED BY <1>1, <4>1, <5>2
      <4>2. CASE q # p
        BY <2>7, <2>11, <4>2
      <4>. QED BY <4>1, <4>2
    <3>2. Untouched(p, inbox[p], group[p], u)
      BY <2>11, <3>1 DEF Inv, Invariant, Ahead
    <3>3. Untouched(p, s, group[p], u)
      BY <1>1, <3>2
    <3>4. m = s[1] /\ 1 \in 1..Len(s)
      BY <1>1, <2>4, SeqTail
    <3>. QED BY <1>2, <2>5, <3>3, <3>4 DEF Untouched
  <2>12. n.t # "COMP" /\ n.t # "UUID"
    BY <2>8
  <2>13. Invariant(up, Sent(B, In(bview[p]), n), group', data, views)
    BY ONLY <2>6, <2>9, <2>10, <2>11, <2>12, Cast
  <2>. QED BY <1>2, <2>3, <2>13 DEF Inv
<1>. QED BY <1>5, <1>6


\* Only the least member is at index 0.
LEMMA FirstMember ==
    ASSUME NEW h, NEW p \in Nat, IsFiniteSet(Members(h)), Members(h) \subseteq Nat, Idx(h, p) = 0
    PROVE  \A j \in Members(h) : p <= j
<1>. DEFINE T == {j \in Members(h) : j < p}
<1>1. IsFiniteSet(T)
  BY FS_Subset
<1>2. Cardinality(T) = 0
  BY DEF Idx
<1>3. T = {}
  BY <1>1, <1>2, FS_EmptySet
<1>4. SUFFICES ASSUME NEW j \in Members(h) PROVE p <= j
  OBVIOUS
<1>5. j \notin T
  BY <1>3
<1>6. ~ (j < p)
  BY <1>5
<1>7. j \in Nat
  OBVIOUS
<1>. QED BY <1>6, <1>7

\* A component is received; the member of index 0 starts the exchange.
LEMMA RecvCompStep ==
    ASSUME Inv, NEW p \in Procs, RecvComp(p)
    PROVE  Inv'
<1>1. PICK s, g, v, c : s = inbox[p] /\ g = group[p] /\ v = Head(s).view /\ c = views[v]
  OBVIOUS
<1>2. inbox[p] # <<>> /\ s # <<>> /\ Head(s).t = "COMP" /\ up' = up /\ views' = views
  BY <1>1 DEF RecvComp, Head1, net
<1>3. PICK h : h = gcs_group_handle_comp_msg(g, p, c, v)
  OBVIOUS
<1>4. PICK e : e = IF h.group_uuid = g.group_uuid THEN data[p]
                   ELSE [uuid |-> h.group_uuid, seqno |-> h.act_id, have |-> TRUE]
  OBVIOUS
<1>5. group' = Put1(group, p, h) /\ data' = Put1(data, p, e)
  BY <1>1, <1>3, <1>4 DEF RecvComp, Become, Put1
<1>6. IsProcess(p, up[p], s, g, data[p], views) /\ IsViews(views) /\ IsSeq(views)
  BY <1>1 DEF Inv, Invariant, IsViews
<1>7. /\ Sound(p, Head(s), views) /\ IsSeq(s)
      /\ \A i \in 1..Len(Tail(s)) : Apart(p, Head(s), Tail(s)[i])
  <2>1. Box(p, s, g, data[p], views)
    BY <1>6 DEF IsProcess
  <2>2. Sound(p, Head(s), views) /\ \A i \in 1..Len(Tail(s)) : Apart(p, Head(s), Tail(s)[i])
    BY ONLY <1>2, <2>1, BoxTail
  <2>. QED BY <2>1, <2>2 DEF Box, Plain
<1>8. v \in 1..Len(views) /\ p \in c.members
  BY <1>1, <1>2, <1>7 DEF Sound
<1>9. c.members \subseteq Procs /\ (c.bootstrap => MayBootstrap)
  BY <1>1, <1>6, <1>8 DEF IsViews
<1>10. IsComponent(c, p)
  BY <1>8, <1>9, GcsAssumption, FS_Subset DEF IsComponent
<1>11. /\ Box(p, Tail(s), h, e, views) /\ Own(p, h, e, views) /\ IsData(e)
       /\ Members(h) = c.members
       /\ MyNode(h).state_msg = MyNode(g).state_msg \/ MyNode(h).state_msg = NoState
  BY <1>1, <1>2, <1>3, <1>4, <1>6, <1>8, <1>9, <1>10, CompStep
<1>12. \A u \in 1..Len(views) :
           Untouched(p, inbox[p], group[p], u) => MyNode(h).state_msg.uuid # u
  <2>1. NoState.uuid = 0
    BY DEF NoState, GU_UUID_NIL
  <2>. QED BY <1>1, <1>11, <2>1 DEF Untouched
<1>13. PICK t : t = Tail(s)
  OBVIOUS
<1>14. PICK B : B = Put1(inbox, p, t)
  OBVIOUS
<1>15. Invariant(up, B, group', data', views)
  <2>1. Box(p, Tail(inbox[p]), h, e, views)
    BY <1>1, <1>11
  <2>2. Invariant(up, Put1(inbox, p, Tail(inbox[p])), Put1(group, p, h), Put1(data, p, e), views)
    BY <1>2, <1>11, <1>12, <2>1, Received
  <2>. QED BY <1>1, <1>5, <1>13, <1>14, <2>2, Zenon
<1>16. CASE inbox' = Consumed(p)
  <2>1. inbox' = B
    BY <1>1, <1>13, <1>14, <1>16 DEF Consumed, Put1
  <2>. QED BY <1>2, <1>15, <2>1 DEF Inv
<1>17. CASE /\ Idx(h, p) = 0
            /\ inbox' = Broadcast(Consumed(p), p, [t |-> "UUID", from |-> p, uuid |-> v])
  <2>1. PICK n : n = [t |-> "UUID", from |-> p, uuid |-> v]
    OBVIOUS
  <2>2. inbox' = Sent(B, In(bview[p]), n)
    BY <1>1, <1>13, <1>14, <1>17, <2>1 DEF Broadcast, Consumed, Put1, Sent
  <2>3. n.t = "UUID" /\ n.uuid = v /\ n.t # "COMP" /\ n.t # "STATE"
    BY <2>1
  <2>4. \A j \in c.members : p <= j
    <3>1. p \in Nat /\ IsFiniteSet(Members(h)) /\ Members(h) \subseteq Nat
      BY <1>10, <1>11, GcsAssumption DEF IsComponent
    <3>. QED BY <1>11, <1>17, <3>1, FirstMember
  <2>5. \A q \in Procs : Untouched(q, inbox[q], group[q], v)
    <3>1. Head(s) = s[1] /\ 1 \in 1..Len(s)
      BY <1>2, <1>7, SeqTail
    <3>2. Leads(p, s, views, v)
      BY <1>1, <1>2, <2>4, <3>1 DEF Leads
    <3>3. Leads(p, inbox[p], views, v)
      BY <1>1, <3>2
    <3>. QED BY <1>8, <3>3 DEF Inv, Invariant, Ahead
  <2>6. /\ B[p] = t /\ group'[p] = h
        /\ \A q \in Procs : q # p => B[q] = inbox[q] /\ group'[q] = group[q]
    <3>1. IsFun(inbox) /\ IsFun(group)
      BY DEF Inv, Invariant
    <3>2. B[p] = t /\ \A q \in Procs : q # p => B[q] = inbox[q]
      BY ONLY <1>14, <3>1, p \in Procs, PutFun
    <3>3. group'[p] = h /\ \A q \in Procs : q # p => group'[q] = group[q]
      BY ONLY <1>5, <3>1, p \in Procs, PutFun
    <3>. QED BY <3>2, <3>3
  <2>7. ASSUME NEW q \in Procs PROVE Untouched(q, B[q], group'[q], v)
    <3>1. CASE q = p
      <4>1. Untouched(p, s, g, v)
        BY <1>1, <2>5
      <4>2. MyNode(h).state_msg.uuid # v
        BY <1>8, <1>12, <2>5
      <4>3. /\ Len(t) = Len(s) - 1 /\ Len(s) \in Nat \ {0}
            /\ \A i \in 1..(Len(s) - 1) : t[i] = s[i + 1]
        BY ONLY <1>2, <1>7, <1>13, SeqTail
      <4>4. \A i \in 1..Len(t) : i + 1 \in 1..Len(s) /\ t[i] = s[i + 1]
        BY <4>3
      <4>5. Untouched(p, t, h, v)
        BY ONLY <4>1, <4>2, <4>4 DEF Untouched
      <4>. QED BY <2>6, <3>1, <4>5
    <3>2. CASE q # p
      BY <2>5, <2>6, <3>2
    <3>. QED BY <3>1, <3>2
  <2>8. \A q \in In(bview[p]) : q \in Procs /\ up[q] = "up"
    BY DEF In
  <2>9. ASSUME NEW q \in In(bview[p])
        PROVE  /\ Sound(q, n, views) /\ Fits(q, group'[q], n) /\ ~ IsJoin(q, n)
               /\ \A i \in 1..Len(B[q]) : Apart(q, B[q][i], n)
    <3>1. Untouched(q, B[q], group'[q], v)
      BY <2>7, <2>8
    <3>2. Sound(q, n, views)
      BY <1>8, <2>3 DEF Sound
    <3>3. Fits(q, group'[q], n) /\ ~ IsJoin(q, n)
      BY <2>3, <3>1 DEF Fits, IsJoin, IsOwnState, Untouched
    <3>4. \A i \in 1..Len(B[q]) : Apart(q, B[q][i], n)
      BY <2>3, <3>1 DEF Apart, IsJoin, IsOwnState, Untouched
    <3>. QED BY <3>2, <3>3, <3>4
  <2>10. ASSUME NEW q \in Procs, NEW u \in 1..Len(views), Leads(q, B[q], views, u)
         PROVE  n.uuid # u
    <3>1. SUFFICES ASSUME u = v PROVE FALSE
      BY <2>3
    <3>2. PICK i \in 1..Len(B[q]) : B[q][i].t = "COMP" /\ B[q][i].view = v
      BY <2>10, <3>1 DEF Leads
    <3>3. \A j \in c.members : q <= j
      BY <1>1, <2>10, <3>1 DEF Leads
    <3>4. Sound(q, B[q][i], views)
      BY <1>15 DEF Invariant, IsProcess, Box, Plain
    <3>5. q \in c.members
      BY <1>1, <3>2, <3>4 DEF Sound
    <3>6. p <= q /\ q <= p /\ p \in Nat /\ q \in Nat
      BY <1>8, <2>4, <3>3, <3>5, GcsAssumption
    <3>7. q = p
      BY <3>6
    <3>8. i \in 1..Len(t) /\ t[i].t = "COMP" /\ t[i].view = v
      BY <2>6, <3>2, <3>7
    <3>9. Apart(p, Head(s), t[i])
      BY <1>7, <1>13, <3>8
    <3>10. v < v
      BY <1>1, <1>2, <3>8, <3>9 DEF Apart
    <3>. QED BY <1>8, <3>10
  <2>11. Invariant(up, Sent(B, In(bview[p]), n), group', data', views)
    BY ONLY <1>15, <2>3, <2>8, <2>9, <2>10, Cast
  <2>. QED BY <1>2, <2>2, <2>11 DEF Inv
<1>18. \/ inbox' = Consumed(p)
       \/ /\ Idx(h, p) = 0
          /\ inbox' = Broadcast(Consumed(p), p, [t |-> "UUID", from |-> p, uuid |-> v])
  BY <1>1, <1>3 DEF RecvComp
<1>. QED BY <1>16, <1>17, <1>18


----------------------------------------------------------------------------
(* The invariant, and what follows from it *)

\* Whatever is received.
LEMMA Receives ==
    ASSUME Inv, NEW p \in Procs, Receive(p)
    PROVE  Inv'
BY RecvCompStep, RecvUuidStep, RecvStateStep, RecvActStep, RecvLastStep, RecvJoinStep, RecvSyncStep
   DEF Receive

\* The processes start in the invariant.
LEMMA InitInvariant ==
    ASSUME Init
    PROVE  Inv
<1>1. IsFun(up) /\ IsFun(inbox) /\ IsFun(group) /\ IsFun(data)
  BY DEF Init, IsFun
<1>2. IsViews(views)
  BY SeqEmpty DEF Init, IsViews
<1>3. ASSUME NEW p \in Procs PROVE IsProcess(p, up[p], inbox[p], group[p], data[p], views)
  <2>1. up[p] # "up" /\ inbox[p] = <<>>
    BY DEF Init
  <2>2. New(p, up[p], <<>>, group[p], data[p])
    BY <2>1 DEF Init, New
  <2>3. IsData(data[p])
    BY DEF Init, IsData
  <2>4. IsProcess(p, up[p], <<>>, group[p], data[p], views)
    BY <2>1, <2>2, <2>3, NothingToReceive
  <2>. QED BY <2>1, <2>4
<1>4. Ahead(inbox, group, views)
  <2>1. 1..Len(views) = {}
    BY SeqEmpty DEF Init
  <2>. QED BY <2>1 DEF Ahead
<1>. QED BY <1>1, <1>2, <1>3, <1>4 DEF Inv, Invariant

\* Every step keeps the invariant.
LEMMA StepInvariant ==
    ASSUME Inv, [Next]_vars
    PROVE  Inv'
<1>1. CASE View
  BY <1>1, ViewStep
<1>2. ASSUME NEW p \in Procs, Receive(p) PROVE Inv'
  BY <1>2, Receives
<1>3. ASSUME NEW p \in Procs, Send(p) PROVE Inv'
  BY <1>3, SendStep
<1>4. ASSUME NEW p \in Procs, NEW how \in Stops, Stop(p, how) PROVE Inv'
  BY <1>4, StopStep
<1>5. CASE UNCHANGED vars
  BY <1>5 DEF vars, net, ghosts, Inv
<1>. QED BY <1>1, <1>2, <1>3, <1>4, <1>5 DEF Next

\* The inductive invariant: what every process holds, what every message says
\* and which exchanges are still to be started, after any number of views,
\* messages, transfers and stops.
THEOREM InvariantHolds == Spec => []Inv
<1>1. Init => Inv
  BY InitInvariant
<1>2. Inv /\ [Next]_vars => Inv'
  BY StepInvariant
<1>. QED BY <1>1, <1>2, PTL DEF Spec

\* A process in a primary component that the group takes for a donor, joined
\* or synced is at the group's position in the group's history, and holds the
\* state of that history if there is one.
FollowsGroup ==
    \A p \in Procs :
        InPrimary(p) /\ MyNode(group[p]).status >= DONOR => Holds(group[p], data[p])

\* What the invariant says of a process from DONOR on in a primary component.
LEMMA InvariantPrimary ==
    ASSUME Inv, NEW p \in Procs, InPrimary(p), MyNode(group[p]).status >= DONOR
    PROVE  /\ IsData(data[p]) /\ Own(p, group[p], data[p], views)
           /\ Holds(group[p], data[p])
<1>1. IsProcess(p, up[p], inbox[p], group[p], data[p], views)
  BY DEF Inv, Invariant
<1>2. group[p].state = "PRIMARY"
  BY DEF InPrimary
<1>3. ~ New(p, up[p], inbox[p], group[p], data[p])
  BY <1>2 DEF New, gcs_group_init
<1>4. IsData(data[p]) /\ Own(p, group[p], data[p], views)
  BY <1>1, <1>3 DEF IsProcess
<1>. QED BY <1>2, <1>4 DEF Own, Carries

\* Whatever histories the processes start with and whatever the operator does,
\* the group's idea of a member (gcs_node_update_status(), the state request
\* and the JOIN handlers) is right about its position.
THEOREM FollowsGroupHolds == Spec => []FollowsGroup
<1>1. Inv => FollowsGroup
  BY InvariantPrimary DEF FollowsGroup
<1>. QED BY <1>1, InvariantHolds, PTL

\* If the operator bootstraps only processes that have a history, a process
\* that the group takes for a donor, joined or synced holds all of the group's
\* history (JoinedHasState, for any number of processes, views and messages).
THEOREM JoinedHasStateHolds ==
    ASSUME KnownHistories
    PROVE  Spec => []JoinedHasState
<1>1. ASSUME Inv PROVE JoinedHasState
  <2>1. SUFFICES ASSUME NEW p \in Procs, InPrimary(p), MyNode(group[p]).status >= DONOR
                 PROVE  data[p] = [uuid |-> group[p].group_uuid, seqno |-> group[p].act_id, have |-> TRUE]
    BY DEF JoinedHasState
  <2>2. IsData(data[p]) /\ Own(p, group[p], data[p], views) /\ Holds(group[p], data[p])
    BY <1>1, <2>1, InvariantPrimary
  <2>3. MyNode(group[p]).status # NON_PRIM
    BY <2>1 DEF NON_PRIM, DONOR
  <2>4. group[p].group_uuid # GU_UUID_NIL
    BY <1>1, <2>2, <2>3 DEF Own, Rooted
  <2>. QED BY <2>2, <2>4 DEF Holds, Matches, IsData
<1>2. Inv => JoinedHasState
  BY <1>1
<1>. QED BY <1>2, InvariantHolds, PTL
============================================================================
