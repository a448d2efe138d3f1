------------------------ MODULE CertificationLemmas ------------------------
(***************************************************************************)
(* Keys, the certification index and the test: what holds of the operators *)
(* of Certification whoever uses them.  Module CertificationProofs takes   *)
(* them through the history of one object, ReplicatorProofs through the    *)
(* threads of a node.                                                      *)
(***************************************************************************)
EXTENDS Certification, FiniteSetTheorems, SequenceTheorems, WellFoundedInduction, TLAPS

\* A set of integers bounded from below has a minimum.
LEMMA MinExists ==
    ASSUME NEW S \in SUBSET Int, S # {}, NEW b \in Int, \A x \in S : b <= x
    PROVE  Min(S) \in S /\ \A y \in S : Min(S) <= y
<1>. DEFINE T == {n \in Nat : b + n \in S}
<1>1. T \subseteq Nat
  OBVIOUS
<1>2. \A x \in S : x - b \in T
  OBVIOUS
<1>3. T # {}
  BY <1>2
<1>. HIDE DEF T
<1>4. PICK m \in T : \A y \in T : ~ (<<y, m>> \in OpToRel(<, Nat))
  BY <1>1, <1>3, NatLessThanWellFounded, WFMin
<1>5. m \in Nat /\ \A y \in T : m <= y
  <2>1. \A y \in T : ~ (y < m)
    BY <1>1, <1>4 DEF OpToRel
  <2>. QED BY <1>1, <2>1
<1>6. b + m \in S /\ \A y \in S : b + m <= y
  BY <1>2, <1>5 DEF T
<1>. QED BY <1>6 DEF Min

\* A set of integers bounded from above has a maximum.
LEMMA MaxExists ==
    ASSUME NEW S \in SUBSET Int, S # {}, NEW b \in Int, \A x \in S : x <= b
    PROVE  Max(S) \in S /\ \A y \in S : Max(S) >= y
<1>. DEFINE T == {n \in Nat : b - n \in S}
<1>1. T \subseteq Nat
  OBVIOUS
<1>2. \A x \in S : b - x \in T
  <2>1. SUFFICES ASSUME NEW x \in S PROVE b - x \in T
    OBVIOUS
  <2>2. b - x \in Nat /\ b - (b - x) = x
    OBVIOUS
  <2>. QED BY <2>2
<1>3. T # {}
  BY <1>2
<1>. HIDE DEF T
<1>4. PICK m \in T : \A y \in T : ~ (<<y, m>> \in OpToRel(<, Nat))
  BY <1>1, <1>3, NatLessThanWellFounded, WFMin
<1>5. m \in Nat /\ \A y \in T : m <= y
  <2>1. \A y \in T : ~ (y < m)
    BY <1>1, <1>4 DEF OpToRel
  <2>. QED BY <1>1, <2>1
<1>6. b - m \in S /\ \A y \in S : b - m >= y
  BY <1>2, <1>5 DEF T
<1>. QED BY <1>6 DEF Max

\* The smaller of two numbers.
LEMMA MinOfTwo ==
    ASSUME NEW x \in Int, NEW y \in Int
    PROVE  Min({x, y}) \in Int /\ Min({x, y}) <= x /\ Min({x, y}) <= y
<1>1. PICK b \in {x, y} : b <= x /\ b <= y
  OBVIOUS
<1>. QED BY <1>1, MinExists

----------------------------------------------------------------------------
(* Keys.                                                                   *)

\* A key is a prefix of itself.
LEMMA PrefixSelf ==
    ASSUME NEW parts \in Seq(KeyParts)
    PROVE  parts \in Prefixes(parts)
<1>1. SubSeq(parts, 1, Len(parts)) = parts
  OBVIOUS
<1>2. Len(parts) \in 0..Len(parts)
  OBVIOUS
<1>. QED BY <1>1, <1>2 DEF Prefixes

\* The keys of a write set.
LEMMA KeyFacts ==
    ASSUME NEW keys \in Seq(Key), NEW i \in DOMAIN keys
    PROVE  keys[i].parts \in Seq(KeyParts) /\ keys[i].shared \in BOOLEAN /\ i \in Int /\ i >= 1
<1>1. keys[i] \in Key
  OBVIOUS
<1>. QED BY <1>1 DEF Key

\* What an element of a write set says of its keys.
LEMMA ElementKey ==
    ASSUME NEW keys \in Seq(Key), NEW e \in Elements(keys)
    PROVE  \E i \in DOMAIN keys :
              /\ e.path \in Prefixes(keys[i].parts)
              /\ e.shared <=> keys[i].shared
              /\ e.full <=> e.path = keys[i].parts
<1>1. PICK i \in DOMAIN keys :
         e \in {[path |-> p, shared |-> keys[i].shared, full |-> p = keys[i].parts]
                  : p \in Prefixes(keys[i].parts)}
  BY DEF Elements
<1>2. PICK p \in Prefixes(keys[i].parts) :
         e = [path |-> p, shared |-> keys[i].shared, full |-> p = keys[i].parts]
  BY <1>1
<1>3. keys[i].shared \in BOOLEAN
  BY KeyFacts
<1>. QED BY <1>2, <1>3

\* The list of a write set holds every prefix of its keys, with the keys
\* themselves as full ones if none comes too late.
LEMMA KeyListHolds ==
    ASSUME NEW keys \in Seq(Key), NEW i \in DOMAIN keys, NEW p \in Prefixes(keys[i].parts)
    PROVE  \E e \in KeyList(keys) :
              /\ e.path = p /\ (e.shared <=> keys[i].shared)
              /\ ShortFirst(keys) /\ p = keys[i].parts => e.full
<1>. DEFINE same == {k \in DOMAIN keys : keys[k].shared = keys[i].shared
                                         /\ p \in Prefixes(keys[k].parts)}
            m == Min(same)
            e == [path |-> p, shared |-> keys[m].shared, full |-> p = keys[m].parts]
<1>1. DOMAIN keys \subseteq Int /\ (\A k \in DOMAIN keys : 1 <= k) /\ i \in same
  BY KeyFacts
<1>2. m \in same /\ \A k \in same : m <= k
  <2>1. same \in SUBSET Int /\ same # {} /\ \A x \in same : 1 <= x
    BY <1>1
  <2>. HIDE DEF same
  <2>. QED BY <2>1, MinExists
<1>3. m \in DOMAIN keys /\ p \in Prefixes(keys[m].parts) /\ keys[m].shared = keys[i].shared /\ m <= i
  BY <1>1, <1>2
<1>. HIDE DEF m
<1>4. e \in Elements(keys)
  <2>1. e \in {[path |-> x, shared |-> keys[m].shared, full |-> x = keys[m].parts]
                 : x \in Prefixes(keys[m].parts)}
    BY <1>3
  <2>. HIDE DEF e
  <2>2. \E k \in DOMAIN keys :
           e \in {[path |-> x, shared |-> keys[k].shared, full |-> x = keys[k].parts]
                    : x \in Prefixes(keys[k].parts)}
    BY <1>3, <2>1
  <2>. QED BY <2>2 DEF Elements
<1>5. e.path = p /\ e.shared = keys[i].shared /\ (e.full <=> p = keys[m].parts)
  BY <1>3
<1>. HIDE DEF e
<1>6. {k \in DOMAIN keys : keys[k].shared = e.shared /\ e.path \in Prefixes(keys[k].parts)} = same
  BY <1>5
<1>7. e \in KeyList(keys)
  BY <1>4, <1>5, <1>6 DEF KeyList, m
<1>8. ASSUME ShortFirst(keys), p = keys[i].parts PROVE p = keys[m].parts
  <2>1. CASE m = i
    BY <1>8, <2>1
  <2>2. CASE m # i
    <3>1. m < i
      BY <1>1, <1>3, <2>2
    <3>2. (keys[i].shared <=> keys[m].shared) /\ keys[i].parts \in Prefixes(keys[m].parts)
      BY <1>3, <1>8
    <3>. QED BY <1>3, <1>8, <3>1, <3>2 DEF ShortFirst
  <2>. QED BY <2>1, <2>2
<1>9. keys[i].shared \in BOOLEAN
  BY KeyFacts
<1>. QED BY <1>5, <1>7, <1>8, <1>9

\* Keys that overlap have an element in common, full on one side at least.
LEMMA CommonElement ==
    ASSUME NEW a \in Seq(Key), NEW b \in Seq(Key), ShortFirst(a), ShortFirst(b),
           NEW i \in DOMAIN a, NEW j \in DOMAIN b, Overlapping(a[i], b[j])
    PROVE  \E e \in KeyList(a), f \in KeyList(b) :
              /\ e.path = f.path /\ (e.full \/ f.full)
              /\ e.shared <=> a[i].shared
              /\ f.shared <=> b[j].shared
<1>1. a[i].parts \in Seq(KeyParts) /\ b[j].parts \in Seq(KeyParts)
  BY KeyFacts
<1>2. a[i].parts \in Prefixes(a[i].parts) /\ b[j].parts \in Prefixes(b[j].parts)
  BY <1>1, PrefixSelf
<1>3. CASE a[i].parts \in Prefixes(b[j].parts)
  <2>1. PICK e \in KeyList(a) : e.path = a[i].parts /\ (e.shared <=> a[i].shared) /\ e.full
    BY <1>2, KeyListHolds
  <2>2. PICK f \in KeyList(b) : f.path = a[i].parts /\ (f.shared <=> b[j].shared)
    <3>1. \A p \in Prefixes(b[j].parts) :
             \E x \in KeyList(b) : x.path = p /\ (x.shared <=> b[j].shared)
      BY KeyListHolds
    <3>. QED BY <1>3, <3>1
  <2>. QED BY <2>1, <2>2
<1>4. CASE b[j].parts \in Prefixes(a[i].parts)
  <2>1. PICK f \in KeyList(b) : f.path = b[j].parts /\ (f.shared <=> b[j].shared) /\ f.full
    BY <1>2, KeyListHolds
  <2>2. PICK e \in KeyList(a) : e.path = b[j].parts /\ (e.shared <=> a[i].shared)
    <3>1. \A p \in Prefixes(a[i].parts) :
             \E x \in KeyList(a) : x.path = p /\ (x.shared <=> a[i].shared)
      BY KeyListHolds
    <3>. QED BY <1>4, <3>1
  <2>. QED BY <2>1, <2>2
<1>. QED BY <1>3, <1>4 DEF Overlapping

----------------------------------------------------------------------------
(* The test.                                                               *)

\* The references that an element e is compared with
XRef(e) == IF e.full THEN "ref_trx" ELSE "ref_full_trx"
SRef(e) == IF e.full THEN "ref_shared_trx" ELSE "ref_full_shared_trx"

\* The lookups of certify_and_depend_v1to2(), by the name of the reference.
LEMMA Lookups ==
    ASSUME NEW c, NEW e
    PROVE  /\ RefExclusive(c, e) = Entry(c, e.path)[XRef(e)] /\ XRef(e) \in Refs
           /\ RefShared(c, e) = Entry(c, e.path)[SRef(e)] /\ SRef(e) \in Refs
  BY DEF RefExclusive, RefShared, XRef, SRef, Refs

\* do_test() when it looks up the elements E, and what it then depends on
DependsOn(c, t, E) ==
    {BaseDependency(c, t), c.last_pa_unsafe}
        \cup (IF t.isolation THEN {} ELSE UNION {Dependencies(c, e) : e \in E})

Fails(c, t, E) ==
    \/ t.last_seen_seqno < c.initial_position
    \/ t.global_seqno - t.last_seen_seqno > MaxLength
    \/ ~ t.isolation /\ \E e \in E : Conflict(c, t, e)

TestWith(c, t, E) == IF Fails(c, t, E) THEN FAILED ELSE Max(DependsOn(c, t, E))

\* The two ways in which do_test() is called.
LEMMA TestCases ==
    ASSUME NEW c, NEW t
    PROVE  /\ do_test(c, t, TRUE) = TestWith(c, t, KeyList(t.keys))
           /\ do_test(c, t, FALSE) = TestWith(c, t, Elements(t.keys))
  BY DEF do_test, TestWith, Fails, DependsOn


----------------------------------------------------------------------------
(* What the index knows of a write set, however many there are.            *)

\* A bound may be raised.
LEMMA BoundedMore ==
    ASSUME NEW c, NEW a \in Nat, NEW b \in Nat, a <= b, Bounded(c, a)
    PROVE  Bounded(c, b)
<1>1. 1..a \subseteq 1..b /\ 0..a \subseteq 0..b /\ -1..a \subseteq -1..b
  OBVIOUS
<1>. QED BY <1>1 DEF Bounded

\* What an object says with another position_ or other counts.
LEMMA SameIndex ==
    ASSUME NEW c, NEW d, d.trx_map = c.trx_map, d.cert_index = c.cert_index
    PROVE  \A g, keys : Remembers(d, g, keys) <=> Remembers(c, g, keys)
BY DEF Remembers

\* get_safe_to_discard_seqno_() is a number.
LEMMA SafeInt ==
    ASSUME NEW c, NEW b, Bounded(c, b)
    PROVE  SafeToDiscard(c) \in Int
<1>. DEFINE D == DOMAIN c.deps_set
<1>1. c.deps_set = [s \in D |-> c.deps_set[s]] /\ D \subseteq Nat \cup {-1} /\ c.safe_to_discard_seqno \in Int
  BY DEF Bounded
<1>2. CASE c.deps_set = EmptyBag
  BY <1>1, <1>2 DEF SafeToDiscard
<1>3. CASE c.deps_set # EmptyBag
  <2>1. D # {}
    <3>1. SUFFICES ASSUME D = {} PROVE FALSE
      OBVIOUS
    <3>2. c.deps_set = [s \in {} |-> 1]
      BY <1>1, <3>1
    <3>. QED BY <1>3, <3>2 DEF EmptyBag, SetToBag
  <2>2. SafeToDiscard(c) = Min(D) - 1
    BY <1>3 DEF SafeToDiscard, BagToSet
  <2>3. D \in SUBSET Int /\ \A x \in D : -1 <= x
    BY <1>1
  <2>. HIDE DEF D
  <2>4. Min(D) \in D
    BY <2>1, <2>3, MinExists
  <2>5. Min(D) \in Int
    BY <2>3, <2>4
  <2>. QED BY ONLY <2>2, <2>5
<1>. QED BY <1>2, <1>3

\* purge_trxs_upto_() keeps the bound, and what the index knows.
LEMMA PurgeRemembers ==
    ASSUME NEW c, NEW b \in Nat, Bounded(c, b), NEW s \in Int
    PROVE  /\ Bounded(PurgeUpto(c, s), b)
           /\ \A g \in 1..b : \A keys : Remembers(c, g, keys) => Remembers(PurgeUpto(c, s), g, keys)
<1>. DEFINE gone == {g \in DOMAIN c.trx_map : g < s}
            left == [path \in DOMAIN c.cert_index |-> Unref(c.cert_index[path], gone)]
            kept == {path \in DOMAIN c.cert_index : left[path].ref_trx # NoTrx
                                                     \/ left[path].ref_shared_trx # NoTrx}
            d == PurgeUpto(c, s)
<1>0. /\ DOMAIN c = CertFields /\ DOMAIN c.trx_map \subseteq 1..b
      /\ \A path \in DOMAIN c.cert_index, ref \in Refs :
            c.cert_index[path][ref].global_seqno \in -1..b
  BY DEF Bounded
<1>1. /\ d.trx_map = [g \in DOMAIN c.trx_map \ gone |-> c.trx_map[g]]
      /\ d.cert_index = [path \in kept |-> left[path]]
      /\ DOMAIN d = CertFields /\ d.deps_set = c.deps_set
      /\ d.safe_to_discard_seqno = c.safe_to_discard_seqno /\ d.last_pa_unsafe = c.last_pa_unsafe
  BY <1>0 DEF PurgeUpto, PurgedIndex, CertFields
<1>2. \A path \in DOMAIN c.cert_index, ref \in Refs :
         left[path][ref] = IF c.cert_index[path][ref].global_seqno \in gone THEN NoTrx
                           ELSE c.cert_index[path][ref]
  BY DEF Unref, Refs
<1>3. DOMAIN d.cert_index = kept /\ (\A path \in kept : d.cert_index[path] = left[path])
      /\ kept \subseteq DOMAIN c.cert_index
  BY <1>1
<1>4. DOMAIN d.trx_map = DOMAIN c.trx_map \ gone
  BY <1>1
<1>5. \A g \in DOMAIN c.trx_map : g \in Nat /\ (g \notin gone <=> g >= s)
  BY <1>0
<1>6. \A path \in DOMAIN c.cert_index :
         left[path]["ref_trx"] # NoTrx \/ left[path]["ref_shared_trx"] # NoTrx => path \in kept
  OBVIOUS
<1>7. \A g \in gone : g \in DOMAIN c.trx_map /\ g < s
  OBVIOUS
<1>. HIDE DEF d, left, gone, kept
<1>8. Bounded(d, b)
  <2>1. ASSUME NEW path \in DOMAIN d.cert_index, NEW ref \in Refs
        PROVE  d.cert_index[path][ref].global_seqno \in -1..b
    <3>1. d.cert_index[path][ref] = left[path][ref] /\ path \in DOMAIN c.cert_index
      BY <1>3
    <3>2. NoTrx.global_seqno \in -1..b
      BY DEF NoTrx
    <3>. QED BY <1>0, <1>2, <3>1, <3>2
  <2>2. DOMAIN d.trx_map \subseteq 1..b
    BY <1>0, <1>4
  <2>3. /\ c.safe_to_discard_seqno \in Int /\ c.last_pa_unsafe \in 0..b
        /\ c.deps_set = [x \in DOMAIN c.deps_set |-> c.deps_set[x]]
        /\ DOMAIN c.deps_set \subseteq Nat \cup {-1}
    BY DEF Bounded
  <2>4. /\ d.safe_to_discard_seqno \in Int /\ d.last_pa_unsafe \in 0..b
        /\ d.deps_set = [x \in DOMAIN d.deps_set |-> d.deps_set[x]]
        /\ DOMAIN d.deps_set \subseteq Nat \cup {-1}
    BY ONLY <1>1, <2>3, Zenon
  <2>. QED BY ONLY <1>1, <2>1, <2>2, <2>4 DEF Bounded
<1>9. ASSUME NEW g \in 1..b, NEW keys, Remembers(c, g, keys)
      PROVE  Remembers(d, g, keys)
  <2>1. CASE g \notin DOMAIN d.trx_map
    <3>1. CASE g \in DOMAIN c.trx_map
      <4>1. g \in gone
        BY <1>4, <2>1, <3>1
      <4>2. g < s
        BY <1>7, <4>1
      <4>3. \A h \in DOMAIN d.trx_map : g < h
        BY <1>4, <1>5, <4>2
      <4>. QED BY <2>1, <4>3 DEF Remembers
    <3>2. CASE g \notin DOMAIN c.trx_map
      BY <1>4, <1>9, <2>1, <3>2 DEF Remembers
    <3>. QED BY <3>1, <3>2
  <2>2. CASE g \in DOMAIN d.trx_map
    <3>1. g \in DOMAIN c.trx_map /\ g \in Nat /\ g >= s /\ g >= 1
      BY <1>4, <1>5, <2>2
    <3>2. ASSUME NEW e \in KeyList(keys), NEW x \in Refs, Counts(e, x)
          PROVE  /\ e.path \in DOMAIN c.cert_index /\ left[e.path][x] = c.cert_index[e.path][x]
                 /\ c.cert_index[e.path][x].global_seqno >= g /\ c.cert_index[e.path][x] # NoTrx
      <4>1. e.path \in DOMAIN c.cert_index /\ c.cert_index[e.path][x].global_seqno >= g
        BY <1>9, <3>1, <3>2 DEF Remembers
      <4>2. c.cert_index[e.path][x] # NoTrx
        BY <3>1, <4>1 DEF NoTrx
      <4>3. c.cert_index[e.path][x].global_seqno \in Int
        BY <1>0, <4>1
      <4>4. c.cert_index[e.path][x].global_seqno \notin gone
        BY <1>5, <1>7, <3>1, <4>1, <4>3
      <4>. QED BY <1>2, <4>1, <4>2, <4>4
    <3>3. ASSUME NEW e \in KeyList(keys), NEW ref \in Refs, Counts(e, ref)
          PROVE  e.path \in DOMAIN d.cert_index /\ d.cert_index[e.path][ref].global_seqno >= g
      <4>1. e.path \in kept
        <5>1. CASE e.shared
          <6>1. "ref_shared_trx" \in Refs /\ Counts(e, "ref_shared_trx")
            BY <5>1 DEF Refs, Counts
          <6>. QED BY <1>6, <3>2, <6>1
        <5>2. CASE ~ e.shared
          <6>1. "ref_trx" \in Refs /\ Counts(e, "ref_trx")
            BY <5>2 DEF Refs, Counts
          <6>. QED BY <1>6, <3>2, <6>1
        <5>. QED BY <5>1, <5>2
      <4>. QED BY <1>3, <3>2, <3>3, <4>1
    <3>. QED BY <2>2, <3>3 DEF Remembers
  <2>. QED BY <2>1, <2>2
<1>. QED BY <1>8, <1>9 DEF d

\* append_trx() may trim what it finds.
LEMMA TrimRemembers ==
    ASSUME NEW c, NEW b \in Nat, Bounded(c, b), NEW trx, trx.global_seqno \in Int
    PROVE  /\ Bounded(Trimmed(c, trx), b)
           /\ \A g \in 1..b : \A keys : Remembers(c, g, keys) => Remembers(Trimmed(c, trx), g, keys)
<1>. DEFINE at == [c EXCEPT !.position = trx.global_seqno]
            s == Min({trx.global_seqno - MaxLength, SafeToDiscard(at)})
<1>1. DOMAIN c = CertFields
  BY DEF Bounded
<1>2. /\ DOMAIN at = CertFields /\ at.trx_map = c.trx_map /\ at.cert_index = c.cert_index
      /\ at.deps_set = c.deps_set /\ at.safe_to_discard_seqno = c.safe_to_discard_seqno
      /\ at.last_pa_unsafe = c.last_pa_unsafe
  BY <1>1 DEF CertFields
<1>3. Trimmed(c, trx) = at \/ Trimmed(c, trx) = PurgeUpto(at, s)
  BY DEF Trimmed
<1>. HIDE DEF at
<1>4. Bounded(at, b) /\ \A g, keys : Remembers(at, g, keys) <=> Remembers(c, g, keys)
  <2>1. Bounded(at, b)
    BY <1>2, Zenon DEF Bounded
  <2>. QED BY <1>2, <2>1, SameIndex
<1>5. s \in Int
  <2>1. SafeToDiscard(at) \in Int
    BY <1>4, SafeInt
  <2>2. trx.global_seqno - MaxLength \in Int
    BY MaxLengthAssumption
  <2>. QED BY <2>1, <2>2, MinOfTwo
<1>. HIDE DEF s
<1>6. /\ Bounded(PurgeUpto(at, s), b)
      /\ \A g \in 1..b : \A keys : Remembers(at, g, keys) => Remembers(PurgeUpto(at, s), g, keys)
  BY <1>4, <1>5, PurgeRemembers
<1>. QED BY <1>3, <1>4, <1>6


\* A reference that is looked up is a seqno up to the bound, or -1.
LEMMA EntryBounded ==
    ASSUME NEW c, NEW b \in Nat, Bounded(c, b), NEW path, NEW ref \in Refs
    PROVE  Entry(c, path)[ref].global_seqno \in -1..b
<1>1. CASE path \in DOMAIN c.cert_index
  BY <1>1 DEF Entry, Bounded
<1>2. CASE path \notin DOMAIN c.cert_index
  <2>1. Entry(c, path)[ref] = NoTrx
    BY <1>2 DEF Entry, NoEntry, Refs
  <2>. QED BY <2>1 DEF NoTrx
<1>. QED BY <1>1, <1>2

\* What every write set after the bound depends on.
LEMMA BaseBounded ==
    ASSUME NEW c, NEW b \in Nat, Bounded(c, b), NEW t, t.global_seqno = b + 1,
           t.isolation \in BOOLEAN, t.pa_unsafe \in BOOLEAN
    PROVE  /\ BaseDependency(c, t) \in 0..b
           /\ t.isolation \/ DOMAIN c.trx_map = {} => BaseDependency(c, t) = b
           /\ DOMAIN c.trx_map # {} => \E m \in DOMAIN c.trx_map : BaseDependency(c, t) >= m - 1
<1>0. DOMAIN c.trx_map \subseteq 1..b
  BY DEF Bounded
<1>1. CASE t.isolation \/ t.pa_unsafe \/ DOMAIN c.trx_map = {}
  <2>1. BaseDependency(c, t) = b
    BY <1>1 DEF BaseDependency
  <2>2. \A m \in DOMAIN c.trx_map : b >= m - 1
    BY <1>0
  <2>. QED BY <2>1, <2>2
<1>2. CASE ~ (t.isolation \/ t.pa_unsafe \/ DOMAIN c.trx_map = {})
  <2>. DEFINE M == DOMAIN c.trx_map
  <2>1. M \in SUBSET Int /\ M # {} /\ \A x \in M : 1 <= x
    BY <1>0, <1>2
  <2>. HIDE DEF M
  <2>2. Min(M) \in M
    BY <2>1, MinExists
  <2>3. BaseDependency(c, t) = Min(M) - 1
    BY <1>2 DEF BaseDependency, M
  <2>4. Min(M) \in 1..b
    BY <1>0, <2>2 DEF M
  <2>. QED BY <1>0, <1>2, <2>2, <2>3, <2>4 DEF M
<1>. QED BY <1>1, <1>2

\* What is looked up are seqnos of earlier write sets, and there is a last one.
LEMMA DependsBounded ==
    ASSUME NEW c, NEW b \in Nat, Bounded(c, b), NEW t, t.global_seqno = b + 1,
           t.isolation \in BOOLEAN, t.pa_unsafe \in BOOLEAN, NEW E
    PROVE  /\ Max(DependsOn(c, t, E)) \in 0..b
           /\ \A s \in DependsOn(c, t, E) : s \in Int /\ s <= Max(DependsOn(c, t, E))
<1>. DEFINE S == DependsOn(c, t, E)
<1>2. \A e : \A s \in Dependencies(c, e) : s \in -1..b
  BY Lookups, EntryBounded DEF Dependencies
<1>3. BaseDependency(c, t) \in 0..b /\ c.last_pa_unsafe \in 0..b
  BY BaseBounded DEF Bounded
<1>4. ASSUME NEW s \in S PROVE s \in -1..b
  <2>1. \/ s = BaseDependency(c, t) \/ s = c.last_pa_unsafe
        \/ \E e \in E : s \in Dependencies(c, e)
    BY <1>4 DEF DependsOn
  <2>. QED BY <1>2, <1>3, <2>1
<1>5. c.last_pa_unsafe \in S
  BY DEF DependsOn
<1>. HIDE DEF S
<1>6. Max(S) \in S /\ \A s \in S : Max(S) >= s
  <2>1. S \in SUBSET Int /\ S # {} /\ b \in Int /\ \A s \in S : s <= b
    BY <1>4, <1>5
  <2>. QED BY <2>1, MaxExists
<1>7. Max(S) \in 0..b /\ \A s \in S : s \in Int /\ s <= Max(S)
  BY <1>3, <1>4, <1>5, <1>6
<1>. QED BY <1>7 DEF S

\* depends_seqno is that of an earlier write set, and not before anything that
\* was looked up.
LEMMA TestBounded ==
    ASSUME NEW c, NEW b \in Nat, Bounded(c, b), NEW t, t.global_seqno = b + 1,
           t.isolation \in BOOLEAN, t.pa_unsafe \in BOOLEAN, NEW E
    PROVE  LET v == TestWith(c, t, E)
           IN  v = FAILED \/ (v \in 0..b /\ \A s \in DependsOn(c, t, E) : s \in Int /\ s <= v)
BY DependsBounded DEF TestWith

\* It is not FAILED without a reason.
LEMMA TestFails ==
    ASSUME NEW c, NEW b \in Nat, Bounded(c, b), NEW t, t.global_seqno = b + 1,
           t.isolation \in BOOLEAN, t.pa_unsafe \in BOOLEAN, NEW E
    PROVE  TestWith(c, t, E) = FAILED <=> Fails(c, t, E)
<1>1. PICK m : m = Max(DependsOn(c, t, E))
  OBVIOUS
<1>2. m \in 0..b
  BY <1>1, DependsBounded
<1>3. m # FAILED
  BY <1>2 DEF FAILED
<1>. QED BY <1>1, <1>3 DEF TestWith

\* The test makes a write set depend on those that the index knows of and that
\* it cannot be applied beside.
LEMMA TestDepends ==
    ASSUME NEW c, NEW b \in Nat, Bounded(c, b), NEW t, t.global_seqno = b + 1,
           t.isolation \in BOOLEAN, t.pa_unsafe \in BOOLEAN, t.keys \in Seq(Key), ShortFirst(t.keys),
           NEW r, r.keys \in Seq(Key), ShortFirst(r.keys), Dependent(r, t),
           NEW g \in 1..b, Remembers(c, g, r.keys), do_test(c, t, TRUE) # FAILED
    PROVE  g <= do_test(c, t, TRUE)
<1>. DEFINE v == do_test(c, t, TRUE)
            L == KeyList(t.keys)
<1>1. v = TestWith(c, t, L)
  BY TestCases
<1>2. v \in 0..b /\ \A s \in DependsOn(c, t, L) : s \in Int /\ s <= v
  BY <1>1, TestBounded
<1>3. BaseDependency(c, t) \in DependsOn(c, t, L)
  BY DEF DependsOn
<1>. SUFFICES g <= v
  OBVIOUS
<1>. HIDE DEF v
<1>4. /\ BaseDependency(c, t) \in 0..b /\ BaseDependency(c, t) <= v
      /\ t.isolation \/ DOMAIN c.trx_map = {} => BaseDependency(c, t) = b
      /\ DOMAIN c.trx_map # {} => \E m \in DOMAIN c.trx_map : BaseDependency(c, t) >= m - 1
  BY <1>2, <1>3, BaseBounded
<1>5. g \in Int /\ g <= b /\ DOMAIN c.trx_map \subseteq 1..b
  BY DEF Bounded
<1>6. CASE t.isolation \/ DOMAIN c.trx_map = {}
  BY <1>2, <1>4, <1>5, <1>6
<1>7. CASE DOMAIN c.trx_map # {} /\ g \notin DOMAIN c.trx_map
  <2>1. PICK m \in DOMAIN c.trx_map : BaseDependency(c, t) >= m - 1
    BY <1>4, <1>7
  <2>2. g < m /\ m \in Int
    BY <1>5, <1>7 DEF Remembers
  <2>. QED BY <1>2, <1>4, <1>5, <2>1, <2>2
<1>8. CASE ~ t.isolation /\ g \in DOMAIN c.trx_map
  <2>1. \A f \in KeyList(r.keys), ref \in Refs : Counts(f, ref) =>
           Entry(c, f.path)[ref].global_seqno >= g
    BY <1>8 DEF Remembers, Entry
  <2>2. \A e \in L : Dependencies(c, e) \subseteq DependsOn(c, t, L)
    BY <1>8 DEF DependsOn
  <2>. HIDE DEF L
  <2>3. \E e \in L : \E s \in Dependencies(c, e) : s >= g
    <3>1. CASE Writes(r, t)
      <4>1. PICK i \in DOMAIN r.keys, j \in DOMAIN t.keys :
               ~ r.keys[i].shared /\ Overlapping(r.keys[i], t.keys[j])
        BY <3>1 DEF Writes
      <4>2. PICK f \in KeyList(r.keys), e \in L :
               f.path = e.path /\ (f.full \/ e.full) /\ ~ f.shared
        BY <4>1, CommonElement DEF L
      <4>3. Counts(f, XRef(e)) /\ XRef(e) \in Refs
        BY <4>2 DEF Counts, XRef, Refs
      <4>4. RefExclusive(c, e).global_seqno >= g
        BY <2>1, <4>2, <4>3, Lookups
      <4>. QED BY <4>4 DEF Dependencies
    <3>2. CASE Writes(t, r)
      <4>1. PICK i \in DOMAIN t.keys, j \in DOMAIN r.keys :
               ~ t.keys[i].shared /\ Overlapping(t.keys[i], r.keys[j])
        BY <3>2 DEF Writes
      <4>2. PICK e \in L, f \in KeyList(r.keys) :
               e.path = f.path /\ (e.full \/ f.full) /\ ~ e.shared
        BY <4>1, CommonElement DEF L
      <4>3. CASE f.shared
        <5>1. Counts(f, SRef(e)) /\ SRef(e) \in Refs
          BY <4>2, <4>3 DEF Counts, SRef, Refs
        <5>2. RefShared(c, e).global_seqno >= g
          BY <2>1, <4>2, <5>1, Lookups
        <5>. QED BY <4>2, <5>2 DEF Dependencies
      <4>4. CASE ~ f.shared
        <5>1. Counts(f, XRef(e)) /\ XRef(e) \in Refs
          BY <4>2, <4>4 DEF Counts, XRef, Refs
        <5>2. RefExclusive(c, e).global_seqno >= g
          BY <2>1, <4>2, <5>1, Lookups
        <5>. QED BY <5>2 DEF Dependencies
      <4>. QED BY <4>3, <4>4
    <3>. QED BY <3>1, <3>2 DEF Dependent
  <2>4. PICK e \in L : \E s \in Dependencies(c, e) : s >= g
    BY <2>3
  <2>5. PICK s \in Dependencies(c, e) : s >= g
    BY <2>4
  <2>6. s \in Int /\ s <= v
    BY <1>2, <2>2
  <2>. QED BY <1>2, <1>5, <2>5, <2>6
<1>. QED BY <1>6, <1>7, <1>8

\* append_trx() keeps what the index knows, and adds the write set that passes.
LEMMA AppendRemembers ==
    ASSUME NEW c, NEW b \in Nat, Bounded(c, b), NEW t, t.global_seqno = b + 1,
           t.last_seen_seqno \in Nat \cup {-1}, t.isolation \in BOOLEAN, t.pa_unsafe \in BOOLEAN
    PROVE  /\ Bounded(append_trx(c, t), b + 1) /\ Verdict(c, t) \in 0..b \cup {FAILED}
           /\ \A g \in 1..b : \A keys : Remembers(c, g, keys) => Remembers(append_trx(c, t), g, keys)
           /\ Verdict(c, t) # FAILED => Remembers(append_trx(c, t), b + 1, t.keys)
<1>. DEFINE k == Trimmed(c, t)
            a == append_trx(c, t)
            list == KeyList(t.keys)
            Hit(path, ref) == \E e \in list : e.path = path /\ Counts(e, ref)
<1>1. Bounded(k, b) /\ \A g \in 1..b : \A keys : Remembers(c, g, keys) => Remembers(k, g, keys)
  BY TrimRemembers
<1>2. PICK passed \in BOOLEAN : passed <=> Verdict(c, t) # FAILED
  OBVIOUS
<1>3. do_test(Trimmed(c, t), t, TRUE) # FAILED <=> passed
  BY <1>2 DEF Verdict
<1>4. Verdict(c, t) \in 0..b \cup {FAILED}
  <2>1. Verdict(c, t) = TestWith(k, t, list)
    BY TestCases DEF Verdict
  <2>. HIDE DEF k, list
  <2>2. TestWith(k, t, list) = FAILED \/ TestWith(k, t, list) \in 0..b
    BY <1>1, TestBounded
  <2>. QED BY <2>1, <2>2
<1>5. DOMAIN k = CertFields
  BY <1>1 DEF Bounded
<1>6. a = [k EXCEPT
             !.cert_index = IF passed THEN Referenced(k, t) ELSE k.cert_index,
             !.last_pa_unsafe = IF passed /\ t.pa_unsafe THEN t.global_seqno ELSE k.last_pa_unsafe,
             !.trx_map = [g \in DOMAIN k.trx_map \cup {t.global_seqno} |->
                            IF g = t.global_seqno THEN passed ELSE k.trx_map[g]],
             !.deps_set = k.deps_set (+) SetToBag({t.last_seen_seqno})]
  BY <1>3, <1>5 DEF append_trx, CertFields
<1>. HIDE DEF k
<1>7. /\ DOMAIN a = CertFields /\ DOMAIN a.trx_map = DOMAIN k.trx_map \cup {b + 1}
      /\ a.cert_index = IF passed THEN Referenced(k, t) ELSE k.cert_index
      /\ a.last_pa_unsafe = k.last_pa_unsafe \/ a.last_pa_unsafe = b + 1
      /\ a.deps_set = k.deps_set (+) SetToBag({t.last_seen_seqno})
      /\ a.safe_to_discard_seqno = k.safe_to_discard_seqno
  <2>. DEFINE i == IF passed THEN Referenced(k, t) ELSE k.cert_index
              u == IF passed /\ t.pa_unsafe THEN t.global_seqno ELSE k.last_pa_unsafe
              m == [g \in DOMAIN k.trx_map \cup {t.global_seqno} |->
                       IF g = t.global_seqno THEN passed ELSE k.trx_map[g]]
              d == k.deps_set (+) SetToBag({t.last_seen_seqno})
  <2>1. a = [k EXCEPT !.cert_index = i, !.last_pa_unsafe = u, !.trx_map = m, !.deps_set = d]
    BY <1>6
  <2>2. DOMAIN m = DOMAIN k.trx_map \cup {b + 1} /\ (u = k.last_pa_unsafe \/ u = b + 1)
    OBVIOUS
  <2>. HIDE DEF i, u, m, d, a
  <2>3. /\ DOMAIN a = CertFields /\ a.cert_index = i /\ a.last_pa_unsafe = u /\ a.trx_map = m
        /\ a.deps_set = d /\ a.safe_to_discard_seqno = k.safe_to_discard_seqno
    BY <1>5, <2>1 DEF CertFields
  <2>. QED BY <2>2, <2>3 DEF i, d
<1>. HIDE DEF a, list
<1>8. /\ DOMAIN k.trx_map \subseteq 1..b /\ k.last_pa_unsafe \in 0..b /\ k.safe_to_discard_seqno \in Int
      /\ DOMAIN k.deps_set \subseteq Nat \cup {-1}
      /\ \A path \in DOMAIN k.cert_index, ref \in Refs :
            k.cert_index[path][ref].global_seqno \in -1..b
  BY <1>1 DEF Bounded
<1>9. /\ DOMAIN k.cert_index \subseteq DOMAIN a.cert_index
      /\ \A path \in DOMAIN a.cert_index, ref \in Refs :
            \/ a.cert_index[path][ref].global_seqno = b + 1
            \/ /\ a.cert_index[path][ref] = Entry(k, path)[ref]
      /\ passed => \A e \in list, ref \in Refs : Counts(e, ref) =>
            e.path \in DOMAIN a.cert_index /\ a.cert_index[e.path][ref].global_seqno = b + 1
  <2>1. CASE passed
    <3>1. a.cert_index = Referenced(k, t)
      BY <1>7, <2>1
    <3>2. DOMAIN a.cert_index = DOMAIN k.cert_index \cup {e.path : e \in list}
      BY <3>1 DEF Referenced, list
    <3>3. \A path \in DOMAIN a.cert_index, ref \in Refs :
             a.cert_index[path][ref] = IF Hit(path, ref) THEN TrxRef(t) ELSE Entry(k, path)[ref]
      BY <3>1 DEF Referenced, Refs, Counts, list
    <3>4. TrxRef(t).global_seqno = b + 1
      BY DEF TrxRef
    <3>5. \A path \in DOMAIN a.cert_index, ref \in Refs :
             IF Hit(path, ref) THEN a.cert_index[path][ref].global_seqno = b + 1
             ELSE a.cert_index[path][ref] = Entry(k, path)[ref]
      BY <3>3, <3>4
    <3>6. \A e \in list : e.path \in DOMAIN a.cert_index
      BY <3>2
    <3>. QED BY <3>2, <3>5, <3>6
  <2>2. CASE ~ passed
    BY <1>7, <2>2 DEF Entry
  <2>. QED BY <2>1, <2>2
<1>10. Bounded(a, b + 1)
  <2>1. a.deps_set = [s \in DOMAIN a.deps_set |-> a.deps_set[s]]
        /\ DOMAIN a.deps_set = DOMAIN k.deps_set \cup {t.last_seen_seqno}
    BY <1>7 DEF (+), SetToBag
  <2>2. a.last_pa_unsafe \in 0..(b + 1) /\ DOMAIN a.trx_map \subseteq 1..(b + 1)
    BY <1>7, <1>8
  <2>3. ASSUME NEW path \in DOMAIN a.cert_index, NEW ref \in Refs
        PROVE  a.cert_index[path][ref].global_seqno \in -1..(b + 1)
    <3>1. Entry(k, path)[ref].global_seqno \in -1..b
      BY <1>1, EntryBounded
    <3>. QED BY <1>9, <3>1
  <2>4. DOMAIN a.deps_set \subseteq Nat \cup {-1}
    BY <1>8, <2>1
  <2>. QED BY <1>7, <1>8, <2>1, <2>2, <2>3, <2>4 DEF Bounded
<1>11. ASSUME NEW g \in 1..b, NEW keys, Remembers(k, g, keys) PROVE Remembers(a, g, keys)
  <2>1. ASSUME g \notin DOMAIN a.trx_map, NEW h \in DOMAIN a.trx_map PROVE g < h
    <3>1. g \notin DOMAIN k.trx_map
      BY <1>7, <2>1
    <3>2. \A x \in DOMAIN k.trx_map : g < x
      BY <1>11, <3>1 DEF Remembers
    <3>. QED BY <1>7, <2>1, <3>2
  <2>2. ASSUME g \in DOMAIN a.trx_map, NEW e \in KeyList(keys), NEW ref \in Refs, Counts(e, ref)
        PROVE  e.path \in DOMAIN a.cert_index /\ a.cert_index[e.path][ref].global_seqno >= g
    <3>1. g \in DOMAIN k.trx_map
      BY <1>7, <2>2
    <3>2. e.path \in DOMAIN k.cert_index /\ k.cert_index[e.path][ref].global_seqno >= g
      BY <1>11, <2>2, <3>1 DEF Remembers
    <3>3. Entry(k, e.path) = k.cert_index[e.path] /\ e.path \in DOMAIN a.cert_index
      BY <1>9, <3>2 DEF Entry
    <3>4. \/ a.cert_index[e.path][ref].global_seqno = b + 1
          \/ a.cert_index[e.path][ref] = k.cert_index[e.path][ref]
      BY <1>9, <3>3
    <3>. QED BY <3>2, <3>3, <3>4
  <2>. QED BY <2>1, <2>2 DEF Remembers
<1>12. ASSUME passed PROVE Remembers(a, b + 1, t.keys)
  <2>1. b + 1 \in DOMAIN a.trx_map
    BY <1>7
  <2>2. \A e \in KeyList(t.keys), ref \in Refs : Counts(e, ref) =>
           e.path \in DOMAIN a.cert_index /\ a.cert_index[e.path][ref].global_seqno >= b + 1
    BY <1>9, <1>12 DEF list
  <2>. QED BY <2>1, <2>2 DEF Remembers
<1>. QED BY <1>1, <1>2, <1>4, <1>10, <1>11, <1>12 DEF a

\* set_trx_committed() leaves the index alone.
LEMMA CommittedRemembers ==
    ASSUME NEW c, NEW b \in Nat, Bounded(c, b), NEW t, t.last_seen_seqno \in Nat \cup {-1}
    PROVE  /\ Bounded(set_trx_committed(c, t), b)
           /\ \A g, keys : Remembers(set_trx_committed(c, t), g, keys) <=> Remembers(c, g, keys)
<1>. DEFINE d == set_trx_committed(c, t)
            u == IF BagCardinality(c.deps_set) = 1 THEN t.last_seen_seqno
                 ELSE c.safe_to_discard_seqno
            s == c.deps_set (-) SetToBag({t.last_seen_seqno})
<1>1. DOMAIN c = CertFields /\ c.safe_to_discard_seqno \in Int /\ DOMAIN c.deps_set \subseteq Nat \cup {-1}
  BY DEF Bounded
<1>2. d = [c EXCEPT !.safe_to_discard_seqno = u, !.deps_set = s]
  BY <1>1 DEF set_trx_committed, CertFields
<1>3. u \in Int
  BY <1>1
<1>4. s = [x \in DOMAIN s |-> s[x]] /\ DOMAIN s \subseteq DOMAIN c.deps_set
  BY DEF (-)
<1>. HIDE DEF d, u, s
<1>5. /\ DOMAIN d = CertFields /\ d.safe_to_discard_seqno = u /\ d.deps_set = s
      /\ d.trx_map = c.trx_map /\ d.cert_index = c.cert_index /\ d.last_pa_unsafe = c.last_pa_unsafe
  BY <1>1, <1>2 DEF CertFields
<1>6. Bounded(d, b)
  <2>1. DOMAIN c.trx_map \subseteq 1..b /\ c.last_pa_unsafe \in 0..b
        /\ \A path \in DOMAIN c.cert_index, ref \in Refs :
              c.cert_index[path][ref].global_seqno \in -1..b
    BY DEF Bounded
  <2>2. DOMAIN s \subseteq Nat \cup {-1}
    BY <1>1, <1>4
  <2>. QED BY ONLY <1>3, <1>4, <1>5, <2>1, <2>2 DEF Bounded
<1>. QED BY <1>5, <1>6, SameIndex DEF d

\* A commit cut keeps the bound, and what the index knows.
LEMMA CutRemembers ==
    ASSUME NEW c, NEW b \in Nat, Bounded(c, b), NEW s \in Int
    PROVE  /\ Bounded(purge_trxs_upto(c, s), b)
           /\ \A g \in 1..b : \A keys : Remembers(c, g, keys) => Remembers(purge_trxs_upto(c, s), g, keys)
<1>1. Min({s, SafeToDiscard(c)}) \in Int
  BY SafeInt, MinOfTwo
<1>. QED BY <1>1, PurgeRemembers DEF purge_trxs_upto

\* The index starts empty.
LEMMA NewBounded == Bounded(NewCertification(0), 0)
<1>. DEFINE c == [trx_map |-> <<>>, cert_index |-> <<>>, deps_set |-> EmptyBag, position |-> -1,
                  initial_position |-> -1, safe_to_discard_seqno |-> -1, last_pa_unsafe |-> -1]
            d == NewCertification(0)
<1>1. d = [c EXCEPT !.trx_map = <<>>, !.cert_index = <<>>, !.initial_position = 0,
                    !.position = 0, !.safe_to_discard_seqno = 0, !.last_pa_unsafe = 0]
  BY DEF NewCertification, assign_initial_position
<1>2. /\ DOMAIN d = CertFields /\ d.trx_map = <<>> /\ d.cert_index = <<>> /\ d.deps_set = EmptyBag
      /\ d.safe_to_discard_seqno = 0 /\ d.last_pa_unsafe = 0
  BY <1>1 DEF CertFields
<1>3. DOMAIN <<>> = {} /\ EmptyBag = [x \in DOMAIN EmptyBag |-> EmptyBag[x]] /\ DOMAIN EmptyBag = {}
  BY DEF EmptyBag, SetToBag
<1>. HIDE DEF d
<1>. QED BY <1>2, <1>3 DEF Bounded, d

\* The verdict of append_trx() covers what the index knew before.
LEMMA VerdictDepends ==
    ASSUME NEW c, NEW b \in Nat, Bounded(c, b), NEW t, t.global_seqno = b + 1,
           t.isolation \in BOOLEAN, t.pa_unsafe \in BOOLEAN, t.keys \in Seq(Key), ShortFirst(t.keys),
           NEW r, r.keys \in Seq(Key), ShortFirst(r.keys), Dependent(r, t),
           NEW g \in 1..b, Remembers(c, g, r.keys), Verdict(c, t) # FAILED
    PROVE  g <= Verdict(c, t)
<1>1. PICK k : k = Trimmed(c, t)
  OBVIOUS
<1>2. Bounded(k, b) /\ Remembers(k, g, r.keys)
  BY <1>1, TrimRemembers
<1>3. Verdict(c, t) = do_test(k, t, TRUE)
  BY <1>1 DEF Verdict
<1>. QED BY <1>2, <1>3, TestDepends


----------------------------------------------------------------------------
(* Whom the index refers to, and what it forgets.                          *)

\* A reference that is looked up is to a write set that holds the key.
LEMMA EntryRefers ==
    ASSUME NEW c, NEW W, RefersTo(c, W), NEW path, NEW ref \in Refs, Entry(c, path)[ref] # NoTrx
    PROVE  \E t \in W : /\ Entry(c, path)[ref] = TrxRef(t)
                        /\ \E e \in KeyList(t.keys) : e.path = path /\ Counts(e, ref)
<1>1. CASE path \in DOMAIN c.cert_index
  BY <1>1 DEF RefersTo, Entry
<1>2. CASE path \notin DOMAIN c.cert_index
  BY <1>2 DEF Entry, NoEntry, Refs
<1>. QED BY <1>1, <1>2

\* purge_trxs_upto_() forgets the write sets before s and refers to no others.
LEMMA PurgeRefers ==
    ASSUME NEW c, DOMAIN c = CertFields, NEW W, RefersTo(c, W), NEW s
    PROVE  /\ RefersTo(PurgeUpto(c, s), W)
           /\ PurgeUpto(c, s).initial_position = c.initial_position
           /\ \A g \in DOMAIN c.trx_map : g \notin DOMAIN PurgeUpto(c, s).trx_map => g < s
<1>. DEFINE gone == {g \in DOMAIN c.trx_map : g < s}
            left == [path \in DOMAIN c.cert_index |-> Unref(c.cert_index[path], gone)]
            kept == {path \in DOMAIN c.cert_index : left[path].ref_trx # NoTrx
                                                     \/ left[path].ref_shared_trx # NoTrx}
            d == PurgeUpto(c, s)
<1>1. /\ d.trx_map = [g \in DOMAIN c.trx_map \ gone |-> c.trx_map[g]]
      /\ d.cert_index = [path \in kept |-> left[path]]
      /\ d.initial_position = c.initial_position
  BY DEF PurgeUpto, PurgedIndex, CertFields
<1>2. \A path \in DOMAIN c.cert_index, ref \in Refs :
         left[path][ref] = NoTrx \/ left[path][ref] = c.cert_index[path][ref]
  BY DEF Unref, Refs
<1>3. DOMAIN d.cert_index = kept /\ (\A path \in kept : d.cert_index[path] = left[path])
      /\ kept \subseteq DOMAIN c.cert_index
  BY <1>1
<1>4. \A g \in DOMAIN c.trx_map : g \notin DOMAIN d.trx_map => g < s
  BY <1>1
<1>. HIDE DEF d, left, gone, kept
<1>5. RefersTo(d, W)
  BY <1>2, <1>3 DEF RefersTo
<1>. QED BY <1>1, <1>4, <1>5 DEF d

\* append_trx() may trim what is out of reach.
LEMMA TrimRefers ==
    ASSUME NEW c, NEW b \in Nat, Bounded(c, b), NEW W, RefersTo(c, W),
           NEW trx, trx.global_seqno \in Int
    PROVE  /\ RefersTo(Trimmed(c, trx), W)
           /\ Trimmed(c, trx).initial_position = c.initial_position
           /\ \A g \in DOMAIN c.trx_map :
                 g \notin DOMAIN Trimmed(c, trx).trx_map => g < trx.global_seqno - MaxLength
<1>. DEFINE at == [c EXCEPT !.position = trx.global_seqno]
            s == Min({trx.global_seqno - MaxLength, SafeToDiscard(at)})
<1>1. DOMAIN c = CertFields /\ DOMAIN c.trx_map \subseteq 1..b
  BY DEF Bounded
<1>2. /\ DOMAIN at = CertFields /\ at.trx_map = c.trx_map /\ at.cert_index = c.cert_index
      /\ at.deps_set = c.deps_set /\ at.safe_to_discard_seqno = c.safe_to_discard_seqno
      /\ at.last_pa_unsafe = c.last_pa_unsafe /\ at.initial_position = c.initial_position
  BY <1>1 DEF CertFields
<1>3. Trimmed(c, trx) = at \/ Trimmed(c, trx) = PurgeUpto(at, s)
  BY DEF Trimmed
<1>. HIDE DEF at
<1>4. Bounded(at, b) /\ RefersTo(at, W)
  <2>1. Bounded(at, b)
    BY <1>2, Zenon DEF Bounded
  <2>2. RefersTo(at, W)
    BY <1>2 DEF RefersTo
  <2>. QED BY <2>1, <2>2
<1>5. s \in Int /\ s <= trx.global_seqno - MaxLength
  <2>1. SafeToDiscard(at) \in Int
    BY <1>4, SafeInt
  <2>2. trx.global_seqno - MaxLength \in Int
    BY MaxLengthAssumption
  <2>. QED BY <2>1, <2>2, MinOfTwo
<1>. HIDE DEF s
<1>6. /\ RefersTo(PurgeUpto(at, s), W)
      /\ PurgeUpto(at, s).initial_position = at.initial_position
      /\ \A g \in DOMAIN at.trx_map : g \notin DOMAIN PurgeUpto(at, s).trx_map => g < s
  BY <1>2, <1>4, PurgeRefers
<1>7. trx.global_seqno - MaxLength \in Int
  BY MaxLengthAssumption
<1>8. \A g \in DOMAIN c.trx_map : g < s => g < trx.global_seqno - MaxLength
  BY <1>1, <1>5, <1>7
<1>. QED BY <1>2, <1>3, <1>4, <1>6, <1>8

\* A write set that passes is added to those the index refers to, one that fails is
\* not.
LEMMA AppendRefers ==
    ASSUME NEW c, NEW b \in Nat, Bounded(c, b), NEW W, RefersTo(c, W),
           NEW t, t.global_seqno = b + 1
    PROVE  /\ RefersTo(append_trx(c, t), IF Verdict(c, t) = FAILED THEN W ELSE W \cup {t})
           /\ append_trx(c, t).initial_position = c.initial_position
           /\ t.global_seqno \in DOMAIN append_trx(c, t).trx_map
           /\ \A g \in DOMAIN c.trx_map :
                 g \notin DOMAIN append_trx(c, t).trx_map => g < t.global_seqno - MaxLength
<1>. DEFINE a == append_trx(c, t)
            list == KeyList(t.keys)
            Hit(path, ref) == \E e \in list : e.path = path /\ Counts(e, ref)
<1>1. PICK k : k = Trimmed(c, t)
  OBVIOUS
<1>2. /\ RefersTo(k, W) /\ k.initial_position = c.initial_position
      /\ \A g \in DOMAIN c.trx_map : g \notin DOMAIN k.trx_map => g < t.global_seqno - MaxLength
      /\ DOMAIN k = CertFields
  <2>1. t.global_seqno \in Int
    OBVIOUS
  <2>2. Bounded(k, b)
    BY <1>1, <2>1, TrimRemembers
  <2>. QED BY <1>1, <2>1, <2>2, TrimRefers DEF Bounded
<1>3. PICK passed \in BOOLEAN : passed <=> Verdict(c, t) # FAILED
  OBVIOUS
<1>4. a = [k EXCEPT
             !.cert_index = IF passed THEN Referenced(k, t) ELSE k.cert_index,
             !.last_pa_unsafe = IF passed /\ t.pa_unsafe THEN t.global_seqno ELSE k.last_pa_unsafe,
             !.trx_map = [g \in DOMAIN k.trx_map \cup {t.global_seqno} |->
                            IF g = t.global_seqno THEN passed ELSE k.trx_map[g]],
             !.deps_set = k.deps_set (+) SetToBag({t.last_seen_seqno})]
  <2>1. do_test(Trimmed(c, t), t, TRUE) # FAILED <=> passed
    BY <1>3 DEF Verdict
  <2>. QED BY <1>1, <1>2, <2>1 DEF append_trx, CertFields
<1>5. /\ DOMAIN a.trx_map = DOMAIN k.trx_map \cup {t.global_seqno}
      /\ a.cert_index = IF passed THEN Referenced(k, t) ELSE k.cert_index
      /\ a.initial_position = k.initial_position
  <2>. DEFINE i == IF passed THEN Referenced(k, t) ELSE k.cert_index
              u == IF passed /\ t.pa_unsafe THEN t.global_seqno ELSE k.last_pa_unsafe
              m == [g \in DOMAIN k.trx_map \cup {t.global_seqno} |->
                       IF g = t.global_seqno THEN passed ELSE k.trx_map[g]]
              d == k.deps_set (+) SetToBag({t.last_seen_seqno})
  <2>1. a = [k EXCEPT !.cert_index = i, !.last_pa_unsafe = u, !.trx_map = m, !.deps_set = d]
    BY <1>4
  <2>2. DOMAIN m = DOMAIN k.trx_map \cup {t.global_seqno}
    OBVIOUS
  <2>. HIDE DEF i, u, m, d, a
  <2>3. a.cert_index = i /\ a.trx_map = m /\ a.initial_position = k.initial_position
    BY <1>2, <2>1 DEF CertFields
  <2>. QED BY <2>2, <2>3 DEF i
<1>. HIDE DEF a
<1>6. CASE passed
  <2>1. a.cert_index = Referenced(k, t)
    BY <1>5, <1>6
  <2>2. \A path \in DOMAIN a.cert_index, ref \in Refs :
           a.cert_index[path][ref] = IF Hit(path, ref) THEN TrxRef(t) ELSE Entry(k, path)[ref]
    BY <2>1 DEF Referenced, Refs, Counts
  <2>3. ASSUME NEW path \in DOMAIN a.cert_index, NEW ref \in Refs, a.cert_index[path][ref] # NoTrx
        PROVE  \E r \in W \cup {t} : /\ a.cert_index[path][ref] = TrxRef(r)
                                     /\ \E e \in KeyList(r.keys) : e.path = path /\ Counts(e, ref)
    <3>1. CASE Hit(path, ref)
      BY <2>2, <3>1
    <3>2. CASE ~ Hit(path, ref)
      <4>1. a.cert_index[path][ref] = Entry(k, path)[ref] /\ Entry(k, path)[ref] # NoTrx
        BY <2>2, <2>3, <3>2
      <4>2. PICK r \in W : /\ Entry(k, path)[ref] = TrxRef(r)
                           /\ \E e \in KeyList(r.keys) : e.path = path /\ Counts(e, ref)
        BY <1>2, <4>1, EntryRefers
      <4>. QED BY <4>1, <4>2
    <3>. QED BY <3>1, <3>2
  <2>4. RefersTo(a, W \cup {t})
    BY <2>3 DEF RefersTo
  <2>. QED BY <1>2, <1>3, <1>5, <1>6, <2>4 DEF a
<1>7. CASE ~ passed
  <2>1. RefersTo(a, W)
    BY <1>2, <1>5, <1>7 DEF RefersTo
  <2>. QED BY <1>2, <1>3, <1>5, <1>7, <2>1 DEF a
<1>. QED BY <1>6, <1>7

\* set_trx_committed() leaves the index alone.
LEMMA CommittedRefers ==
    ASSUME NEW c, NEW t, DOMAIN c = CertFields
    PROVE  /\ set_trx_committed(c, t).trx_map = c.trx_map
           /\ set_trx_committed(c, t).initial_position = c.initial_position
           /\ \A W : RefersTo(set_trx_committed(c, t), W) <=> RefersTo(c, W)
<1>. DEFINE d == set_trx_committed(c, t)
<1>1. /\ d.trx_map = c.trx_map /\ d.cert_index = c.cert_index
      /\ d.initial_position = c.initial_position
  BY DEF set_trx_committed, CertFields
<1>. HIDE DEF d
<1>. QED BY <1>1 DEF RefersTo, d

\* A commit cut forgets only what is before it.
LEMMA CutRefers ==
    ASSUME NEW c, NEW b \in Nat, Bounded(c, b), NEW W, RefersTo(c, W), NEW s \in Int
    PROVE  /\ RefersTo(purge_trxs_upto(c, s), W)
           /\ purge_trxs_upto(c, s).initial_position = c.initial_position
           /\ \A g \in DOMAIN c.trx_map : g \notin DOMAIN purge_trxs_upto(c, s).trx_map => g < s
<1>1. PICK m : m = Min({s, SafeToDiscard(c)})
  OBVIOUS
<1>2. m \in Int /\ m <= s
  BY <1>1, SafeInt, MinOfTwo
<1>3. DOMAIN c = CertFields /\ DOMAIN c.trx_map \subseteq 1..b
  BY DEF Bounded
<1>4. \A g \in DOMAIN c.trx_map : g < m => g < s
  BY <1>2, <1>3
<1>. QED BY <1>1, <1>3, <1>4, PurgeRefers DEF purge_trxs_upto

\* The write sets W have typed keys and one seqno each
AreWriteSets(W) ==
    /\ \A r \in W : r.keys \in Seq(Key) /\ r.global_seqno \in Nat
    /\ \A r, s \in W : r.global_seqno = s.global_seqno => r = s

\* A reference that is found is to a write set that writes what t holds.
LEMMA ReferenceWrites ==
    ASSUME NEW c, NEW W, RefersTo(c, W), AreWriteSets(W), NEW t, t.keys \in Seq(Key),
           NEW e \in Elements(t.keys), RefExclusive(c, e) # NoTrx
    PROVE  \E r \in W : RefExclusive(c, e) = TrxRef(r) /\ Writes(r, t)
<1>1. PICK r \in W :
         /\ RefExclusive(c, e) = TrxRef(r)
         /\ \E f \in KeyList(r.keys) : f.path = e.path /\ Counts(f, XRef(e))
  BY Lookups, EntryRefers
<1>2. PICK f \in KeyList(r.keys) : f.path = e.path /\ Counts(f, XRef(e))
  BY <1>1
<1>3. r.keys \in Seq(Key)
  BY DEF AreWriteSets
<1>4. PICK i \in DOMAIN r.keys :
         /\ f.path \in Prefixes(r.keys[i].parts)
         /\ f.shared <=> r.keys[i].shared
         /\ f.full <=> f.path = r.keys[i].parts
  <2>1. f \in Elements(r.keys)
    BY DEF KeyList
  <2>. QED BY <1>3, <2>1, ElementKey
<1>5. PICK j \in DOMAIN t.keys :
         /\ e.path \in Prefixes(t.keys[j].parts)
         /\ e.shared <=> t.keys[j].shared
         /\ e.full <=> e.path = t.keys[j].parts
  BY ElementKey
<1>6. ~ f.shared /\ (e.full \/ f.full)
  BY <1>2 DEF Counts, XRef
<1>7. Overlapping(r.keys[i], t.keys[j])
  BY <1>2, <1>4, <1>5, <1>6 DEF Overlapping
<1>. QED BY <1>1, <1>4, <1>6, <1>7 DEF Writes

\* The test fails only a write set that conflicts with one of those referred to.
LEMMA FailureReal ==
    ASSUME NEW c, NEW b \in Nat, Bounded(c, b), NEW W, RefersTo(c, W), AreWriteSets(W),
           NEW t, t.keys \in Seq(Key), NEW E, E \subseteq Elements(t.keys),
           Fails(c, t, E)
    PROVE  \/ t.last_seen_seqno < c.initial_position
           \/ t.global_seqno - t.last_seen_seqno > MaxLength
           \/ ~ t.isolation /\ \E r \in W : Writes(r, t) /\ Unseen(r, t)
<1>1. SUFFICES ASSUME ~ t.isolation, NEW e \in E, Conflict(c, t, e)
               PROVE  \E r \in W : Writes(r, t) /\ Unseen(r, t)
  BY DEF Fails
<1>2. RefExclusive(c, e) # NoTrx /\ e \in Elements(t.keys)
  BY <1>1 DEF Conflict
<1>3. PICK r \in W : RefExclusive(c, e) = TrxRef(r) /\ Writes(r, t)
  BY <1>2, ReferenceWrites
<1>4. /\ RefExclusive(c, e).source_id = r.source_id
      /\ RefExclusive(c, e).isolation = r.isolation
      /\ RefExclusive(c, e).global_seqno = r.global_seqno
  BY <1>3 DEF TrxRef
<1>5. Unseen(r, t)
  BY <1>1, <1>4 DEF Conflict, Unseen
<1>. QED BY <1>3, <1>5

\* A conflict with a write set of trx_map_ is found, or one of t's own node that t has
\* not seen either hides it.
LEMMA ConflictOrHidden ==
    ASSUME NEW c, NEW b \in Nat, Bounded(c, b), NEW W, RefersTo(c, W), AreWriteSets(W),
           NEW t, t.keys \in Seq(Key), ShortFirst(t.keys), t.last_seen_seqno \in Int,
           ~ t.isolation, ~ Fails(c, t, KeyList(t.keys)),
           NEW r \in W, ShortFirst(r.keys), Writes(r, t), Unseen(r, t),
           r.global_seqno \in DOMAIN c.trx_map, Remembers(c, r.global_seqno, r.keys)
    PROVE  \E h \in W : /\ h.source_id = t.source_id /\ ~ h.isolation /\ Dependent(h, t)
                        /\ t.last_seen_seqno < h.global_seqno - 1
<1>1. r.keys \in Seq(Key) /\ r.global_seqno \in Nat /\ r.global_seqno > t.last_seen_seqno
  BY DEF AreWriteSets, Unseen
<1>2. PICK i \in DOMAIN r.keys, j \in DOMAIN t.keys :
         ~ r.keys[i].shared /\ Overlapping(r.keys[i], t.keys[j])
  BY DEF Writes
<1>3. PICK f \in KeyList(r.keys), e \in KeyList(t.keys) :
         f.path = e.path /\ (f.full \/ e.full) /\ ~ f.shared
  BY <1>1, <1>2, CommonElement
<1>4. Counts(f, XRef(e)) /\ XRef(e) \in Refs
  BY <1>3 DEF Counts, XRef, Refs
<1>5. f.path \in DOMAIN c.cert_index /\ c.cert_index[f.path][XRef(e)].global_seqno >= r.global_seqno
  BY <1>4 DEF Remembers
<1>6. RefExclusive(c, e) = c.cert_index[f.path][XRef(e)]
  BY <1>3, <1>5, Lookups DEF Entry
<1>7. RefExclusive(c, e) # NoTrx /\ e \in Elements(t.keys)
  BY <1>1, <1>5, <1>6 DEF NoTrx, KeyList
<1>8. PICK h \in W : RefExclusive(c, e) = TrxRef(h) /\ Writes(h, t)
  BY <1>7, ReferenceWrites
<1>9. /\ RefExclusive(c, e).source_id = h.source_id
      /\ RefExclusive(c, e).isolation = h.isolation
      /\ RefExclusive(c, e).global_seqno = h.global_seqno
  BY <1>8 DEF TrxRef
<1>10. h.global_seqno \in Nat /\ h.global_seqno >= r.global_seqno
  BY <1>5, <1>6, <1>9 DEF AreWriteSets
<1>11. h.source_id = t.source_id /\ ~ h.isolation
  <2>1. SUFFICES ASSUME h.source_id # t.source_id \/ h.isolation PROVE FALSE
    OBVIOUS
  <2>2. RefExclusive(c, e).global_seqno > t.last_seen_seqno
    BY <1>1, <1>9, <1>10
  <2>3. Conflict(c, t, e)
    BY <1>7, <1>9, <2>1, <2>2 DEF Conflict
  <2>. QED BY <2>3 DEF Fails
<1>12. h.global_seqno # r.global_seqno
  <2>1. SUFFICES ASSUME h.global_seqno = r.global_seqno PROVE FALSE
    OBVIOUS
  <2>2. h = r
    BY <2>1 DEF AreWriteSets
  <2>. QED BY <1>11, <2>2 DEF Unseen
<1>13. t.last_seen_seqno < h.global_seqno - 1
  BY <1>1, <1>10, <1>12
<1>. QED BY <1>8, <1>11, <1>13 DEF Dependent
============================================================================
