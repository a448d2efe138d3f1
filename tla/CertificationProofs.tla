------------------------ MODULE CertificationProofs ------------------------
(***************************************************************************)
(* The certification of one node for every stream of write sets, every     *)
(* bound on the certification interval and every pattern of commits, cuts  *)
(* and configuration changes.                                              *)
(***************************************************************************)
EXTENDS CertificationStream, CertificationLemmas

----------------------------------------------------------------------------
(* The index.                                                              *)

\* An entry of the index, or none, refers to write sets that hold its key.
LEMMA EntryRef ==
    ASSUME NEW c, NEW l, IndexOK(c, l), NEW path, NEW ref \in Refs
    PROVE  LET r == Entry(c, path)[ref]
           IN  \/ r = NoTrx
               \/ \E g \in DOMAIN c.trx_map :
                     /\ c.trx_map[g] /\ r = TrxRef(l[g])
                     /\ \E e \in KeyList(l[g].keys) : e.path = path /\ Counts(e, ref)
<1>1. CASE path \in DOMAIN c.cert_index
  BY <1>1 DEF Entry, IndexOK
<1>2. CASE path \notin DOMAIN c.cert_index
  BY <1>2 DEF Entry, NoEntry, Refs
<1>. QED BY <1>1, <1>2

\* purge_trxs_upto_() keeps what it says of the write sets that are left.
LEMMA PurgeIndex ==
    ASSUME NEW c, NEW l, DOMAIN c = CertFields, IndexOK(c, l), NEW s \in Int,
           DOMAIN c.trx_map \subseteq Nat,
           \A g \in DOMAIN c.trx_map : l[g].global_seqno = g
    PROVE  IndexOK(PurgeUpto(c, s), l)
<1>. DEFINE gone == {g \in DOMAIN c.trx_map : g < s}
            left == [path \in DOMAIN c.cert_index |-> Unref(c.cert_index[path], gone)]
            kept == {path \in DOMAIN c.cert_index : left[path].ref_trx # NoTrx
                                                     \/ left[path].ref_shared_trx # NoTrx}
            d == PurgeUpto(c, s)
<1>1. /\ d.trx_map = [g \in DOMAIN c.trx_map \ gone |-> c.trx_map[g]]
      /\ d.cert_index = [path \in kept |-> left[path]]
  BY DEF PurgeUpto, PurgedIndex, CertFields
<1>2. \A path \in DOMAIN c.cert_index, ref \in Refs :
         left[path][ref] = IF c.cert_index[path][ref].global_seqno \in gone THEN NoTrx
                           ELSE c.cert_index[path][ref]
  BY DEF Unref, Refs
<1>3. DOMAIN d.cert_index = kept /\ \A path \in kept : d.cert_index[path] = left[path]
  BY <1>1
<1>4. DOMAIN d.trx_map = DOMAIN c.trx_map \ gone /\ \A g \in DOMAIN c.trx_map \ gone : d.trx_map[g] = c.trx_map[g]
  BY <1>1
<1>5. \A g \in DOMAIN c.trx_map : g \in Nat /\ l[g].global_seqno = g /\ (g \notin gone <=> g >= s)
  OBVIOUS
<1>. HIDE DEF d, left, gone
<1>6. ASSUME NEW path \in DOMAIN d.cert_index, NEW ref \in Refs, d.cert_index[path][ref] # NoTrx
      PROVE  \E g \in DOMAIN d.trx_map :
                /\ d.trx_map[g] /\ d.cert_index[path][ref] = TrxRef(l[g])
                /\ \E e \in KeyList(l[g].keys) : e.path = path /\ Counts(e, ref)
  <2>1. /\ path \in DOMAIN c.cert_index /\ d.cert_index[path][ref] = c.cert_index[path][ref]
        /\ c.cert_index[path][ref].global_seqno \notin gone
    BY <1>2, <1>3, <1>6
  <2>2. PICK g \in DOMAIN c.trx_map :
                /\ c.trx_map[g] /\ c.cert_index[path][ref] = TrxRef(l[g])
                /\ \E e \in KeyList(l[g].keys) : e.path = path /\ Counts(e, ref)
    BY <1>6, <2>1 DEF IndexOK
  <2>3. TrxRef(l[g]).global_seqno = g
    BY <1>5 DEF TrxRef
  <2>4. g \in DOMAIN d.trx_map /\ d.trx_map[g]
    BY <1>4, <2>1, <2>2, <2>3
  <2>. QED BY <2>1, <2>2, <2>4
<1>7. ASSUME NEW g \in DOMAIN d.trx_map, d.trx_map[g], NEW e \in KeyList(l[g].keys),
             NEW ref \in Refs, Counts(e, ref)
      PROVE  e.path \in DOMAIN d.cert_index /\ d.cert_index[e.path][ref].global_seqno >= g
  <2>1. g \in DOMAIN c.trx_map /\ c.trx_map[g] /\ g \in Nat /\ g >= s
    BY <1>4, <1>5, <1>7
  <2>2. ASSUME NEW x \in Refs, Counts(e, x)
        PROVE  /\ e.path \in DOMAIN c.cert_index /\ left[e.path][x] = c.cert_index[e.path][x]
               /\ c.cert_index[e.path][x].global_seqno >= g /\ c.cert_index[e.path][x] # NoTrx
    <3>1. e.path \in DOMAIN c.cert_index /\ c.cert_index[e.path][x].global_seqno >= g
      BY <1>7, <2>1, <2>2 DEF IndexOK
    <3>2. c.cert_index[e.path][x] # NoTrx
      BY <2>1, <3>1 DEF NoTrx
    <3>3. PICK h \in DOMAIN c.trx_map : c.cert_index[e.path][x] = TrxRef(l[h])
      BY <3>1, <3>2 DEF IndexOK
    <3>4. c.cert_index[e.path][x].global_seqno = h /\ h \in Nat
      BY <1>5, <3>3 DEF TrxRef
    <3>5. c.cert_index[e.path][x].global_seqno \notin gone
      BY <1>5, <2>1, <3>1, <3>4
    <3>. QED BY <1>2, <3>1, <3>2, <3>5
  <2>3. e.path \in kept
    <3>1. CASE e.shared
      <4>1. "ref_shared_trx" \in Refs /\ Counts(e, "ref_shared_trx")
        BY <3>1 DEF Refs, Counts
      <4>2. left[e.path]["ref_shared_trx"] # NoTrx /\ e.path \in DOMAIN c.cert_index
        BY <2>2, <4>1
      <4>. QED BY <4>2
    <3>2. CASE ~ e.shared
      <4>1. "ref_trx" \in Refs /\ Counts(e, "ref_trx")
        BY <3>2 DEF Refs, Counts
      <4>2. left[e.path]["ref_trx"] # NoTrx /\ e.path \in DOMAIN c.cert_index
        BY <2>2, <4>1
      <4>. QED BY <4>2
    <3>. QED BY <3>1, <3>2
  <2>. QED BY <1>3, <1>7, <2>2, <2>3
<1>. HIDE DEF kept
<1>8. IndexOK(d, l)
  BY <1>6, <1>7 DEF IndexOK
<1>. QED BY <1>8 DEF d

\* The log gives every write set its own seqno.
LEMMA LogFacts ==
    ASSUME NEW l, LogOK(l)
    PROVE  /\ Len(l) \in Nat /\ DOMAIN l = 1..Len(l)
           /\ \A g \in 1..Len(l) :
                 /\ l[g] \in LogEntry /\ l[g].global_seqno = g /\ l[g].last_seen_seqno < g
                 /\ l[g].last_seen_seqno \in Nat /\ l[g].keys \in Seq(Key)
                 /\ l[g].pa_unsafe \in BOOLEAN /\ l[g].isolation \in BOOLEAN
<1>1. l \in Seq(LogEntry) /\ \A g \in DOMAIN l : l[g].global_seqno = g /\ l[g].last_seen_seqno < g
  BY DEF LogOK
<1>2. Len(l) \in Nat /\ DOMAIN l = 1..Len(l) /\ \A g \in 1..Len(l) : l[g] \in LogEntry
  BY <1>1
<1>. QED BY <1>1, <1>2 DEF LogEntry

\* c, in order after log l, before n and with cut k, may purge what is before s:
\* it is before the next cut k1 or out of reach of n1
Purges(c, l, n, k, n1, k1, s) ==
    /\ LogOK(l) /\ CertOK(c, l, n, k)
    /\ n \in Int /\ k \in Int /\ n1 \in Int /\ k1 \in Int /\ s \in Int
    /\ n <= n1 /\ k <= k1 /\ (s <= k1 \/ s <= n1 - MaxLength)

\* Purging keeps the object in order, given why it may purge.
LEMMA PurgeOK ==
    ASSUME NEW c, NEW l, NEW n, NEW k, NEW n1, NEW k1, NEW s, Purges(c, l, n, k, n1, k1, s)
    PROVE  LET d == PurgeUpto(c, s)
           IN  /\ CertOK(d, l, n1, k1)
               /\ d.deps_set = c.deps_set /\ d.initial_position = c.initial_position
               /\ DOMAIN d.trx_map = {g \in DOMAIN c.trx_map : g >= s}
<1>. DEFINE d == PurgeUpto(c, s)
<1>0. /\ LogOK(l) /\ CertOK(c, l, n, k)
      /\ n \in Int /\ k \in Int /\ n1 \in Int /\ k1 \in Int /\ s \in Int
      /\ n <= n1 /\ k <= k1 /\ (s <= k1 \/ s <= n1 - MaxLength)
  BY DEF Purges
<1>. USE MaxLengthAssumption, <1>0
<1>1. DOMAIN c = CertFields /\ c.safe_to_discard_seqno \in Int
  BY DEF CertOK
<1>2. /\ c.initial_position \in 0..Len(l)
      /\ DOMAIN c.trx_map \subseteq (c.initial_position + 1)..Len(l)
      /\ \A g \in DOMAIN c.trx_map : c.trx_map[g] <=> l[g].depends_seqno # FAILED
      /\ \A g \in (c.initial_position + 1)..Len(l) :
            l[g].depends_seqno # FAILED /\ g \notin DOMAIN c.trx_map =>
               /\ \A h \in DOMAIN c.trx_map : g < h
               /\ g < k \/ g < n - MaxLength
  BY DEF CertOK, TrxMapOK
<1>3. Len(l) \in Nat /\ \A g \in 1..Len(l) : l[g].global_seqno = g
  BY LogFacts
<1>4. DOMAIN c.trx_map \subseteq Nat /\ \A g \in DOMAIN c.trx_map : l[g].global_seqno = g
  BY <1>2, <1>3
<1>5. IndexOK(d, l)
  BY <1>1, <1>4, PurgeIndex DEF CertOK
<1>6. /\ DOMAIN d = CertFields /\ d.safe_to_discard_seqno = c.safe_to_discard_seqno
      /\ d.deps_set = c.deps_set /\ d.initial_position = c.initial_position
      /\ d.last_pa_unsafe = c.last_pa_unsafe
      /\ d.trx_map = [g \in DOMAIN c.trx_map \ {h \in DOMAIN c.trx_map : h < s} |-> c.trx_map[g]]
  BY <1>1 DEF PurgeUpto, CertFields
<1>. HIDE DEF d
<1>7. /\ DOMAIN d.trx_map = {g \in DOMAIN c.trx_map : g >= s}
      /\ \A g \in DOMAIN d.trx_map : d.trx_map[g] = c.trx_map[g]
  BY <1>4, <1>6
<1>8. UnsafeOK(d, l)
  BY <1>6 DEF CertOK, UnsafeOK
<1>9. TrxMapOK(d, l, n1, k1)
  <2>1. \A g \in DOMAIN d.trx_map : d.trx_map[g] <=> l[g].depends_seqno # FAILED
    BY <1>2, <1>7
  <2>2. ASSUME NEW g \in (d.initial_position + 1)..Len(l),
               l[g].depends_seqno # FAILED, g \notin DOMAIN d.trx_map
        PROVE  /\ \A h \in DOMAIN d.trx_map : g < h
               /\ g < k1 \/ g < n1 - MaxLength
    <3>1. g \in (c.initial_position + 1)..Len(l) /\ g \in Int
      BY <1>2, <1>6, <2>2
    <3>2. CASE g \in DOMAIN c.trx_map
      BY <1>4, <1>7, <2>2, <3>2
    <3>3. CASE g \notin DOMAIN c.trx_map
      BY <1>2, <1>7, <2>2, <3>1, <3>3
    <3>. QED BY <3>2, <3>3
  <2>. QED BY <1>2, <1>6, <1>7, <2>1, <2>2 DEF TrxMapOK
<1>10. CertOK(d, l, n1, k1)
  BY <1>1, <1>5, <1>6, <1>8, <1>9 DEF CertOK
<1>. QED BY <1>6, <1>7, <1>10 DEF d

\* a is c after write set trx was tested, and passed or not
Appends(c, trx, passed, a) ==
    /\ DOMAIN a = CertFields /\ a.safe_to_discard_seqno \in Int
    /\ a.initial_position = c.initial_position
    /\ a.trx_map = [g \in DOMAIN c.trx_map \cup {trx.global_seqno} |->
                       IF g = trx.global_seqno THEN passed ELSE c.trx_map[g]]
    /\ a.cert_index = IF passed THEN Referenced(c, trx) ELSE c.cert_index
    /\ a.last_pa_unsafe = IF passed /\ trx.pa_unsafe THEN trx.global_seqno ELSE c.last_pa_unsafe

\* The references a write set leaves are the last ones.
LEMMA AppendIndex ==
    ASSUME NEW c, NEW l, LogOK(l), IndexOK(c, l), DOMAIN c.trx_map \subseteq 1..Len(l),
           NEW trx, trx.global_seqno = Len(l) + 1,
           NEW passed \in BOOLEAN, NEW a, Appends(c, trx, passed, a),
           NEW l1, \A g \in 1..Len(l) : l1[g] = l[g],
           TrxRef(l1[Len(l) + 1]) = TrxRef(trx), l1[Len(l) + 1].keys = trx.keys,
           l1[Len(l) + 1].global_seqno = Len(l) + 1
    PROVE  IndexOK(a, l1)
<1>. DEFINE n == Len(l) + 1
            list == KeyList(trx.keys)
<1>1. Len(l) \in Nat /\ (\A g \in 1..Len(l) : l[g].global_seqno = g) /\ n \notin DOMAIN c.trx_map
  BY LogFacts
<1>2. /\ DOMAIN a.trx_map = DOMAIN c.trx_map \cup {n}
      /\ a.trx_map[n] = passed
      /\ \A g \in DOMAIN c.trx_map : a.trx_map[g] = c.trx_map[g] /\ l1[g] = l[g] /\ g \in Nat /\ g < n
  BY <1>1 DEF Appends
<1>3. ASSUME NEW path \in DOMAIN c.cert_index, NEW ref \in Refs, c.cert_index[path][ref] # NoTrx
      PROVE  \E g \in DOMAIN a.trx_map :
                /\ a.trx_map[g] /\ c.cert_index[path][ref] = TrxRef(l1[g])
                /\ \E e \in KeyList(l1[g].keys) : e.path = path /\ Counts(e, ref)
  <2>1. PICK g \in DOMAIN c.trx_map :
                /\ c.trx_map[g] /\ c.cert_index[path][ref] = TrxRef(l[g])
                /\ \E e \in KeyList(l[g].keys) : e.path = path /\ Counts(e, ref)
    BY <1>3 DEF IndexOK
  <2>. QED BY <1>2, <2>1
<1>4. CASE ~ passed
  <2>1. a.cert_index = c.cert_index
    BY <1>4 DEF Appends
  <2>2. ASSUME NEW g \in DOMAIN a.trx_map, a.trx_map[g], NEW e \in KeyList(l1[g].keys),
               NEW ref \in Refs, Counts(e, ref)
        PROVE  e.path \in DOMAIN a.cert_index /\ a.cert_index[e.path][ref].global_seqno >= g
    <3>1. g \in DOMAIN c.trx_map /\ c.trx_map[g] /\ e \in KeyList(l[g].keys)
      BY <1>2, <1>4, <2>2
    <3>. QED BY <2>1, <2>2, <3>1 DEF IndexOK
  <2>. QED BY <1>3, <2>1, <2>2 DEF IndexOK
<1>5. CASE passed
  <2>. DEFINE Hit(path, ref) == \E e \in list : e.path = path /\ Counts(e, ref)
  <2>1. a.cert_index = Referenced(c, trx)
    BY <1>5 DEF Appends
  <2>2. DOMAIN a.cert_index = DOMAIN c.cert_index \cup {e.path : e \in list}
    BY <2>1 DEF Referenced
  <2>3. \A path \in DOMAIN a.cert_index, ref \in Refs :
           a.cert_index[path][ref] = IF Hit(path, ref) THEN TrxRef(trx) ELSE Entry(c, path)[ref]
    BY <2>1 DEF Referenced, Refs, Counts
  <2>4. ASSUME NEW path \in DOMAIN a.cert_index, NEW ref \in Refs, a.cert_index[path][ref] # NoTrx
        PROVE  \E g \in DOMAIN a.trx_map :
                  /\ a.trx_map[g] /\ a.cert_index[path][ref] = TrxRef(l1[g])
                  /\ \E e \in KeyList(l1[g].keys) : e.path = path /\ Counts(e, ref)
    <3>1. CASE Hit(path, ref)
      <4>1. a.cert_index[path][ref] = TrxRef(l1[n]) /\ KeyList(l1[n].keys) = list
        BY <2>3, <3>1
      <4>2. n \in DOMAIN a.trx_map /\ a.trx_map[n]
        BY <1>2, <1>5
      <4>. HIDE DEF n
      <4>. QED BY <3>1, <4>1, <4>2
    <3>2. CASE ~ Hit(path, ref)
      <4>1. a.cert_index[path][ref] = Entry(c, path)[ref]
        BY <2>3, <3>2
      <4>2. PICK g \in DOMAIN c.trx_map :
                   /\ c.trx_map[g] /\ Entry(c, path)[ref] = TrxRef(l[g])
                   /\ \E e \in KeyList(l[g].keys) : e.path = path /\ Counts(e, ref)
        BY <2>4, <4>1, EntryRef
      <4>. QED BY <1>2, <4>1, <4>2
    <3>. QED BY <3>1, <3>2
  <2>5. ASSUME NEW g \in DOMAIN a.trx_map, a.trx_map[g], NEW e \in KeyList(l1[g].keys),
               NEW ref \in Refs, Counts(e, ref)
        PROVE  e.path \in DOMAIN a.cert_index /\ a.cert_index[e.path][ref].global_seqno >= g
    <3>1. TrxRef(trx).global_seqno = n
      BY DEF TrxRef
    <3>2. CASE g = n
      BY <1>1, <2>2, <2>3, <2>5, <3>1, <3>2
    <3>3. CASE g # n
      <4>1. g \in DOMAIN c.trx_map /\ c.trx_map[g] /\ e \in KeyList(l[g].keys) /\ g \in Nat /\ g < n
        BY <1>2, <2>5, <3>3
      <4>2. e.path \in DOMAIN c.cert_index /\ c.cert_index[e.path][ref].global_seqno >= g
        BY <2>5, <4>1 DEF IndexOK
      <4>. QED BY <1>1, <2>2, <2>3, <3>1, <4>1, <4>2 DEF Entry
    <3>. QED BY <3>2, <3>3
  <2>. QED BY <2>4, <2>5 DEF IndexOK
<1>. QED BY <1>4, <1>5

\* trx is the next write set after log l, and l1 the log with what came of it
Extends(l, trx, depends, l1) ==
    /\ trx \in LogEntry /\ trx.global_seqno = Len(l) + 1 /\ trx.last_seen_seqno < Len(l) + 1
    /\ depends \in Nat \cup {FAILED}
    /\ l1 = Append(l, [trx EXCEPT !.depends_seqno = depends])

\* The log after the next write set.
LEMMA ExtendLog ==
    ASSUME NEW l, LogOK(l), NEW trx, NEW depends, NEW l1, Extends(l, trx, depends, l1)
    PROVE  LET n == Len(l) + 1
           IN  /\ LogOK(l1) /\ Len(l1) = n /\ n \in Nat /\ DOMAIN l1 = 1..n
               /\ \A g \in 1..Len(l) : l1[g] = l[g]
               /\ l1[n].keys = trx.keys /\ l1[n].depends_seqno = depends
               /\ l1[n].global_seqno = n /\ l1[n].last_seen_seqno = trx.last_seen_seqno
               /\ l1[n].pa_unsafe = trx.pa_unsafe /\ l1[n].isolation = trx.isolation
               /\ l1[n].source_id = trx.source_id /\ TrxRef(l1[n]) = TrxRef(trx)
<1>. DEFINE n == Len(l) + 1
            x == [trx EXCEPT !.depends_seqno = depends]
<1>1. l \in Seq(LogEntry) /\ Len(l) \in Nat /\ DOMAIN l = 1..Len(l)
  BY LogFacts DEF LogOK
<1>2. /\ x \in LogEntry /\ x.keys = trx.keys /\ x.depends_seqno = depends
      /\ x.global_seqno = n /\ x.last_seen_seqno = trx.last_seen_seqno
      /\ x.pa_unsafe = trx.pa_unsafe /\ x.isolation = trx.isolation
      /\ x.source_id = trx.source_id
  BY DEF Extends, LogEntry
<1>. HIDE DEF x
<1>3. /\ l1 \in Seq(LogEntry) /\ Len(l1) = n /\ DOMAIN l1 = 1..n
      /\ \A g \in 1..Len(l) : l1[g] = l[g]
      /\ l1[n] = x
  BY <1>1, <1>2 DEF Extends, x
<1>4. \A g \in 1..n : g = n \/ g \in 1..Len(l)
  BY <1>1
<1>5. LogOK(l1)
  <2>1. \A g \in 1..Len(l) : l1[g].global_seqno = g /\ l1[g].last_seen_seqno < g
    BY <1>3, LogFacts
  <2>2. l1[n].global_seqno = n /\ l1[n].last_seen_seqno < n
    BY <1>2, <1>3 DEF Extends
  <2>. QED BY <1>3, <1>4, <2>1, <2>2 DEF LogOK
<1>6. TrxRef(l1[n]) = TrxRef(trx)
  BY <1>2, <1>3 DEF TrxRef, Extends
<1>7. n \in Nat
  BY <1>1
<1>. HIDE DEF n
<1>8. /\ LogOK(l1) /\ Len(l1) = n /\ n \in Nat /\ DOMAIN l1 = 1..n
      /\ \A g \in 1..Len(l) : l1[g] = l[g]
      /\ l1[n].keys = trx.keys /\ l1[n].depends_seqno = depends
      /\ l1[n].global_seqno = n /\ l1[n].last_seen_seqno = trx.last_seen_seqno
      /\ l1[n].pa_unsafe = trx.pa_unsafe /\ l1[n].isolation = trx.isolation
      /\ l1[n].source_id = trx.source_id
  BY <1>2, <1>3, <1>5, <1>7
<1>. QED BY <1>6, <1>8 DEF n

\* append_trx() keeps the object in order.
LEMMA AppendOK ==
    ASSUME NEW l, LogOK(l), NEW k \in Int, NEW c, CertOK(c, l, Len(l) + 1, k),
           NEW trx, NEW depends, NEW l1, Extends(l, trx, depends, l1),
           NEW passed \in BOOLEAN, passed <=> depends # FAILED,
           NEW a, Appends(c, trx, passed, a)
    PROVE  CertOK(a, l1, Len(l1), k)
<1>. DEFINE n == Len(l) + 1
<1>. USE MaxLengthAssumption
<1>1. /\ LogOK(l1) /\ Len(l1) = n /\ n \in Nat /\ DOMAIN l1 = 1..n
      /\ \A g \in 1..Len(l) : l1[g] = l[g]
      /\ l1[n].keys = trx.keys /\ l1[n].depends_seqno = depends
      /\ l1[n].global_seqno = n /\ l1[n].pa_unsafe = trx.pa_unsafe /\ TrxRef(l1[n]) = TrxRef(trx)
  BY ExtendLog
<1>2. Len(l) \in Nat /\ DOMAIN l = 1..Len(l) /\ trx.global_seqno = n
  BY LogFacts DEF Extends
<1>3. /\ c.initial_position \in 0..Len(l)
      /\ DOMAIN c.trx_map \subseteq (c.initial_position + 1)..Len(l)
      /\ \A g \in DOMAIN c.trx_map : c.trx_map[g] <=> l[g].depends_seqno # FAILED
      /\ \A g \in (c.initial_position + 1)..Len(l) :
            l[g].depends_seqno # FAILED /\ g \notin DOMAIN c.trx_map =>
               /\ \A h \in DOMAIN c.trx_map : g < h
               /\ g < k \/ g < n - MaxLength
  BY DEF CertOK, TrxMapOK
<1>4. DOMAIN c.trx_map \subseteq 1..Len(l)
  BY <1>2, <1>3
<1>5. IndexOK(a, l1)
  BY <1>1, <1>2, <1>4, AppendIndex DEF CertOK
<1>6. /\ DOMAIN a = CertFields /\ a.safe_to_discard_seqno \in Int
      /\ a.initial_position = c.initial_position
      /\ a.last_pa_unsafe = IF passed /\ trx.pa_unsafe THEN n ELSE c.last_pa_unsafe
      /\ DOMAIN a.trx_map = DOMAIN c.trx_map \cup {n}
      /\ a.trx_map[n] = passed
      /\ \A g \in DOMAIN c.trx_map : a.trx_map[g] = c.trx_map[g]
  BY <1>2, <1>4 DEF Appends
<1>7. UnsafeOK(a, l1)
  <2>1. /\ c.last_pa_unsafe \in c.initial_position..Len(l)
        /\ \A g \in 1..Len(l) :
              l[g].depends_seqno # FAILED /\ l[g].pa_unsafe => g <= c.last_pa_unsafe
    BY <1>2 DEF CertOK, UnsafeOK
  <2>2. a.last_pa_unsafe \in a.initial_position..n /\ c.last_pa_unsafe <= a.last_pa_unsafe
    BY <1>2, <1>3, <1>6, <2>1
  <2>3. ASSUME NEW g \in 1..n, l1[g].depends_seqno # FAILED, l1[g].pa_unsafe
        PROVE  g <= a.last_pa_unsafe
    <3>1. CASE g = n
      BY <1>1, <1>6, <2>3, <3>1
    <3>2. CASE g # n
      <4>1. g \in 1..Len(l) /\ l1[g] = l[g]
        BY <1>1, <1>2, <3>2
      <4>2. g <= c.last_pa_unsafe
        BY <2>1, <2>3, <4>1
      <4>. QED BY <1>2, <1>3, <2>1, <2>2, <4>1, <4>2
    <3>. QED BY <3>1, <3>2
  <2>. QED BY <1>1, <2>2, <2>3 DEF UnsafeOK
<1>8. TrxMapOK(a, l1, n, k)
  <2>1. DOMAIN a.trx_map \subseteq (a.initial_position + 1)..n /\ a.initial_position \in 0..n
    BY <1>2, <1>3, <1>6
  <2>2. \A g \in DOMAIN a.trx_map : a.trx_map[g] <=> l1[g].depends_seqno # FAILED
    BY <1>1, <1>3, <1>4, <1>6
  <2>3. ASSUME NEW g \in (a.initial_position + 1)..n,
               l1[g].depends_seqno # FAILED, g \notin DOMAIN a.trx_map
        PROVE  /\ \A h \in DOMAIN a.trx_map : g < h
               /\ g < k \/ g < n - MaxLength
    <3>1. g \in (c.initial_position + 1)..Len(l) /\ g \in Int /\ g < n /\ l1[g] = l[g]
      BY <1>1, <1>2, <1>3, <1>6, <2>3
    <3>. QED BY <1>3, <1>6, <2>3, <3>1
  <2>. QED BY <1>1, <2>1, <2>2, <2>3 DEF TrxMapOK
<1>. QED BY <1>1, <1>5, <1>6, <1>7, <1>8 DEF CertOK

\* A write set that fails and is never appended changes nothing.
LEMMA SkipOK ==
    ASSUME NEW l, LogOK(l), NEW k \in Int, NEW c, CertOK(c, l, Len(l), k),
           NEW trx, NEW l1, Extends(l, trx, FAILED, l1)
    PROVE  CertOK(c, l1, Len(l1), k)
<1>. DEFINE n == Len(l) + 1
<1>. USE MaxLengthAssumption
<1>1. /\ Len(l1) = n /\ n \in Nat /\ DOMAIN l1 = 1..n
      /\ \A g \in 1..Len(l) : l1[g] = l[g]
      /\ l1[n].depends_seqno = FAILED
  BY ExtendLog
<1>2. Len(l) \in Nat /\ DOMAIN l = 1..Len(l)
  BY LogFacts
<1>3. /\ c.initial_position \in 0..Len(l)
      /\ DOMAIN c.trx_map \subseteq (c.initial_position + 1)..Len(l)
      /\ \A g \in DOMAIN c.trx_map : c.trx_map[g] <=> l[g].depends_seqno # FAILED
      /\ \A g \in (c.initial_position + 1)..Len(l) :
            l[g].depends_seqno # FAILED /\ g \notin DOMAIN c.trx_map =>
               /\ \A h \in DOMAIN c.trx_map : g < h
               /\ g < k \/ g < Len(l) - MaxLength
  BY DEF CertOK, TrxMapOK
<1>4. \A g \in DOMAIN c.trx_map : l1[g] = l[g]
  BY <1>1, <1>2, <1>3
<1>5. IndexOK(c, l1)
  BY <1>4 DEF CertOK, IndexOK
<1>6. UnsafeOK(c, l1)
  <2>1. \A g \in 1..n : g = n \/ g \in 1..Len(l)
    BY <1>2
  <2>. QED BY <1>1, <1>2, <1>3, <2>1 DEF CertOK, UnsafeOK
<1>7. TrxMapOK(c, l1, n, k)
  <2>1. DOMAIN c.trx_map \subseteq (c.initial_position + 1)..n /\ c.initial_position \in 0..n
    BY <1>2, <1>3
  <2>2. \A g \in DOMAIN c.trx_map : c.trx_map[g] <=> l1[g].depends_seqno # FAILED
    BY <1>3, <1>4
  <2>3. ASSUME NEW g \in (c.initial_position + 1)..n,
               l1[g].depends_seqno # FAILED, g \notin DOMAIN c.trx_map
        PROVE  /\ \A h \in DOMAIN c.trx_map : g < h
               /\ g < k \/ g < n - MaxLength
    <3>1. g \in (c.initial_position + 1)..Len(l) /\ g \in Int /\ l1[g] = l[g]
      BY <1>1, <1>2, <1>3, <2>3
    <3>. QED BY <1>2, <1>3, <2>3, <3>1
  <2>. QED BY <1>1, <2>1, <2>2, <2>3 DEF TrxMapOK
<1>. QED BY <1>1, <1>5, <1>6, <1>7 DEF CertOK

----------------------------------------------------------------------------
(* The test.                                                               *)

\* t is the next write set after log l, to be tested by c after a cut k
Tests(c, l, k, t) ==
    /\ LogOK(l) /\ k \in Int /\ CertOK(c, l, Len(l) + 1, k)
    /\ t \in LogEntry /\ t.global_seqno = Len(l) + 1 /\ t.last_seen_seqno < Len(l) + 1

PassedIn(l, g) == g \in 1..Len(l) /\ l[g].depends_seqno # FAILED

\* What the history l says of t
Refuted(c, l, t) ==
    \/ t.last_seen_seqno < c.initial_position
    \/ t.global_seqno - t.last_seen_seqno > MaxLength
    \/ ~ t.isolation /\ \E g \in 1..Len(l) : PassedIn(l, g) /\ Writes(l[g], t) /\ Unseen(l[g], t)

\* What the parameters of a test are.
LEMMA TestFacts ==
    ASSUME NEW c, NEW l, NEW k, NEW t, Tests(c, l, k, t)
    PROVE  /\ Len(l) \in Nat /\ DOMAIN l = 1..Len(l) /\ IndexOK(c, l)
           /\ \A g \in 1..Len(l) : l[g].global_seqno = g /\ l[g].keys \in Seq(Key)
           /\ DOMAIN c.trx_map \subseteq 1..Len(l)
           /\ \A g \in DOMAIN c.trx_map : c.trx_map[g] <=> PassedIn(l, g)
           /\ c.initial_position \in 0..Len(l) /\ c.last_pa_unsafe \in 0..Len(l)
           /\ c.initial_position <= c.last_pa_unsafe
           /\ t.keys \in Seq(Key) /\ t.last_seen_seqno \in Nat /\ t.isolation \in BOOLEAN
           /\ t.pa_unsafe \in BOOLEAN /\ t.global_seqno = Len(l) + 1
<1>1. Len(l) \in Nat /\ DOMAIN l = 1..Len(l) /\ \A g \in 1..Len(l) : l[g].global_seqno = g /\ l[g].keys \in Seq(Key)
  BY LogFacts DEF Tests
<1>2. /\ c.initial_position \in 0..Len(l)
      /\ DOMAIN c.trx_map \subseteq (c.initial_position + 1)..Len(l)
      /\ \A g \in DOMAIN c.trx_map : c.trx_map[g] <=> l[g].depends_seqno # FAILED
  BY DEF Tests, CertOK, TrxMapOK
<1>3. DOMAIN c.trx_map \subseteq 1..Len(l)
  BY <1>1, <1>2
<1>4. c.last_pa_unsafe \in c.initial_position..Len(l) /\ IndexOK(c, l)
  BY DEF Tests, CertOK, UnsafeOK
<1>5. /\ t.keys \in Seq(Key) /\ t.last_seen_seqno \in Nat /\ t.isolation \in BOOLEAN
      /\ t.pa_unsafe \in BOOLEAN /\ t.global_seqno = Len(l) + 1
  BY DEF Tests, LogEntry
<1>. QED BY <1>1, <1>2, <1>3, <1>4, <1>5 DEF PassedIn

\* A reference that is found is to a write set that writes what t holds.
LEMMA RefWrites ==
    ASSUME NEW c, NEW l, NEW k, NEW t, Tests(c, l, k, t),
           NEW e \in Elements(t.keys), RefExclusive(c, e) # NoTrx
    PROVE  \E g \in 1..Len(l) :
              PassedIn(l, g) /\ RefExclusive(c, e) = TrxRef(l[g]) /\ Writes(l[g], t)
<1>. USE TestFacts
<1>1. PICK g \in DOMAIN c.trx_map :
         /\ c.trx_map[g] /\ RefExclusive(c, e) = TrxRef(l[g])
         /\ \E f \in KeyList(l[g].keys) : f.path = e.path /\ Counts(f, XRef(e))
  <2>1. RefExclusive(c, e) = Entry(c, e.path)[XRef(e)] /\ XRef(e) \in Refs /\ IndexOK(c, l)
    BY Lookups
  <2>. QED BY <2>1, EntryRef
<1>2. g \in 1..Len(l) /\ PassedIn(l, g) /\ l[g].keys \in Seq(Key) /\ t.keys \in Seq(Key)
  BY <1>1
<1>3. PICK f \in KeyList(l[g].keys) : f.path = e.path /\ Counts(f, XRef(e))
  BY <1>1
<1>4. PICK i \in DOMAIN l[g].keys :
         /\ f.path \in Prefixes(l[g].keys[i].parts)
         /\ f.shared <=> l[g].keys[i].shared
         /\ f.full <=> f.path = l[g].keys[i].parts
  <2>1. f \in Elements(l[g].keys)
    BY DEF KeyList
  <2>. QED BY <1>2, <2>1, ElementKey
<1>5. PICK j \in DOMAIN t.keys :
         /\ e.path \in Prefixes(t.keys[j].parts)
         /\ e.shared <=> t.keys[j].shared
         /\ e.full <=> e.path = t.keys[j].parts
  BY <1>2, ElementKey
<1>6. ~ f.shared /\ (e.full \/ f.full)
  BY <1>3 DEF Counts, XRef
<1>7. Overlapping(l[g].keys[i], t.keys[j])
  BY <1>3, <1>4, <1>5, <1>6 DEF Overlapping
<1>. QED BY <1>1, <1>2, <1>4, <1>6, <1>7 DEF Writes

\* The index reports no conflict that the history does not have.
LEMMA ConflictReal ==
    ASSUME NEW c, NEW l, NEW k, NEW t, Tests(c, l, k, t),
           NEW e \in Elements(t.keys), Conflict(c, t, e)
    PROVE  \E g \in 1..Len(l) : PassedIn(l, g) /\ Writes(l[g], t) /\ Unseen(l[g], t)
<1>1. RefExclusive(c, e) # NoTrx
  BY DEF Conflict
<1>2. PICK g \in 1..Len(l) :
         PassedIn(l, g) /\ RefExclusive(c, e) = TrxRef(l[g]) /\ Writes(l[g], t)
  BY <1>1, RefWrites
<1>3. /\ RefExclusive(c, e).source_id = l[g].source_id
      /\ RefExclusive(c, e).isolation = l[g].isolation
      /\ RefExclusive(c, e).global_seqno = l[g].global_seqno
  BY <1>2 DEF TrxRef
<1>4. Unseen(l[g], t)
  BY <1>3 DEF Conflict, Unseen
<1>. QED BY <1>2, <1>4

\* The index refers to nothing older than a write set of trx_map_ that writes
\* what t holds, or holds what t writes.
LEMMA RefCovers ==
    ASSUME NEW c, NEW l, NEW k, NEW t, Tests(c, l, k, t), ShortFirst(t.keys),
           NEW g \in DOMAIN c.trx_map, PassedIn(l, g), ShortFirst(l[g].keys)
    PROVE  /\ Writes(l[g], t) => \E e \in KeyList(t.keys) : RefExclusive(c, e).global_seqno >= g
           /\ Writes(t, l[g]) => \E e \in KeyList(t.keys) :
                 ~ e.shared /\ (\/ RefExclusive(c, e).global_seqno >= g
                                \/ RefShared(c, e).global_seqno >= g)
<1>. USE TestFacts
<1>1. c.trx_map[g] /\ l[g].keys \in Seq(Key) /\ t.keys \in Seq(Key) /\ IndexOK(c, l)
  OBVIOUS
<1>2. \A f \in KeyList(l[g].keys), ref \in Refs : Counts(f, ref) =>
         Entry(c, f.path)[ref].global_seqno >= g
  BY <1>1 DEF IndexOK, Entry
<1>3. ASSUME Writes(l[g], t)
      PROVE  \E e \in KeyList(t.keys) : RefExclusive(c, e).global_seqno >= g
  <2>1. PICK i \in DOMAIN l[g].keys, j \in DOMAIN t.keys :
           ~ l[g].keys[i].shared /\ Overlapping(l[g].keys[i], t.keys[j])
    BY <1>3 DEF Writes
  <2>2. PICK f \in KeyList(l[g].keys), e \in KeyList(t.keys) :
           f.path = e.path /\ (f.full \/ e.full) /\ ~ f.shared
    BY <1>1, <2>1, CommonElement
  <2>3. Counts(f, XRef(e)) /\ XRef(e) \in Refs
    BY <2>2 DEF Counts, XRef, Refs
  <2>. QED BY <1>2, <2>2, <2>3, Lookups
<1>4. ASSUME Writes(t, l[g])
      PROVE  \E e \in KeyList(t.keys) :
                 ~ e.shared /\ (\/ RefExclusive(c, e).global_seqno >= g
                                \/ RefShared(c, e).global_seqno >= g)
  <2>1. PICK i \in DOMAIN t.keys, j \in DOMAIN l[g].keys :
           ~ t.keys[i].shared /\ Overlapping(t.keys[i], l[g].keys[j])
    BY <1>4 DEF Writes
  <2>2. PICK e \in KeyList(t.keys), f \in KeyList(l[g].keys) :
           e.path = f.path /\ (e.full \/ f.full) /\ ~ e.shared
    BY <1>1, <2>1, CommonElement
  <2>3. CASE f.shared
    <3>1. Counts(f, SRef(e)) /\ SRef(e) \in Refs
      BY <2>2, <2>3 DEF Counts, SRef, Refs
    <3>2. RefShared(c, e).global_seqno >= g
      BY <1>2, <2>2, <3>1, Lookups
    <3>. QED BY <2>2, <3>2
  <2>4. CASE ~ f.shared
    <3>1. Counts(f, XRef(e)) /\ XRef(e) \in Refs
      BY <2>2, <2>4 DEF Counts, XRef, Refs
    <3>2. RefExclusive(c, e).global_seqno >= g
      BY <1>2, <2>2, <3>1, Lookups
    <3>. QED BY <2>2, <3>2
  <2>. QED BY <2>3, <2>4
<1>. QED BY <1>3, <1>4

\* A conflict that the history has is found: the write set is still there, and
\* only an own one that t has to know hides it.
LEMMA ConflictFound ==
    ASSUME NEW c, NEW l, NEW k, NEW t, Tests(c, l, k, t), ShortFirst(t.keys),
           ~ t.isolation, t.last_seen_seqno >= c.initial_position,
           t.global_seqno - t.last_seen_seqno <= MaxLength,
           NEW P, P = {l[h] : h \in {i \in DOMAIN l : l[i].depends_seqno # FAILED}},
           OwnOrder(P, t), CutKnown(P, k, t),
           NEW g \in 1..Len(l), PassedIn(l, g), ShortFirst(l[g].keys),
           Writes(l[g], t), Unseen(l[g], t)
    PROVE  \E e \in KeyList(t.keys) : Conflict(c, t, e)
<1>. USE TestFacts, MaxLengthAssumption
<1>1. \A h \in 1..Len(l) : PassedIn(l, h) => l[h] \in P
  BY DEF PassedIn
<1>2. g \in Nat /\ l[g].global_seqno = g /\ g > t.last_seen_seqno /\ t.last_seen_seqno \in Nat
  BY DEF Unseen
<1>3. g \in DOMAIN c.trx_map
  <2>1. SUFFICES ASSUME g \notin DOMAIN c.trx_map PROVE FALSE
    OBVIOUS
  <2>2. g \in (c.initial_position + 1)..Len(l)
    BY <1>2
  <2>3. k \in Int /\ (g < k \/ g < (Len(l) + 1) - MaxLength)
    BY <2>1, <2>2 DEF Tests, CertOK, TrxMapOK, PassedIn
  <2>4. ~ (g < k)
    BY <1>1, <1>2 DEF CutKnown
  <2>. QED BY <1>2, <2>3, <2>4
<1>4. PICK e \in KeyList(t.keys) : RefExclusive(c, e).global_seqno >= g
  BY <1>3, RefCovers
<1>5. RefExclusive(c, e) # NoTrx /\ e \in Elements(t.keys)
  BY <1>2, <1>4 DEF NoTrx, KeyList
<1>6. PICK h \in 1..Len(l) :
         PassedIn(l, h) /\ RefExclusive(c, e) = TrxRef(l[h]) /\ Writes(l[h], t)
  BY <1>5, RefWrites
<1>7. /\ RefExclusive(c, e).source_id = l[h].source_id
      /\ RefExclusive(c, e).isolation = l[h].isolation
      /\ RefExclusive(c, e).global_seqno = h /\ h \in Nat /\ l[h].global_seqno = h
  BY <1>6 DEF TrxRef
<1>8. l[h].source_id # t.source_id \/ l[h].isolation
  <2>1. SUFFICES ASSUME l[h].source_id = t.source_id, ~ l[h].isolation PROVE FALSE
    OBVIOUS
  <2>2. t.last_seen_seqno >= h - 1
    BY <1>1, <1>6, <1>7, <2>1 DEF OwnOrder, Dependent
  <2>3. h = g
    BY <1>2, <1>4, <1>7, <2>2
  <2>. QED BY <2>1, <2>3 DEF Unseen
<1>9. Conflict(c, t, e)
  BY <1>2, <1>4, <1>5, <1>7, <1>8 DEF Conflict
<1>. QED BY <1>9

\* What every write set depends on.
LEMMA BaseFacts ==
    ASSUME NEW c, NEW l, NEW k, NEW t, Tests(c, l, k, t)
    PROVE  /\ BaseDependency(c, t) \in Int /\ BaseDependency(c, t) <= Len(l)
           /\ t.isolation \/ t.pa_unsafe \/ DOMAIN c.trx_map = {} => BaseDependency(c, t) = Len(l)
           /\ DOMAIN c.trx_map # {} => \E m \in DOMAIN c.trx_map : BaseDependency(c, t) >= m - 1
<1>0. DOMAIN c.trx_map \subseteq 1..Len(l) /\ Len(l) \in Nat /\ t.global_seqno = Len(l) + 1
  BY TestFacts
<1>1. CASE t.isolation \/ t.pa_unsafe \/ DOMAIN c.trx_map = {}
  BY <1>0, <1>1 DEF BaseDependency
<1>2. CASE ~ (t.isolation \/ t.pa_unsafe \/ DOMAIN c.trx_map = {})
  <2>. DEFINE M == DOMAIN c.trx_map
  <2>1. M \in SUBSET Int /\ M # {} /\ \A x \in M : 1 <= x
    BY <1>0, <1>2
  <2>. HIDE DEF M
  <2>2. Min(M) \in M
    BY <2>1, MinExists
  <2>3. BaseDependency(c, t) = Min(M) - 1
    BY <1>2 DEF BaseDependency, M
  <2>4. Min(M) \in 1..Len(l)
    BY <1>0, <2>2 DEF M
  <2>. QED BY <1>0, <1>2, <2>2, <2>3, <2>4 DEF M
<1>. QED BY <1>1, <1>2

\* A reference is to a write set of the log.
LEMMA RefInt ==
    ASSUME NEW c, NEW l, NEW k, NEW t, Tests(c, l, k, t), NEW path, NEW ref \in Refs
    PROVE  Entry(c, path)[ref].global_seqno \in Int /\ Entry(c, path)[ref].global_seqno <= Len(l)
<1>. USE TestFacts
<1>1. CASE Entry(c, path)[ref] = NoTrx
  BY <1>1 DEF NoTrx
<1>2. CASE Entry(c, path)[ref] # NoTrx
  <2>1. PICK g \in DOMAIN c.trx_map : Entry(c, path)[ref] = TrxRef(l[g])
    BY <1>2, EntryRef
  <2>2. Entry(c, path)[ref].global_seqno = g /\ g \in 1..Len(l)
    BY <2>1 DEF TrxRef
  <2>. QED BY <2>2
<1>. QED BY <1>1, <1>2

\* do_test() fails for the reasons it looks for, and else depends on all it found.
LEMMA TestResult ==
    ASSUME NEW c, NEW l, NEW k, NEW t, Tests(c, l, k, t), NEW E
    PROVE  LET v == TestWith(c, t, E)
           IN  /\ v \in Nat \cup {FAILED} /\ (v = FAILED <=> Fails(c, t, E))
               /\ v # FAILED => v \in Nat /\ \A s \in DependsOn(c, t, E) : s \in Int /\ v >= s
<1>. USE TestFacts
<1>. DEFINE S == DependsOn(c, t, E)
            v == TestWith(c, t, E)
<1>1. v = IF Fails(c, t, E) THEN FAILED ELSE Max(S)
  BY DEF TestWith
<1>2. \A e : \A s \in Dependencies(c, e) : s \in Int /\ s <= Len(l)
  <2>1. SUFFICES ASSUME NEW e, NEW s \in Dependencies(c, e) PROVE s \in Int /\ s <= Len(l)
    OBVIOUS
  <2>2. s = RefExclusive(c, e).global_seqno \/ s = RefShared(c, e).global_seqno
    BY DEF Dependencies
  <2>. QED BY <2>2, Lookups, RefInt
<1>3. ASSUME NEW s \in S PROVE s \in Int /\ s <= Len(l)
  <2>1. \/ s = BaseDependency(c, t) \/ s = c.last_pa_unsafe
        \/ \E e \in E : s \in Dependencies(c, e)
    BY <1>3 DEF DependsOn
  <2>. QED BY <1>2, <2>1, BaseFacts
<1>4. c.last_pa_unsafe \in S /\ c.last_pa_unsafe \in Nat
  BY DEF DependsOn
<1>. HIDE DEF S, v
<1>5. Max(S) \in S /\ \A s \in S : Max(S) >= s
  <2>1. S \in SUBSET Int /\ S # {} /\ Len(l) \in Int /\ \A s \in S : s <= Len(l)
    BY <1>3, <1>4
  <2>. QED BY <2>1, MaxExists
<1>6. Max(S) \in Nat
  BY <1>3, <1>4, <1>5
<1>7. v \in Nat \cup {FAILED} /\ (v = FAILED <=> Fails(c, t, E))
  BY <1>1, <1>6 DEF FAILED
<1>8. v # FAILED => v \in Nat /\ \A s \in S : s \in Int /\ v >= s
  BY <1>1, <1>3, <1>5, <1>6, <1>7
<1>. QED BY <1>7, <1>8 DEF v, S

\* A test that fails has a reason in the history.
LEMMA TestSound ==
    ASSUME NEW c, NEW l, NEW k, NEW t, Tests(c, l, k, t),
           NEW E \in SUBSET Elements(t.keys), TestWith(c, t, E) = FAILED
    PROVE  Refuted(c, l, t)
<1>1. Fails(c, t, E)
  BY TestResult
<1>. QED BY <1>1, ConflictReal DEF Refuted, Fails

\* The write sets that passed, of which the sources have kept order
Kept(l, k, t) ==
    LET P == {l[h] : h \in {i \in DOMAIN l : l[i].depends_seqno # FAILED}}
    IN  OwnOrder(P, t) /\ CutKnown(P, k, t)

AllShortFirst(l) == \A g \in 1..Len(l) : ShortFirst(l[g].keys)

\* A test that succeeds has the history on its side.
LEMMA TestComplete ==
    ASSUME NEW c, NEW l, NEW k, NEW t, Tests(c, l, k, t), Kept(l, k, t),
           ShortFirst(t.keys), AllShortFirst(l), do_test(c, t, TRUE) # FAILED
    PROVE  ~ Refuted(c, l, t)
<1>. USE MaxLengthAssumption, TestFacts
<1>1. /\ ~ (t.last_seen_seqno < c.initial_position)
      /\ ~ (t.global_seqno - t.last_seen_seqno > MaxLength)
      /\ ~ (~ t.isolation /\ \E e \in KeyList(t.keys) : Conflict(c, t, e))
  <2>1. ~ Fails(c, t, KeyList(t.keys))
    <3>1. TestWith(c, t, KeyList(t.keys)) # FAILED
      BY TestCases
    <3>. QED BY <3>1, TestResult
  <2>. QED BY <2>1 DEF Fails
<1>2. SUFFICES ASSUME ~ t.isolation, NEW g \in 1..Len(l), PassedIn(l, g),
                      Writes(l[g], t), Unseen(l[g], t)
               PROVE  FALSE
  BY <1>1 DEF Refuted
<1>. DEFINE P == {l[h] : h \in {i \in DOMAIN l : l[i].depends_seqno # FAILED}}
<1>3. OwnOrder(P, t) /\ CutKnown(P, k, t)
  BY DEF Kept
<1>4. t.last_seen_seqno >= c.initial_position /\ t.global_seqno - t.last_seen_seqno <= MaxLength
  BY <1>1
<1>5. ShortFirst(l[g].keys)
  BY DEF AllShortFirst
<1>6. \E e \in KeyList(t.keys) : Conflict(c, t, e)
  BY <1>2, <1>3, <1>4, <1>5, ConflictFound
<1>. QED BY <1>1, <1>2, <1>6

\* The test makes a write set depend on all that it cannot be applied beside.
LEMMA TestCovers ==
    ASSUME NEW c, NEW l, NEW k, NEW t, Tests(c, l, k, t),
           ShortFirst(t.keys), AllShortFirst(l), do_test(c, t, TRUE) # FAILED,
           NEW g \in 1..Len(l), PassedIn(l, g),
           Dependent(l[g], t) \/ l[g].pa_unsafe \/ t.pa_unsafe \/ t.isolation
    PROVE  g <= do_test(c, t, TRUE)
<1>. USE TestFacts
<1>. DEFINE v == do_test(c, t, TRUE)
<1>0. v \in Nat /\ \A s \in DependsOn(c, t, KeyList(t.keys)) : s \in Int /\ v >= s
  <2>1. v = TestWith(c, t, KeyList(t.keys))
    BY TestCases
  <2>2. TestWith(c, t, KeyList(t.keys)) # FAILED
    BY <2>1
  <2>3. /\ TestWith(c, t, KeyList(t.keys)) \in Nat
        /\ \A s \in DependsOn(c, t, KeyList(t.keys)) : s \in Int /\ TestWith(c, t, KeyList(t.keys)) >= s
    BY <2>2, TestResult
  <2>. QED BY <2>1, <2>3
<1>1. /\ v \in Nat /\ v >= BaseDependency(c, t) /\ v >= c.last_pa_unsafe
      /\ ~ t.isolation => \A e \in KeyList(t.keys) : \A s \in Dependencies(c, e) : s \in Int /\ v >= s
  <2>1. /\ BaseDependency(c, t) \in DependsOn(c, t, KeyList(t.keys))
        /\ c.last_pa_unsafe \in DependsOn(c, t, KeyList(t.keys))
    BY DEF DependsOn
  <2>2. ASSUME ~ t.isolation, NEW e \in KeyList(t.keys), NEW s \in Dependencies(c, e)
        PROVE  s \in DependsOn(c, t, KeyList(t.keys))
    BY <2>2 DEF DependsOn
  <2>. QED BY <1>0, <2>1, <2>2
<1>. SUFFICES g <= v
  OBVIOUS
<1>. HIDE DEF v
<1>2. CASE t.pa_unsafe \/ t.isolation
  BY <1>1, <1>2, BaseFacts
<1>3. CASE l[g].pa_unsafe
  <2>1. g <= c.last_pa_unsafe
    BY <1>3 DEF Tests, CertOK, UnsafeOK, PassedIn
  <2>. QED BY <1>1, <2>1
<1>4. CASE Dependent(l[g], t) /\ ~ t.isolation /\ ~ t.pa_unsafe
  <2>1. CASE g <= c.initial_position
    BY <1>1, <2>1
  <2>2. CASE g > c.initial_position /\ g \notin DOMAIN c.trx_map
    <3>1. g \in (c.initial_position + 1)..Len(l)
      BY <2>2
    <3>2. \A h \in DOMAIN c.trx_map : g < h
      BY <2>2, <3>1 DEF Tests, CertOK, TrxMapOK, PassedIn
    <3>3. CASE DOMAIN c.trx_map = {}
      BY <1>1, <3>3, BaseFacts
    <3>4. CASE DOMAIN c.trx_map # {}
      <4>1. PICK m \in DOMAIN c.trx_map : BaseDependency(c, t) >= m - 1
        BY <3>4, BaseFacts
      <4>2. g < m /\ m \in Int /\ BaseDependency(c, t) \in Int
        BY <3>2, BaseFacts
      <4>. QED BY <1>1, <4>1, <4>2
    <3>. QED BY <3>3, <3>4
  <2>3. CASE g \in DOMAIN c.trx_map
    <3>1. ShortFirst(l[g].keys)
      BY DEF AllShortFirst
    <3>2. \/ \E e \in KeyList(t.keys) : RefExclusive(c, e).global_seqno >= g
          \/ \E e \in KeyList(t.keys) :
                ~ e.shared /\ (\/ RefExclusive(c, e).global_seqno >= g
                               \/ RefShared(c, e).global_seqno >= g)
      BY <1>4, <2>3, <3>1, RefCovers DEF Dependent
    <3>3. PICK e \in KeyList(t.keys) : \E s \in Dependencies(c, e) : s >= g
      BY <3>2 DEF Dependencies
    <3>4. PICK s \in Dependencies(c, e) : s >= g
      BY <3>3
    <3>. QED BY <1>1, <1>4, <3>4
  <2>. QED BY <2>1, <2>2, <2>3
<1>. QED BY <1>2, <1>3, <1>4

----------------------------------------------------------------------------
(* deps_set_.                                                              *)

\* The last_seen_seqno of the write sets with seqnos P of log l, who of them has
\* s, and the bag of them
SeenOf(P, l) == {l[g].last_seen_seqno : g \in P}
WhoSaw(P, l, s) == {g \in P : l[g].last_seen_seqno = s}
BagOf(P, l) == [s \in SeenOf(P, l) |-> Cardinality(WhoSaw(P, l, s))]

\* How often a number is in it.
LEMMA CountFacts ==
    ASSUME NEW P, IsFiniteSet(P), NEW l, NEW s
    PROVE  /\ IsFiniteSet(WhoSaw(P, l, s)) /\ Cardinality(WhoSaw(P, l, s)) \in Nat
           /\ Cardinality(WhoSaw(P, l, s)) = 0 <=> s \notin SeenOf(P, l)
<1>1. WhoSaw(P, l, s) \subseteq P
  BY DEF WhoSaw
<1>2. WhoSaw(P, l, s) = {} <=> s \notin SeenOf(P, l)
  BY DEF WhoSaw, SeenOf
<1>3. IsFiniteSet(WhoSaw(P, l, s)) /\ Cardinality(WhoSaw(P, l, s)) \in Nat
  BY <1>1, FS_Subset, FS_CardinalityType
<1>4. Cardinality(WhoSaw(P, l, s)) = 0 <=> WhoSaw(P, l, s) = {}
  BY <1>3, FS_EmptySet
<1>. QED BY <1>2, <1>3, <1>4

\* append_trx() adds one.
LEMMA BagAdd ==
    ASSUME NEW P, IsFiniteSet(P), NEW l, NEW n, n \notin P
    PROVE  BagOf(P \cup {n}, l) = BagOf(P, l) (+) SetToBag({l[n].last_seen_seqno})
<1>. DEFINE x == l[n].last_seen_seqno
            Q == P \cup {n}
            R == BagOf(P, l) (+) SetToBag({x})
<1>1. DOMAIN BagOf(P, l) = SeenOf(P, l) /\ DOMAIN BagOf(Q, l) = SeenOf(P, l) \cup {x}
  BY DEF BagOf, SeenOf
<1>2. DOMAIN R = SeenOf(P, l) \cup {x}
  BY <1>1 DEF (+), SetToBag
<1>3. ASSUME NEW s \in SeenOf(P, l) \cup {x} PROVE BagOf(Q, l)[s] = R[s]
  <2>1. BagOf(Q, l)[s] = Cardinality(WhoSaw(Q, l, s))
    BY <1>1, <1>3 DEF BagOf
  <2>2. R[s] = (IF s \in SeenOf(P, l) THEN Cardinality(WhoSaw(P, l, s)) ELSE 0)
                 + (IF s = x THEN 1 ELSE 0)
    BY <1>3 DEF BagOf, (+), SetToBag
  <2>3. /\ IsFiniteSet(WhoSaw(P, l, s)) /\ Cardinality(WhoSaw(P, l, s)) \in Nat
        /\ Cardinality(WhoSaw(P, l, s)) = 0 <=> s \notin SeenOf(P, l)
    BY CountFacts
  <2>4. CASE s = x
    <3>1. WhoSaw(Q, l, s) = WhoSaw(P, l, s) \cup {n} /\ n \notin WhoSaw(P, l, s)
      BY <2>4 DEF WhoSaw
    <3>2. Cardinality(WhoSaw(P, l, s) \cup {n}) = Cardinality(WhoSaw(P, l, s)) + 1
      BY <2>3, <3>1, FS_AddElement
    <3>. QED BY <2>1, <2>2, <2>3, <2>4, <3>1, <3>2
  <2>5. CASE s # x
    <3>1. WhoSaw(Q, l, s) = WhoSaw(P, l, s) /\ s \in SeenOf(P, l)
      BY <1>3, <2>5 DEF WhoSaw
    <3>. HIDE DEF x, Q, R
    <3>. QED BY <2>1, <2>2, <2>3, <2>5, <3>1
  <2>. QED BY <2>4, <2>5
<1>4. /\ BagOf(Q, l) = [s \in DOMAIN BagOf(Q, l) |-> BagOf(Q, l)[s]]
      /\ R = [s \in DOMAIN R |-> R[s]]
  BY DEF BagOf, (+)
<1>. HIDE DEF Q, R, x
<1>5. BagOf(Q, l) = R
  BY <1>1, <1>2, <1>3, <1>4
<1>. QED BY <1>5 DEF Q, R, x

\* set_trx_committed() takes one away.
LEMMA BagRemove ==
    ASSUME NEW P, IsFiniteSet(P), NEW l, NEW n \in P
    PROVE  BagOf(P \ {n}, l) = BagOf(P, l) (-) SetToBag({l[n].last_seen_seqno})
<1>. DEFINE x == l[n].last_seen_seqno
            Q == P \ {n}
            D == SeenOf(P, l)
            E == SeenOf(Q, l)
            R == BagOf(P, l) (-) SetToBag({x})
            B == [e \in D |-> IF e = x THEN Cardinality(WhoSaw(P, l, e)) - 1
                              ELSE Cardinality(WhoSaw(P, l, e))]
<1>1. DOMAIN BagOf(Q, l) = E /\ \A s \in E : BagOf(Q, l)[s] = Cardinality(WhoSaw(Q, l, s))
  BY DEF BagOf
<1>2. R = [e \in {d \in D : B[d] > 0} |-> B[e]]
  BY DEF BagOf, (-), SetToBag
<1>3. IsFiniteSet(Q)
  BY FS_Subset
<1>. HIDE DEF Q
<1>4. ASSUME NEW s \in D PROVE B[s] = Cardinality(WhoSaw(Q, l, s)) /\ (B[s] > 0 <=> s \in E)
  <2>1. /\ IsFiniteSet(WhoSaw(P, l, s)) /\ Cardinality(WhoSaw(P, l, s)) \in Nat
    BY CountFacts
  <2>2. /\ Cardinality(WhoSaw(Q, l, s)) \in Nat
        /\ Cardinality(WhoSaw(Q, l, s)) = 0 <=> s \notin E
    BY <1>3, CountFacts
  <2>3. CASE s = x
    <3>1. WhoSaw(Q, l, s) = WhoSaw(P, l, s) \ {n} /\ n \in WhoSaw(P, l, s)
      BY <2>3 DEF WhoSaw, Q
    <3>2. B[s] = Cardinality(WhoSaw(P, l, s)) - 1
      BY <1>4, <2>3
    <3>. HIDE DEF B, E
    <3>3. Cardinality(WhoSaw(P, l, s) \ {n}) = Cardinality(WhoSaw(P, l, s)) - 1
      BY <2>1, <3>1, FS_RemoveElement
    <3>4. B[s] = Cardinality(WhoSaw(Q, l, s))
      BY <3>1, <3>2, <3>3
    <3>. QED BY <2>2, <3>4
  <2>4. CASE s # x
    <3>1. WhoSaw(Q, l, s) = WhoSaw(P, l, s)
      BY <2>4 DEF WhoSaw, Q
    <3>2. B[s] = Cardinality(WhoSaw(P, l, s))
      BY <1>4, <2>4
    <3>. HIDE DEF B, E
    <3>. QED BY <2>2, <3>1, <3>2
  <2>. QED BY <2>3, <2>4
<1>5. E \subseteq D
  BY DEF SeenOf, Q
<1>6. BagOf(Q, l) = [s \in DOMAIN BagOf(Q, l) |-> BagOf(Q, l)[s]]
  BY DEF BagOf
<1>. HIDE DEF R, D, E, x, B
<1>7. BagOf(Q, l) = R
  BY <1>1, <1>2, <1>4, <1>5, <1>6
<1>. QED BY <1>7 DEF Q, R, x

\* The bag depends on these write sets only.
LEMMA BagSame ==
    ASSUME NEW P, NEW l, NEW l1, \A g \in P : l1[g] = l[g]
    PROVE  BagOf(P, l1) = BagOf(P, l)
<1>1. SeenOf(P, l1) = SeenOf(P, l)
  BY DEF SeenOf
<1>2. \A s : WhoSaw(P, l1, s) = WhoSaw(P, l, s)
  BY DEF WhoSaw
<1>. QED BY <1>1, <1>2 DEF BagOf

\* The least of some seqnos.
LEMMA MinNat ==
    ASSUME NEW S \in SUBSET Nat, S # {}
    PROVE  \E m \in S : m = Min(S) /\ \A s \in S : m <= s
<1>1. S \in SUBSET Int /\ 0 \in Int /\ \A s \in S : 0 <= s
  OBVIOUS
<1>2. Min(S) \in S /\ \A s \in S : Min(S) <= s
  BY <1>1, MinExists
<1>. QED BY <1>2

\* get_safe_to_discard_seqno_() spares what is not committed.
LEMMA SafeFacts ==
    ASSUME CertInv
    PROVE  /\ SafeToDiscard(cert) \in Int
           /\ \A g \in Pending : g > SafeToDiscard(cert)
<1>. DEFINE D == {log[g].last_seen_seqno : g \in Pending}
<1>1. /\ DOMAIN log = 1..Len(log) /\ Len(log) \in Nat
      /\ \A g \in Pending : g \in Nat /\ log[g].last_seen_seqno \in Nat /\ log[g].last_seen_seqno < g
  BY LogFacts DEF CertInv, Pending
<1>2. DOMAIN cert.deps_set = D /\ cert.safe_to_discard_seqno \in Int
  BY DEF CertInv, DepsOK, CertOK
<1>3. CASE cert.deps_set = EmptyBag
  <2>1. D = {}
    BY <1>2, <1>3 DEF EmptyBag, SetToBag
  <2>2. Pending = {}
    BY <2>1
  <2>. QED BY <1>2, <1>3, <2>2 DEF SafeToDiscard
<1>4. CASE cert.deps_set # EmptyBag
  <2>1. D # {}
    <3>1. SUFFICES ASSUME D = {} PROVE FALSE
      OBVIOUS
    <3>2. cert.deps_set = [s \in {} |-> 1]
      BY <1>2, <3>1 DEF CertInv, DepsOK
    <3>. QED BY <1>4, <3>2 DEF EmptyBag, SetToBag
  <2>2. D \in SUBSET Nat
    BY <1>1
  <2>3. SafeToDiscard(cert) = Min(D) - 1
    BY <1>2, <1>4 DEF SafeToDiscard, BagToSet
  <2>4. \A g \in Pending : log[g].last_seen_seqno \in D
    OBVIOUS
  <2>. HIDE DEF D
  <2>5. PICK m \in D : m = Min(D) /\ \A s \in D : m <= s
    BY <2>1, <2>2, MinNat
  <2>6. m \in Int /\ SafeToDiscard(cert) = m - 1
    BY <2>2, <2>3, <2>5
  <2>7. ASSUME NEW g \in Pending PROVE g > m - 1
    <3>1. g \in Int /\ log[g].last_seen_seqno \in Int /\ log[g].last_seen_seqno < g
      BY <1>1
    <3>2. m <= log[g].last_seen_seqno
      BY <2>4, <2>5
    <3>. QED BY <2>6, <3>1, <3>2
  <2>. QED BY <2>6, <2>7
<1>. QED BY <1>3, <1>4


----------------------------------------------------------------------------
(* Operations.                                                             *)

\* The greater of a number and 0.
LEMMA MaxWithZero ==
    ASSUME NEW x \in Int
    PROVE  Max({0, x}) \in Int /\ Max({0, x}) >= 0
<1>1. PICK b \in {0, x} : b >= x /\ b >= 0
  OBVIOUS
<1>2. {0, x} \in SUBSET Int /\ {0, x} # {} /\ b \in Int /\ \A y \in {0, x} : y <= b
  BY <1>1
<1>3. Max({0, x}) \in {0, x} /\ \A y \in {0, x} : Max({0, x}) >= y
  BY <1>2, MaxExists
<1>. QED BY <1>3

\* trx is the next write set of the total order
IsNext(trx) ==
    trx \in LogEntry /\ trx.global_seqno = Len(log) + 1 /\ trx.last_seen_seqno < Len(log) + 1

\* The write sets of the total order are what is to be tested.
LEMMA NextFacts ==
    ASSUME CertInv, Len(log) < Len(WriteSets),
           NEW source \in Sources, NEW ws \in WriteSets[Len(log) + 1],
           NEW last_seen \in Max({0, Len(log) - MaxLength})..Len(log)
    PROVE  /\ IsNext(NextTrx(source, ws, last_seen))
           /\ ShortKeysFirst => ShortFirst(NextTrx(source, ws, last_seen).keys)
<1>1. Len(log) \in Nat
  BY LogFacts DEF CertInv
<1>2. last_seen \in Nat /\ last_seen <= Len(log)
  <2>1. Len(log) - MaxLength \in Int
    BY <1>1, MaxLengthAssumption
  <2>. DEFINE x == Len(log) - MaxLength
  <2>2. x \in Int
    BY <2>1
  <2>. HIDE DEF x
  <2>3. Max({0, x}) \in Int /\ Max({0, x}) >= 0
    BY <2>2, MaxWithZero
  <2>4. last_seen \in Max({0, x})..Len(log)
    BY DEF x
  <2>. QED BY <1>1, <2>3, <2>4
<1>3. Len(log) + 1 \in DOMAIN WriteSets
  BY <1>1, WriteSetsAssumption
<1>4. ws \in [keys : Seq(Key), isolation : BOOLEAN, pa_unsafe : BOOLEAN]
  BY <1>3, WriteSetsAssumption
<1>5. ShortKeysFirst => ShortFirst(ws.keys)
  BY <1>3 DEF ShortKeysFirst
<1>. QED BY <1>1, <1>2, <1>4, <1>5 DEF IsNext, NextTrx, LogEntry, FAILED

\* What CertOK looks at.
LEMMA SameOK ==
    ASSUME NEW c, NEW l, NEW n, NEW k, CertOK(c, l, n, k),
           NEW d, DOMAIN d = CertFields, d.safe_to_discard_seqno \in Int,
           d.trx_map = c.trx_map, d.cert_index = c.cert_index,
           d.initial_position = c.initial_position, d.last_pa_unsafe = c.last_pa_unsafe
    PROVE  CertOK(d, l, n, k)
<1>1. TrxMapOK(d, l, n, k)
  BY DEF CertOK, TrxMapOK
<1>2. UnsafeOK(d, l)
  BY DEF CertOK, UnsafeOK
<1>3. IndexOK(d, l)
  BY DEF CertOK, IndexOK
<1>. QED BY <1>1, <1>2, <1>3 DEF CertOK

\* What is out of reach stays so.
LEMMA LaterOK ==
    ASSUME NEW c, NEW l, LogOK(l), NEW k, k \in Int, CertOK(c, l, Len(l), k)
    PROVE  CertOK(c, l, Len(l) + 1, k)
<1>1. Len(l) \in Nat /\ MaxLength \in Nat
  BY LogFacts, MaxLengthAssumption
<1>2. TrxMapOK(c, l, Len(l) + 1, k)
  <2>1. TrxMapOK(c, l, Len(l), k)
    BY DEF CertOK
  <2>2. c.initial_position \in Nat
    BY <1>1, <2>1 DEF TrxMapOK
  <2>3. \A g \in Int : g < Len(l) - MaxLength => g < Len(l) + 1 - MaxLength
    BY <1>1
  <2>4. \A g \in (c.initial_position + 1)..Len(l) :
           l[g].depends_seqno # FAILED /\ g \notin DOMAIN c.trx_map =>
              /\ \A h \in DOMAIN c.trx_map : g < h
              /\ g < k \/ g < (Len(l) + 1) - MaxLength
    <3>1. SUFFICES ASSUME NEW g \in (c.initial_position + 1)..Len(l),
                          l[g].depends_seqno # FAILED, g \notin DOMAIN c.trx_map
                   PROVE  /\ \A h \in DOMAIN c.trx_map : g < h
                          /\ g < k \/ g < (Len(l) + 1) - MaxLength
      OBVIOUS
    <3>2. g \in Int
      BY <1>1, <2>2
    <3>3. /\ \A h \in DOMAIN c.trx_map : g < h
          /\ g < k \/ g < Len(l) - MaxLength
      BY <2>1, <3>1 DEF TrxMapOK
    <3>4. g < Len(l) - MaxLength => g < (Len(l) + 1) - MaxLength
      BY <1>1, <2>2
    <3>. QED BY <3>3, <3>4
  <2>5. /\ c.initial_position \in 0..Len(l)
        /\ DOMAIN c.trx_map \subseteq (c.initial_position + 1)..Len(l)
        /\ \A g \in DOMAIN c.trx_map : c.trx_map[g] <=> l[g].depends_seqno # FAILED
    BY <2>1 DEF TrxMapOK
  <2>. QED BY <2>4, <2>5, Zenon DEF TrxMapOK
<1>. QED BY <1>2 DEF CertOK

\* set_trx_committed() only changes deps_set_.
LEMMA CommittedOK ==
    ASSUME NEW c, NEW l, NEW n, NEW k, CertOK(c, l, n, k), NEW t, t.last_seen_seqno \in Int
    PROVE  LET d == set_trx_committed(c, t)
           IN  /\ CertOK(d, l, n, k) /\ d.trx_map = c.trx_map
               /\ d.initial_position = c.initial_position
               /\ d.deps_set = c.deps_set (-) SetToBag({t.last_seen_seqno})
<1>. DEFINE d == set_trx_committed(c, t)
<1>1. DOMAIN c = CertFields /\ c.safe_to_discard_seqno \in Int
  BY DEF CertOK
<1>2. /\ DOMAIN d = CertFields /\ d.trx_map = c.trx_map /\ d.cert_index = c.cert_index
      /\ d.initial_position = c.initial_position /\ d.last_pa_unsafe = c.last_pa_unsafe
      /\ d.deps_set = c.deps_set (-) SetToBag({t.last_seen_seqno})
      /\ d.safe_to_discard_seqno \in {t.last_seen_seqno, c.safe_to_discard_seqno}
  BY <1>1 DEF set_trx_committed, CertFields
<1>3. d.safe_to_discard_seqno \in Int
  BY <1>1, <1>2
<1>. HIDE DEF d
<1>4. CertOK(d, l, n, k)
  BY <1>2, <1>3, SameOK
<1>. QED BY <1>2, <1>4 DEF d

\* The first part of append_trx(): the index is cut if it is too long.
LEMMA TrimmedOK ==
    ASSUME CertInv, NEW trx, IsNext(trx)
    PROVE  LET c == Trimmed(cert, trx)
           IN  /\ CertOK(c, log, Len(log) + 1, cut)
               /\ c.deps_set = cert.deps_set /\ c.initial_position = cert.initial_position
               /\ DOMAIN c.trx_map \subseteq DOMAIN cert.trx_map
               /\ \A g \in DOMAIN cert.trx_map \ DOMAIN c.trx_map : g \notin Pending
<1>. DEFINE at == [cert EXCEPT !.position = trx.global_seqno]
            n == Len(log) + 1
            s == Min({n - MaxLength, SafeToDiscard(at)})
            c == Trimmed(cert, trx)
<1>1. LogOK(log) /\ cut \in Int /\ CertOK(cert, log, Len(log), cut) /\ DOMAIN cert = CertFields
  BY DEF CertInv, CertOK
<1>2. Len(log) \in Nat /\ n \in Int /\ MaxLength \in Int /\ trx.global_seqno = n
  BY <1>1, LogFacts, MaxLengthAssumption DEF IsNext
<1>3. /\ DOMAIN at = CertFields /\ at.trx_map = cert.trx_map /\ at.cert_index = cert.cert_index
      /\ at.deps_set = cert.deps_set /\ at.initial_position = cert.initial_position
      /\ at.safe_to_discard_seqno = cert.safe_to_discard_seqno
      /\ at.last_pa_unsafe = cert.last_pa_unsafe
  BY <1>1 DEF CertFields
<1>4. SafeToDiscard(at) = SafeToDiscard(cert)
  BY <1>3 DEF SafeToDiscard
<1>5. c = at \/ c = PurgeUpto(at, s)
  BY <1>2 DEF Trimmed
<1>. HIDE DEF at
<1>6. CertOK(at, log, Len(log), cut)
  BY <1>1, <1>3, SameOK DEF CertOK
<1>7. CASE c = at
  <2>1. CertOK(at, log, Len(log) + 1, cut)
    BY <1>1, <1>6, LaterOK
  <2>. QED BY <1>3, <1>7, <2>1
<1>8. CASE c = PurgeUpto(at, s)
  <2>1. /\ SafeToDiscard(cert) \in Int
        /\ \A g \in Pending : g > SafeToDiscard(cert)
    BY SafeFacts
  <2>2. s \in Int /\ s <= n - MaxLength /\ s <= SafeToDiscard(cert)
    <3>1. n - MaxLength \in Int
      BY <1>2
    <3>. QED BY <1>4, <2>1, <3>1, MinOfTwo
  <2>. HIDE DEF s, c
  <2>3. /\ CertOK(c, log, n, cut)
        /\ c.deps_set = at.deps_set /\ c.initial_position = at.initial_position
        /\ DOMAIN c.trx_map = {g \in DOMAIN at.trx_map : g >= s}
    <3>1. Len(log) <= n /\ Len(log) \in Int /\ cut <= cut
      BY <1>1, <1>2
    <3>2. s <= cut \/ s <= n - MaxLength
      BY <2>2
    <3>. HIDE DEF n
    <3>4. Purges(at, log, Len(log), cut, n, cut, s)
      BY <1>1, <1>2, <1>6, <2>2, <3>1, <3>2 DEF Purges
    <3>3. LET d == PurgeUpto(at, s)
          IN  /\ CertOK(d, log, n, cut)
              /\ d.deps_set = at.deps_set /\ d.initial_position = at.initial_position
              /\ DOMAIN d.trx_map = {g \in DOMAIN at.trx_map : g >= s}
      BY <3>4, PurgeOK
    <3>. QED BY <1>8, <3>3
  <2>4. DOMAIN cert.trx_map \subseteq Int
    BY <1>1, <1>2 DEF CertOK, TrxMapOK
  <2>5. ASSUME NEW g \in DOMAIN cert.trx_map \ DOMAIN c.trx_map PROVE g \notin Pending
    <3>1. g \in Int /\ ~ (g >= s)
      BY <1>3, <2>3, <2>4
    <3>2. ~ (g > SafeToDiscard(cert))
      BY <2>1, <2>2, <3>1
    <3>. QED BY <2>1, <3>2
  <2>. QED BY <1>3, <2>3, <2>5 DEF c
<1>. QED BY <1>5, <1>7, <1>8


\* The test of the next write set, and what append_trx() leaves.
LEMMA AppendFacts ==
    ASSUME CertInv, NEW trx, IsNext(trx),
           NEW passed \in BOOLEAN, passed <=> Verdict(cert, trx) # FAILED
    PROVE  LET c == Trimmed(cert, trx)
               a == append_trx(cert, trx)
           IN  /\ Tests(c, log, cut, trx) /\ Verdict(cert, trx) = do_test(c, trx, TRUE)
               /\ Verdict(cert, trx) \in Nat \cup {FAILED}
               /\ Appends(c, trx, passed, a)
               /\ a.deps_set = cert.deps_set (+) SetToBag({trx.last_seen_seqno})
               /\ DOMAIN a.trx_map = DOMAIN c.trx_map \cup {Len(log) + 1}
               /\ a.initial_position = cert.initial_position
<1>. DEFINE c == Trimmed(cert, trx)
            a == append_trx(cert, trx)
<1>1. /\ CertOK(c, log, Len(log) + 1, cut)
      /\ c.deps_set = cert.deps_set /\ c.initial_position = cert.initial_position
  BY TrimmedOK
<1>2. Verdict(cert, trx) = do_test(c, trx, TRUE) /\ trx.global_seqno = Len(log) + 1
  BY DEF Verdict, IsNext
<1>3. Tests(c, log, cut, trx)
  BY <1>1 DEF Tests, CertInv, IsNext
<1>4. DOMAIN c = CertFields /\ c.safe_to_discard_seqno \in Int
  BY <1>1 DEF CertOK
<1>5. a = [c EXCEPT
             !.cert_index = IF passed THEN Referenced(c, trx) ELSE c.cert_index,
             !.last_pa_unsafe = IF passed /\ trx.pa_unsafe THEN trx.global_seqno
                                ELSE c.last_pa_unsafe,
             !.trx_map = [g \in DOMAIN c.trx_map \cup {trx.global_seqno} |->
                            IF g = trx.global_seqno THEN passed ELSE c.trx_map[g]],
             !.deps_set = c.deps_set (+) SetToBag({trx.last_seen_seqno})]
  <2>1. do_test(Trimmed(cert, trx), trx, TRUE) # FAILED <=> passed
    BY <1>2
  <2>. QED BY <1>4, <2>1 DEF append_trx, CertFields
<1>. HIDE DEF c
<1>6. /\ Appends(c, trx, passed, a) /\ a.deps_set = c.deps_set (+) SetToBag({trx.last_seen_seqno})
      /\ a.initial_position = c.initial_position
      /\ DOMAIN a.trx_map = DOMAIN c.trx_map \cup {trx.global_seqno}
  <2>. DEFINE i == IF passed THEN Referenced(c, trx) ELSE c.cert_index
              u == IF passed /\ trx.pa_unsafe THEN trx.global_seqno ELSE c.last_pa_unsafe
              m == [g \in DOMAIN c.trx_map \cup {trx.global_seqno} |->
                       IF g = trx.global_seqno THEN passed ELSE c.trx_map[g]]
              b == c.deps_set (+) SetToBag({trx.last_seen_seqno})
  <2>1. a = [c EXCEPT !.cert_index = i, !.last_pa_unsafe = u, !.trx_map = m, !.deps_set = b]
    BY <1>5
  <2>2. DOMAIN m = DOMAIN c.trx_map \cup {trx.global_seqno}
    OBVIOUS
  <2>. HIDE DEF i, u, m, b, a
  <2>3. /\ DOMAIN a = CertFields /\ a.cert_index = i /\ a.last_pa_unsafe = u /\ a.trx_map = m
        /\ a.deps_set = b /\ a.initial_position = c.initial_position
        /\ a.safe_to_discard_seqno = c.safe_to_discard_seqno
    BY <1>4, <2>1 DEF CertFields
  <2>. QED BY <1>4, <2>2, <2>3 DEF Appends, i, u, m, b
<1>7. Verdict(cert, trx) \in Nat \cup {FAILED}
  <2>1. do_test(c, trx, TRUE) = TestWith(c, trx, KeyList(trx.keys))
    BY TestCases
  <2>2. \A E : TestWith(c, trx, E) \in Nat \cup {FAILED}
    BY <1>3, TestResult
  <2>. QED BY <1>2, <2>1, <2>2
<1>. QED BY <1>1, <1>2, <1>3, <1>6, <1>7 DEF c

\* deps_set_ as a bag of the pending write sets.
LEMMA DepsBag == DepsOK <=> cert.deps_set = BagOf(Pending, log)
  BY DEF DepsOK, BagOf, SeenOf, WhoSaw

LEMMA DepsBagPrime == DepsOK' <=> cert'.deps_set = BagOf(Pending', log')
  BY DEF DepsOK, BagOf, SeenOf, WhoSaw

\* The write sets that are not committed are finitely many.
LEMMA PendingFinite ==
    ASSUME CertInv
    PROVE  /\ IsFiniteSet(Pending) /\ Pending \subseteq 1..Len(log)
           /\ Len(log) \in Nat /\ DOMAIN log = 1..Len(log)
           /\ Len(log) + 1 \notin Pending /\ Len(log) + 1 \notin done /\ done \subseteq 1..Len(log)
<1>1. Len(log) \in Nat /\ DOMAIN log = 1..Len(log) /\ done \subseteq 1..Len(log)
  BY LogFacts DEF CertInv
<1>2. Pending \subseteq 1..Len(log)
  BY <1>1 DEF Pending
<1>3. IsFiniteSet(1..Len(log))
  BY <1>1, FS_Interval
<1>4. IsFiniteSet(Pending)
  BY <1>2, <1>3, FS_Subset
<1>. QED BY <1>1, <1>2, <1>4


----------------------------------------------------------------------------
(* Every step keeps CertInv, and purges only what is committed.            *)

\* In the initial state there is nothing.
LEMMA CertInit == ASSUME Init PROVE CertInv /\ untimely = {}
<1>1. /\ cert.trx_map = <<>> /\ cert.cert_index = <<>> /\ cert.deps_set = EmptyBag
      /\ cert.initial_position = 0 /\ cert.last_pa_unsafe = 0
      /\ cert.safe_to_discard_seqno = 0 /\ DOMAIN cert = CertFields
  BY DEF Init, NewCertification, assign_initial_position, CertFields
<1>2. log = <<>> /\ done = {} /\ cut = 0 /\ untimely = {}
  BY DEF Init
<1>3. LogOK(log) /\ Pending = {} /\ Len(log) = 0 /\ DOMAIN log = {}
  BY <1>2 DEF LogOK, Pending
<1>4. DepsOK
  BY <1>1, <1>3 DEF DepsOK, EmptyBag, SetToBag
<1>5. CertOK(cert, log, Len(log), cut)
  <2>1. DOMAIN cert.trx_map = {} /\ DOMAIN cert.cert_index = {}
    BY <1>1
  <2>2. TrxMapOK(cert, log, Len(log), cut)
    BY <1>1, <1>3, <2>1 DEF TrxMapOK
  <2>3. UnsafeOK(cert, log) /\ IndexOK(cert, log)
    BY <1>1, <1>3, <2>1 DEF UnsafeOK, IndexOK
  <2>. QED BY <1>1, <2>2, <2>3 DEF CertOK
<1>. QED BY <1>2, <1>3, <1>4, <1>5 DEF CertInv

\* The next write set is put into the log.
LEMMA OrderedFacts ==
    ASSUME CertInv, NEW trx, IsNext(trx), NEW depends \in Nat \cup {FAILED}, Ordered(trx, depends)
    PROVE  /\ Extends(log, trx, depends, log') /\ LogOK(log') /\ Len(log') = Len(log) + 1
           /\ DOMAIN log' = 1..(Len(log) + 1) /\ Len(log) \in Nat
           /\ \A g \in 1..Len(log) : log'[g] = log[g]
           /\ log'[Len(log) + 1].last_seen_seqno = trx.last_seen_seqno
           /\ BagOf(Pending, log') = BagOf(Pending, log)
           /\ BagOf(Pending \cup {Len(log) + 1}, log')
                 = BagOf(Pending, log) (+) SetToBag({trx.last_seen_seqno})
<1>. DEFINE l1 == log'
<1>1. Extends(log, trx, depends, l1) /\ LogOK(log)
  BY DEF Extends, IsNext, Ordered, CertInv
<1>. HIDE DEF l1
<1>2. /\ LogOK(l1) /\ Len(l1) = Len(log) + 1 /\ DOMAIN l1 = 1..(Len(log) + 1)
      /\ \A g \in 1..Len(log) : l1[g] = log[g]
      /\ l1[Len(log) + 1].last_seen_seqno = trx.last_seen_seqno
  BY <1>1, ExtendLog
<1>3. IsFiniteSet(Pending) /\ Pending \subseteq 1..Len(log) /\ Len(log) + 1 \notin Pending /\ Len(log) \in Nat
  BY PendingFinite
<1>4. BagOf(Pending, l1) = BagOf(Pending, log)
  <2>1. \A g \in Pending : l1[g] = log[g]
    BY <1>2, <1>3
  <2>. QED BY <2>1, BagSame
<1>5. BagOf(Pending \cup {Len(log) + 1}, l1) = BagOf(Pending, l1) (+) SetToBag({l1[Len(log) + 1].last_seen_seqno})
  BY <1>3, BagAdd
<1>. QED BY <1>1, <1>2, <1>3, <1>4, <1>5 DEF l1

\* append_trx(), and set_trx_committed() at once if the test failed.
LEMMA CertifyKeeps ==
    ASSUME CertInv, untimely = {}, NEW trx, IsNext(trx), Certify(trx)
    PROVE  CertInv' /\ untimely' = {}
<1>. DEFINE n == Len(log) + 1
            c == Trimmed(cert, trx)
            a == append_trx(cert, trx)
            v == Verdict(cert, trx)
            passed == v # FAILED
<1>1. Ordered(trx, v) /\ cut' = cut
  BY DEF Certify
<1>0. cut' \in Int
  BY <1>1 DEF CertInv
<1>2. /\ Tests(c, log, cut, trx) /\ v \in Nat \cup {FAILED}
      /\ Appends(c, trx, passed, a)
      /\ a.deps_set = cert.deps_set (+) SetToBag({trx.last_seen_seqno})
      /\ DOMAIN a.trx_map = DOMAIN c.trx_map \cup {n}
  <2>1. passed \in BOOLEAN /\ (passed <=> Verdict(cert, trx) # FAILED)
    OBVIOUS
  <2>. HIDE DEF passed
  <2>. QED BY <2>1, AppendFacts
<1>3. /\ Extends(log, trx, v, log') /\ LogOK(log') /\ Len(log') = n
      /\ DOMAIN log' = 1..n /\ Len(log) \in Nat
      /\ \A g \in 1..Len(log) : log'[g] = log[g]
      /\ log'[n].last_seen_seqno = trx.last_seen_seqno
      /\ BagOf(Pending, log') = BagOf(Pending, log)
      /\ BagOf(Pending \cup {n}, log') = BagOf(Pending, log) (+) SetToBag({trx.last_seen_seqno})
  BY <1>1, <1>2, OrderedFacts
<1>4. CertOK(a, log', n, cut)
  <2>. DEFINE l1 == log'
  <2>1. passed \in BOOLEAN /\ (passed <=> v # FAILED) /\ Extends(log, trx, v, l1) /\ Len(l1) = n
    BY <1>3
  <2>2. LogOK(log) /\ cut \in Int /\ CertOK(c, log, Len(log) + 1, cut) /\ Appends(c, trx, passed, a)
    BY <1>2 DEF Tests
  <2>. HIDE DEF passed, l1, v, c, a
  <2>3. CertOK(a, l1, Len(l1), cut)
    BY <2>1, <2>2, AppendOK
  <2>. QED BY <2>1, <2>3 DEF l1
<1>5. IsFiniteSet(Pending) /\ Pending \subseteq 1..Len(log) /\ n \notin Pending
      /\ n \notin done /\ done \subseteq 1..Len(log)
  BY PendingFinite
<1>6. cert.deps_set = BagOf(Pending, log)
  BY DepsBag DEF CertInv
<1>7. ASSUME v # FAILED PROVE CertInv'
  <2>1. cert' = a /\ done' = done
    BY <1>7 DEF Certify
  <2>2. Pending' = Pending \cup {n}
    BY <1>3, <1>5, <2>1 DEF Pending, CertInv
  <2>3. DepsOK'
    BY <1>2, <1>3, <1>6, <2>1, <2>2, DepsBagPrime
  <2>4. CertOK(cert', log', Len(log'), cut')
    BY <1>1, <1>3, <1>4, <2>1
  <2>. QED BY <1>0, <1>3, <1>5, <2>1, <2>3, <2>4 DEF CertInv
<1>8. ASSUME v = FAILED PROVE CertInv'
  <2>1. cert' = set_trx_committed(a, trx) /\ done' = done \cup {n}
    BY <1>8 DEF Certify, Committed, IsNext
  <2>2. Pending' = Pending
    BY <1>3, <1>5, <2>1 DEF Pending, CertInv
  <2>3. /\ CertOK(cert', log', n, cut)
        /\ cert'.deps_set = a.deps_set (-) SetToBag({trx.last_seen_seqno})
    <3>1. trx.last_seen_seqno \in Int
      BY DEF IsNext, LogEntry
    <3>. HIDE DEF a, n
    <3>. QED BY <1>4, <2>1, <3>1, CommittedOK
  <2>4. BagOf((Pending \cup {n}) \ {n}, log')
           = BagOf(Pending \cup {n}, log') (-) SetToBag({log'[n].last_seen_seqno})
    <3>1. IsFiniteSet(Pending \cup {n}) /\ n \in Pending \cup {n}
      BY <1>5, FS_AddElement
    <3>. QED BY <3>1, BagRemove
  <2>5. (Pending \cup {n}) \ {n} = Pending
    BY <1>5
  <2>6. DepsOK'
    BY <1>2, <1>3, <1>6, <2>2, <2>3, <2>4, <2>5, DepsBagPrime
  <2>7. CertOK(cert', log', Len(log'), cut')
    BY <1>1, <1>3, <2>3
  <2>. QED BY <1>0, <1>3, <1>5, <2>1, <2>6, <2>7 DEF CertInv
<1>9. untimely' = {}
  <2>1. untimely' = {g \in DOMAIN cert.trx_map \ DOMAIN a.trx_map : g \notin done}
    BY DEF Certify
  <2>2. \A g \in DOMAIN cert.trx_map \ DOMAIN c.trx_map : g \notin Pending
    BY TrimmedOK
  <2>3. DOMAIN cert.trx_map \subseteq DOMAIN log
    BY <1>3, LogFacts DEF CertInv, CertOK, TrxMapOK
  <2>. QED BY <1>2, <2>1, <2>2, <2>3 DEF Pending
<1>. QED BY <1>7, <1>8, <1>9


\* cert_for_aborted() leaves the object alone.
LEMMA AbortedKeeps ==
    ASSUME CertInv, untimely = {}, NEW trx, IsNext(trx), CertForAborted(trx)
    PROVE  CertInv' /\ untimely' = {}
<1>. DEFINE n == Len(log) + 1
<1>1. /\ Ordered(trx, FAILED) /\ cut' = cut /\ cert' = cert /\ untimely' = untimely
      /\ done' = done \cup {n}
  BY DEF CertForAborted, IsNext
<1>2. /\ Extends(log, trx, FAILED, log') /\ LogOK(log') /\ Len(log') = n
      /\ DOMAIN log' = 1..n /\ Len(log) \in Nat
      /\ BagOf(Pending, log') = BagOf(Pending, log)
  BY <1>1, OrderedFacts
<1>3. /\ Pending \subseteq 1..Len(log) /\ DOMAIN log = 1..Len(log) /\ done \subseteq 1..Len(log)
  BY PendingFinite
<1>4. Pending' = Pending
  BY <1>1, <1>2, <1>3 DEF Pending
<1>5. DepsOK'
  <2>1. cert.deps_set = BagOf(Pending, log)
    BY DepsBag DEF CertInv
  <2>. QED BY <1>1, <1>2, <1>4, <2>1, DepsBagPrime
<1>6. CertOK(cert', log', Len(log'), cut')
  <2>. DEFINE l1 == log'
  <2>1. LogOK(log) /\ cut \in Int /\ CertOK(cert, log, Len(log), cut) /\ Extends(log, trx, FAILED, l1)
    BY <1>2 DEF CertInv
  <2>. HIDE DEF l1
  <2>2. CertOK(cert, l1, Len(l1), cut)
    BY <2>1, SkipOK
  <2>. QED BY <1>1, <2>2 DEF l1
<1>. QED BY <1>1, <1>2, <1>3, <1>5, <1>6 DEF CertInv

\* set_trx_committed() in any order.
LEMMA SetCommittedKeeps ==
    ASSUME CertInv, untimely = {}, NEW g, SetCommitted(g)
    PROVE  CertInv' /\ untimely' = {} /\ cert'.initial_position = cert.initial_position
<1>1. /\ g \in Pending /\ cert' = set_trx_committed(cert, log[g]) /\ done' = done \cup {g}
      /\ log' = log /\ cut' = cut /\ untimely' = untimely
  BY DEF SetCommitted, Committed, Pending
<1>2. LogOK(log) /\ CertOK(cert, log, Len(log), cut) /\ cut \in Int /\ done \subseteq DOMAIN log
  BY DEF CertInv
<1>3. log[g].last_seen_seqno \in Int /\ g \in DOMAIN log
  BY <1>1, <1>2, LogFacts DEF Pending
<1>4. /\ CertOK(cert', log, Len(log), cut)
      /\ cert'.initial_position = cert.initial_position
      /\ cert'.deps_set = cert.deps_set (-) SetToBag({log[g].last_seen_seqno})
  <2>. DEFINE t == log[g]
  <2>1. t.last_seen_seqno \in Int /\ cert' = set_trx_committed(cert, t)
    BY <1>1, <1>3
  <2>. HIDE DEF t
  <2>2. LET d == set_trx_committed(cert, t)
        IN  /\ CertOK(d, log, Len(log), cut) /\ d.initial_position = cert.initial_position
            /\ d.deps_set = cert.deps_set (-) SetToBag({t.last_seen_seqno})
    BY <1>2, <2>1, CommittedOK
  <2>. QED BY <2>1, <2>2 DEF t
<1>5. Pending' = Pending \ {g}
  BY <1>1 DEF Pending
<1>6. BagOf(Pending \ {g}, log) = BagOf(Pending, log) (-) SetToBag({log[g].last_seen_seqno})
  <2>1. IsFiniteSet(Pending)
    BY PendingFinite
  <2>. QED BY <1>1, <2>1, BagRemove
<1>7. DepsOK'
  <2>1. cert.deps_set = BagOf(Pending, log)
    BY DepsBag DEF CertInv
  <2>. QED BY <1>1, <1>4, <1>5, <1>6, <2>1, DepsBagPrime
<1>8. CertOK(cert', log', Len(log'), cut')
  BY <1>1, <1>4
<1>. QED BY <1>1, <1>2, <1>3, <1>4, <1>7, <1>8 DEF CertInv

\* A commit cut.
LEMMA CommitCutKeeps ==
    ASSUME CertInv, untimely = {}, NEW seqno \in (cut + 1)..reported, CommitCut(seqno)
    PROVE  CertInv' /\ untimely' = {} /\ cert'.initial_position = cert.initial_position
<1>. DEFINE s == Min({seqno, SafeToDiscard(cert)})
<1>1. /\ cut' = seqno /\ cert' = PurgeUpto(cert, s) /\ log' = log /\ done' = done
      /\ untimely' = {g \in DOMAIN cert.trx_map \ DOMAIN cert'.trx_map : g \notin done}
  BY DEF CommitCut, purge_trxs_upto
<1>2. LogOK(log) /\ CertOK(cert, log, Len(log), cut) /\ cut \in Int /\ done \subseteq DOMAIN log
  BY DEF CertInv
<1>3. seqno \in Int /\ cut <= seqno
  BY <1>2
<1>4. /\ SafeToDiscard(cert) \in Int
      /\ \A g \in Pending : g > SafeToDiscard(cert)
  BY SafeFacts
<1>5. s \in Int /\ s <= seqno /\ s <= SafeToDiscard(cert)
  BY <1>3, <1>4, MinOfTwo
<1>. HIDE DEF s
<1>6. Len(log) \in Nat /\ DOMAIN log = 1..Len(log)
  BY PendingFinite
<1>7. Purges(cert, log, Len(log), cut, Len(log), seqno, s)
  <2>1. Len(log) <= Len(log) /\ Len(log) \in Int
    BY <1>6
  <2>. QED BY <1>2, <1>3, <1>5, <2>1 DEF Purges
<1>8. /\ CertOK(cert', log, Len(log), seqno)
      /\ cert'.deps_set = cert.deps_set /\ cert'.initial_position = cert.initial_position
      /\ DOMAIN cert'.trx_map = {g \in DOMAIN cert.trx_map : g >= s}
  <2>1. LET d == PurgeUpto(cert, s)
        IN  /\ CertOK(d, log, Len(log), seqno)
            /\ d.deps_set = cert.deps_set /\ d.initial_position = cert.initial_position
            /\ DOMAIN d.trx_map = {g \in DOMAIN cert.trx_map : g >= s}
    BY <1>7, PurgeOK
  <2>. QED BY <1>1, <2>1
<1>9. untimely' = {}
  <2>1. SUFFICES ASSUME NEW g \in DOMAIN cert.trx_map, ~ (g >= s) PROVE g \in done
    BY <1>1, <1>8
  <2>2. g \in DOMAIN log /\ g \in Int
    BY <1>2, <1>6 DEF CertOK, TrxMapOK
  <2>3. ~ (g > SafeToDiscard(cert))
    BY <1>4, <1>5, <2>1, <2>2
  <2>. QED BY <1>4, <2>2, <2>3 DEF Pending
<1>10. DepsOK'
  BY <1>1, <1>8 DEF DepsOK, Pending, CertInv
<1>11. CertOK(cert', log', Len(log'), cut')
  BY <1>1, <1>8
<1>. QED BY <1>1, <1>2, <1>3, <1>8, <1>9, <1>10, <1>11 DEF CertInv

\* A configuration change: the index starts anew and remembers nothing.
LEMMA ConfChangeKeeps ==
    ASSUME CertInv, untimely = {}, ConfChange
    PROVE  CertInv' /\ untimely' = {} /\ cert'.initial_position = Len(log) /\ log' = log
<1>1. /\ cert' = assign_initial_position(cert, Len(log)) /\ log' = log /\ done' = done
      /\ cut' = cut /\ untimely' = untimely
  BY DEF ConfChange
<1>2. LogOK(log) /\ DOMAIN cert = CertFields /\ cut \in Int /\ done \subseteq DOMAIN log
  BY DEF CertInv, CertOK
<1>3. /\ cert'.trx_map = <<>> /\ cert'.cert_index = <<>> /\ cert'.deps_set = cert.deps_set
      /\ cert'.initial_position = Len(log) /\ cert'.last_pa_unsafe = Len(log)
      /\ cert'.safe_to_discard_seqno = Len(log) /\ DOMAIN cert' = CertFields
  BY <1>1, <1>2 DEF assign_initial_position, CertFields
<1>4. Len(log) \in Nat /\ DOMAIN log = 1..Len(log)
  BY PendingFinite
<1>5. DOMAIN cert'.trx_map = {} /\ DOMAIN cert'.cert_index = {}
  BY <1>3
<1>6. TrxMapOK(cert', log, Len(log), cut)
  BY <1>3, <1>4, <1>5 DEF TrxMapOK
<1>7. UnsafeOK(cert', log)
  BY <1>3, <1>4 DEF UnsafeOK
<1>8. IndexOK(cert', log)
  BY <1>5 DEF IndexOK
<1>9. CertOK(cert', log', Len(log'), cut')
  BY <1>1, <1>3, <1>4, <1>6, <1>7, <1>8 DEF CertOK
<1>10. DepsOK'
  BY <1>1, <1>3 DEF DepsOK, Pending, CertInv
<1>. QED BY <1>1, <1>2, <1>3, <1>9, <1>10 DEF CertInv


\* One step of Next, or none.
LEMMA CertStep ==
    ASSUME CertInv, untimely = {}, [Next]_vars
    PROVE  CertInv' /\ untimely' = {}
<1>1. ASSUME Len(log) < Len(WriteSets),
             NEW source \in Sources, NEW ws \in WriteSets[Len(log) + 1],
             NEW last_seen \in Max({0, Len(log) - MaxLength})..Len(log),
             LET trx == NextTrx(source, ws, last_seen) IN Certify(trx) \/ CertForAborted(trx)
      PROVE  CertInv' /\ untimely' = {}
  <2>. DEFINE trx == NextTrx(source, ws, last_seen)
  <2>1. IsNext(trx)
    BY <1>1, NextFacts
  <2>2. Certify(trx) \/ CertForAborted(trx)
    BY <1>1
  <2>. HIDE DEF trx
  <2>. QED BY <2>1, <2>2, CertifyKeeps, AbortedKeeps
<1>2. ASSUME NEW g \in DOMAIN log, SetCommitted(g) PROVE CertInv' /\ untimely' = {}
  BY <1>2, SetCommittedKeeps
<1>3. ASSUME NEW seqno \in (cut + 1)..reported, CommitCut(seqno) PROVE CertInv' /\ untimely' = {}
  BY <1>3, CommitCutKeeps
<1>4. CASE ConfChange
  BY <1>4, ConfChangeKeeps
<1>5. CASE UNCHANGED vars
  BY <1>5 DEF vars, CertInv, DepsOK, Pending
<1>. QED BY <1>1, <1>2, <1>3, <1>4, <1>5 DEF Next

\* The Certification object is always in order: deps_set_ counts exactly the
\* write sets that set_trx_committed() has still to be called for, trx_map_ has
\* lost no write set that passed and is still within reach, and every reference
\* of the index is to the last write set of trx_map_ that passed and holds the
\* key (append_trx(), set_trx_committed(), purge_trxs_upto() and
\* assign_initial_position() in any order).
THEOREM CertificationInvariantHolds == Spec => []CertInv
<1>. DEFINE I == CertInv /\ untimely = {}
<1>1. Init => I
  BY CertInit
<1>2. I /\ [Next]_vars => I'
  BY CertStep
<1>. QED BY <1>1, <1>2, PTL DEF Spec

\* A commit cut and the trim of append_trx() purge no write set that is not
\* committed ("trx not committed in purge and discard"), in whatever order the
\* commits are reported and whatever cut comes.
THEOREM PurgedHolds == Spec => []PurgedWhenCommitted
<1>. DEFINE I == CertInv /\ untimely = {}
<1>1. Init => I
  BY CertInit
<1>2. I /\ [Next]_vars => I'
  BY CertStep
<1>3. I => PurgedWhenCommitted
  BY DEF PurgedWhenCommitted
<1>. QED BY <1>1, <1>2, <1>3, PTL DEF Spec

\* What the index refers to is there.
LEMMA IndexAlive == ASSUME CertInv PROVE RefsAlive
<1>1. IndexOK(cert, log) /\ LogOK(log) /\ TrxMapOK(cert, log, Len(log), cut)
  BY DEF CertInv, CertOK
<1>2. \A g \in DOMAIN cert.trx_map : g \in Int /\ g > 0
  <2>1. Len(log) \in Nat
    BY <1>1, LogFacts
  <2>. QED BY <1>1, <2>1 DEF TrxMapOK
<1>3. SUFFICES ASSUME NEW path \in DOMAIN cert.cert_index
               PROVE  LET entry == cert.cert_index[path]
                      IN /\ {entry.ref_trx, entry.ref_full_trx, entry.ref_shared_trx,
                             entry.ref_full_shared_trx}
                               \subseteq {NoTrx} \cup {TrxRef(log[g]) : g \in DOMAIN cert.trx_map}
                         /\ entry.ref_full_trx # NoTrx => entry.ref_trx # NoTrx
                         /\ entry.ref_full_shared_trx # NoTrx => entry.ref_shared_trx # NoTrx
  BY DEF RefsAlive
<1>. DEFINE entry == cert.cert_index[path]
<1>4. \A ref \in Refs :
         \/ entry[ref] = NoTrx
         \/ \E g \in DOMAIN cert.trx_map :
               /\ cert.trx_map[g] /\ entry[ref] = TrxRef(log[g])
               /\ \E e \in KeyList(log[g].keys) : e.path = path /\ Counts(e, ref)
  BY <1>1 DEF IndexOK
<1>5. \A g \in DOMAIN cert.trx_map : cert.trx_map[g] =>
         \A e \in KeyList(log[g].keys), ref \in Refs : Counts(e, ref) =>
             cert.cert_index[e.path][ref].global_seqno >= g
  BY <1>1 DEF IndexOK
<1>6. ASSUME NEW f \in Refs, NEW r \in Refs, entry[f] # NoTrx,
             \A e : Counts(e, f) => Counts(e, r)
      PROVE  entry[r] # NoTrx
  <2>1. PICK g \in DOMAIN cert.trx_map :
           cert.trx_map[g] /\ \E e \in KeyList(log[g].keys) : e.path = path /\ Counts(e, f)
    BY <1>4, <1>6
  <2>2. PICK e \in KeyList(log[g].keys) : e.path = path /\ Counts(e, f)
    BY <2>1
  <2>3. entry[r].global_seqno >= g
    BY <1>5, <1>6, <2>1, <2>2
  <2>4. g \in Int /\ g > 0
    BY <1>2
  <2>5. SUFFICES ASSUME entry[r] = NoTrx PROVE FALSE
    OBVIOUS
  <2>6. entry[r].global_seqno = -1
    BY <2>5 DEF NoTrx
  <2>. QED BY <2>3, <2>4, <2>6
<1>7. /\ \A e : Counts(e, "ref_full_trx") => Counts(e, "ref_trx")
      /\ \A e : Counts(e, "ref_full_shared_trx") => Counts(e, "ref_shared_trx")
  BY DEF Counts
<1>8. /\ entry["ref_full_trx"] # NoTrx => entry["ref_trx"] # NoTrx
      /\ entry["ref_full_shared_trx"] # NoTrx => entry["ref_shared_trx"] # NoTrx
  BY <1>6, <1>7 DEF Refs
<1>9. \A ref \in Refs : entry[ref] \in {NoTrx} \cup {TrxRef(log[g]) : g \in DOMAIN cert.trx_map}
  BY <1>4
<1>. HIDE DEF entry
<1>10. /\ entry.ref_full_trx # NoTrx => entry.ref_trx # NoTrx
       /\ entry.ref_full_shared_trx # NoTrx => entry.ref_shared_trx # NoTrx
       /\ {entry.ref_trx, entry.ref_full_trx, entry.ref_shared_trx, entry.ref_full_shared_trx}
              \subseteq {NoTrx} \cup {TrxRef(log[g]) : g \in DOMAIN cert.trx_map}
  BY <1>8, <1>9 DEF Refs
<1>. QED BY <1>10 DEF entry

\* No entry of the index keeps a pointer to a write set that was purged, and an
\* entry that is referred to as a full key is referred to at all (what
\* KeyEntry::assert_unref() and ~KeyEntry() assert).
THEOREM RefsAliveHolds == Spec => []RefsAlive
<1>1. CertInv => RefsAlive
  BY IndexAlive
<1>. QED BY <1>1, CertificationInvariantHolds, PTL


----------------------------------------------------------------------------
(* The verdict is the one of the whole history.  ShortKeysFirst is needed: *)
(* a key that follows a longer one is stored as a partial key only.        *)

\* What VerdictByHistory and DependsCover say of write set g of log l
HistoryAt(l, init, g) ==
    l[g].depends_seqno = FAILED <=>
       \/ l[g].last_seen_seqno < init
       \/ g - l[g].last_seen_seqno > MaxLength
       \/ ~ l[g].isolation /\ \E h \in 1..Len(l) :
             h < g /\ l[h].depends_seqno # FAILED /\ Writes(l[h], l[g]) /\ Unseen(l[h], l[g])

CoverAt(l, g) ==
    l[g].depends_seqno # FAILED =>
       \A h \in 1..Len(l) :
          /\ h < g /\ l[h].depends_seqno # FAILED
          /\ Dependent(l[h], l[g]) \/ l[h].pa_unsafe \/ l[g].pa_unsafe \/ l[g].isolation
          => h <= l[g].depends_seqno

\* They hold from write set init on, and always
AllHistory(l, init) == \A g \in 1..Len(l) : g > init => HistoryAt(l, init, g)
AllCover(l) == \A g \in 1..Len(l) : CoverAt(l, g)

\* The properties in these terms.
LEMMA HistoryMeans ==
    ASSUME LogOK(log)
    PROVE  /\ AllHistory(log, cert.initial_position) => VerdictByHistory
           /\ AllCover(log) => DependsCover
<1>1. Len(log) \in Nat /\ DOMAIN log = 1..Len(log) /\ \A g \in 1..Len(log) : log[g].global_seqno = g
  BY LogFacts
<1>3. ASSUME AllHistory(log, cert.initial_position), NEW g \in 1..Len(log), g > cert.initial_position
      PROVE  LET t == log[g]
                 earlier == {r \in Passed : r.global_seqno < g}
             IN (t.depends_seqno = FAILED <=>
                   \/ t.last_seen_seqno < cert.initial_position
                   \/ g - t.last_seen_seqno > MaxLength
                   \/ ~ t.isolation /\ \E r \in earlier : Writes(r, t) /\ Unseen(r, t))
  <2>1. HistoryAt(log, cert.initial_position, g)
    BY <1>3 DEF AllHistory
  <2>2. (\E r \in {r \in Passed : r.global_seqno < g} : Writes(r, log[g]) /\ Unseen(r, log[g]))
           <=> \E h \in 1..Len(log) : h < g /\ log[h].depends_seqno # FAILED
                                      /\ Writes(log[h], log[g]) /\ Unseen(log[h], log[g])
    BY <1>1 DEF Passed
  <2>. QED BY <2>1, <2>2 DEF HistoryAt
<1>4. ASSUME AllCover(log), NEW t \in Passed, NEW r \in Passed, r.global_seqno < t.global_seqno,
             Dependent(r, t) \/ r.pa_unsafe \/ t.pa_unsafe \/ t.isolation
      PROVE  r.global_seqno <= t.depends_seqno
  <2>1. PICK g \in 1..Len(log) : t = log[g] /\ log[g].depends_seqno # FAILED
    BY <1>1 DEF Passed
  <2>2. PICK h \in 1..Len(log) : r = log[h] /\ log[h].depends_seqno # FAILED
    BY <1>1 DEF Passed
  <2>3. CoverAt(log, g)
    BY <1>4 DEF AllCover
  <2>4. h < g /\ t.global_seqno = g /\ r.global_seqno = h
    BY <1>1, <1>4, <2>1, <2>2
  <2>. QED BY <1>4, <2>1, <2>2, <2>3, <2>4 DEF CoverAt
<1>5. AllHistory(log, cert.initial_position) => VerdictByHistory
  BY <1>1, <1>3 DEF VerdictByHistory
<1>. QED BY <1>4, <1>5 DEF DependsCover

\* The history of the write sets of a log is not changed by the next one.
LEMMA HistoryGrows ==
    ASSUME NEW l, NEW l1, NEW n, n \in Nat, Len(l) \in Nat, n = Len(l) + 1, Len(l1) = n,
           \A g \in 1..Len(l) : l1[g] = l[g],
           NEW init, AllHistory(l, init), AllCover(l),
           n > init => HistoryAt(l1, init, n), CoverAt(l1, n)
    PROVE  AllHistory(l1, init) /\ AllCover(l1)
<1>1. \A g \in 1..n : g = n \/ g \in 1..Len(l)
  OBVIOUS
<1>2. ASSUME NEW g \in 1..Len(l)
      PROVE  /\ HistoryAt(l, init, g) => HistoryAt(l1, init, g)
             /\ CoverAt(l, g) => CoverAt(l1, g)
  <2>1. \A h \in 1..Len(l1) : h < g => h \in 1..Len(l) /\ l1[h] = l[h]
    OBVIOUS
  <2>2. \A h \in 1..Len(l) : h < g => h \in 1..Len(l1) /\ l1[h] = l[h]
    OBVIOUS
  <2>3. l1[g] = l[g]
    OBVIOUS
  <2>4. (\E h \in 1..Len(l) : h < g /\ l[h].depends_seqno # FAILED
                              /\ Writes(l[h], l[g]) /\ Unseen(l[h], l[g]))
        <=> (\E h \in 1..Len(l1) : h < g /\ l1[h].depends_seqno # FAILED
                              /\ Writes(l1[h], l1[g]) /\ Unseen(l1[h], l1[g]))
    BY <2>1, <2>2, <2>3, Zenon
  <2>5. HistoryAt(l, init, g) => HistoryAt(l1, init, g)
    BY <2>3, <2>4 DEF HistoryAt
  <2>6. CoverAt(l, g) => CoverAt(l1, g)
    BY <2>1, <2>3, Zenon DEF CoverAt
  <2>. QED BY <2>5, <2>6
<1>3. \A g \in 1..Len(l1) : g > init => HistoryAt(l1, init, g)
  BY <1>1, <1>2 DEF AllHistory
<1>4. \A g \in 1..Len(l1) : CoverAt(l1, g)
  BY <1>1, <1>2 DEF AllCover
<1>. QED BY <1>3, <1>4 DEF AllHistory, AllCover

\* Refuted, said of the write set in the log
LEMMA RefutedAt ==
    ASSUME NEW c, NEW l, LogOK(l), NEW trx, NEW v, NEW l1, Extends(l, trx, v, l1),
           v = FAILED <=> Refuted(c, l, trx)
    PROVE  HistoryAt(l1, c.initial_position, Len(l) + 1)
<1>. DEFINE n == Len(l) + 1
<1>1. /\ LogOK(l1) /\ Len(l1) = n /\ n \in Nat
      /\ \A g \in 1..Len(l) : l1[g] = l[g]
      /\ l1[n].keys = trx.keys /\ l1[n].depends_seqno = v
      /\ l1[n].last_seen_seqno = trx.last_seen_seqno
      /\ l1[n].isolation = trx.isolation /\ l1[n].source_id = trx.source_id
  BY ExtendLog
<1>2. Len(l) \in Nat /\ trx.global_seqno = n
  BY LogFacts DEF Extends
<1>3. \A r : (Writes(r, l1[n]) <=> Writes(r, trx)) /\ (Unseen(r, l1[n]) <=> Unseen(r, trx))
  BY <1>1 DEF Writes, Unseen
<1>. HIDE DEF n
<1>4. (\E h \in 1..Len(l1) : h < n /\ l1[h].depends_seqno # FAILED
                             /\ Writes(l1[h], l1[n]) /\ Unseen(l1[h], l1[n]))
      <=> \E g \in 1..Len(l) : PassedIn(l, g) /\ Writes(l[g], trx) /\ Unseen(l[g], trx)
  <2>1. \A h \in 1..Len(l1) : h < n => h \in 1..Len(l) /\ l1[h] = l[h]
    BY <1>1, <1>2 DEF n
  <2>2. \A h \in 1..Len(l) : h \in 1..Len(l1) /\ h < n /\ l1[h] = l[h]
    BY <1>1, <1>2 DEF n
  <2>. QED BY <1>3, <2>1, <2>2, Zenon DEF PassedIn
<1>5. HistoryAt(l1, c.initial_position, n)
  BY <1>1, <1>2, <1>4 DEF Refuted, HistoryAt
<1>. QED BY <1>5 DEF n


\* What is kept of the history, with the invariant
HistoryInv ==
    /\ CertInv /\ untimely = {}
    /\ AllShortFirst(log) /\ AllHistory(log, cert.initial_position) /\ AllCover(log)

\* The next write set: the test and the history agree.
LEMMA CertifyHistory ==
    ASSUME HistoryInv, NEW trx, IsNext(trx), ShortFirst(trx.keys),
           Certify(trx) \/ CertForAborted(trx)
    PROVE  AllShortFirst(log') /\ AllHistory(log', cert'.initial_position) /\ AllCover(log')
<1>. DEFINE n == Len(log) + 1
            l1 == log'
            init == cert.initial_position
<1>0. /\ CertInv /\ LogOK(log) /\ Len(log) \in Nat /\ n \in Nat
      /\ AllShortFirst(log) /\ AllHistory(log, init) /\ AllCover(log)
  BY PendingFinite DEF HistoryInv, CertInv
<1>1. PICK v \in Nat \cup {FAILED} :
         /\ Ordered(trx, v) /\ cert'.initial_position = init
         /\ HistoryAt(l1, init, n) /\ CoverAt(l1, n)
  <2>1. CASE Certify(trx)
    <3>. DEFINE c == Trimmed(cert, trx)
                a == append_trx(cert, trx)
                v == Verdict(cert, trx)
    <3>1. Ordered(trx, v)
      BY <2>1 DEF Certify
    <3>2. /\ Tests(c, log, cut, trx) /\ v = do_test(c, trx, TRUE)
          /\ v \in Nat \cup {FAILED} /\ a.initial_position = init
          /\ CertOK(a, log', n, cut)
      <4>. DEFINE passed == v # FAILED
      <4>1. passed \in BOOLEAN /\ (passed <=> Verdict(cert, trx) # FAILED)
        OBVIOUS
      <4>. HIDE DEF passed
      <4>2. /\ Tests(c, log, cut, trx) /\ v = do_test(c, trx, TRUE)
            /\ v \in Nat \cup {FAILED} /\ a.initial_position = init
            /\ Appends(c, trx, passed, a)
        BY <1>0, <4>1, AppendFacts
      <4>3. Extends(log, trx, v, l1) /\ Len(l1) = n
        BY <1>0, <3>1, <4>2, OrderedFacts
      <4>4. cut \in Int /\ CertOK(c, log, Len(log) + 1, cut) /\ (passed <=> v # FAILED)
        BY <4>1, <4>2 DEF Tests
      <4>. HIDE DEF c, a, v, l1
      <4>5. CertOK(a, l1, Len(l1), cut)
        BY <1>0, <4>1, <4>2, <4>3, <4>4, AppendOK
      <4>. QED BY <4>2, <4>3, <4>5 DEF l1
    <3>3. cert'.initial_position = init
      <4>1. CASE v # FAILED
        BY <2>1, <3>2, <4>1 DEF Certify
      <4>2. CASE v = FAILED
        <5>1. cert' = set_trx_committed(a, trx) /\ trx.last_seen_seqno \in Int
          BY <2>1, <4>2 DEF Certify, Committed, IsNext, LogEntry
        <5>. HIDE DEF a, n
        <5>2. set_trx_committed(a, trx).initial_position = a.initial_position
          BY <3>2, <5>1, CommittedOK
        <5>. QED BY <3>2, <5>1, <5>2
      <4>. QED BY <4>1, <4>2
    <3>4. Extends(log, trx, v, l1) /\ c.initial_position = init
      BY <1>0, <3>1, <3>2, OrderedFacts, TrimmedOK
    <3>5. v = FAILED <=> Refuted(c, log, trx)
      <4>1. Kept(log, cut, trx)
        BY <3>1 DEF Ordered, Kept, Passed
      <4>2. v # FAILED => ~ Refuted(c, log, trx)
        BY <1>0, <3>2, <4>1, TestComplete
      <4>3. v = FAILED => Refuted(c, log, trx)
        <5>1. KeyList(trx.keys) \in SUBSET Elements(trx.keys)
          BY DEF KeyList
        <5>2. v = TestWith(c, trx, KeyList(trx.keys))
          BY <3>2, TestCases
        <5>. HIDE DEF c, v
        <5>. QED BY <3>2, <5>1, <5>2, TestSound
      <4>. QED BY <4>2, <4>3
    <3>6. HistoryAt(l1, init, n)
      <4>. HIDE DEF v, c, l1, n, init
      <4>1. HistoryAt(l1, c.initial_position, Len(log) + 1)
        BY <1>0, <3>4, <3>5, RefutedAt
      <4>. QED BY <3>4, <4>1 DEF n
    <3>7. CoverAt(l1, n)
      <4>1. /\ Len(l1) = n /\ \A g \in 1..Len(log) : l1[g] = log[g]
            /\ l1[n].keys = trx.keys /\ l1[n].depends_seqno = v
            /\ l1[n].pa_unsafe = trx.pa_unsafe /\ l1[n].isolation = trx.isolation
        BY <1>0, <3>4, ExtendLog
      <4>2. SUFFICES ASSUME v # FAILED, NEW h \in 1..Len(l1), h < n, l1[h].depends_seqno # FAILED,
                            \/ Dependent(l1[h], l1[n]) \/ l1[h].pa_unsafe
                            \/ l1[n].pa_unsafe \/ l1[n].isolation
                     PROVE  h <= v
        BY <4>1 DEF CoverAt
      <4>3. h \in 1..Len(log) /\ l1[h] = log[h]
        BY <1>0, <4>1, <4>2
      <4>4. PassedIn(log, h)
        BY <4>2, <4>3 DEF PassedIn
      <4>5. Dependent(log[h], trx) \/ log[h].pa_unsafe \/ trx.pa_unsafe \/ trx.isolation
        BY <4>1, <4>2, <4>3 DEF Dependent, Writes
      <4>. HIDE DEF v, c, l1
      <4>6. h <= do_test(c, trx, TRUE)
        BY <1>0, <3>2, <4>2, <4>3, <4>4, <4>5, TestCovers
      <4>. QED BY <3>2, <4>6
    <3>. QED BY <3>1, <3>2, <3>3, <3>6, <3>7
  <2>2. CASE CertForAborted(trx)
    <3>1. Ordered(trx, FAILED) /\ cert' = cert /\ do_test(cert, trx, FALSE) = FAILED
      BY <2>2 DEF CertForAborted
    <3>2. Extends(log, trx, FAILED, l1)
      BY <1>0, <3>1, OrderedFacts
    <3>3. Tests(cert, log, cut, trx)
      <4>1. CertOK(cert, log, Len(log) + 1, cut)
        BY <1>0, LaterOK DEF CertInv
      <4>. QED BY <1>0, <4>1 DEF Tests, CertInv, IsNext
    <3>4. Refuted(cert, log, trx)
      <4>1. TestWith(cert, trx, Elements(trx.keys)) = FAILED
        BY <3>1, TestCases
      <4>. QED BY <3>3, <4>1, TestSound
    <3>5. HistoryAt(l1, init, n)
      <4>. HIDE DEF l1
      <4>. QED BY <1>0, <3>2, <3>4, RefutedAt
    <3>6. CoverAt(l1, n)
      <4>1. l1[n].depends_seqno = FAILED
        BY <1>0, <3>2, ExtendLog
      <4>. QED BY <4>1 DEF CoverAt
    <3>. QED BY <3>1, <3>5, <3>6
  <2>. QED BY <2>1, <2>2
<1>2. Extends(log, trx, v, l1)
  BY <1>0, <1>1, OrderedFacts
<1>3. /\ Len(l1) = n /\ (\A g \in 1..Len(log) : l1[g] = log[g]) /\ l1[n].keys = trx.keys
  BY <1>0, <1>2, ExtendLog
<1>. HIDE DEF l1
<1>4. AllShortFirst(l1)
  BY <1>0, <1>3 DEF AllShortFirst
<1>5. AllHistory(l1, init) /\ AllCover(l1)
  <2>. HIDE DEF init, n
  <2>1. n = Len(log) + 1
    BY DEF n
  <2>. QED BY <1>0, <1>1, <1>3, <2>1, HistoryGrows
<1>. QED BY <1>1, <1>4, <1>5 DEF l1

LEMMA HistoryStep ==
    ASSUME ShortKeysFirst, HistoryInv, [Next]_vars
    PROVE  HistoryInv'
<1>1. CertInv /\ CertInv' /\ untimely' = {} /\ untimely = {}
  BY CertStep DEF HistoryInv
<1>2. SUFFICES AllShortFirst(log') /\ AllHistory(log', cert'.initial_position) /\ AllCover(log')
  BY <1>1 DEF HistoryInv
<1>3. ASSUME Len(log) < Len(WriteSets),
             NEW source \in Sources, NEW ws \in WriteSets[Len(log) + 1],
             NEW last_seen \in Max({0, Len(log) - MaxLength})..Len(log),
             LET trx == NextTrx(source, ws, last_seen) IN Certify(trx) \/ CertForAborted(trx)
      PROVE  AllShortFirst(log') /\ AllHistory(log', cert'.initial_position) /\ AllCover(log')
  <2>. DEFINE trx == NextTrx(source, ws, last_seen)
  <2>1. IsNext(trx) /\ ShortFirst(trx.keys)
    BY <1>1, <1>3, NextFacts
  <2>2. Certify(trx) \/ CertForAborted(trx)
    BY <1>3
  <2>. HIDE DEF trx
  <2>. QED BY <2>1, <2>2, CertifyHistory
<1>4. CASE log' = log /\ cert'.initial_position = cert.initial_position
  BY <1>4 DEF HistoryInv
<1>5. ASSUME NEW g \in DOMAIN log, SetCommitted(g)
      PROVE  log' = log /\ cert'.initial_position = cert.initial_position
  BY <1>1, <1>5, SetCommittedKeeps DEF SetCommitted
<1>6. ASSUME NEW seqno \in (cut + 1)..reported, CommitCut(seqno)
      PROVE  log' = log /\ cert'.initial_position = cert.initial_position
  BY <1>1, <1>6, CommitCutKeeps DEF CommitCut
<1>7. CASE ConfChange
  <2>1. cert'.initial_position = Len(log) /\ log' = log
    BY <1>1, <1>7, ConfChangeKeeps
  <2>2. Len(log) \in Nat
    BY <1>1, PendingFinite
  <2>3. AllHistory(log, Len(log))
    BY <2>2 DEF AllHistory
  <2>. QED BY <2>1, <2>3 DEF HistoryInv
<1>8. CASE UNCHANGED vars
  BY <1>4, <1>8 DEF vars
<1>. QED BY <1>3, <1>4, <1>5, <1>6, <1>7, <1>8 DEF Next

LEMMA HistoryInit == ASSUME Init PROVE HistoryInv
<1>1. CertInv /\ untimely = {}
  BY CertInit
<1>2. Len(log) = 0
  BY DEF Init
<1>. QED BY <1>1, <1>2 DEF HistoryInv, AllShortFirst, AllHistory, AllCover

\* certify_and_depend_v1to2() looks only at the last references of a key that
\* are left, and yet a write set fails exactly when the whole history since the
\* last configuration change holds one that it conflicts with and does not know:
\* for every stream in which no key of a write set follows a longer one, whatever
\* is purged, in whatever order commits and cuts come.
THEOREM VerdictByHistoryHolds ==
    ASSUME ShortKeysFirst
    PROVE  Spec => []VerdictByHistory
<1>1. Init => HistoryInv
  BY HistoryInit
<1>2. HistoryInv /\ [Next]_vars => HistoryInv'
  BY HistoryStep
<1>3. HistoryInv => VerdictByHistory
  BY HistoryMeans DEF HistoryInv, CertInv
<1>. QED BY <1>1, <1>2, <1>3, PTL DEF Spec

\* depends_seqno, all that ApplyOrder waits for, covers every earlier write set
\* that this one cannot be applied beside, in the present configuration or before.
THEOREM DependsCoverHolds ==
    ASSUME ShortKeysFirst
    PROVE  Spec => []DependsCover
<1>1. Init => HistoryInv
  BY HistoryInit
<1>2. HistoryInv /\ [Next]_vars => HistoryInv'
  BY HistoryStep
<1>3. HistoryInv => DependsCover
  BY HistoryMeans DEF HistoryInv, CertInv
<1>. QED BY <1>1, <1>2, <1>3, PTL DEF Spec
============================================================================
