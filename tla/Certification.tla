--------------------------- MODULE Certification ---------------------------
(***************************************************************************)
(* The certification of write sets (galera/src/certification.cpp,          *)
(* key_entry.hpp) as operators on the state of one Certification object:   *)
(*                                                                         *)
(*   position_, initial_position_, last_pa_unsafe_, safe_to_discard_seqno_ *)
(*   trx_map_    the write sets tested and not yet purged, by seqno        *)
(*   cert_index_ for every key, complete or cut short, the last write sets *)
(*               that hold it                                              *)
(*   deps_set_   last_seen_seqno of the write sets that are not committed  *)
(*                                                                         *)
(* A write set is a record: its seqno, the seqno its source had committed  *)
(* when it was replicated, its source, its keys, F_ISOLATION and           *)
(* F_PA_UNSAFE.  A key is the sequence of its parts (database, table, row) *)
(* and whether it is shared.  The test either fails (depends_seqno -1) or  *)
(* gives the seqno that must have been applied before (depends_seqno).     *)
(* Everything runs under mutex_, in the order of the local monitor.        *)
(***************************************************************************)
EXTENDS Integers, Sequences, FiniteSets, FiniteSetsExt, Bags

CONSTANTS
    KeyParts,      \* what a part of a key may be
    MaxLength,     \* max_length_: the limit on a certification interval
    CheckInterval  \* max_length_check_ + 1: how often the length of trx_map_ is checked

ASSUME MaxLengthAssumption == MaxLength \in Nat \ {0}
ASSUME CheckIntervalAssumption == CheckInterval \in Nat \ {0}

FAILED == -1

Key == [parts : Seq(KeyParts), shared : BOOLEAN]

----------------------------------------------------------------------------
(* Keys.  A key stands for itself (the full key) and for all its prefixes  *)
(* (partial keys), the empty one included.                                 *)

Prefixes(parts) == {SubSeq(parts, 1, n) : n \in 0..Len(parts)}

\* What certify_v1to2() looks up for the keys of a write set
Elements(keys) ==
    UNION {{[path |-> p, shared |-> keys[i].shared, full |-> p = keys[i].parts]
              : p \in Prefixes(keys[i].parts)} : i \in DOMAIN keys}

\* cert_keys_: an element is stored, and with store_keys looked up, once.  Full
\* or partial is not compared: the first occurrence decides
KeyList(keys) ==
    {e \in Elements(keys) :
        LET same == {i \in DOMAIN keys : keys[i].shared = e.shared
                                         /\ e.path \in Prefixes(keys[i].parts)}
        IN e.full <=> (e.path = keys[Min(same)].parts)}

\* A TrxHandle* in an entry of the index
NoTrx == [global_seqno |-> -1, source_id |-> 0, isolation |-> FALSE]

TrxRef(trx) == [global_seqno |-> trx.global_seqno, source_id |-> trx.source_id,
                isolation |-> trx.isolation]

\* KeyEntry: the last write sets that hold the key as exclusive or shared, and
\* the last that hold it as a full key
NoEntry == [ref_trx |-> NoTrx, ref_full_trx |-> NoTrx,
            ref_shared_trx |-> NoTrx, ref_full_shared_trx |-> NoTrx]

Entry(c, path) == IF path \in DOMAIN c.cert_index THEN c.cert_index[path] ELSE NoEntry

\* A full key matches any write set, a partial one those with the full key
RefExclusive(c, e) ==
    IF e.full THEN Entry(c, e.path).ref_trx ELSE Entry(c, e.path).ref_full_trx

RefShared(c, e) ==
    IF e.full THEN Entry(c, e.path).ref_shared_trx ELSE Entry(c, e.path).ref_full_shared_trx

----------------------------------------------------------------------------
(* The test *)

\* certify_and_depend_v1to2(): the write set does not know one from another
\* node, or one in isolation, that holds the key
Conflict(c, trx, e) ==
    LET ref == RefExclusive(c, e)
    IN /\ ref # NoTrx
       /\ ref.source_id # trx.source_id \/ ref.isolation
       /\ ref.global_seqno > trx.last_seen_seqno

\* The seqnos a key makes a write set depend on: an exclusive key on the shared
\* references as well
Dependencies(c, e) ==
    {RefExclusive(c, e).global_seqno}
        \cup (IF e.shared THEN {} ELSE {RefShared(c, e).global_seqno})

\* Mutant: F_PA_UNSAFE is forgotten
BaseDependencyParallel(c, trx) ==
    IF trx.isolation \/ DOMAIN c.trx_map = {}
    THEN trx.global_seqno - 1
    ELSE Min(DOMAIN c.trx_map) - 1

\* do_test_v1to2(): what every write set depends on, whatever its keys
BaseDependency(c, trx) ==
    IF trx.isolation \/ trx.pa_unsafe \/ DOMAIN c.trx_map = {}
    THEN trx.global_seqno - 1
    ELSE Min(DOMAIN c.trx_map) - 1

\* do_test(): depends_seqno, or FAILED.  A write set in isolation is not tested
do_test(c, trx, store_keys) ==
    LET elements == IF store_keys THEN KeyList(trx.keys) ELSE Elements(trx.keys)
    IN IF \/ trx.last_seen_seqno < c.initial_position
          \/ trx.global_seqno - trx.last_seen_seqno > MaxLength
          \/ ~ trx.isolation /\ \E e \in elements : Conflict(c, trx, e)
       THEN FAILED
       ELSE Max({BaseDependency(c, trx), c.last_pa_unsafe}
                    \cup (IF trx.isolation THEN {}
                          ELSE UNION {Dependencies(c, e) : e \in elements}))

\* The references a certified write set leaves in the index (KeyEntry::ref(),
\* ref_shared())
Referenced(c, trx) ==
    LET list == KeyList(trx.keys)
        Holds(path, shared, full) ==
            \E e \in list : e.path = path /\ e.shared = shared /\ (full => e.full)
    IN [path \in DOMAIN c.cert_index \cup {e.path : e \in list} |->
          LET old == Entry(c, path)
              Ref(was, shared, full) == IF Holds(path, shared, full) THEN TrxRef(trx) ELSE was
          IN [ref_trx             |-> Ref(old.ref_trx, FALSE, FALSE),
              ref_full_trx        |-> Ref(old.ref_full_trx, FALSE, TRUE),
              ref_shared_trx      |-> Ref(old.ref_shared_trx, TRUE, FALSE),
              ref_full_shared_trx |-> Ref(old.ref_full_shared_trx, TRUE, TRUE)]]

----------------------------------------------------------------------------
(* Purging *)

\* Mutants: a reference is dropped whoever it is to, and the references of the
\* full key stay
UnrefAll(entry, seqnos) ==
    IF \E f \in DOMAIN entry : entry[f].global_seqno \in seqnos THEN NoEntry ELSE entry

UnrefPartial(entry, seqnos) ==
    LET Kept(ref) == IF ref.global_seqno \in seqnos THEN NoTrx ELSE ref
    IN [entry EXCEPT !.ref_trx = Kept(@), !.ref_shared_trx = Kept(@)]

\* KeyEntry::unref(), unref_shared(): only a reference to the write set itself
\* is dropped
Unref(entry, seqnos) ==
    LET Kept(ref) == IF ref.global_seqno \in seqnos THEN NoTrx ELSE ref
    IN [ref_trx             |-> Kept(entry.ref_trx),
        ref_full_trx        |-> Kept(entry.ref_full_trx),
        ref_shared_trx      |-> Kept(entry.ref_shared_trx),
        ref_full_shared_trx |-> Kept(entry.ref_full_shared_trx)]

\* purge_for_trx() for every seqno: an entry nobody refers to is deleted
PurgedIndex(index, seqnos) ==
    LET left == [path \in DOMAIN index |-> Unref(index[path], seqnos)]
        kept == {path \in DOMAIN index : left[path].ref_trx # NoTrx
                                         \/ left[path].ref_shared_trx # NoTrx}
    IN [path \in kept |-> left[path]]

\* get_safe_to_discard_seqno_()
SafeToDiscard(c) ==
    IF c.deps_set = EmptyBag THEN c.safe_to_discard_seqno
    ELSE Min(BagToSet(c.deps_set)) - 1

\* purge_trxs_upto_(): the write sets before seqno
PurgeUpto(c, seqno) ==
    LET gone == {g \in DOMAIN c.trx_map : g < seqno}
    IN [c EXCEPT !.trx_map = [g \in DOMAIN @ \ gone |-> @[g]],
                 !.cert_index = PurgedIndex(@, gone)]

\* purge_trxs_upto(), the commit cut
purge_trxs_upto(c, seqno) == PurgeUpto(c, Min({seqno, SafeToDiscard(c)}))

\* Mutant: the cut does not spare what is not committed
TrimmedUnsafe(c, trx) ==
    LET at == [c EXCEPT !.position = trx.global_seqno]
    IN IF trx.global_seqno % CheckInterval = 0 /\ Cardinality(DOMAIN c.trx_map) > MaxLength
       THEN PurgeUpto(at, trx.global_seqno - MaxLength)
       ELSE at

\* append_trx(): every CheckInterval positions a trx_map_ that is too long is cut
Trimmed(c, trx) ==
    LET at == [c EXCEPT !.position = trx.global_seqno]
    IN IF trx.global_seqno % CheckInterval = 0 /\ Cardinality(DOMAIN c.trx_map) > MaxLength
       THEN PurgeUpto(at, Min({trx.global_seqno - MaxLength, SafeToDiscard(at)}))
       ELSE at

----------------------------------------------------------------------------
(* Operations *)

\* The constructor, and assign_initial_position(seqno): the index starts anew.
\* deps_set_ is left as it is
assign_initial_position(c, seqno) ==
    [c EXCEPT !.trx_map = <<>>, !.cert_index = <<>>, !.initial_position = seqno,
              !.position = seqno, !.safe_to_discard_seqno = seqno, !.last_pa_unsafe = seqno]

NewCertification(seqno) ==
    assign_initial_position(
        [trx_map |-> <<>>, cert_index |-> <<>>, deps_set |-> EmptyBag, position |-> -1,
         initial_position |-> -1, safe_to_discard_seqno |-> -1, last_pa_unsafe |-> -1],
        seqno)

\* append_trx(): what the test says of the next write set
Verdict(c, trx) == do_test(Trimmed(c, trx), trx, TRUE)

\* and what is left behind.  A write set that failed is in trx_map_ and
\* deps_set_ like any other
append_trx(c, trx) ==
    LET cut    == Trimmed(c, trx)
        passed == do_test(cut, trx, TRUE) # FAILED
    IN [cut EXCEPT
          !.cert_index = IF passed THEN Referenced(cut, trx) ELSE @,
          !.last_pa_unsafe = IF passed /\ trx.pa_unsafe THEN trx.global_seqno ELSE @,
          !.trx_map = [g \in DOMAIN @ \cup {trx.global_seqno} |->
                         IF g = trx.global_seqno THEN passed ELSE @[g]],
          !.deps_set = @ (+) SetToBag({trx.last_seen_seqno})]

\* set_trx_committed() of a write set that has been appended
set_trx_committed(c, trx) ==
    [c EXCEPT !.safe_to_discard_seqno =
                    IF BagCardinality(c.deps_set) = 1 THEN trx.last_seen_seqno ELSE @,
              !.deps_set = @ (-) SetToBag({trx.last_seen_seqno})]
----------------------------------------------------------------------------
(* What two write sets have to do with each other, whatever the index      *)
(* remembers: the reference the test is compared with.                     *)

\* Keys r of one write set and t of another stand for the same row or one is in
\* the other's table or database
Overlapping(r, t) == r.parts \in Prefixes(t.parts) \/ t.parts \in Prefixes(r.parts)

\* r writes what t holds
Writes(r, t) ==
    \E i \in DOMAIN r.keys, j \in DOMAIN t.keys :
        ~ r.keys[i].shared /\ Overlapping(r.keys[i], t.keys[j])

\* They cannot be applied side by side
Dependent(r, t) == Writes(r, t) \/ Writes(t, r)

\* t was executed without knowing r, of another node or in isolation
Unseen(r, t) ==
    /\ r.source_id # t.source_id \/ r.isolation
    /\ r.global_seqno > t.last_seen_seqno

\* What certification takes for granted of the write set t, passed being the
\* write sets ordered before it that passed, and cut the last commit cut before
\* it.  The locks of the source and its commit monitor put conflicting
\* transactions of one node in order (a reference hides the older ones): module
\* Replicator shows that they do (OwnOrderKept)
OwnOrder(passed, t) ==
    \A r \in passed :
        r.source_id = t.source_id /\ ~ r.isolation /\ ~ t.isolation /\ Dependent(r, t)
            => t.last_seen_seqno >= r.global_seqno - 1

\* No node reports as committed what a transaction of its own may still conflict
\* with (a purged reference cannot be found).  This holds unless a commit cut
\* overtakes t between the assignment of last_seen_seqno and its place in the
\* total order (FalsePositive in module ReplicatorProperties)
CutKnown(passed, cut, t) ==
    \A r \in passed :
        r.global_seqno < cut /\ ~ t.isolation /\ Writes(r, t)
            => ~ Unseen(r, t)

\* No key of a write set comes after a longer one that it is a prefix of: the
\* list of a write set would hold it as a partial key only (KeyList)
ShortFirst(keys) ==
    \A i, j \in DOMAIN keys :
        /\ j < i /\ (keys[i].shared <=> keys[j].shared)
        /\ keys[i].parts \in Prefixes(keys[j].parts)
        => keys[i].parts = keys[j].parts

----------------------------------------------------------------------------
(* What the proofs speak of. *)

CertFields == {"trx_map", "cert_index", "deps_set", "position", "initial_position",
               "safe_to_discard_seqno", "last_pa_unsafe"}

\* The references of a KeyEntry: to shared or to exclusive keys, to all or only
\* to full ones
Refs == {"ref_trx", "ref_full_trx", "ref_shared_trx", "ref_full_shared_trx"}

\* The element e of a write set is one that ref refers to
Counts(e, ref) ==
    /\ e.shared <=> ref \in {"ref_shared_trx", "ref_full_shared_trx"}
    /\ ref \in {"ref_full_trx", "ref_full_shared_trx"} => e.full

\* The seqnos in the object c are of write sets up to b, and deps_set_ counts
\* seqnos
Bounded(c, b) ==
    /\ DOMAIN c = CertFields /\ c.safe_to_discard_seqno \in Int
    /\ c.deps_set = [s \in DOMAIN c.deps_set |-> c.deps_set[s]]
    /\ DOMAIN c.deps_set \subseteq Nat \cup {-1}
    /\ DOMAIN c.trx_map \subseteq 1..b /\ c.last_pa_unsafe \in 0..b
    /\ \A path \in DOMAIN c.cert_index, ref \in Refs :
          c.cert_index[path][ref].global_seqno \in -1..b

\* c knows of the write set with seqno g that holds keys: it is in trx_map_, and
\* the index refers to nothing older, or it is older than all that is there
Remembers(c, g, keys) ==
    /\ g \notin DOMAIN c.trx_map => \A h \in DOMAIN c.trx_map : g < h
    /\ g \in DOMAIN c.trx_map =>
          \A e \in KeyList(keys), ref \in Refs : Counts(e, ref) =>
             e.path \in DOMAIN c.cert_index /\ c.cert_index[e.path][ref].global_seqno >= g

\* Every reference of the index is to one of the write sets W, which holds the key
RefersTo(c, W) ==
    \A path \in DOMAIN c.cert_index, ref \in Refs :
        \/ c.cert_index[path][ref] = NoTrx
        \/ \E t \in W : /\ c.cert_index[path][ref] = TrxRef(t)
                        /\ \E e \in KeyList(t.keys) : e.path = path /\ Counts(e, ref)

=============================================================================
