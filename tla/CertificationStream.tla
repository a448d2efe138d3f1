------------------------ MODULE CertificationStream ------------------------
(***************************************************************************)
(* The Certification object of one node, fed with the total order: write   *)
(* sets in the order of their seqnos, commits in any order, commit cuts    *)
(* and configuration changes.  Which write sets may come is what the other *)
(* nodes, and the source's locks, guarantee (OwnOrder, CutKnown), to be    *)
(* looked at in module Replicator.                                         *)
(***************************************************************************)
EXTENDS Certification

CONSTANTS
    Sources,    \* the nodes
    Here,       \* the node this is
    WriteSets,  \* WriteSets[g]: what may get the seqno g (keys, isolation, pa_unsafe)
    ConfAt      \* bound: the seqnos after which there may be a configuration change

ASSUME WriteSetsAssumption ==
    WriteSets \in Seq(SUBSET [keys : Seq(Key), isolation : BOOLEAN, pa_unsafe : BOOLEAN])

\* Usage: what VerdictByHistory and DependsCover take for granted of the keys
ShortKeysFirst == \A g \in DOMAIN WriteSets : \A ws \in WriteSets[g] : ShortFirst(ws.keys)

VARIABLES
    cert,      \* the Certification object
    log,       \* log[g]: the write set with seqno g and what came of it, depends_seqno
    done,      \* the seqnos that set_trx_committed() has been called for
    reported,  \* the highest safe-to-discard seqno this node may have reported
    cut,       \* the last commit cut
    untimely   \* seqnos that a cut or a trim has purged before they were committed

vars == <<cert, log, done, reported, cut, untimely>>

\* The write sets that passed
Passed == {log[g] : g \in {h \in DOMAIN log : log[h].depends_seqno # FAILED}}

Init ==
    /\ cert = NewCertification(0)
    /\ log = <<>> /\ done = {} /\ untimely = {}
    /\ reported = 0 /\ cut = 0

\* The next write set of the total order, not tested yet
NextTrx(source, ws, last_seen) ==
    [global_seqno |-> Len(log) + 1, last_seen_seqno |-> last_seen, source_id |-> source,
     keys |-> ws.keys, isolation |-> ws.isolation, pa_unsafe |-> ws.pa_unsafe,
     depends_seqno |-> FAILED]

Ordered(trx, depends) ==
    /\ OwnOrder(Passed, trx) /\ CutKnown(Passed, cut, trx)
    /\ log' = Append(log, [trx EXCEPT !.depends_seqno = depends])

\* set_trx_committed() and report_last_committed() after it
Committed(c, g) ==
    /\ cert' = c
    /\ done' = done \cup {g}
    /\ reported' = Max({reported, SafeToDiscard(c)})

\* ReplicatorSMM::cert(): a write set that fails is committed at once
Certify(trx) ==
    LET depends == Verdict(cert, trx)
        after   == append_trx(cert, trx)
    IN /\ Ordered(trx, depends)
       /\ IF depends = FAILED
          THEN Committed(set_trx_committed(after, trx), trx.global_seqno)
          ELSE cert' = after /\ UNCHANGED <<done, reported>>
       /\ untimely' = untimely \cup {g \in DOMAIN cert.trx_map \ DOMAIN after.trx_map : g \notin done}
       /\ UNCHANGED cut

\* cert_for_aborted(): an own write set that was aborted and fails is never
\* appended
CertForAborted(trx) ==
    /\ trx.source_id = Here /\ ~ trx.isolation
    /\ do_test(cert, trx, FALSE) = FAILED
    /\ Ordered(trx, FAILED)
    /\ done' = done \cup {trx.global_seqno}
    /\ UNCHANGED <<cert, reported, cut, untimely>>

\* A write set has been committed: not always in the order of the seqnos, as the
\* monitors have been left before
SetCommitted(g) ==
    /\ g \in DOMAIN log \ done
    /\ Committed(set_trx_committed(cert, log[g]), g)
    /\ UNCHANGED <<log, cut, untimely>>

\* process_commit_cut(): the least seqno the nodes have reported
CommitCut(seqno) ==
    /\ cut' = seqno
    /\ cert' = purge_trxs_upto(cert, seqno)
    /\ untimely' = untimely \cup {g \in DOMAIN cert.trx_map \ DOMAIN cert'.trx_map : g \notin done}
    /\ UNCHANGED <<log, done, reported>>

\* process_conf_change(): all nodes start from an empty index.  The monitors have
\* been drained, but a thread that has left them may not have called
\* set_trx_committed() yet
ConfChange ==
    /\ Len(log) \in ConfAt /\ cert.initial_position < Len(log)
    /\ cert' = assign_initial_position(cert, Len(log))
    /\ UNCHANGED <<log, done, reported, cut, untimely>>

Next ==
    \/ /\ Len(log) < Len(WriteSets)
       /\ \E source \in Sources, ws \in WriteSets[Len(log) + 1], last_seen \in Max({0, Len(log) - MaxLength})..Len(log) :
             LET trx == NextTrx(source, ws, last_seen)
             IN Certify(trx) \/ CertForAborted(trx)
    \/ \E g \in DOMAIN log : SetCommitted(g)
    \/ \E seqno \in (cut + 1)..reported : CommitCut(seqno)
    \/ ConfChange

Spec == Init /\ [][Next]_vars

----------------------------------------------------------------------------
(* Properties *)

\* The verdict the index gives is the one the whole history since the last
\* configuration change gives: no older conflict is hidden by a newer
\* reference, lost when a write set is purged, or kept when it should not be
\* (certify_and_depend_v1to2() only looks at the last references of a key)
VerdictByHistory ==
    \A g \in DOMAIN log :
        LET t == log[g]
            earlier == {r \in Passed : r.global_seqno < g}
        IN g > cert.initial_position =>
             (t.depends_seqno = FAILED <=>
                \/ t.last_seen_seqno < cert.initial_position
                \/ g - t.last_seen_seqno > MaxLength
                \/ ~ t.isolation /\ \E r \in earlier : Writes(r, t) /\ Unseen(r, t))

\* A write set is applied after every earlier one that it cannot be applied
\* beside, shared keys and F_PA_UNSAFE included (ApplyOrder only waits for
\* depends_seqno)
DependsCover ==
    \A t \in Passed : \A r \in Passed :
        /\ r.global_seqno < t.global_seqno
        /\ Dependent(r, t) \/ r.pa_unsafe \/ t.pa_unsafe \/ t.isolation
        => r.global_seqno <= t.depends_seqno

\* The index refers to write sets that are still there, and a full key is
\* referred to only where the key is (KeyEntry::assert_unref(), ~KeyEntry()).
\* A commit cut or a trim that drops one of the four references too few leaves
\* a pointer to a deleted TrxHandle
RefsAlive ==
    \A path \in DOMAIN cert.cert_index :
        LET entry == cert.cert_index[path]
        IN /\ {entry.ref_trx, entry.ref_full_trx, entry.ref_shared_trx, entry.ref_full_shared_trx}
                 \subseteq {NoTrx} \cup {TrxRef(log[g]) : g \in DOMAIN cert.trx_map}
           /\ entry.ref_full_trx # NoTrx => entry.ref_trx # NoTrx
           /\ entry.ref_full_shared_trx # NoTrx => entry.ref_shared_trx # NoTrx

\* No write set is purged before it is committed ("trx not committed in purge
\* and discard"), although commits are reported out of order
PurgedWhenCommitted == untimely = {}

----------------------------------------------------------------------------
(* The inductive invariant behind the properties: what deps_set_ counts,   *)
(* what trx_map_ still holds, and what the index remembers of it.          *)

LogEntry ==
    [global_seqno : Nat, last_seen_seqno : Nat, source_id : Sources, keys : Seq(Key),
     isolation : BOOLEAN, pa_unsafe : BOOLEAN, depends_seqno : Nat \cup {FAILED}]

\* The log l is in the order of the seqnos
LogOK(l) ==
    /\ l \in Seq(LogEntry)
    /\ \A g \in DOMAIN l : l[g].global_seqno = g /\ l[g].last_seen_seqno < g

\* The write sets that set_trx_committed() has still to be called for
Pending == DOMAIN log \ done

\* deps_set_ holds the last_seen_seqno of these and of no others
DepsOK ==
    cert.deps_set = [s \in {log[g].last_seen_seqno : g \in Pending} |->
                        Cardinality({g \in Pending : log[g].last_seen_seqno = s})]

\* trx_map_ holds write sets of the present configuration, and how they fared;
\* a write set that passed is missing only when it is older than all that are
\* there, and before the cut k or out of reach of write set n and any later one
TrxMapOK(c, l, n, k) ==
    /\ c.initial_position \in 0..Len(l)
    /\ DOMAIN c.trx_map \subseteq (c.initial_position + 1)..Len(l)
    /\ \A g \in DOMAIN c.trx_map : c.trx_map[g] <=> l[g].depends_seqno # FAILED
    /\ \A g \in (c.initial_position + 1)..Len(l) :
          l[g].depends_seqno # FAILED /\ g \notin DOMAIN c.trx_map =>
             /\ \A h \in DOMAIN c.trx_map : g < h
             /\ g < k \/ g < n - MaxLength

\* Nothing that passed with F_PA_UNSAFE is later than last_pa_unsafe_
UnsafeOK(c, l) ==
    /\ c.last_pa_unsafe \in c.initial_position..Len(l)
    /\ \A g \in DOMAIN l :
          l[g].depends_seqno # FAILED /\ l[g].pa_unsafe => g <= c.last_pa_unsafe

\* A reference in the index c is to a write set of trx_map_ that passed and holds
\* the key, and no later one of trx_map_ does
IndexOK(c, l) ==
    /\ \A path \in DOMAIN c.cert_index, ref \in Refs :
          \/ c.cert_index[path][ref] = NoTrx
          \/ \E g \in DOMAIN c.trx_map :
                /\ c.trx_map[g] /\ c.cert_index[path][ref] = TrxRef(l[g])
                /\ \E e \in KeyList(l[g].keys) : e.path = path /\ Counts(e, ref)
    /\ \A g \in DOMAIN c.trx_map : c.trx_map[g] =>
          \A e \in KeyList(l[g].keys), ref \in Refs : Counts(e, ref) =>
             e.path \in DOMAIN c.cert_index /\ c.cert_index[e.path][ref].global_seqno >= g

CertOK(c, l, n, k) ==
    /\ DOMAIN c = CertFields /\ c.safe_to_discard_seqno \in Int
    /\ TrxMapOK(c, l, n, k) /\ UnsafeOK(c, l) /\ IndexOK(c, l)

CertInv ==
    /\ LogOK(log) /\ done \subseteq DOMAIN log /\ cut \in Int
    /\ DepsOK
    /\ CertOK(cert, log, Len(log), cut)
=============================================================================
