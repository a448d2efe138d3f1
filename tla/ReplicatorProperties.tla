------------------------ MODULE ReplicatorProperties ------------------------
(***************************************************************************)
(* What the replicator and the server together guarantee.                  *)
(***************************************************************************)
EXTENDS Replicator

\* Certification let x pass on n
Passed(n, x) == depends[n][x] >= 0

\* x has its seqno and is given up on n
Failed(n, x) == Ordered(x) /\ state[n][x] \in {"ABORTING", "ROLLED_BACK"}

Before(r, x) == Ordered(r) /\ Ordered(x) /\ GlobalSeqno(r) < GlobalSeqno(x)

\* The write sets before x that passed, and the last commit cut before it
PassedBefore(x) == {Trx(r) : r \in {y \in Trxs : Before(y, x) /\ \E n \in Nodes : Passed(n, y)}}

CutBefore(x) == Max({order[i].cut : i \in 1..LocalSeqno(x)})

\* One of the two guarantees certification is built on (module
\* Certification): a transaction was replicated when all that its node has ordered
\* before it, and that it conflicts with, was committed.  The locks are released
\* for a replay and an abort; wsrep_run_wsrep_commit() has to make up for it
OwnOrderKept == \A x \in Trxs : Ordered(x) => OwnOrder(PassedBefore(x), Trx(x))

\* All nodes come to the same end for a write set: what passes on one node is
\* not given up on another, also where the test was made out of order by
\* cert_for_aborted() or again by the replay
SameOutcome == \A x \in Trxs, n, m \in Nodes : ~ (Passed(n, x) /\ Failed(m, x))

\* append_trx() on a write set whose last_seen_seqno is below the certification
\* index: "for now it is false positive".  A commit cut has overtaken it, and
\* nodes have purged their indexes up to different seqnos, but they come to the
\* same end
FalsePositive ==
    \A x \in Trxs, n, m \in Nodes :
        Ordered(x) /\ last_seen[x] + 1 < CutBefore(x) => ~ (Passed(n, x) /\ Failed(m, x))

\* What x has written is there on n: its changes on an applier, its commit on its
\* source
Written(n, x) ==
    /\ Passed(n, x)
    /\ pc[n][x] \in {"committed", "done"} \/ (Source[x] # n /\ At(n, x, "commit"))

\* Appliers work in parallel, but a write set that depends on another is applied
\* when that one is committed (depends_seqno)
WritesInOrder ==
    \A n \in Nodes, r, x \in Trxs :
        /\ Passed(n, r) /\ Before(r, x) /\ Dependent(WriteSet[r], WriteSet[x])
        /\ Written(n, x)
        => r \in Committed(n)

\* First committer wins: a transaction that commits had seen, when it was
\* executed, all that was ordered before it and has written what it holds
SeesConflicting ==
    \A x, r \in Trxs :
        /\ Passed(Source[x], x) /\ ~ TOI(x)
        /\ Before(r, x) /\ Passed(Source[x], r) /\ Writes(WriteSet[r], WriteSet[x])
        => r \in seen[x]

\* abort_trx() never meets a state it has no answer to (gu_throw_fatal, upon
\* which the server calls abort())
AbortsValid == ~ fatal

\* COMMIT returns, and a write set that is ordered is committed or rolled back on
\* every node: appliers that wait for locks, local transactions that wait for
\* their turn and those that wait for a replay do not wait for each other, and
\* nobody is left under way when the clients start no more
EveryTrxEnds ==
    <>[](\A x \in Trxs : /\ pc[Source[x]][x] \in {"idle", "exec", "done"}
                         /\ Ordered(x) => \A n \in Nodes : At(n, x, "done"))

----------------------------------------------------------------------------
(* The inductive invariant behind AbortsValid: which states a TrxHandle can *)
(* be in at each point of its client's thread, and that a transaction which *)
(* was aborted, or is to be replayed, is marked so in the server.           *)

States ==
    {"EXECUTING", "REPLICATING", "CERTIFYING", "APPLYING", "COMMITTING", "MUST_ABORT",
     "ABORTING", "MUST_CERT_AND_REPLAY", "MUST_REPLAY_AM", "MUST_REPLAY_CM", "MUST_REPLAY",
     "REPLAYING", "COMMITTED", "ROLLED_BACK"}

ApplierPc == {"idle", "apply", "applying", "commit", "committed", "done"}

ClientPc ==
    {"idle", "exec", "pre", "gcs", "local", "apply", "commit", "ok", "fail", "bf", "engine",
     "committed", "done", "toi", "rlocal", "rapply", "rcommit", "replaying", "rfail"}

Conflicts == {"NO_CONFLICT", "MUST_ABORT", "REPLAYING"}

TypeOK ==
    /\ state \in [Nodes -> [Trxs -> States]]
    /\ pc \in [Nodes -> [Trxs -> ClientPc \cup ApplierPc]]
    /\ conflict \in [Trxs -> Conflicts]
    /\ fatal \in BOOLEAN

\* The states of a local transaction at p
StatesAt(p) ==
    CASE p = "idle"   -> {"EXECUTING"}
      [] p = "exec"   -> {"EXECUTING"}
      [] p = "pre"    -> {"EXECUTING", "MUST_ABORT"}
      [] p = "gcs"    -> {"REPLICATING", "MUST_ABORT"}
      [] p = "local"  -> {"CERTIFYING", "MUST_ABORT"}
      [] p = "apply"  -> {"APPLYING", "MUST_ABORT"}
      [] p = "commit" -> {"COMMITTING", "MUST_ABORT"}
      [] p = "ok"     -> {"COMMITTING", "MUST_ABORT"}
      [] p = "fail"   -> {"ABORTING"}
      [] p = "bf"     -> {"MUST_CERT_AND_REPLAY", "MUST_REPLAY_AM", "MUST_REPLAY_CM", "MUST_REPLAY"}
      [] OTHER        -> States

\* Where pre_commit() may still give up because the transaction was aborted
MayGiveUp == {"pre", "gcs", "local", "apply", "commit"}

\* The thread of x on n is at p, its TrxHandle in state s, and c is its
\* wsrep_conflict_state
ThreadFine(n, x, p, s, c) ==
    /\ Source[x] # n => p \in ApplierPc
    /\ Source[x] = n =>
          /\ p \in ClientPc /\ s \in StatesAt(p)
          /\ p \in MayGiveUp /\ s = "MUST_ABORT" => c = "MUST_ABORT"
          /\ p = "bf" => c = "MUST_ABORT"

ThreadOK(n, x) == ThreadFine(n, x, pc[n][x], state[n][x], conflict[x])

ThreadInv == TypeOK /\ ~ fatal /\ \A n \in Nodes, x \in Trxs : ThreadOK(n, x)

----------------------------------------------------------------------------
(* The inductive invariants behind WritesInOrder and OwnOrderKept: how far  *)
(* a thread has come, what the monitors say of it, and what the index of    *)
(* its node knows.                                                          *)

\* The thread is in front of the test, has given up, or has ended well
Untested(p, s) ==
    \/ p \in {"idle", "exec", "pre", "gcs", "local", "rlocal"}
    \/ p = "bf" /\ s = "MUST_CERT_AND_REPLAY"

GivenUp(p, s) == p \in {"fail", "rfail"} \/ (p = "done" /\ s = "ROLLED_BACK")

Ended(p, s) == p = "done" /\ s # "ROLLED_BACK"

\* or is on its way behind a test that it has passed
UnderWay(p, s) == p # "done" /\ ~ Untested(p, s) /\ ~ GivenUp(p, s)

\* It has been let into the commit monitor
HadTurn(p, s) ==
    \/ p \in {"ok", "engine", "toi", "committed", "replaying"}
    \/ p = "bf" /\ s = "MUST_REPLAY"
    \/ Ended(p, s)

\* The thread of a transaction that is ordered or not (o), with local_seqno l and
\* global_seqno g, is at p, the TrxHandle in state s with depends_seqno d; ll, al
\* and cl are the seqnos that have left the monitors of the node
Standing(own, p, s, d, o, l, g, ll, al, cl) ==
    /\ d \in Int
    /\ Untested(p, s) => d = FAILED /\ (o => l \notin ll)
    /\ GivenUp(p, s) => d = FAILED
    /\ UnderWay(p, s) \/ Ended(p, s) => o /\ d >= 0 /\ 1..l \subseteq ll
    /\ Untested(p, s) \/ UnderWay(p, s) => (o => g \notin al /\ g \notin cl)
    /\ HadTurn(p, s) => 1..(g - 1) \subseteq cl
    /\ ~ own /\ p \in {"applying", "commit"} => 1..d \subseteq al
    /\ own /\ p \in {"idle", "exec", "pre"} => ~ o
    /\ p \in {"local", "rlocal", "bf"} => o

Stands(n, x) ==
    Standing(Source[x] = n, pc[n][x], state[n][x], depends[n][x], Ordered(x), LocalSeqno(x),
             GlobalSeqno(x), local_left[n], apply_left[n], commit_left[n])

\* The write sets among the first i of the order
Count(i) == Cardinality({j \in 1..i : IsTrx(j)})

OrderOK ==
    /\ order \in Seq([cut : 0..MaxCut, trx : Trxs \cup {"none"}])
    /\ \A i \in DOMAIN order : IsTrx(i) => order[i].trx \in Trxs
    /\ \A i, j \in DOMAIN order : IsTrx(i) /\ IsTrx(j) /\ order[i].trx = order[j].trx => i = j

\* What has left the monitors was in the order
LeftOK(n) ==
    /\ local_left[n] \subseteq 1..Len(order)
    /\ apply_left[n] \subseteq 1..Count(Len(order))
    /\ commit_left[n] \subseteq 1..Count(Len(order))

\* The index of n knows what has passed the test, and nothing yet of those that
\* have not been in the local monitor
KnowsPassed(n) ==
    /\ \A i \in 1..(Len(order) + 1) : i \notin local_left[n] => Bounded(cert[n], Count(i - 1))
    /\ \A x \in Trxs : Passed(n, x) => Remembers(cert[n], GlobalSeqno(x), WriteSet[x].keys)

\* depends_seqno covers all that a write set cannot be applied beside
Covers(n) ==
    \A r, x \in Trxs :
        Passed(n, r) /\ Passed(n, x) /\ Before(r, x) /\ Dependent(WriteSet[r], WriteSet[x])
            => GlobalSeqno(r) <= depends[n][x]

NodeOK(n) ==
    /\ \A x \in Trxs : Stands(n, x)
    /\ LeftOK(n) /\ KnowsPassed(n)
    /\ ShortKeysFirst => Covers(n)

ValuesOK ==
    /\ {DOMAIN cert, DOMAIN local_left, DOMAIN apply_left, DOMAIN commit_left} = {Nodes}
    /\ depends \in [Nodes -> [Trxs -> Int]] /\ last_seen \in [Trxs -> Nat \cup {-1}]
    /\ last_committed \in [Nodes -> Int] /\ reported \in [Nodes -> Nat]

OrderInv == OrderOK /\ ValuesOK /\ \A n \in Nodes : NodeOK(n)

\* Being replayed, without locks
Replayed(p) == p \in {"rlocal", "rapply", "rcommit", "replaying", "rfail"}

\* Locks that conflict are held by one transaction, and one that takes them during
\* the replay of another does not come to its COMMIT
LocksOK ==
    \A r, x \in Trxs :
        /\ Replayed(pc[Source[r]][r]) =>
              conflict[r] = "REPLAYING" /\ (At(Source[r], r, "rfail") => Is(Source[r], r, "ABORTING"))
        /\ r # x /\ Source[r] = Source[x] /\ LocksConflict(r, x) /\ Holds(Source[x], x) =>
              /\ ~ Holds(Source[r], r)
              /\ ~ TOI(r) /\ Replayed(pc[Source[r]][r]) => At(Source[x], x, "exec")

\* A transaction that is replicated, or on its way to the group, has seen the turn
\* of all before it that its locks keep apart from it
SeesTurns ==
    \A r, x \in Trxs :
        /\ r # x /\ Source[r] = Source[x] /\ ~ TOI(r) /\ ~ TOI(x)
        /\ Dependent(WriteSet[r], WriteSet[x]) /\ Ordered(r)
        /\ IF Ordered(x) THEN GlobalSeqno(r) < GlobalSeqno(x) ELSE At(Source[x], x, "gcs")
        => \/ GivenUp(pc[Source[r]][r], state[Source[r]][r])
           \/ last_seen[x] >= GlobalSeqno(r) - 1

LockInv == LocksOK /\ SeesTurns

----------------------------------------------------------------------------
(* The inductive invariant behind SameOutcome: what the verdict of a node   *)
(* says of the history of the node.                                         *)

\* No commit cut has overtaken a write set between the assignment of its
\* last_seen_seqno and its place in the order (the opposite of what FalsePositive
\* is about)
NotOvertaken == \A x \in Trxs : Ordered(x) => CutBefore(x) <= last_seen[x] + 1

PassedOn(n) == {Trx(y) : y \in {z \in Trxs : Passed(n, z)}}

\* r was there before x, and x was executed without it
Missed(n, r, x) ==
    /\ Passed(n, r) /\ Before(r, x)
    /\ Writes(WriteSet[r], WriteSet[x]) /\ Unseen(Trx(r), Trx(x))

\* x fails by the whole history of n
Refuted(n, x) ==
    \/ last_seen[x] < 0 \/ GlobalSeqno(x) - last_seen[x] > MaxLength
    \/ ~ TOI(x) /\ \E r \in Trxs : Missed(n, r, x)

\* A write set that x's own node has ordered before it, and that x should have seen,
\* hides older ones in the index of n
Hidden(n, x) ==
    \E h \in Trxs : /\ Passed(n, h) /\ Before(h, x) /\ Source[h] = Source[x] /\ ~ TOI(h)
                   /\ Dependent(WriteSet[h], WriteSet[x]) /\ last_seen[x] < GlobalSeqno(h) - 1

\* The history of n refutes nothing that has passed, unless it was purged or hidden
Justified(n, x) ==
    /\ last_seen[x] >= 0 /\ GlobalSeqno(x) - last_seen[x] <= MaxLength
    /\ ShortKeysFirst /\ ~ TOI(x) =>
          \A r \in Trxs : Missed(n, r, x) => GlobalSeqno(r) < CutBefore(x) \/ Hidden(n, x)

\* y is gone from trx_map_ because of a cut, or of a write set that is too far away
Purged(n, y) ==
    \E i \in local_left[n] :
        /\ 1..i \subseteq local_left[n]
        /\ order[i].cut > GlobalSeqno(y) \/ Count(i) - GlobalSeqno(y) > MaxLength

VerdictOK(n, x) ==
    /\ Passed(n, x) => Justified(n, x) /\ (GlobalSeqno(x) \in DOMAIN cert[n].trx_map \/ Purged(n, x))
    /\ state[n][x] \in {"ABORTING", "ROLLED_BACK"} => GivenUp(pc[n][x], state[n][x])
    /\ GivenUp(pc[n][x], state[n][x]) => IF Ordered(x) THEN Refuted(n, x) ELSE Source[x] = n

VerdictInv ==
    \A n \in Nodes : /\ RefersTo(cert[n], PassedOn(n)) /\ cert[n].initial_position = 0
                     /\ \A x \in Trxs : VerdictOK(n, x)

----------------------------------------------------------------------------
(* The inductive invariant behind SeesConflicting: what a transaction that  *)
(* holds locks, or was replicated, has seen when it was executed.           *)

\* The locks of x keep out what it has not seen
LocksKeepOut ==
    \A r, x \in Trxs :
        r # x /\ Holds(Source[x], x) /\ LocksConflict(r, x) =>
            /\ r \in Committed(Source[x]) => r \in seen[x]
            /\ Source[r] # Source[x] => ~ At(Source[x], r, "commit")

\* r is in the past of x, which is replicated or on its way to the group: by
\* last_seen_seqno, or because both are of one node
InThePast(r, x) ==
    /\ r # x /\ ~ TOI(x) /\ Dependent(WriteSet[r], WriteSet[x])
    /\ Ordered(r) /\ (Ordered(x) \/ At(Source[x], x, "gcs"))
    /\ \/ GlobalSeqno(r) <= last_seen[x]
       \/ Source[r] = Source[x] /\ ~ TOI(r) /\ (Ordered(x) => GlobalSeqno(r) < GlobalSeqno(x))

PastSeen ==
    \A r, x \in Trxs :
        InThePast(r, x) => GivenUp(pc[Source[x]][r], state[Source[x]][r]) \/ r \in seen[x]

\* Which of the two ways a transaction goes, and that nobody has seen the future
SeenBounds ==
    \A x \in Trxs :
        /\ IF TOI(x) THEN pc[Source[x]][x] \notin {"ok", "engine"} ELSE pc[Source[x]][x] # "toi"
        /\ last_seen[x] <= Count(Len(order))

SeenInv == seen \in [Trxs -> SUBSET Trxs] /\ LocksKeepOut /\ PastSeen /\ SeenBounds

=============================================================================
