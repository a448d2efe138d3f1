----------------------------- MODULE Replicator -----------------------------
(***************************************************************************)
(* Transactions of a cluster from the client's COMMIT to the end on every  *)
(* node: the replicator (galera/src/replicator_smm.cpp) with its three     *)
(* monitors, the certification index (module Certification), the service   *)
(* thread that reports what is committed, and of the server the part that  *)
(* decides who may interrupt whom: wsrep_run_wsrep_commit(), the replay of *)
(* a transaction, and wsrep_innobase_kill_one_trx(), with which an applier *)
(* aborts a local transaction that holds a lock it needs (BF abort).       *)
(*                                                                         *)
(* On its source a transaction has the client's thread: exec (it executes  *)
(* and takes locks), pre, gcs, local, apply, commit (inside pre_commit, at *)
(* the point where the thread can wait and the lock of the TrxHandle is    *)
(* released), ok, fail, bf (pre_commit has returned), engine (the server   *)
(* commits), committed (the storage engine has committed, its locks are    *)
(* gone), done.  rlocal, rapply, rcommit, replaying and rfail are those of *)
(* wsrep_replay_transaction().  A statement in total order isolation (TOI) *)
(* takes no locks before toi.                                              *)
(* On the other nodes a transaction has an applier's thread.               *)
(*                                                                         *)
(* Of the monitors there is only what modules Monitor and OrderedEntry     *)
(* show of them: who has left, who may enter, and that a waiting thread    *)
(* may be interrupted.  Group communication is the total order of write    *)
(* sets and commit cuts that GcsCore agrees on.                            *)
(***************************************************************************)
EXTENDS Certification, TLC

CONSTANTS
    Nodes,
    Trxs,      \* the transactions clients may start, each once
    Source,    \* Source[x]: the node x is started on
    WriteSet,  \* WriteSet[x]: keys, isolation, pa_unsafe
    Gaps,      \* pairs {x, y} whose locks conflict though their keys do not (gap locks)
    Slaves,    \* applier threads of a node
    MaxCut,    \* bound: the highest commit cut
    MayStart(_, _, _)
               \* bound: whether clients start x, given those started and those
               \* committed everywhere

ASSUME ReplicatorAssumption ==
    /\ \A x \in Trxs :
          /\ Source[x] \in Nodes
          /\ WriteSet[x] \in [keys : Seq(Key), isolation : BOOLEAN, pa_unsafe : BOOLEAN]
    /\ MaxCut \in Nat

\* Usage: what WritesInOrder takes for granted of the keys (KeyList)
ShortKeysFirst == \A x \in Trxs : ShortFirst(WriteSet[x].keys)

VARIABLES
    order,      \* the total order: write sets and commit cuts
    state,      \* state[n][x]: TrxHandle::state() of x on n
    pc,         \* pc[n][x]: where the thread of x on n is
    conflict,   \* conflict[x]: wsrep_conflict_state of the client's thread
    last_seen,  \* last_seen[x]: last_seen_seqno
    depends,    \* depends[n][x]: depends_seqno
    seen,       \* seen[x]: what was committed on the source when x was executed
    cert,       \* cert[n]: the Certification object
    local_left, apply_left, commit_left,
                \* [n]: the seqnos that have left the monitors or were cancelled
    last_committed, \* [n]: ServiceThd::data_.last_committed_
    reported,   \* [n]: the last value sent to the group
    fatal       \* an assertion or gu_throw_fatal was reached

vars == <<order, state, pc, conflict, last_seen, depends, seen, cert, local_left, apply_left,
          commit_left, last_committed, reported, fatal>>

threads == <<state, pc, conflict, last_seen, seen>>
monitors == <<local_left, apply_left, commit_left>>
reports == <<last_committed, reported>>

----------------------------------------------------------------------------
(* The total order *)

IsTrx(i) == order[i].cut = 0

\* The place of x in the order: local_seqno, and global_seqno that counts only
\* write sets
Ordered(x) == \E i \in DOMAIN order : order[i].cut = 0 /\ order[i].trx = x

LocalSeqno(x) == CHOOSE i \in DOMAIN order : order[i].cut = 0 /\ order[i].trx = x

GlobalSeqno(x) == Cardinality({i \in 1..LocalSeqno(x) : IsTrx(i)})

\* The write set as the certification sees it
Trx(x) ==
    [global_seqno |-> GlobalSeqno(x), last_seen_seqno |-> last_seen[x], source_id |-> Source[x],
     keys |-> WriteSet[x].keys, isolation |-> WriteSet[x].isolation,
     pa_unsafe |-> WriteSet[x].pa_unsafe]

\* last_left() of a monitor: everything up to it has left
LastLeft(left) == CHOOSE g \in 0..Cardinality(left) : 1..g \subseteq left /\ g + 1 \notin left

\* LocalOrder and CommitOrder (NO_OOOC): one after the other
LocalTurn(n, i) == LastLeft(local_left[n]) + 1 = i

CommitTurn(n, x) == LastLeft(commit_left[n]) + 1 = GlobalSeqno(x)

\* Mutant: dependencies are forgotten
ApplyTurnAny(n, x) == n \in Nodes /\ x \in Trxs

\* ApplyOrder: local transactions do not wait
ApplyTurn(n, x) == Source[x] = n \/ LastLeft(apply_left[n]) >= depends[n][x]

Leave(left, n, seqno) == left' = [left EXCEPT ![n] = @ \cup {seqno}]

----------------------------------------------------------------------------
(* Locks of the storage engine *)

TOI(x) == WriteSet[x].isolation

LocksConflict(x, y) == Dependent(WriteSet[x], WriteSet[y]) \/ {x, y} \in Gaps

\* Local transactions hold their locks until they are committed or rolled back
Holds(n, x) ==
    /\ Source[x] = n /\ ~ TOI(x)
    /\ pc[n][x] \in {"exec", "pre", "gcs", "local", "apply", "commit", "ok", "fail", "bf", "engine"}

\* Threads with priority ("brute force") that need their locks now
NeedsLocks(n, x) == pc[n][x] \in {"applying", "toi", "replaying"}

\* No local transaction is in the way of x.  Those with priority are not in each
\* other's: the apply monitor keeps dependent ones apart.  Left out is a conflict of
\* gap locks between them, which InnoDB settles in favour of the earlier one
\* (wsrep_kill_victim())
LocksFree(n, x) == \A y \in Trxs \ {x} : Holds(n, y) => ~ LocksConflict(x, y)

----------------------------------------------------------------------------
(* Steps of threads *)

\* The thread of x on n goes on to p, with the TrxHandle in state s
Goes(n, x, p, s) ==
    /\ pc' = [pc EXCEPT ![n][x] = p]
    /\ state' = [state EXCEPT ![n][x] = s]

At(n, x, p) == pc[n][x] = p

Is(n, x, s) == state[n][x] = s

\* report_last_committed(): the service thread is told what may be discarded
Report(n, c) == last_committed' = [last_committed EXCEPT ![n] = Max({@, SafeToDiscard(c)})]

\* The end of a transaction that has its seqno: both monitors are left, the
\* certification knows, and the service thread
Finish(n, x) ==
    \E c \in {set_trx_committed(cert[n], Trx(x))} :
        /\ Leave(commit_left, n, GlobalSeqno(x))
        /\ Leave(apply_left, n, GlobalSeqno(x))
        /\ cert' = [cert EXCEPT ![n] = c]
        /\ Report(n, c)

\* Mutant: the commit monitor is not cancelled
CancelApply(n, x) == Leave(apply_left, n, GlobalSeqno(x)) /\ UNCHANGED commit_left

\* A write set that failed: self_cancel() of the apply and the commit monitor
CancelBoth(n, x) == Leave(apply_left, n, GlobalSeqno(x)) /\ Leave(commit_left, n, GlobalSeqno(x))

\* ReplicatorSMM::cert(), inside the local monitor: passed and failed say where
\* the thread goes
Certify(n, x, passed, failed) ==
    /\ LocalTurn(n, LocalSeqno(x))
    /\ Leave(local_left, n, LocalSeqno(x))
    /\ \E trx \in {Trx(x)} : \E verdict \in {Verdict(cert[n], trx)},
                               after \in {append_trx(cert[n], trx)} :
        /\ depends' = [depends EXCEPT ![n][x] = verdict]
        /\ IF verdict = FAILED
           THEN /\ failed /\ CancelBoth(n, x)
                /\ cert' = [cert EXCEPT ![n] = set_trx_committed(after, trx)]
           ELSE /\ passed /\ UNCHANGED <<apply_left, commit_left>>
                /\ cert' = [cert EXCEPT ![n] = after]
    /\ UNCHANGED <<order, reports, last_seen, seen, fatal>>

\* Mutant: whatever the test says, an aborted transaction fails
CertForAbortedFails(n, x) ==
    /\ Goes(n, x, "fail", "ABORTING")
    /\ Leave(local_left, n, LocalSeqno(x)) /\ CancelBoth(n, x)
    /\ UNCHANGED <<order, conflict, last_seen, depends, seen, cert, reports, fatal>>

\* cert_for_aborted(): the test of a transaction that has been aborted, out of
\* order.  Only a failure is final
CertForAborted(n, x) ==
    /\ IF do_test(cert[n], Trx(x), FALSE) = FAILED
       THEN /\ Goes(n, x, "fail", "ABORTING")
            /\ Leave(local_left, n, LocalSeqno(x)) /\ CancelBoth(n, x)
       ELSE /\ Goes(n, x, "bf", "MUST_CERT_AND_REPLAY")
            /\ UNCHANGED monitors
    /\ UNCHANGED <<order, conflict, last_seen, depends, seen, cert, reports, fatal>>

\* A step that concerns the thread of x alone
Only(n, x, p, s) ==
    /\ Goes(n, x, p, s)
    /\ UNCHANGED <<order, conflict, last_seen, depends, seen, cert, monitors, reports, fatal>>

----------------------------------------------------------------------------
(* The client's thread *)

Committed(n) == {x \in Trxs : pc[n][x] \in {"committed", "done"} /\ ~ Is(n, x, "ROLLED_BACK")}

\* The client's part: x has not been started
Startable(n, x) ==
    /\ Source[x] = n /\ At(n, x, "idle")
    /\ MayStart(x, {y \in Trxs : ~ At(Source[y], y, "idle")},
                {y \in Trxs : \A m \in Nodes : y \in Committed(m)})

\* A transaction is executed: it has its locks, and has seen what is committed
Begin(n, x) ==
    /\ Startable(n, x) /\ ~ TOI(x)
    /\ LocksFree(n, x)
    /\ \A y \in Trxs : Source[y] # n /\ At(n, y, "commit") => ~ LocksConflict(x, y)
    /\ pc' = [pc EXCEPT ![n][x] = "exec"]
    /\ seen' = [seen EXCEPT ![x] = Committed(n)]
    /\ UNCHANGED <<order, state, conflict, last_seen, depends, cert, monitors, reports, fatal>>

\* Mutant: COMMIT does not wait for those being replayed
StartCommitNow(n, x) ==
    /\ Source[x] = n /\ At(n, x, "exec")
    /\ conflict[x] = "NO_CONFLICT"
    /\ Only(n, x, "pre", "EXECUTING")

\* COMMIT: wsrep_run_wsrep_commit() waits while transactions are replayed
StartCommit(n, x) ==
    /\ Source[x] = n /\ At(n, x, "exec")
    /\ conflict[x] = "NO_CONFLICT"
    /\ \A y \in Trxs : Source[y] = n => conflict[y] # "REPLAYING"
    /\ Only(n, x, "pre", "EXECUTING")

\* A transaction aborted before its COMMIT is rolled back by its own thread or
\* by the rollbacker thread
ExecAborted(n, x) ==
    /\ Source[x] = n /\ At(n, x, "exec") /\ conflict[x] = "MUST_ABORT"
    /\ Goes(n, x, "done", "ROLLED_BACK")
    /\ conflict' = [conflict EXCEPT ![x] = "NO_CONFLICT"]
    /\ Report(n, cert[n])
    /\ UNCHANGED <<order, last_seen, depends, seen, cert, monitors, reported, fatal>>

\* A statement in total order isolation has executed nothing yet
ToiStart(n, x) == Startable(n, x) /\ TOI(x) /\ Only(n, x, "pre", "EXECUTING")

\* Mutant: what is certified is taken for committed
ReplicateAtPosition(n, x) ==
    /\ Source[x] = n /\ At(n, x, "pre")
    /\ IF Is(n, x, "MUST_ABORT")
       THEN Goes(n, x, "fail", "ABORTING") /\ UNCHANGED last_seen
       ELSE /\ Goes(n, x, "gcs", "REPLICATING")
            /\ last_seen' = [last_seen EXCEPT ![x] = cert[n].position]
    /\ UNCHANGED <<order, conflict, depends, seen, cert, monitors, reports, fatal>>

\* replicate(), until the write set is given to GCS
Replicate(n, x) ==
    /\ Source[x] = n /\ At(n, x, "pre")
    /\ IF Is(n, x, "MUST_ABORT")
       THEN Goes(n, x, "fail", "ABORTING") /\ UNCHANGED last_seen
       ELSE /\ Goes(n, x, "gcs", "REPLICATING")
            /\ last_seen' = [last_seen EXCEPT ![x] = LastLeft(commit_left[n])]
    /\ UNCHANGED <<order, conflict, depends, seen, cert, monitors, reports, fatal>>

\* The group puts the write set in its order
Send(x) ==
    /\ At(Source[x], x, "gcs") /\ ~ Ordered(x)
    /\ order' = Append(order, [cut |-> 0, trx |-> x])
    /\ UNCHANGED <<threads, depends, cert, monitors, reports, fatal>>

\* gcs_.repl() fails: abort_trx() has interrupted it before it was sent
Interrupted(n, x) ==
    /\ Source[x] = n /\ At(n, x, "gcs") /\ ~ Ordered(x) /\ Is(n, x, "MUST_ABORT")
    /\ Only(n, x, "fail", "ABORTING")

\* gcs_.repl() returns with the seqnos: pre_commit() begins, unless x was aborted
Replicated(n, x) ==
    /\ Source[x] = n /\ At(n, x, "gcs") /\ Ordered(x)
    /\ IF Is(n, x, "MUST_ABORT")
       THEN CertForAborted(n, x)
       ELSE Only(n, x, "local", "CERTIFYING")

\* pre_commit(), to_isolation_begin(): certified in the local monitor
CertLocal(n, x) ==
    /\ Source[x] = n /\ At(n, x, "local")
    /\ Certify(n, x, IF Is(n, x, "MUST_ABORT") THEN Goes(n, x, "bf", "MUST_REPLAY_AM")
                                               ELSE Goes(n, x, "apply", "APPLYING"),
                     Goes(n, x, "fail", "ABORTING"))
    /\ UNCHANGED conflict

\* or interrupted in front of it
CertInterrupted(n, x) ==
    /\ Source[x] = n /\ At(n, x, "local") /\ Is(n, x, "MUST_ABORT")
    /\ CertForAborted(n, x)

\* In the apply monitor, or interrupted in front of it
EnterApply(n, x) ==
    /\ Source[x] = n /\ At(n, x, "apply") /\ ApplyTurn(n, x)
    /\ IF Is(n, x, "MUST_ABORT")
       THEN Only(n, x, "bf", "MUST_REPLAY_CM")
       ELSE Only(n, x, "commit", "COMMITTING")

ApplyInterrupted(n, x) ==
    /\ Source[x] = n /\ At(n, x, "apply") /\ Is(n, x, "MUST_ABORT")
    /\ Only(n, x, "bf", "MUST_REPLAY_AM")

\* In the commit monitor, or interrupted in front of it
EnterCommit(n, x) ==
    /\ Source[x] = n /\ At(n, x, "commit") /\ CommitTurn(n, x)
    /\ CASE TOI(x)                -> Only(n, x, "toi", "APPLYING")
         [] Is(n, x, "MUST_ABORT") -> Only(n, x, "bf", "MUST_REPLAY")
         [] OTHER                  -> Only(n, x, "ok", "COMMITTING")

CommitInterrupted(n, x) ==
    /\ Source[x] = n /\ At(n, x, "commit") /\ Is(n, x, "MUST_ABORT")
    /\ Only(n, x, "bf", "MUST_REPLAY_CM")

\* pre_commit() was good: an abort that came since is forgotten, the server
\* commits and releases the locks
ServerCommit(n, x) ==
    /\ At(n, x, "ok")
    /\ pc' = [pc EXCEPT ![n][x] = "engine"]
    /\ conflict' = [conflict EXCEPT ![x] = "NO_CONFLICT"]
    /\ UNCHANGED <<order, state, last_seen, depends, seen, cert, monitors, reports, fatal>>

EngineCommit(n, x) == At(n, x, "engine") /\ Only(n, x, "committed", state[n][x])

\* The isolated statement is executed
ToiExecute(n, x) ==
    At(n, x, "toi") /\ LocksFree(n, x) /\ Only(n, x, "committed", "APPLYING")

\* post_commit(), to_isolation_end()
PostCommit(n, x) ==
    /\ Source[x] = n /\ At(n, x, "committed")
    /\ Goes(n, x, "done", "COMMITTED")
    /\ conflict' = [conflict EXCEPT ![x] = "NO_CONFLICT"]
    /\ Finish(n, x)
    /\ UNCHANGED <<order, last_seen, depends, seen, local_left, reported, fatal>>

\* pre_commit() or the replay failed: post_rollback()
Rollback(n, x) ==
    /\ pc[n][x] \in {"fail", "rfail"}
    /\ Goes(n, x, "done", "ROLLED_BACK")
    /\ conflict' = [conflict EXCEPT ![x] = "NO_CONFLICT"]
    /\ Report(n, cert[n])
    /\ UNCHANGED <<order, last_seen, depends, seen, cert, monitors, reported, fatal>>

----------------------------------------------------------------------------
(* The replay of a transaction that was aborted but is certified, or may be *)

\* The server rolls back, without post_rollback(), and wsrep_replay_transaction()
\* calls replay_trx()
ReplayStart(n, x) ==
    /\ At(n, x, "bf")
    /\ conflict' = [conflict EXCEPT ![x] = "REPLAYING"]
    /\ CASE Is(n, x, "MUST_CERT_AND_REPLAY") -> Goes(n, x, "rlocal", "CERTIFYING")
         [] Is(n, x, "MUST_REPLAY_AM")       -> Goes(n, x, "rapply", "MUST_REPLAY_AM")
         [] Is(n, x, "MUST_REPLAY_CM")       -> Goes(n, x, "rcommit", "MUST_REPLAY_CM")
         [] Is(n, x, "MUST_REPLAY")          -> Goes(n, x, "replaying", "REPLAYING")
    /\ UNCHANGED <<order, last_seen, depends, seen, cert, monitors, reports, fatal>>

ReplayCert(n, x) ==
    /\ At(n, x, "rlocal")
    /\ Certify(n, x, Goes(n, x, "rapply", "MUST_REPLAY_AM"), Goes(n, x, "rfail", "ABORTING"))
    /\ UNCHANGED conflict

ReplayEnterApply(n, x) ==
    /\ At(n, x, "rapply") /\ ApplyTurn(n, x)
    /\ Goes(n, x, "rcommit", "MUST_REPLAY_CM")
    /\ depends' = [depends EXCEPT ![n][x] = GlobalSeqno(x) - 1]
    /\ UNCHANGED <<order, conflict, last_seen, seen, cert, monitors, reports, fatal>>

ReplayEnterCommit(n, x) ==
    At(n, x, "rcommit") /\ CommitTurn(n, x) /\ Only(n, x, "replaying", "REPLAYING")

\* apply_trx_ws(), commit_cb_()
ReplayApply(n, x) ==
    At(n, x, "replaying") /\ LocksFree(n, x) /\ Only(n, x, "committed", "REPLAYING")

----------------------------------------------------------------------------
(* The appliers: process_trx(), process_commit_cut() *)

Busy(n) ==
    Cardinality({x \in Trxs : Source[x] # n
                              /\ pc[n][x] \in {"apply", "applying", "commit", "committed"}})

RemoteCert(n, x) ==
    /\ Source[x] # n /\ At(n, x, "idle") /\ Ordered(x) /\ Busy(n) < Slaves
    /\ Certify(n, x, Goes(n, x, "apply", "CERTIFYING"), Goes(n, x, "done", "ROLLED_BACK"))
    /\ UNCHANGED conflict

RemoteEnterApply(n, x) ==
    /\ Source[x] # n /\ At(n, x, "apply") /\ ApplyTurn(n, x)
    /\ Only(n, x, "applying", "APPLYING")

\* apply_trx_ws(): what is in the way has to go first
RemoteApply(n, x) ==
    At(n, x, "applying") /\ LocksFree(n, x) /\ Only(n, x, "commit", "APPLYING")

RemoteCommit(n, x) ==
    /\ Source[x] # n /\ At(n, x, "commit") /\ CommitTurn(n, x)
    /\ Only(n, x, "committed", "COMMITTING")

RemoteDone(n, x) ==
    /\ Source[x] # n /\ At(n, x, "committed")
    /\ Goes(n, x, "done", "COMMITTED")
    /\ Finish(n, x)
    /\ UNCHANGED <<order, conflict, last_seen, depends, seen, local_left, reported, fatal>>

ProcessCut(n) ==
    \E i \in DOMAIN order :
        /\ order[i].cut > 0 /\ LocalTurn(n, i) /\ Busy(n) < Slaves
        /\ cert' = [cert EXCEPT ![n] = purge_trxs_upto(@, order[i].cut)]
        /\ Leave(local_left, n, i)
        /\ UNCHANGED <<order, threads, depends, apply_left, commit_left, reports, fatal>>

----------------------------------------------------------------------------
(* Aborting *)

\* QUERY_COMMITTING: the thread is in pre_commit()
QueryCommitting(n, x) ==
    pc[n][x] \in {"pre", "gcs", "local", "apply", "commit", "ok", "fail", "bf"}

\* Mutant: an abort is asked for again
KillAgain(n, bf, x) ==
    /\ NeedsLocks(n, bf) /\ Holds(n, x) /\ LocksConflict(bf, x)
    /\ conflict[x] \in {"NO_CONFLICT", "MUST_ABORT"}
    /\ conflict' = [conflict EXCEPT ![x] = "MUST_ABORT"]
    /\ IF QueryCommitting(n, x)
       THEN /\ state' = [state EXCEPT ![n][x] = IF @ = "ABORTING" THEN @ ELSE "MUST_ABORT"]
            /\ fatal' = (fatal \/ state[n][x] \notin
                         {"EXECUTING", "REPLICATING", "CERTIFYING", "APPLYING", "COMMITTING",
                          "MUST_ABORT", "ABORTING"})
       ELSE UNCHANGED <<state, fatal>>
    /\ UNCHANGED <<order, pc, last_seen, depends, seen, cert, monitors, reports>>

\* wsrep_innobase_kill_one_trx(): bf finds its lock taken by the local
\* transaction x.  abort_trx() for one that is in pre_commit().  A victim with
\* priority (REPL_RECV), for which the server aborts itself, is left out: see LocksFree
Kill(n, bf, x) ==
    /\ NeedsLocks(n, bf) /\ Holds(n, x) /\ LocksConflict(bf, x)
    /\ conflict[x] = "NO_CONFLICT"
    /\ conflict' = [conflict EXCEPT ![x] = "MUST_ABORT"]
    /\ IF QueryCommitting(n, x)
       THEN /\ state' = [state EXCEPT ![n][x] = IF @ = "ABORTING" THEN @ ELSE "MUST_ABORT"]
            /\ fatal' = (fatal \/ state[n][x] \notin
                         {"EXECUTING", "REPLICATING", "CERTIFYING", "APPLYING", "COMMITTING",
                          "MUST_ABORT", "ABORTING"})
       ELSE UNCHANGED <<state, fatal>>
    /\ UNCHANGED <<order, pc, last_seen, depends, seen, cert, monitors, reports>>

----------------------------------------------------------------------------
(* The service thread, and the group that takes the minimum of the reports *)

LastCut == Max({order[i].cut : i \in DOMAIN order} \cup {0})

SendReport(n) ==
    LET after == [reported EXCEPT ![n] = last_committed[n]]
        cut   == Min(Range(after))
    IN /\ reported[n] < last_committed[n]
       /\ reported' = after
       /\ order' = IF cut > LastCut /\ cut <= MaxCut
                   THEN Append(order, [cut |-> cut, trx |-> "none"]) ELSE order
       /\ UNCHANGED <<threads, depends, cert, monitors, last_committed, fatal>>

----------------------------------------------------------------------------

Init ==
    /\ order = <<>>
    /\ state = [n \in Nodes |-> [x \in Trxs |-> IF Source[x] = n THEN "EXECUTING"
                                                                 ELSE "REPLICATING"]]
    /\ pc = [n \in Nodes |-> [x \in Trxs |-> "idle"]]
    /\ conflict = [x \in Trxs |-> "NO_CONFLICT"]
    /\ last_seen = [x \in Trxs |-> -1]
    /\ depends = [n \in Nodes |-> [x \in Trxs |-> -1]]
    /\ seen = [x \in Trxs |-> {}]
    /\ cert = [n \in Nodes |-> NewCertification(0)]
    /\ local_left = [n \in Nodes |-> {}]
    /\ apply_left = [n \in Nodes |-> {}]
    /\ commit_left = [n \in Nodes |-> {}]
    /\ last_committed = [n \in Nodes |-> 0]
    /\ reported = [n \in Nodes |-> 0]
    /\ fatal = FALSE

\* What the client's thread does by itself once COMMIT has been asked for, or
\* the transaction has been aborted
ClientStep(n, x) ==
    \/ ExecAborted(n, x) \/ Replicate(n, x) \/ Interrupted(n, x)
    \/ EnterApply(n, x) \/ ApplyInterrupted(n, x)
    \/ EnterCommit(n, x) \/ CommitInterrupted(n, x)
    \/ ServerCommit(n, x) \/ EngineCommit(n, x) \/ ToiExecute(n, x) \/ Rollback(n, x)
    \/ ReplayStart(n, x) \/ ReplayEnterApply(n, x) \/ ReplayEnterCommit(n, x)
    \/ ReplayApply(n, x)

ApplierStep(n, x) == RemoteEnterApply(n, x) \/ RemoteApply(n, x) \/ RemoteCommit(n, x)

\* The steps of both with the certification
CertificationStep(n, x) ==
    \/ Replicated(n, x) \/ CertLocal(n, x) \/ CertInterrupted(n, x) \/ ReplayCert(n, x)
    \/ RemoteCert(n, x)
    \/ PostCommit(n, x) \/ RemoteDone(n, x)

\* What goes on by itself
Progress ==
    \/ \E x \in Trxs : Send(x)
    \/ \E n \in Nodes, x \in Trxs : ClientStep(n, x) \/ ApplierStep(n, x)
    \/ \E n \in Nodes, x, y \in Trxs : Kill(n, x, y)
    \/ \E n \in Nodes, x \in Trxs : CertificationStep(n, x)
    \/ \E n \in Nodes : ProcessCut(n)

Next ==
    \/ \E n \in Nodes, x \in Trxs : Begin(n, x) \/ StartCommit(n, x) \/ ToiStart(n, x)
    \/ Progress
    \/ \E n \in Nodes : SendReport(n)

Spec == Init /\ [][Next]_vars

\* Threads that can go on do; clients may leave a transaction open for ever, and
\* the service thread may not come to report.  Every step brings a thread or the
\* order forward, there is no infinite run without stuttering: fairness of all of
\* them together is fairness of each
FairSpec == Spec /\ WF_vars(Progress)

=============================================================================
