-------------------------- MODULE ReplicatorProofs -------------------------
(***************************************************************************)
(* What holds for every number of nodes and every set of transactions and  *)
(* write sets: abort_trx() finds a transaction in a state it knows         *)
(* (ThreadInv), writes that depend on each other are made in order         *)
(* (OrderInv), a transaction is replicated when what its locks keep apart  *)
(* from it has had its turn (LockInv), all nodes come to the same end for  *)
(* a write set that no commit cut overtakes (VerdictInv), and then the     *)
(* first committer wins (SeenInv).                                         *)
(***************************************************************************)
EXTENDS ReplicatorProperties, CertificationLemmas

\* A step of the thread of x on n that takes it to p, with the TrxHandle in
\* state s and the wsrep_conflict_state c, keeps the invariant when these fit
\* together.  An applier has no wsrep_conflict_state.
LEMMA ThreadStep ==
    ASSUME ThreadInv, NEW n \in Nodes, NEW x \in Trxs,
           NEW p \in ClientPc \cup ApplierPc, NEW s \in States, NEW c \in Conflicts,
           Goes(n, x, p, s), conflict' = [conflict EXCEPT ![x] = c], UNCHANGED fatal,
           Source[x] # n => c = conflict[x],
           ThreadFine(n, x, p, s, c)
    PROVE  ThreadInv'
<1>1. TypeOK'
  BY DEF ThreadInv, TypeOK, Goes
<1>2. ASSUME NEW m \in Nodes, NEW y \in Trxs PROVE ThreadOK(m, y)'
  <2>0. ThreadFine(m, y, pc[m][y], state[m][y], conflict[y])
    BY DEF ThreadInv, ThreadOK
  <2>1. CASE m = n /\ y = x
    <3>1. pc'[n][x] = p /\ state'[n][x] = s /\ conflict'[x] = c
      BY DEF ThreadInv, TypeOK, Goes
    <3>. QED BY <2>1, <3>1 DEF ThreadOK
  <2>2. CASE m # n \/ y # x
    <3>1. pc'[m][y] = pc[m][y] /\ state'[m][y] = state[m][y]
      BY <2>2 DEF ThreadInv, TypeOK, Goes
    <3>2. CASE conflict'[y] = conflict[y]
      BY <2>0, <3>1, <3>2 DEF ThreadOK
    <3>3. CASE conflict'[y] # conflict[y]
      <4>1. y = x /\ Source[x] = n /\ m # n
        BY <2>2, <3>3 DEF ThreadInv, TypeOK
      <4>. QED BY <2>0, <3>1, <4>1 DEF ThreadOK, ThreadFine
    <3>. QED BY <3>2, <3>3
  <2>. QED BY <2>1, <2>2
<1>. QED BY <1>1, <1>2 DEF ThreadInv

\* The same for a step that leaves the wsrep_conflict_state alone.
LEMMA QuietStep ==
    ASSUME ThreadInv, NEW n \in Nodes, NEW x \in Trxs,
           NEW p \in ClientPc \cup ApplierPc, NEW s \in States,
           Goes(n, x, p, s), UNCHANGED <<conflict, fatal>>,
           ThreadFine(n, x, p, s, conflict[x])
    PROVE  ThreadInv'
<1>1. conflict[x] \in Conflicts /\ conflict' = [conflict EXCEPT ![x] = conflict[x]]
  BY DEF ThreadInv, TypeOK
<1>. QED BY <1>1, ThreadStep

\* Steps that concern no thread.
LEMMA StutterStep == ThreadInv /\ UNCHANGED <<state, pc, conflict, fatal>> => ThreadInv'
BY DEF ThreadInv, TypeOK, ThreadOK

----------------------------------------------------------------------------
(* The actions.                                                            *)

\* cert_for_aborted() leads an aborted transaction to its end or to a replay.
LEMMA AbortedCertStep ==
    ASSUME ThreadInv, NEW n \in Nodes, NEW x \in Trxs, Source[x] = n,
           pc[n][x] \in MayGiveUp, Is(n, x, "MUST_ABORT"), CertForAborted(n, x)
    PROVE  ThreadInv'
<1>1. ThreadOK(n, x) /\ conflict[x] = "MUST_ABORT"
  BY DEF ThreadInv, ThreadOK, ThreadFine, Is
<1>2. /\ Goes(n, x, "fail", "ABORTING") \/ Goes(n, x, "bf", "MUST_CERT_AND_REPLAY")
      /\ UNCHANGED <<conflict, fatal>>
  BY DEF CertForAborted
<1>3. /\ ThreadFine(n, x, "fail", "ABORTING", conflict[x])
      /\ ThreadFine(n, x, "bf", "MUST_CERT_AND_REPLAY", conflict[x])
  BY <1>1 DEF ThreadFine, ClientPc, StatesAt, MayGiveUp
<1>4. {"fail", "bf"} \subseteq ClientPc /\ {"ABORTING", "MUST_CERT_AND_REPLAY"} \subseteq States
  BY DEF ClientPc, States
<1>. QED BY <1>2, <1>3, <1>4, QuietStep

\* The client starts a transaction, or a statement in total order isolation.
LEMMA StartStep ==
    ASSUME ThreadInv, NEW n \in Nodes, NEW x \in Trxs,
           Begin(n, x) \/ StartCommit(n, x) \/ ToiStart(n, x)
    PROVE  ThreadInv'
<1>1. ThreadOK(n, x) /\ conflict[x] \in Conflicts
  BY DEF ThreadInv, TypeOK
<1>2. CASE Begin(n, x)
  <2>1. Source[x] = n /\ pc[n][x] = "idle"
    BY <1>2 DEF Begin, Startable, At
  <2>2. state[n][x] = "EXECUTING"
    BY <1>1, <2>1 DEF ThreadOK, ThreadFine, StatesAt
  <2>3. Goes(n, x, "exec", "EXECUTING") /\ UNCHANGED <<conflict, fatal>>
    <3>1. state = [state EXCEPT ![n][x] = state[n][x]]
      BY DEF ThreadInv, TypeOK
    <3>. QED BY <1>2, <2>2, <3>1 DEF Begin, Goes
  <2>4. ThreadFine(n, x, "exec", "EXECUTING", conflict[x]) /\ "exec" \in ClientPc /\ "EXECUTING" \in States
    BY <2>1 DEF ThreadFine, ClientPc, StatesAt, MayGiveUp, States
  <2>. QED BY <2>3, <2>4, QuietStep
<1>3. CASE StartCommit(n, x) \/ ToiStart(n, x)
  <2>1. Source[x] = n /\ Goes(n, x, "pre", "EXECUTING") /\ UNCHANGED <<conflict, fatal>>
    BY <1>3 DEF StartCommit, ToiStart, Startable, Only
  <2>2. ThreadFine(n, x, "pre", "EXECUTING", conflict[x]) /\ "pre" \in ClientPc /\ "EXECUTING" \in States
    BY <2>1 DEF ThreadFine, ClientPc, StatesAt, MayGiveUp, States
  <2>. QED BY <2>1, <2>2, QuietStep
<1>. QED BY <1>2, <1>3

\* replicate() and pre_commit(), up to the commit monitor.
LEMMA CommitStep ==
    ASSUME ThreadInv, NEW n \in Nodes, NEW x \in Trxs,
           \/ Replicate(n, x) \/ Interrupted(n, x) \/ EnterApply(n, x) \/ ApplyInterrupted(n, x)
           \/ EnterCommit(n, x) \/ CommitInterrupted(n, x)
    PROVE  ThreadInv'
<1>. USE DEF Only, Is, At
<1>1. ThreadOK(n, x) /\ conflict[x] \in Conflicts
  BY DEF ThreadInv, TypeOK
<1>2. /\ Source[x] = n /\ pc[n][x] \in MayGiveUp /\ UNCHANGED <<conflict, fatal>>
      /\ \E to \in {<<"gcs", "REPLICATING">>, <<"commit", "COMMITTING">>, <<"toi", "APPLYING">>,
                    <<"ok", "COMMITTING">>, <<"fail", "ABORTING">>} : Goes(n, x, to[1], to[2])
         \/ /\ state[n][x] = "MUST_ABORT"
            /\ \E s \in {"MUST_REPLAY_AM", "MUST_REPLAY_CM", "MUST_REPLAY"} : Goes(n, x, "bf", s)
  <2>1. CASE Replicate(n, x) \/ Interrupted(n, x)
    BY <2>1 DEF Replicate, Interrupted, MayGiveUp
  <2>2. CASE EnterApply(n, x) \/ ApplyInterrupted(n, x)
    BY <2>2 DEF EnterApply, ApplyInterrupted, MayGiveUp
  <2>3. CASE EnterCommit(n, x)
    BY <2>3 DEF EnterCommit, MayGiveUp
  <2>4. CASE CommitInterrupted(n, x)
    BY <2>4 DEF CommitInterrupted, MayGiveUp
  <2>. QED BY <2>1, <2>2, <2>3, <2>4
<1>3. ASSUME NEW to \in {<<"gcs", "REPLICATING">>, <<"commit", "COMMITTING">>, <<"toi", "APPLYING">>,
                    <<"ok", "COMMITTING">>, <<"fail", "ABORTING">>}, Goes(n, x, to[1], to[2])
      PROVE  ThreadInv'
  <2>1. /\ to[1] \in ClientPc /\ to[2] \in States
        /\ ThreadFine(n, x, to[1], to[2], conflict[x])
    BY <1>2 DEF ThreadFine, ClientPc, StatesAt, MayGiveUp, States
  <2>. QED BY <1>2, <1>3, <2>1, QuietStep
<1>4. ASSUME state[n][x] = "MUST_ABORT",
             NEW s \in {"MUST_REPLAY_AM", "MUST_REPLAY_CM", "MUST_REPLAY"}, Goes(n, x, "bf", s)
      PROVE  ThreadInv'
  <2>1. conflict[x] = "MUST_ABORT"
    BY <1>1, <1>2, <1>4 DEF ThreadOK, ThreadFine
  <2>2. "bf" \in ClientPc /\ s \in States /\ ThreadFine(n, x, "bf", s, conflict[x])
    BY <1>2, <2>1 DEF ThreadFine, ClientPc, StatesAt, MayGiveUp, States
  <2>. QED BY <1>2, <1>4, <2>2, QuietStep
<1>. QED BY <1>2, <1>3, <1>4

\* The end of a transaction on its source, and its replay.
LEMMA EndStep ==
    ASSUME ThreadInv, NEW n \in Nodes, NEW x \in Trxs,
           \/ ExecAborted(n, x) \/ ServerCommit(n, x) \/ EngineCommit(n, x) \/ ToiExecute(n, x)
           \/ Rollback(n, x) \/ ReplayStart(n, x) \/ ReplayEnterApply(n, x)
           \/ ReplayEnterCommit(n, x) \/ ReplayApply(n, x) \/ PostCommit(n, x)
    PROVE  ThreadInv'
<1>. USE DEF Only, Is, At
<1>1. /\ ThreadOK(n, x) /\ conflict[x] \in Conflicts /\ state[n][x] \in States
      /\ state = [state EXCEPT ![n][x] = state[n][x]]
      /\ conflict = [conflict EXCEPT ![x] = conflict[x]]
  BY DEF ThreadInv, TypeOK
<1>2. Source[x] = n
  BY <1>1 DEF ThreadOK, ThreadFine, ApplierPc, ExecAborted, ServerCommit, EngineCommit, ToiExecute,
              Rollback, ReplayStart, ReplayEnterApply, ReplayEnterCommit, ReplayApply, PostCommit
<1>3. /\ UNCHANGED fatal
      /\ \E p \in {"engine", "committed", "done", "rlocal", "rapply", "rcommit", "replaying"},
            s \in States, c \in Conflicts :
            Goes(n, x, p, s) /\ conflict' = [conflict EXCEPT ![x] = c]
  <2>1. CASE ExecAborted(n, x) \/ Rollback(n, x)
    <3>1. /\ UNCHANGED fatal /\ Goes(n, x, "done", "ROLLED_BACK")
          /\ conflict' = [conflict EXCEPT ![x] = "NO_CONFLICT"]
      BY <2>1 DEF ExecAborted, Rollback
    <3>. QED BY <3>1 DEF States, Conflicts
  <2>2. CASE ServerCommit(n, x)
    <3>1. /\ UNCHANGED fatal /\ Goes(n, x, "engine", state[n][x])
          /\ conflict' = [conflict EXCEPT ![x] = "NO_CONFLICT"]
      BY <1>1, <2>2 DEF ServerCommit, Goes
    <3>. QED BY <1>1, <3>1 DEF Conflicts
  <2>3. CASE EngineCommit(n, x) \/ ToiExecute(n, x) \/ ReplayApply(n, x)
    <3>1. /\ UNCHANGED <<conflict, fatal>>
          /\ \E s \in {state[n][x], "APPLYING", "REPLAYING"} : Goes(n, x, "committed", s)
      BY <2>3 DEF EngineCommit, ToiExecute, ReplayApply
    <3>2. {state[n][x], "APPLYING", "REPLAYING"} \subseteq States
      BY <1>1 DEF States
    <3>. QED BY <1>1, <3>1, <3>2
  <2>4. CASE ReplayStart(n, x)
    <3>1. state[n][x] \in {"MUST_CERT_AND_REPLAY", "MUST_REPLAY_AM", "MUST_REPLAY_CM", "MUST_REPLAY"}
      BY <1>1, <1>2, <2>4 DEF ReplayStart, ThreadOK, ThreadFine, StatesAt
    <3>2. /\ UNCHANGED fatal /\ conflict' = [conflict EXCEPT ![x] = "REPLAYING"]
          /\ \/ Goes(n, x, "rlocal", "CERTIFYING") \/ Goes(n, x, "rapply", "MUST_REPLAY_AM")
             \/ Goes(n, x, "rcommit", "MUST_REPLAY_CM") \/ Goes(n, x, "replaying", "REPLAYING")
      BY <2>4, <3>1 DEF ReplayStart
    <3>. QED BY <3>2 DEF States, Conflicts
  <2>5. CASE ReplayEnterApply(n, x) \/ ReplayEnterCommit(n, x)
    <3>1. /\ UNCHANGED <<conflict, fatal>>
          /\ Goes(n, x, "rcommit", "MUST_REPLAY_CM") \/ Goes(n, x, "replaying", "REPLAYING")
      BY <2>5 DEF ReplayEnterApply, ReplayEnterCommit
    <3>. QED BY <1>1, <3>1 DEF States
  <2>6. CASE PostCommit(n, x)
    <3>1. /\ UNCHANGED fatal /\ Goes(n, x, "done", "COMMITTED")
          /\ conflict' = [conflict EXCEPT ![x] = "NO_CONFLICT"]
      BY <2>6 DEF PostCommit
    <3>. QED BY <3>1 DEF States, Conflicts
  <2>. QED BY <2>1, <2>2, <2>3, <2>4, <2>5, <2>6
<1>4. PICK p \in {"engine", "committed", "done", "rlocal", "rapply", "rcommit", "replaying"},
           s \in States, c \in Conflicts :
           Goes(n, x, p, s) /\ conflict' = [conflict EXCEPT ![x] = c]
  BY <1>3
<1>5. p \in ClientPc /\ ThreadFine(n, x, p, s, c)
  BY <1>2 DEF ThreadFine, ClientPc, StatesAt, MayGiveUp
<1>. QED BY <1>2, <1>3, <1>4, <1>5, ThreadStep

\* The write set is certified, by the client's thread, at a replay or by an
\* applier.
LEMMA CertStep ==
    ASSUME ThreadInv, NEW n \in Nodes, NEW x \in Trxs,
           \/ Replicated(n, x) \/ CertLocal(n, x) \/ CertInterrupted(n, x) \/ ReplayCert(n, x)
           \/ RemoteCert(n, x)
    PROVE  ThreadInv'
<1>1. ThreadOK(n, x) /\ conflict[x] \in Conflicts
  BY DEF ThreadInv, TypeOK
<1>2. CASE Replicated(n, x)
  <2>1. CASE Is(n, x, "MUST_ABORT")
    BY <1>2, <2>1, AbortedCertStep DEF Replicated, At, MayGiveUp
  <2>2. CASE ~ Is(n, x, "MUST_ABORT")
    <3>1. Source[x] = n /\ Goes(n, x, "local", "CERTIFYING") /\ UNCHANGED <<conflict, fatal>>
      BY <1>2, <2>2 DEF Replicated, Only
    <3>2. "local" \in ClientPc /\ "CERTIFYING" \in States /\ ThreadFine(n, x, "local", "CERTIFYING", conflict[x])
      BY <3>1 DEF ThreadFine, ClientPc, StatesAt, MayGiveUp, States
    <3>. QED BY <3>1, <3>2, QuietStep
  <2>. QED BY <2>1, <2>2
<1>3. CASE CertInterrupted(n, x)
  BY <1>3, AbortedCertStep DEF CertInterrupted, At, MayGiveUp
<1>4. CASE CertLocal(n, x)
  <2>1. Source[x] = n /\ pc[n][x] = "local" /\ UNCHANGED <<conflict, fatal>>
    BY <1>4 DEF CertLocal, Certify, At
  <2>2. \/ state[n][x] = "MUST_ABORT" /\ Goes(n, x, "bf", "MUST_REPLAY_AM")
        \/ Goes(n, x, "apply", "APPLYING") \/ Goes(n, x, "fail", "ABORTING")
    BY <1>4, Zenon DEF CertLocal, Certify, Is
  <2>3. state[n][x] = "MUST_ABORT" => conflict[x] = "MUST_ABORT"
    BY <1>1, <2>1 DEF ThreadOK, ThreadFine, MayGiveUp
  <2>4. /\ state[n][x] = "MUST_ABORT" => ThreadFine(n, x, "bf", "MUST_REPLAY_AM", conflict[x])
        /\ ThreadFine(n, x, "apply", "APPLYING", conflict[x])
        /\ ThreadFine(n, x, "fail", "ABORTING", conflict[x])
    BY <2>1, <2>3 DEF ThreadFine, ClientPc, StatesAt, MayGiveUp
  <2>5. /\ {"bf", "apply", "fail"} \subseteq ClientPc
        /\ {"MUST_REPLAY_AM", "APPLYING", "ABORTING"} \subseteq States
    BY DEF ClientPc, States
  <2>. QED BY <2>1, <2>2, <2>4, <2>5, QuietStep
<1>5. CASE ReplayCert(n, x)
  <2>1. /\ Source[x] = n /\ UNCHANGED <<conflict, fatal>>
    BY <1>1, <1>5 DEF ReplayCert, Certify, At, ThreadOK, ThreadFine, ApplierPc
  <2>2. Goes(n, x, "rapply", "MUST_REPLAY_AM") \/ Goes(n, x, "rfail", "ABORTING")
    BY <1>5, Zenon DEF ReplayCert, Certify
  <2>3. /\ ThreadFine(n, x, "rapply", "MUST_REPLAY_AM", conflict[x])
        /\ ThreadFine(n, x, "rfail", "ABORTING", conflict[x])
        /\ {"rapply", "rfail"} \subseteq ClientPc /\ {"MUST_REPLAY_AM", "ABORTING"} \subseteq States
    BY <2>1 DEF ThreadFine, ClientPc, StatesAt, MayGiveUp, States
  <2>. QED BY <2>1, <2>2, <2>3, QuietStep
<1>6. CASE RemoteCert(n, x)
  <2>1. Source[x] # n /\ UNCHANGED <<conflict, fatal>>
    BY <1>6 DEF RemoteCert, Certify
  <2>2. Goes(n, x, "apply", "CERTIFYING") \/ Goes(n, x, "done", "ROLLED_BACK")
    BY <1>6, Zenon DEF RemoteCert, Certify
  <2>3. /\ ThreadFine(n, x, "apply", "CERTIFYING", conflict[x])
        /\ ThreadFine(n, x, "done", "ROLLED_BACK", conflict[x])
        /\ {"apply", "done"} \subseteq ApplierPc /\ {"CERTIFYING", "ROLLED_BACK"} \subseteq States
    BY <2>1 DEF ThreadFine, ApplierPc, States
  <2>. QED BY <2>1, <2>2, <2>3, QuietStep
<1>. QED BY <1>2, <1>3, <1>4, <1>5, <1>6

\* The appliers.
LEMMA ApplierThreadStep ==
    ASSUME ThreadInv, NEW n \in Nodes, NEW x \in Trxs, ApplierStep(n, x) \/ RemoteDone(n, x)
    PROVE  ThreadInv'
<1>. USE DEF Only, At
<1>1. ThreadOK(n, x) /\ conflict[x] \in Conflicts
  BY DEF ThreadInv, TypeOK
<1>2. /\ Source[x] # n /\ UNCHANGED <<conflict, fatal>>
      /\ \/ Goes(n, x, "applying", "APPLYING") \/ Goes(n, x, "commit", "APPLYING")
         \/ Goes(n, x, "committed", "COMMITTING") \/ Goes(n, x, "done", "COMMITTED")
  BY <1>1 DEF ApplierStep, RemoteEnterApply, RemoteApply, RemoteCommit, RemoteDone, ThreadOK,
              ThreadFine, ClientPc
<1>3. /\ \A p \in ApplierPc, s \in States : ThreadFine(n, x, p, s, conflict[x])
      /\ {"applying", "commit", "committed", "done"} \subseteq ApplierPc
      /\ {"APPLYING", "COMMITTING", "COMMITTED"} \subseteq States
  BY <1>2 DEF ThreadFine, ApplierPc, States
<1>. QED BY <1>2, <1>3, QuietStep

\* abort_trx() is asked for: the state is one it has an answer to.
LEMMA KillStep ==
    ASSUME ThreadInv, NEW n \in Nodes, NEW bf \in Trxs, NEW x \in Trxs, Kill(n, bf, x)
    PROVE  ThreadInv'
<1>1. /\ ThreadOK(n, x) /\ Source[x] = n /\ conflict[x] = "NO_CONFLICT"
      /\ conflict' = [conflict EXCEPT ![x] = "MUST_ABORT"]
      /\ pc = [pc EXCEPT ![n][x] = pc[n][x]] /\ pc[n][x] \in ClientPc
      /\ state = [state EXCEPT ![n][x] = state[n][x]] /\ state[n][x] \in States
      /\ UNCHANGED pc /\ "MUST_ABORT" \in Conflicts
  BY DEF ThreadInv, TypeOK, Kill, Holds, ThreadOK, ThreadFine, Conflicts
<1>2. CASE ~ QueryCommitting(n, x)
  <2>1. Goes(n, x, pc[n][x], state[n][x]) /\ UNCHANGED fatal
    BY <1>1, <1>2 DEF Kill, Goes
  <2>2. ThreadFine(n, x, pc[n][x], state[n][x], "MUST_ABORT")
    BY <1>1 DEF ThreadOK, ThreadFine
  <2>. QED BY <1>1, <2>1, <2>2, ThreadStep
<1>3. CASE QueryCommitting(n, x)
  <2>1. pc[n][x] \in {"pre", "gcs", "local", "apply", "commit", "ok", "fail"}
    BY <1>1, <1>3 DEF QueryCommitting, ThreadOK, ThreadFine
  <2>2. state[n][x] \in {"EXECUTING", "REPLICATING", "CERTIFYING", "APPLYING", "COMMITTING",
                         "MUST_ABORT", "ABORTING"}
    BY <1>1, <2>1 DEF ThreadOK, ThreadFine, StatesAt
  <2>. DEFINE s == IF state[n][x] = "ABORTING" THEN "ABORTING" ELSE "MUST_ABORT"
  <2>3. fatal' = fatal
    <3>1. fatal' = (fatal \/ state[n][x] \notin {"EXECUTING", "REPLICATING", "CERTIFYING", "APPLYING",
                                                 "COMMITTING", "MUST_ABORT", "ABORTING"})
      BY <1>3, Zenon DEF Kill
    <3>2. fatal = FALSE
      BY DEF ThreadInv, TypeOK
    <3>. QED BY <2>2, <3>1, <3>2
  <2>4. state' = [state EXCEPT ![n][x] = s]
    BY <1>1, <1>3 DEF Kill
  <2>5. Goes(n, x, pc[n][x], s)
    BY <1>1, <2>4 DEF Goes
  <2>6. s \in States /\ ThreadFine(n, x, pc[n][x], s, "MUST_ABORT")
    BY <1>1, <2>1 DEF ThreadOK, ThreadFine, StatesAt, States
  <2>. QED BY <1>1, <2>3, <2>5, <2>6, ThreadStep
<1>. QED BY <1>2, <1>3

----------------------------------------------------------------------------
(* The theorems.                                                           *)

\* Before a transaction starts its TrxHandle is executing.
LEMMA InitThreadInv == Init => ThreadInv
<1>1. SUFFICES ASSUME Init PROVE ThreadInv
  OBVIOUS
<1>2. TypeOK /\ ~ fatal
  BY <1>1 DEF Init, TypeOK, States, ApplierPc, ClientPc, Conflicts
<1>3. ASSUME NEW n \in Nodes, NEW x \in Trxs PROVE ThreadOK(n, x)
  <2>1. /\ pc[n][x] = "idle" /\ "idle" \in ApplierPc \cap ClientPc /\ "idle" \notin MayGiveUp
        /\ Source[x] = n => state[n][x] \in StatesAt("idle")
    BY <1>1 DEF Init, ApplierPc, ClientPc, StatesAt, MayGiveUp
  <2>. QED BY <2>1 DEF ThreadOK, ThreadFine
<1>. QED BY <1>2, <1>3 DEF ThreadInv

\* Every step keeps the states of the TrxHandles.
LEMMA NextThreadInv == ThreadInv /\ [Next]_vars => ThreadInv'
<1>1. SUFFICES ASSUME ThreadInv, [Next]_vars PROVE ThreadInv'
  OBVIOUS
<1>2. CASE UNCHANGED vars
  BY <1>1, <1>2, StutterStep DEF vars
<1>3. CASE Next
  <2>1. ASSUME NEW n \in Nodes, NEW x \in Trxs, Begin(n, x) \/ StartCommit(n, x) \/ ToiStart(n, x)
        PROVE  ThreadInv'
    BY <1>1, <2>1, StartStep
  <2>2. ASSUME NEW x \in Trxs, Send(x) PROVE ThreadInv'
    BY <1>1, <2>2, StutterStep DEF Send, threads
  <2>3. ASSUME NEW n \in Nodes, NEW x \in Trxs, ClientStep(n, x) PROVE ThreadInv'
    BY <1>1, <2>3, CommitStep, EndStep DEF ClientStep
  <2>4. ASSUME NEW n \in Nodes, NEW x \in Trxs, ApplierStep(n, x) PROVE ThreadInv'
    BY <1>1, <2>4, ApplierThreadStep
  <2>5. ASSUME NEW n \in Nodes, NEW x \in Trxs, NEW y \in Trxs, Kill(n, x, y) PROVE ThreadInv'
    BY <1>1, <2>5, KillStep
  <2>6. ASSUME NEW n \in Nodes, NEW x \in Trxs, CertificationStep(n, x) PROVE ThreadInv'
    BY <1>1, <2>6, CertStep, EndStep, ApplierThreadStep DEF CertificationStep
  <2>7. ASSUME NEW n \in Nodes, ProcessCut(n) \/ SendReport(n) PROVE ThreadInv'
    BY <1>1, <2>7, StutterStep DEF ProcessCut, SendReport, threads
  <2>. QED BY <1>3, <2>1, <2>2, <2>3, <2>4, <2>5, <2>6, <2>7 DEF Next, Progress
<1>. QED BY <1>1, <1>2, <1>3

\* A TrxHandle is always in a state that fits the place of its thread, whatever
\* aborts, replays and certifications out of order meet.
THEOREM ThreadInvariantHolds == Spec => []ThreadInv
<1>. QED BY InitThreadInv, NextThreadInv, PTL DEF Spec

\* abort_trx() never runs into its gu_throw_fatal: an applier that interrupts a
\* local transaction finds it in a state that can be aborted, or already given up.
THEOREM AbortsValidHolds == Spec => []AbortsValid
<1>1. ThreadInv => AbortsValid
  BY DEF ThreadInv, AbortsValid
<1>. QED BY <1>1, ThreadInvariantHolds, PTL

----------------------------------------------------------------------------
(* Monitors and the total order.                                           *)

\* last_left() of a monitor.
LEMMA LastLeftIs ==
    ASSUME NEW k \in Nat, NEW left, left \subseteq 1..k
    PROVE  /\ LastLeft(left) \in Nat /\ 1..LastLeft(left) \subseteq left
           /\ LastLeft(left) + 1 \notin left
           /\ \A j \in Nat : 1..j \subseteq left => j <= LastLeft(left)
<1>. DEFINE T == {n \in Nat : n + 1 \notin left}
<1>1. T \in SUBSET Int /\ k \in T /\ \A n \in T : 0 <= n
  OBVIOUS
<1>2. PICK m : m = Min(T)
  OBVIOUS
<1>3. m \in T /\ \A n \in T : m <= n
  <2>. HIDE DEF T
  <2>. QED BY <1>1, <1>2, MinExists
<1>4. m \in Nat /\ m + 1 \notin left
  BY <1>3
<1>5. 1..m \subseteq left
  <2>1. SUFFICES ASSUME NEW j \in 1..m, j \notin left PROVE FALSE
    OBVIOUS
  <2>2. j - 1 \in Nat /\ (j - 1) + 1 = j /\ j - 1 < m
    BY <1>4
  <2>3. j - 1 \in T
    BY <2>1, <2>2
  <2>. QED BY <1>3, <1>4, <2>2, <2>3
<1>6. m \in 0..Cardinality(left)
  <2>1. IsFiniteSet(1..k) /\ IsFiniteSet(1..m) /\ Cardinality(1..m) = m
    BY <1>4, FS_Interval
  <2>2. IsFiniteSet(left)
    BY <2>1, FS_Subset
  <2>3. Cardinality(1..m) <= Cardinality(left) /\ Cardinality(left) \in Nat
    BY <1>5, <2>2, FS_Subset, FS_CardinalityType
  <2>. QED BY <1>4, <2>1, <2>3
<1>7. PICK l : l = LastLeft(left)
  OBVIOUS
<1>8. l \in 0..Cardinality(left) /\ 1..l \subseteq left /\ l + 1 \notin left
  BY <1>4, <1>5, <1>6, <1>7 DEF LastLeft
<1>9. l \in Nat
  BY <1>8
<1>10. ASSUME NEW j \in Nat, 1..j \subseteq left PROVE j <= l
  <2>1. SUFFICES ASSUME l < j PROVE FALSE
    BY <1>9
  <2>2. l + 1 \in 1..j
    BY <1>9, <2>1
  <2>. QED BY <1>8, <1>10, <2>2
<1>. QED BY <1>7, <1>8, <1>9, <1>10

\* What Replicator says of the order, of any order o
IsOrder(o) ==
    /\ o \in Seq([cut : 0..MaxCut, trx : Trxs \cup {"none"}])
    /\ \A i \in DOMAIN o : o[i].cut = 0 => o[i].trx \in Trxs
    /\ \A i, j \in DOMAIN o : o[i].cut = 0 /\ o[j].cut = 0 /\ o[i].trx = o[j].trx => i = j

Has(o, x) == \E i \in DOMAIN o : o[i].cut = 0 /\ o[i].trx = x
Place(o, x) == CHOOSE i \in DOMAIN o : o[i].cut = 0 /\ o[i].trx = x
WriteSets(o, i) == {j \in 1..i : o[j].cut = 0}
Number(o, i) == Cardinality(WriteSets(o, i))

\* The two say the same.
LEMMA SameOrder ==
    /\ OrderOK <=> IsOrder(order)
    /\ \A x : /\ Ordered(x) <=> Has(order, x)
              /\ LocalSeqno(x) = Place(order, x)
              /\ GlobalSeqno(x) = Number(order, Place(order, x))
    /\ \A i : Count(i) = Number(order, i)
BY DEF OrderOK, IsOrder, Ordered, Has, LocalSeqno, Place, GlobalSeqno, WriteSets, Number, Count, IsTrx

\* Also in the next state.
LEMMA SameOrderNext ==
    /\ OrderOK' <=> IsOrder(order')
    /\ \A x : /\ Ordered(x)' <=> Has(order', x)
              /\ LocalSeqno(x)' = Place(order', x)
              /\ GlobalSeqno(x)' = Number(order', Place(order', x))
    /\ \A i : Count(i)' = Number(order', i)
BY DEF OrderOK, IsOrder, Ordered, Has, LocalSeqno, Place, GlobalSeqno, WriteSets, Number, Count, IsTrx

\* A transaction has one place in the order.
LEMMA PlaceIs ==
    ASSUME NEW o, IsOrder(o), NEW x, Has(o, x)
    PROVE  /\ Place(o, x) \in 1..Len(o) /\ o[Place(o, x)].cut = 0 /\ o[Place(o, x)].trx = x
           /\ Len(o) \in Nat /\ DOMAIN o = 1..Len(o)
<1>1. Len(o) \in Nat /\ DOMAIN o = 1..Len(o)
  BY DEF IsOrder
<1>2. PICK i \in DOMAIN o : o[i].cut = 0 /\ o[i].trx = x
  BY DEF Has
<1>. QED BY <1>1, <1>2 DEF Place

\* Global seqnos count the write sets.
LEMMA NumberIs ==
    ASSUME NEW o, IsOrder(o), NEW i \in Nat
    PROVE  /\ Number(o, i) \in Nat /\ Number(o, 0) = 0
           /\ \A j \in 0..i : Number(o, j) <= Number(o, i)
           /\ Number(o, i + 1) = Number(o, i) + (IF o[i + 1].cut = 0 THEN 1 ELSE 0)
<1>1. \A j \in Nat : IsFiniteSet(WriteSets(o, j)) /\ Number(o, j) \in Nat
  <2>1. SUFFICES ASSUME NEW j \in Nat PROVE IsFiniteSet(WriteSets(o, j)) /\ Number(o, j) \in Nat
    OBVIOUS
  <2>2. IsFiniteSet(1..j) /\ WriteSets(o, j) \subseteq 1..j
    BY FS_Interval DEF WriteSets
  <2>3. IsFiniteSet(WriteSets(o, j))
    BY <2>2, FS_Subset
  <2>. QED BY <2>3, FS_CardinalityType DEF Number
<1>2. Number(o, 0) = 0
  <2>1. WriteSets(o, 0) = {}
    BY DEF WriteSets
  <2>. QED BY <2>1, FS_EmptySet DEF Number
<1>3. ASSUME NEW j \in 0..i PROVE Number(o, j) <= Number(o, i)
  <2>1. WriteSets(o, j) \subseteq WriteSets(o, i)
    BY DEF WriteSets
  <2>. QED BY <1>1, <2>1, FS_Subset DEF Number
<1>4. CASE o[i + 1].cut = 0
  <2>1. WriteSets(o, i + 1) = WriteSets(o, i) \cup {i + 1} /\ i + 1 \notin WriteSets(o, i)
    BY <1>4 DEF WriteSets
  <2>2. Cardinality(WriteSets(o, i) \cup {i + 1}) = Cardinality(WriteSets(o, i)) + 1
    BY <1>1, <2>1, FS_AddElement
  <2>. QED BY <1>1, <1>2, <1>3, <1>4, <2>1, <2>2 DEF Number
<1>5. CASE o[i + 1].cut # 0
  <2>1. WriteSets(o, i + 1) = WriteSets(o, i)
    BY <1>5 DEF WriteSets
  <2>. QED BY <1>1, <1>2, <1>3, <1>5, <2>1 DEF Number
<1>. QED BY <1>4, <1>5

\* A transaction has the next number after those before its place.
LEMMA PlaceNumber ==
    ASSUME NEW o, IsOrder(o), NEW x, Has(o, x)
    PROVE  /\ Place(o, x) - 1 \in Nat /\ Number(o, Place(o, x) - 1) \in Nat
           /\ Number(o, Place(o, x)) = Number(o, Place(o, x) - 1) + 1
           /\ Number(o, Place(o, x)) \in 1..Number(o, Len(o))
<1>1. PICK i : i = Place(o, x)
  OBVIOUS
<1>2. i \in 1..Len(o) /\ o[i].cut = 0 /\ Len(o) \in Nat
  BY <1>1, PlaceIs
<1>3. i - 1 \in Nat /\ (i - 1) + 1 = i /\ i \in Nat /\ i \in 0..Len(o)
  BY <1>2
<1>4. Number(o, i - 1) \in Nat /\ Number(o, i) = Number(o, i - 1) + 1
  BY <1>2, <1>3, NumberIs
<1>5. Number(o, i) <= Number(o, Len(o)) /\ Number(o, Len(o)) \in Nat
  BY <1>2, <1>3, NumberIs
<1>. QED BY <1>1, <1>3, <1>4, <1>5

\* Two transactions are at different places, in the order of their numbers.
LEMMA PlacesDiffer ==
    ASSUME NEW o, IsOrder(o), NEW x, Has(o, x), NEW y, Has(o, y), x # y
    PROVE  /\ Place(o, x) # Place(o, y) /\ Number(o, Place(o, x)) # Number(o, Place(o, y))
           /\ Place(o, x) < Place(o, y) <=> Number(o, Place(o, x)) < Number(o, Place(o, y))
<1>1. PICK i, j : i = Place(o, x) /\ j = Place(o, y)
  OBVIOUS
<1>2. /\ i \in 1..Len(o) /\ j \in 1..Len(o) /\ Len(o) \in Nat /\ o[i].trx = x /\ o[j].trx = y
  BY <1>1, PlaceIs
<1>3. i # j /\ i \in Nat /\ j \in Nat /\ i - 1 \in Nat /\ j - 1 \in Nat
  BY <1>2
<1>4. /\ Number(o, i) = Number(o, i - 1) + 1 /\ Number(o, j) = Number(o, j - 1) + 1
      /\ Number(o, i - 1) \in Nat /\ Number(o, j - 1) \in Nat
  BY <1>1, PlaceNumber
<1>5. ASSUME i < j PROVE Number(o, i) <= Number(o, j - 1)
  <2>1. i \in 0..(j - 1)
    BY <1>3, <1>5
  <2>. QED BY <1>3, <2>1, NumberIs
<1>6. ASSUME j < i PROVE Number(o, j) <= Number(o, i - 1)
  <2>1. j \in 0..(i - 1)
    BY <1>3, <1>6
  <2>. QED BY <1>3, <2>1, NumberIs
<1>7. i < j \/ j < i
  BY <1>3
<1>8. i < j => Number(o, i) < Number(o, j)
  BY <1>4, <1>5
<1>9. j < i => Number(o, j) < Number(o, i)
  BY <1>4, <1>6
<1>10. Number(o, i) \in Nat /\ Number(o, j) \in Nat
  BY <1>4
<1>. QED BY <1>1, <1>3, <1>7, <1>8, <1>9, <1>10

\* q is o with e at its end
Longer(q, o, e) == q = Append(o, e)

\* What is in the order stays where it is.
LEMMA AppendOrder ==
    ASSUME NEW o, IsOrder(o), NEW e, NEW q, Longer(q, o, e), IsOrder(q)
    PROVE  /\ Len(q) = Len(o) + 1 /\ Len(o) \in Nat
           /\ \A i \in 0..Len(o) : Number(q, i) = Number(o, i)
           /\ Number(q, Len(q)) = Number(o, Len(o)) + (IF e.cut = 0 THEN 1 ELSE 0)
           /\ \A x : Has(o, x) => Has(q, x) /\ Place(q, x) = Place(o, x)
           /\ \A x : Has(q, x) /\ ~ Has(o, x) => e.cut = 0 /\ e.trx = x /\ Place(q, x) = Len(q)
           /\ e.cut = 0 => Has(q, e.trx) /\ Place(q, e.trx) = Len(q)
<1>1. /\ Len(q) = Len(o) + 1 /\ Len(o) \in Nat /\ DOMAIN o = 1..Len(o) /\ DOMAIN q = 1..Len(q)
      /\ q[Len(q)] = e /\ \A i \in 1..Len(o) : q[i] = o[i]
  BY DEF IsOrder, Longer
<1>2. ASSUME NEW i \in 0..Len(o) PROVE Number(q, i) = Number(o, i)
  <2>1. WriteSets(q, i) = WriteSets(o, i)
    BY <1>1 DEF WriteSets
  <2>. QED BY <2>1 DEF Number
<1>3. Number(q, Len(q)) = Number(o, Len(o)) + (IF e.cut = 0 THEN 1 ELSE 0)
  <2>1. Number(q, Len(o) + 1) = Number(q, Len(o)) + (IF q[Len(o) + 1].cut = 0 THEN 1 ELSE 0)
    BY <1>1, NumberIs
  <2>2. Number(q, Len(o)) = Number(o, Len(o))
    BY <1>1, <1>2
  <2>. QED BY <1>1, <2>1, <2>2
<1>4. \A x : \A i \in DOMAIN q : q[i].cut = 0 /\ q[i].trx = x => Has(q, x) /\ Place(q, x) = i
  <2>1. SUFFICES ASSUME NEW x, NEW i \in DOMAIN q, q[i].cut = 0, q[i].trx = x
                 PROVE  Has(q, x) /\ Place(q, x) = i
    OBVIOUS
  <2>2. Has(q, x)
    BY <2>1 DEF Has
  <2>3. Place(q, x) \in DOMAIN q /\ q[Place(q, x)].cut = 0 /\ q[Place(q, x)].trx = x
    BY <2>2, PlaceIs
  <2>. QED BY <2>1, <2>2, <2>3 DEF IsOrder
<1>5. ASSUME NEW x, Has(o, x) PROVE Has(q, x) /\ Place(q, x) = Place(o, x)
  BY <1>1, <1>4, <1>5, PlaceIs
<1>6. ASSUME NEW x, Has(q, x), ~ Has(o, x) PROVE e.cut = 0 /\ e.trx = x /\ Place(q, x) = Len(q)
  <2>1. PICK i \in DOMAIN q : q[i].cut = 0 /\ q[i].trx = x
    BY <1>6 DEF Has
  <2>2. i \notin 1..Len(o)
    BY <1>1, <1>6, <2>1 DEF Has
  <2>3. i = Len(q)
    BY <1>1, <2>2
  <2>. QED BY <1>1, <1>4, <2>1, <2>3
<1>7. e.cut = 0 => Has(q, e.trx) /\ Place(q, e.trx) = Len(q)
  BY <1>1, <1>4
<1>. QED BY <1>1, <1>2, <1>3, <1>5, <1>6, <1>7

----------------------------------------------------------------------------
(* The threads of a node, and what its index knows.  P, S and D are pc,    *)
(* state and depends of the node, c its index, ll, al and cl what has left *)
(* its monitors.                                                           *)

\* A thread that has passed the test is under way or has ended well, in every
\* other case it is not.
LEMMA WhereItIs ==
    ASSUME NEW p, NEW s
    PROVE  /\ Untested(p, s) \/ GivenUp(p, s) \/ UnderWay(p, s) \/ Ended(p, s)
           /\ HadTurn(p, s) => UnderWay(p, s) \/ Ended(p, s)
           /\ Untested(p, s) => ~ GivenUp(p, s) /\ ~ UnderWay(p, s) /\ ~ Ended(p, s) /\ ~ HadTurn(p, s)
           /\ GivenUp(p, s) => ~ UnderWay(p, s) /\ ~ Ended(p, s) /\ ~ HadTurn(p, s)
           /\ Ended(p, s) => ~ UnderWay(p, s)
BY DEF Untested, GivenUp, UnderWay, Ended, HadTurn

\* Others leave the monitors.
LEMMA StandingMore ==
    ASSUME NEW own, NEW p, NEW s, NEW d, NEW o, NEW l, NEW g, NEW ll, NEW al, NEW cl,
           Standing(own, p, s, d, o, l, g, ll, al, cl), NEW ll1, NEW al1, NEW cl1,
           ll \subseteq ll1, al \subseteq al1, cl \subseteq cl1,
           o => (l \in ll1 => l \in ll) /\ (g \in al1 => g \in al) /\ (g \in cl1 => g \in cl)
    PROVE  Standing(own, p, s, d, o, l, g, ll1, al1, cl1)
BY DEF Standing

\* Others get their place in the order, while this one has none.
LEMMA StandingWaits ==
    ASSUME NEW own, NEW p, NEW s, NEW d, NEW l, NEW g, NEW ll, NEW al, NEW cl,
           Standing(own, p, s, d, FALSE, l, g, ll, al, cl), NEW l1, NEW g1
    PROVE  Standing(own, p, s, d, FALSE, l1, g1, ll, al, cl)
BY WhereItIs DEF Standing

\* This one gets its place.
LEMMA StandingSent ==
    ASSUME NEW own, NEW p, NEW s, NEW d, NEW l, NEW g, NEW ll, NEW al, NEW cl,
           Standing(own, p, s, d, FALSE, l, g, ll, al, cl), NEW l1, NEW g1,
           l1 \notin ll, g1 \notin al, g1 \notin cl, own => p \notin {"idle", "exec", "pre"}
    PROVE  Standing(own, p, s, d, TRUE, l1, g1, ll, al, cl)
BY WhereItIs DEF Standing

\* A write set that has been tested: it passed when its seqno is not given up.
LEMMA StandingPassed ==
    ASSUME NEW own, NEW p, NEW s, NEW d, NEW o, NEW l, NEW g, NEW ll, NEW al, NEW cl,
           Standing(own, p, s, d, o, l, g, ll, al, cl), d >= 0
    PROVE  (UnderWay(p, s) \/ Ended(p, s)) /\ o /\ 1..l \subseteq ll
BY WhereItIs DEF Standing, FAILED

Thread(n, x, o, P, S, D, ll, al, cl) ==
    Standing(Source[x] = n, P[x], S[x], D[x], Has(o, x), Place(o, x), Number(o, Place(o, x)),
             ll, al, cl)

ThreadsFine(n, o, P, S, D, ll, al, cl) == \A x \in Trxs : Thread(n, x, o, P, S, D, ll, al, cl)

\* Only x has another place, or state, or depends_seqno
Apart(x, P, P1) == \A y \in Trxs : y # x => P1[y] = P[y]

\* The thread of x goes on, and x leaves monitors.
LEMMA ThreadGoes ==
    ASSUME NEW n, NEW x \in Trxs, NEW o, IsOrder(o), NEW P, NEW S, NEW D, NEW ll, NEW al, NEW cl,
           ThreadsFine(n, o, P, S, D, ll, al, cl),
           NEW P1, NEW S1, NEW D1, Apart(x, P, P1), Apart(x, S, S1), Apart(x, D, D1),
           NEW ll1, NEW al1, NEW cl1,
           ll \subseteq ll1, al \subseteq al1, cl \subseteq cl1,
           ll1 \subseteq ll \cup {Place(o, x)},
           al1 \subseteq al \cup {Number(o, Place(o, x))},
           cl1 \subseteq cl \cup {Number(o, Place(o, x))},
           Has(o, x) \/ (ll1 = ll /\ al1 = al /\ cl1 = cl),
           Thread(n, x, o, P1, S1, D1, ll1, al1, cl1)
    PROVE  ThreadsFine(n, o, P1, S1, D1, ll1, al1, cl1)
<1>1. SUFFICES ASSUME NEW y \in Trxs, y # x PROVE Thread(n, y, o, P1, S1, D1, ll1, al1, cl1)
  BY DEF ThreadsFine
<1>2. P1[y] = P[y] /\ S1[y] = S[y] /\ D1[y] = D[y]
  BY <1>1 DEF Apart
<1>3. PICK l, g, h : l = Place(o, y) /\ g = Number(o, Place(o, y)) /\ h = Has(o, y)
  OBVIOUS
<1>4. h => (l \in ll1 => l \in ll) /\ (g \in al1 => g \in al) /\ (g \in cl1 => g \in cl)
  <2>1. SUFFICES ASSUME h PROVE (l \in ll1 => l \in ll) /\ (g \in al1 => g \in al) /\ (g \in cl1 => g \in cl)
    OBVIOUS
  <2>2. CASE Has(o, x)
    <3>1. l # Place(o, x) /\ g # Number(o, Place(o, x))
      BY <1>1, <1>3, <2>1, <2>2, PlacesDiffer
    <3>. QED BY <3>1
  <2>3. CASE ll1 = ll /\ al1 = al /\ cl1 = cl
    BY <2>3
  <2>. QED BY <2>2, <2>3
<1>5. Standing(Source[y] = n, P[y], S[y], D[y], h, l, g, ll, al, cl)
  BY <1>3 DEF ThreadsFine, Thread
<1>6. Standing(Source[y] = n, P[y], S[y], D[y], h, l, g, ll1, al1, cl1)
  BY ONLY <1>4, <1>5, StandingMore, ll \subseteq ll1, al \subseteq al1, cl \subseteq cl1
<1>. QED BY <1>2, <1>3, <1>6 DEF Thread

LeftFine(o, ll, al, cl) ==
    ll \subseteq 1..Len(o) /\ al \subseteq 1..Number(o, Len(o)) /\ cl \subseteq 1..Number(o, Len(o))

IndexFine(o, D, c, ll) ==
    /\ \A i \in 1..(Len(o) + 1) : i \notin ll => Bounded(c, Number(o, i - 1))
    /\ \A x \in Trxs : D[x] >= 0 => Remembers(c, Number(o, Place(o, x)), WriteSet[x].keys)

CoversFine(o, D) ==
    \A r, x \in Trxs :
        /\ D[r] >= 0 /\ D[x] >= 0 /\ Has(o, r) /\ Has(o, x)
        /\ Number(o, Place(o, r)) < Number(o, Place(o, x)) /\ Dependent(WriteSet[r], WriteSet[x])
        => Number(o, Place(o, r)) <= D[x]

NodeFine(n, o, P, S, D, c, ll, al, cl) ==
    /\ ThreadsFine(n, o, P, S, D, ll, al, cl)
    /\ LeftFine(o, ll, al, cl) /\ IndexFine(o, D, c, ll)
    /\ ShortKeysFirst => CoversFine(o, D)

\* They are what NodeOK says.
LEMMA SameNode ==
    ASSUME NEW n
    PROVE  NodeOK(n) <=> NodeFine(n, order, pc[n], state[n], depends[n], cert[n], local_left[n],
                                  apply_left[n], commit_left[n])
<1>1. \A x : /\ Ordered(x) <=> Has(order, x)
             /\ LocalSeqno(x) = Place(order, x)
             /\ GlobalSeqno(x) = Number(order, Place(order, x))
  BY SameOrder
<1>2. \A i : Count(i) = Number(order, i)
  BY SameOrder
<1>3. (\A x \in Trxs : Stands(n, x)) <=>
          ThreadsFine(n, order, pc[n], state[n], depends[n], local_left[n], apply_left[n], commit_left[n])
  <2>1. ASSUME NEW x \in Trxs
        PROVE  Stands(n, x) <=> Thread(n, x, order, pc[n], state[n], depends[n], local_left[n],
                                       apply_left[n], commit_left[n])
    <3>1. Ordered(x) = Has(order, x)
      BY <1>1 DEF Ordered, Has
    <3>. QED BY <1>1, <3>1 DEF Stands, Thread
  <2>. QED BY <2>1 DEF ThreadsFine
<1>4. LeftOK(n) <=> LeftFine(order, local_left[n], apply_left[n], commit_left[n])
  BY <1>2 DEF LeftOK, LeftFine
<1>5. KnowsPassed(n) <=> IndexFine(order, depends[n], cert[n], local_left[n])
  BY <1>1, <1>2 DEF KnowsPassed, IndexFine, Passed
<1>6. Covers(n) <=> CoversFine(order, depends[n])
  BY <1>1 DEF Covers, CoversFine, Passed, Before
<1>. QED BY <1>3, <1>4, <1>5, <1>6 DEF NodeOK, NodeFine

\* Also in the next state.
LEMMA SameNodeNext ==
    ASSUME NEW n
    PROVE  NodeOK(n)' <=> NodeFine(n, order', pc'[n], state'[n], depends'[n], cert'[n], local_left'[n],
                                   apply_left'[n], commit_left'[n])
<1>1. \A x : /\ Ordered(x)' <=> Has(order', x)
             /\ LocalSeqno(x)' = Place(order', x)
             /\ GlobalSeqno(x)' = Number(order', Place(order', x))
  BY SameOrderNext
<1>2. \A i : Count(i)' = Number(order', i)
  BY SameOrderNext
<1>3. (\A x \in Trxs : Stands(n, x))' <=>
          ThreadsFine(n, order', pc'[n], state'[n], depends'[n], local_left'[n], apply_left'[n],
                      commit_left'[n])
  <2>1. ASSUME NEW x \in Trxs
        PROVE  Stands(n, x)' <=> Thread(n, x, order', pc'[n], state'[n], depends'[n], local_left'[n],
                                        apply_left'[n], commit_left'[n])
    <3>1. Ordered(x)' = Has(order', x)
      BY <1>1 DEF Ordered, Has
    <3>. QED BY <1>1, <3>1 DEF Stands, Thread
  <2>. QED BY <2>1 DEF ThreadsFine
<1>4. LeftOK(n)' <=> LeftFine(order', local_left'[n], apply_left'[n], commit_left'[n])
  <2>1. Count(Len(order))' = Number(order', Len(order'))
    BY SameOrderNext DEF Count, Number, WriteSets, IsTrx
  <2>. QED BY <2>1 DEF LeftOK, LeftFine
<1>5. KnowsPassed(n)' <=> IndexFine(order', depends'[n], cert'[n], local_left'[n])
  BY <1>1, <1>2 DEF KnowsPassed, IndexFine, Passed
<1>6. Covers(n)' <=> CoversFine(order', depends'[n])
  BY <1>1 DEF Covers, CoversFine, Passed, Before
<1>. QED BY <1>3, <1>4, <1>5, <1>6 DEF NodeOK, NodeFine, ShortKeysFirst

\* The thread of x goes on by itself.
LEMMA NodeMoves ==
    ASSUME NEW n, NEW x \in Trxs, NEW o, IsOrder(o), NEW P, NEW S, NEW D, NEW c,
           NEW ll, NEW al, NEW cl, NodeFine(n, o, P, S, D, c, ll, al, cl),
           NEW P1, NEW S1, NEW D1, Apart(x, P, P1), Apart(x, S, S1), Apart(x, D, D1),
           \/ D1[x] = D[x]
           \/ D[x] >= 0 /\ D1[x] = Number(o, Place(o, x)) - 1,
           Thread(n, x, o, P1, S1, D1, ll, al, cl)
    PROVE  NodeFine(n, o, P1, S1, D1, c, ll, al, cl)
<1>1. ThreadsFine(n, o, P1, S1, D1, ll, al, cl)
  BY ThreadGoes DEF NodeFine
<1>2. \A y \in Trxs : D1[y] >= 0 => D[y] >= 0
  BY DEF Apart
<1>3. IndexFine(o, D1, c, ll)
  BY <1>2 DEF NodeFine, IndexFine
<1>4. ASSUME CoversFine(o, D) PROVE CoversFine(o, D1)
  <2>1. SUFFICES ASSUME NEW r \in Trxs, NEW y \in Trxs, D1[r] >= 0, D1[y] >= 0, Has(o, r), Has(o, y),
                        Number(o, Place(o, r)) < Number(o, Place(o, y)),
                        Dependent(WriteSet[r], WriteSet[y])
                 PROVE  Number(o, Place(o, r)) <= D1[y]
    BY DEF CoversFine
  <2>2. Number(o, Place(o, r)) <= D[y]
    BY <1>2, <1>4, <2>1 DEF CoversFine
  <2>3. CASE D1[y] = D[y]
    BY <2>2, <2>3
  <2>4. CASE D1[y] # D[y]
    <3>1. D1[y] = Number(o, Place(o, y)) - 1
      BY <2>4 DEF Apart
    <3>2. PICK a, b : a = Number(o, Place(o, r)) /\ b = Number(o, Place(o, y))
      OBVIOUS
    <3>3. a \in Nat /\ b \in Nat
      BY <2>1, <3>2, PlaceNumber
    <3>4. a <= b - 1
      BY ONLY <2>1, <3>2, <3>3
    <3>. QED BY <3>1, <3>2, <3>4
  <2>. QED BY <2>3, <2>4
<1>. QED BY <1>1, <1>3, <1>4 DEF NodeFine

\* What has passed on a node has a smaller number than what has not been in the
\* local monitor.
LEMMA PassedBelow ==
    ASSUME NEW n, NEW o, IsOrder(o), NEW P, NEW S, NEW D, NEW c, NEW ll, NEW al, NEW cl,
           NodeFine(n, o, P, S, D, c, ll, al, cl),
           NEW y \in Trxs, D[y] >= 0, NEW l \in 1..(Len(o) + 1), l \notin ll
    PROVE  /\ Has(o, y) /\ Place(o, y) < l
           /\ Number(o, l - 1) \in Nat /\ Number(o, Place(o, y)) \in 1..Number(o, l - 1)
<1>1. Has(o, y) /\ 1..Place(o, y) \subseteq ll
  BY StandingPassed DEF NodeFine, ThreadsFine, Thread
<1>2. PICK i : i = Place(o, y)
  OBVIOUS
<1>3. i \in 1..Len(o) /\ Len(o) \in Nat
  BY <1>1, <1>2, PlaceIs
<1>4. i < l
  BY <1>1, <1>2, <1>3
<1>5. l - 1 \in Nat /\ i \in 0..(l - 1)
  BY <1>3, <1>4
<1>6. Number(o, l - 1) \in Nat /\ Number(o, i) <= Number(o, l - 1)
  BY <1>5, NumberIs
<1>7. Number(o, i) \in 1..Number(o, Len(o)) /\ Number(o, Len(o)) \in Nat
  BY <1>1, <1>2, <1>3, PlaceNumber, NumberIs
<1>8. Number(o, i) \in 1..Number(o, l - 1)
  BY ONLY <1>6, <1>7
<1>. QED BY <1>1, <1>2, <1>4, <1>6, <1>8

\* The index is replaced by one that knows as much.
LEMMA IndexMore ==
    ASSUME NEW n, NEW o, IsOrder(o), NEW P, NEW S, NEW D, NEW c, NEW ll, NEW al, NEW cl,
           NodeFine(n, o, P, S, D, c, ll, al, cl), NEW d, NEW ll1, ll \subseteq ll1,
           \A b \in Nat : Bounded(c, b) =>
               Bounded(d, b) /\ \A g \in 1..b : \A keys : Remembers(c, g, keys) => Remembers(d, g, keys)
    PROVE  IndexFine(o, D, d, ll1)
<1>1. Len(o) \in Nat
  BY DEF IsOrder
<1>2. ASSUME NEW i \in 1..(Len(o) + 1), i \notin ll1 PROVE Bounded(d, Number(o, i - 1))
  <2>1. Bounded(c, Number(o, i - 1))
    BY <1>2 DEF NodeFine, IndexFine
  <2>2. i - 1 \in Nat
    BY <1>1
  <2>3. Number(o, i - 1) \in Nat
    BY <2>2, NumberIs
  <2>. QED BY <2>1, <2>3
<1>3. ASSUME NEW x \in Trxs, D[x] >= 0
      PROVE  Remembers(d, Number(o, Place(o, x)), WriteSet[x].keys)
  <2>1. PICK l : l = Len(o) + 1
    OBVIOUS
  <2>2. l \in 1..(Len(o) + 1) /\ l \notin ll
    BY <1>1, <2>1 DEF NodeFine, LeftFine
  <2>3. PICK b : b = Number(o, l - 1)
    OBVIOUS
  <2>4. b \in Nat /\ Number(o, Place(o, x)) \in 1..b
    BY ONLY <1>3, <2>2, <2>3, PassedBelow, IsOrder(o), NodeFine(n, o, P, S, D, c, ll, al, cl)
  <2>5. Bounded(c, b) /\ Remembers(c, Number(o, Place(o, x)), WriteSet[x].keys)
    BY <1>3, <2>2, <2>3 DEF NodeFine, IndexFine
  <2>. QED BY <2>4, <2>5
<1>. QED BY <1>2, <1>3 DEF IndexFine

\* A transaction whose seqno is cancelled on both monitors, out of order.
LEMMA NodeGivesUp ==
    ASSUME NEW n, NEW x \in Trxs, NEW o, IsOrder(o), Has(o, x), NEW P, NEW S, NEW D, NEW c,
           NEW ll, NEW al, NEW cl, NodeFine(n, o, P, S, D, c, ll, al, cl),
           NEW P1, NEW S1, Apart(x, P, P1), Apart(x, S, S1), Untested(P[x], S[x]),
           P1[x] = "fail"
    PROVE  NodeFine(n, o, P1, S1, D, c, ll \cup {Place(o, x)},
                    al \cup {Number(o, Place(o, x))}, cl \cup {Number(o, Place(o, x))})
<1>1. PICK ll1, al1, cl1 : /\ ll1 = ll \cup {Place(o, x)} /\ al1 = al \cup {Number(o, Place(o, x))}
                           /\ cl1 = cl \cup {Number(o, Place(o, x))}
  OBVIOUS
<1>2. Thread(n, x, o, P, S, D, ll, al, cl)
  BY DEF NodeFine, ThreadsFine
<1>3. Thread(n, x, o, P1, S1, D, ll1, al1, cl1)
  BY <1>2 DEF Thread, Standing, Untested, GivenUp, UnderWay, Ended, HadTurn
<1>4. ThreadsFine(n, o, P1, S1, D, ll1, al1, cl1)
  <2>1. Apart(x, D, D)
    BY DEF Apart
  <2>. QED BY <1>1, <1>3, <2>1, ThreadGoes DEF NodeFine
<1>5. LeftFine(o, ll1, al1, cl1)
  BY <1>1, PlaceIs, PlaceNumber DEF NodeFine, LeftFine
<1>6. IndexFine(o, D, c, ll1)
  BY <1>1 DEF NodeFine, IndexFine
<1>. QED BY <1>1, <1>4, <1>5, <1>6 DEF NodeFine

\* The end of a transaction that was let into the commit monitor.
LEMMA NodeFinishes ==
    ASSUME NEW n, NEW x \in Trxs, NEW o, IsOrder(o), NEW P, NEW S, NEW D, NEW c,
           NEW ll, NEW al, NEW cl, NodeFine(n, o, P, S, D, c, ll, al, cl),
           NEW P1, NEW S1, Apart(x, P, P1), Apart(x, S, S1), P[x] = "committed",
           P1[x] = "done", S1[x] = "COMMITTED", NEW t, t.last_seen_seqno \in Nat \cup {-1}
    PROVE  NodeFine(n, o, P1, S1, D, set_trx_committed(c, t), ll,
                    al \cup {Number(o, Place(o, x))}, cl \cup {Number(o, Place(o, x))})
<1>1. PICK al1, cl1, d : /\ al1 = al \cup {Number(o, Place(o, x))}
                         /\ cl1 = cl \cup {Number(o, Place(o, x))} /\ d = set_trx_committed(c, t)
  OBVIOUS
<1>2. Thread(n, x, o, P, S, D, ll, al, cl)
  BY DEF NodeFine, ThreadsFine
<1>3. UnderWay(P[x], S[x]) /\ HadTurn(P[x], S[x]) /\ Has(o, x)
  BY <1>2 DEF Thread, Standing, Untested, GivenUp, UnderWay, Ended, HadTurn
<1>4. Thread(n, x, o, P1, S1, D, ll, al1, cl1)
  BY <1>1, <1>2, <1>3 DEF Thread, Standing, Untested, GivenUp, UnderWay, Ended, HadTurn
<1>5. ThreadsFine(n, o, P1, S1, D, ll, al1, cl1)
  <2>1. Apart(x, D, D)
    BY DEF Apart
  <2>. QED BY <1>1, <1>3, <1>4, <2>1, ThreadGoes DEF NodeFine
<1>6. LeftFine(o, ll, al1, cl1)
  BY <1>1, <1>3, PlaceNumber DEF NodeFine, LeftFine
<1>7. IndexFine(o, D, d, ll)
  <2>1. \A b \in Nat : Bounded(c, b) =>
           Bounded(d, b) /\ \A g \in 1..b : \A keys : Remembers(c, g, keys) => Remembers(d, g, keys)
    BY <1>1, CommittedRemembers
  <2>. QED BY <2>1, IndexMore
<1>. QED BY <1>1, <1>5, <1>6, <1>7 DEF NodeFine

\* A commit cut.
LEMMA NodeCuts ==
    ASSUME NEW n, NEW o, IsOrder(o), NEW P, NEW S, NEW D, NEW c,
           NEW ll, NEW al, NEW cl, NodeFine(n, o, P, S, D, c, ll, al, cl),
           NEW i \in 1..Len(o), o[i].cut # 0
    PROVE  NodeFine(n, o, P, S, D, purge_trxs_upto(c, o[i].cut), ll \cup {i}, al, cl)
<1>1. PICK d, ll1 : d = purge_trxs_upto(c, o[i].cut) /\ ll1 = ll \cup {i}
  OBVIOUS
<1>2. o[i].cut \in Int
  <2>1. PICK E : E = [cut : 0..MaxCut, trx : Trxs \cup {"none"}]
    OBVIOUS
  <2>2. o \in Seq(E)
    BY <2>1 DEF IsOrder
  <2>3. o[i] \in E
    BY <2>2
  <2>. QED BY <2>1, <2>3, ReplicatorAssumption
<1>3. ASSUME NEW y \in Trxs PROVE Thread(n, y, o, P, S, D, ll1, al, cl)
  <2>1. Has(o, y) => Place(o, y) # i
    BY PlaceIs
  <2>2. Thread(n, y, o, P, S, D, ll, al, cl)
    BY DEF NodeFine, ThreadsFine
  <2>. QED BY <1>1, <2>1, <2>2, StandingMore DEF Thread
<1>4. IndexFine(o, D, d, ll1)
  <2>1. \A b \in Nat : Bounded(c, b) =>
           Bounded(d, b) /\ \A g \in 1..b : \A keys : Remembers(c, g, keys) => Remembers(d, g, keys)
    BY <1>1, <1>2, CutRemembers
  <2>. QED BY <1>1, <2>1, IndexMore
<1>5. LeftFine(o, ll1, al, cl)
  BY <1>1 DEF NodeFine, LeftFine
<1>. QED BY <1>1, <1>3, <1>4, <1>5 DEF NodeFine, ThreadsFine

\* t is the write set of x as the certification sees it
IsWriteSet(t, x, o) ==
    /\ t.global_seqno = Number(o, Place(o, x)) /\ t.last_seen_seqno \in Nat \cup {-1}
    /\ t.keys = WriteSet[x].keys
    /\ t.isolation \in BOOLEAN /\ t.pa_unsafe \in BOOLEAN

\* Of the b write sets before x the index c knows those that have passed, and
\* append_trx() adds x to them
AtTurn(b, x, o, D, c, ll, t) ==
    /\ b = Number(o, Place(o, x) - 1) /\ t.global_seqno = b + 1
    /\ Number(o, Place(o, x)) = b + 1
    /\ Bounded(c, b) /\ Bounded(append_trx(c, t), b + 1)
    /\ Verdict(c, t) \in 0..b \cup {FAILED}
    /\ \A y \in Trxs : D[y] >= 0 =>
          /\ y # x /\ Number(o, Place(o, y)) \in 1..b
          /\ Remembers(c, Number(o, Place(o, y)), WriteSet[y].keys)
          /\ Remembers(append_trx(c, t), Number(o, Place(o, y)), WriteSet[y].keys)
    /\ Verdict(c, t) # FAILED => Remembers(append_trx(c, t), b + 1, WriteSet[x].keys)
    /\ \A i \in 1..(Len(o) + 1) : i \notin ll \cup {Place(o, x)} =>
          i - 1 \in Nat /\ b + 1 <= Number(o, i - 1) /\ Number(o, i - 1) \in Nat

\* x has its turn in the local monitor: its index is the one the test is made
\* for.
LEMMA TurnToCertify ==
    ASSUME NEW n, NEW x \in Trxs, NEW o, IsOrder(o), Has(o, x), NEW P, NEW S, NEW D, NEW c,
           NEW ll, NEW al, NEW cl, NodeFine(n, o, P, S, D, c, ll, al, cl),
           Place(o, x) \notin ll, 1..(Place(o, x) - 1) \subseteq ll,
           NEW t, IsWriteSet(t, x, o)
    PROVE  \E b \in Nat : AtTurn(b, x, o, D, c, ll, t)
<1>1. PICK l, b, a : l = Place(o, x) /\ b = Number(o, l - 1) /\ a = append_trx(c, t)
  OBVIOUS
<1>2. /\ b \in Nat /\ Number(o, l) = b + 1 /\ l \in 1..(Len(o) + 1) /\ l \in 1..Len(o)
      /\ l \in Nat /\ l - 1 \in Nat /\ Len(o) \in Nat
  <2>1. l \in 1..Len(o) /\ Len(o) \in Nat
    BY <1>1, PlaceIs
  <2>2. b \in Nat /\ Number(o, l) = b + 1
    BY <1>1, PlaceNumber
  <2>. QED BY ONLY <2>1, <2>2
<1>3. t.global_seqno = b + 1 /\ t.keys = WriteSet[x].keys
  BY <1>1, <1>2 DEF IsWriteSet
<1>4. Bounded(c, b)
  BY <1>1, <1>2 DEF NodeFine, IndexFine
<1>5. /\ Bounded(a, b + 1) /\ Verdict(c, t) \in 0..b \cup {FAILED}
      /\ \A g \in 1..b : \A keys : Remembers(c, g, keys) => Remembers(a, g, keys)
      /\ Verdict(c, t) # FAILED => Remembers(a, b + 1, WriteSet[x].keys)
  BY <1>1, <1>2, <1>3, <1>4, AppendRemembers DEF IsWriteSet
<1>6. ASSUME NEW y \in Trxs, D[y] >= 0
      PROVE  /\ y # x /\ Number(o, Place(o, y)) \in 1..b
             /\ Remembers(c, Number(o, Place(o, y)), WriteSet[y].keys)
             /\ Remembers(a, Number(o, Place(o, y)), WriteSet[y].keys)
  <2>1. Place(o, y) < l /\ Number(o, Place(o, y)) \in 1..b
    BY ONLY <1>1, <1>2, <1>6, PassedBelow, IsOrder(o), NodeFine(n, o, P, S, D, c, ll, al, cl),
            Place(o, x) \notin ll
  <2>2. y # x
    BY <1>1, <1>2, <2>1
  <2>3. Remembers(c, Number(o, Place(o, y)), WriteSet[y].keys)
    BY <1>6 DEF NodeFine, IndexFine
  <2>. QED BY <1>5, <2>1, <2>2, <2>3
<1>7. ASSUME NEW i \in 1..(Len(o) + 1), i \notin ll \cup {l}
      PROVE  i - 1 \in Nat /\ b + 1 <= Number(o, i - 1) /\ Number(o, i - 1) \in Nat
  <2>1. i \in Int /\ i >= 1 /\ i \notin 1..(l - 1) /\ i # l
    BY <1>1, <1>2, <1>7
  <2>2. i - 1 \in Nat /\ l \in 0..(i - 1)
    BY <1>2, <2>1
  <2>3. Number(o, l) <= Number(o, i - 1) /\ Number(o, i - 1) \in Nat
    BY <2>2, NumberIs
  <2>. QED BY <1>2, <2>2, <2>3
<1>8. AtTurn(b, x, o, D, c, ll, t)
  BY <1>1, <1>2, <1>3, <1>4, <1>5, <1>6, <1>7 DEF AtTurn
<1>. QED BY <1>2, <1>8

\* It passes.
LEMMA NodePasses ==
    ASSUME NEW n, NEW x \in Trxs, NEW o, IsOrder(o), Has(o, x), NEW P, NEW S, NEW D, NEW c,
           NEW ll, NEW al, NEW cl, NodeFine(n, o, P, S, D, c, ll, al, cl),
           Untested(P[x], S[x]), 1..(Place(o, x) - 1) \subseteq ll,
           NEW t, IsWriteSet(t, x, o), Verdict(c, t) # FAILED,
           NEW P1, NEW S1, NEW D1, Apart(x, P, P1), Apart(x, S, S1), Apart(x, D, D1),
           D1[x] = Verdict(c, t),
           P1[x] \in {"apply", "rapply"} \/ (P1[x] = "bf" /\ S1[x] = "MUST_REPLAY_AM")
    PROVE  NodeFine(n, o, P1, S1, D1, append_trx(c, t), ll \cup {Place(o, x)}, al, cl)
<1>1. Thread(n, x, o, P, S, D, ll, al, cl)
  BY DEF NodeFine, ThreadsFine
<1>2. /\ Place(o, x) \notin ll /\ Number(o, Place(o, x)) \notin al
      /\ Number(o, Place(o, x)) \notin cl /\ D[x] = FAILED
  BY <1>1 DEF Thread, Standing
<1>0. PICK b \in Nat : AtTurn(b, x, o, D, c, ll, t)
  BY <1>2, TurnToCertify
<1>3. /\ b = Number(o, Place(o, x) - 1) /\ t.global_seqno = b + 1
      /\ Number(o, Place(o, x)) = b + 1
      /\ Bounded(c, b) /\ Bounded(append_trx(c, t), b + 1)
      /\ Verdict(c, t) \in 0..b \cup {FAILED}
      /\ \A y \in Trxs : D[y] >= 0 =>
            /\ y # x /\ Number(o, Place(o, y)) \in 1..b
            /\ Remembers(c, Number(o, Place(o, y)), WriteSet[y].keys)
            /\ Remembers(append_trx(c, t), Number(o, Place(o, y)), WriteSet[y].keys)
      /\ Verdict(c, t) # FAILED => Remembers(append_trx(c, t), b + 1, WriteSet[x].keys)
      /\ \A i \in 1..(Len(o) + 1) : i \notin ll \cup {Place(o, x)} =>
            i - 1 \in Nat /\ b + 1 <= Number(o, i - 1) /\ Number(o, i - 1) \in Nat
  BY <1>0 DEF AtTurn
<1>4. PICK l, g, a, v : /\ l = Place(o, x) /\ g = Number(o, Place(o, x)) /\ a = append_trx(c, t)
                        /\ v = Verdict(c, t)
  OBVIOUS
<1>5. v \in 0..b /\ g = b + 1 /\ l \in 1..Len(o)
  BY <1>3, <1>4, PlaceIs
<1>6. 1..l \subseteq ll \cup {l}
  BY <1>4, <1>5
<1>7. Thread(n, x, o, P1, S1, D1, ll \cup {l}, al, cl)
  <2>1. v \in Int /\ v >= 0 /\ D1[x] = v
    BY <1>4, <1>5
  <2>2. UnderWay(P1[x], S1[x]) /\ P1[x] \notin {"applying", "commit", "idle", "exec", "pre"}
        /\ ~ HadTurn(P1[x], S1[x])
    BY DEF UnderWay, Untested, GivenUp, HadTurn, Ended
  <2>3. ~ Untested(P1[x], S1[x]) /\ ~ GivenUp(P1[x], S1[x]) /\ ~ Ended(P1[x], S1[x])
    BY <2>2, WhereItIs
  <2>. QED BY <1>2, <1>4, <1>6, <2>1, <2>2, <2>3 DEF Thread, Standing
<1>8. ThreadsFine(n, o, P1, S1, D1, ll \cup {l}, al, cl)
  <2>1. PICK ll1 : ll1 = ll \cup {Place(o, x)}
    OBVIOUS
  <2>. QED BY <1>4, <1>7, <2>1, ThreadGoes DEF NodeFine
<1>9. LeftFine(o, ll \cup {l}, al, cl)
  BY <1>5 DEF NodeFine, LeftFine
<1>10. IndexFine(o, D1, a, ll \cup {l})
  <2>1. ASSUME NEW i \in 1..(Len(o) + 1), i \notin ll \cup {l} PROVE Bounded(a, Number(o, i - 1))
    <3>1. Bounded(a, b + 1) /\ b + 1 <= Number(o, i - 1) /\ Number(o, i - 1) \in Nat
      BY <1>3, <1>4, <2>1
    <3>2. b + 1 \in Nat
      OBVIOUS
    <3>. QED BY <3>1, <3>2, BoundedMore
  <2>2. ASSUME NEW y \in Trxs, D1[y] >= 0
        PROVE  Remembers(a, Number(o, Place(o, y)), WriteSet[y].keys)
    <3>1. CASE y = x
      BY <1>3, <1>4, <3>1
    <3>2. CASE y # x
      BY <1>3, <1>4, <2>2, <3>2 DEF Apart
    <3>. QED BY <3>1, <3>2
  <2>. QED BY <2>1, <2>2 DEF IndexFine
<1>11. ASSUME ShortKeysFirst PROVE CoversFine(o, D1)
  <2>1. SUFFICES ASSUME NEW r \in Trxs, NEW y \in Trxs, D1[r] >= 0, D1[y] >= 0, Has(o, r), Has(o, y),
                        Number(o, Place(o, r)) < Number(o, Place(o, y)),
                        Dependent(WriteSet[r], WriteSet[y])
                 PROVE  Number(o, Place(o, r)) <= D1[y]
    BY DEF CoversFine
  <2>2. CASE r # x /\ y # x
    BY <1>11, <2>1, <2>2 DEF NodeFine, CoversFine, Apart
  <2>3. CASE r = x /\ y # x
    <3>1. D[y] >= 0
      BY <2>1, <2>3 DEF Apart
    <3>2. PICK k : k = Number(o, Place(o, y))
      OBVIOUS
    <3>3. k \in 1..b /\ g < k
      BY <1>3, <1>4, <2>1, <2>3, <3>1, <3>2
    <3>. QED BY ONLY <1>5, <3>3, b \in Nat
  <2>4. CASE r # x /\ y = x
    <3>1. D[r] >= 0
      BY <2>1, <2>4 DEF Apart
    <3>2. PICK k : k = Number(o, Place(o, r))
      OBVIOUS
    <3>3. k \in 1..b /\ Remembers(c, k, WriteSet[r].keys)
      BY <1>3, <3>1, <3>2
    <3>4. /\ WriteSet[r].keys \in Seq(Key) /\ ShortFirst(WriteSet[r].keys)
          /\ WriteSet[x].keys \in Seq(Key) /\ ShortFirst(WriteSet[x].keys)
      BY <1>11, ReplicatorAssumption DEF ShortKeysFirst
    <3>5. Dependent(WriteSet[r], t) /\ t.keys = WriteSet[x].keys
      BY <2>1, <2>4 DEF Dependent, Writes, IsWriteSet
    <3>6. t.keys \in Seq(Key) /\ ShortFirst(t.keys) /\ t.isolation \in BOOLEAN /\ t.pa_unsafe \in BOOLEAN
      BY <3>4, <3>5 DEF IsWriteSet
    <3>7. k <= Verdict(c, t)
      BY <1>3, <3>3, <3>4, <3>5, <3>6, VerdictDepends
    <3>. QED BY <1>4, <2>4, <3>2, <3>7
  <2>5. CASE r = x /\ y = x
    <3>1. PICK k : k = Number(o, Place(o, x))
      OBVIOUS
    <3>2. k \in Nat /\ k < k
      BY <1>3, <2>1, <2>5, <3>1
    <3>. QED BY <3>2
  <2>. QED BY <2>2, <2>3, <2>4, <2>5
<1>. QED BY <1>4, <1>8, <1>9, <1>10, <1>11 DEF NodeFine

\* It fails: its seqno is cancelled, and the index has it as committed.
LEMMA NodeFails ==
    ASSUME NEW n, NEW x \in Trxs, NEW o, IsOrder(o), Has(o, x), NEW P, NEW S, NEW D, NEW c,
           NEW ll, NEW al, NEW cl, NodeFine(n, o, P, S, D, c, ll, al, cl),
           Untested(P[x], S[x]), 1..(Place(o, x) - 1) \subseteq ll,
           NEW t, IsWriteSet(t, x, o),
           NEW P1, NEW S1, NEW D1, Apart(x, P, P1), Apart(x, S, S1), Apart(x, D, D1),
           D1[x] = FAILED,
           P1[x] \in {"fail", "rfail"} \/ (P1[x] = "done" /\ S1[x] = "ROLLED_BACK")
    PROVE  NodeFine(n, o, P1, S1, D1, set_trx_committed(append_trx(c, t), t), ll \cup {Place(o, x)},
                    al \cup {Number(o, Place(o, x))}, cl \cup {Number(o, Place(o, x))})
<1>1. Thread(n, x, o, P, S, D, ll, al, cl)
  BY DEF NodeFine, ThreadsFine
<1>2. Place(o, x) \notin ll /\ D[x] = FAILED
  BY <1>1 DEF Thread, Standing
<1>0. PICK b \in Nat : AtTurn(b, x, o, D, c, ll, t)
  BY <1>2, TurnToCertify
<1>3. /\ Bounded(append_trx(c, t), b + 1)
      /\ \A y \in Trxs : D[y] >= 0 =>
            Remembers(append_trx(c, t), Number(o, Place(o, y)), WriteSet[y].keys)
      /\ \A i \in 1..(Len(o) + 1) : i \notin ll \cup {Place(o, x)} =>
            i - 1 \in Nat /\ b + 1 <= Number(o, i - 1) /\ Number(o, i - 1) \in Nat
  BY <1>0 DEF AtTurn
<1>4. PICK l, g, a : l = Place(o, x) /\ g = Number(o, Place(o, x)) /\ a = append_trx(c, t)
  OBVIOUS
<1>5. PICK d : d = set_trx_committed(a, t)
  OBVIOUS
<1>6. Bounded(d, b + 1) /\ \A k, keys : Remembers(d, k, keys) <=> Remembers(a, k, keys)
  <2>1. b + 1 \in Nat /\ Bounded(a, b + 1) /\ t.last_seen_seqno \in Nat \cup {-1}
    BY <1>3, <1>4 DEF IsWriteSet
  <2>. QED BY ONLY <1>5, <2>1, CommittedRemembers
<1>7. l \in 1..Len(o) /\ g \in 1..Number(o, Len(o))
  BY <1>4, PlaceIs, PlaceNumber
<1>8. Thread(n, x, o, P1, S1, D1, ll \cup {l}, al \cup {g}, cl \cup {g})
  <2>1. GivenUp(P1[x], S1[x]) /\ P1[x] \notin {"applying", "commit", "idle", "exec", "pre", "local", "rlocal", "bf"}
    BY DEF GivenUp
  <2>2. /\ ~ Untested(P1[x], S1[x]) /\ ~ UnderWay(P1[x], S1[x]) /\ ~ Ended(P1[x], S1[x])
        /\ ~ HadTurn(P1[x], S1[x])
    BY <2>1, WhereItIs
  <2>3. D1[x] \in Int
    BY DEF FAILED
  <2>. QED BY <2>1, <2>2, <2>3 DEF Thread, Standing
<1>9. ThreadsFine(n, o, P1, S1, D1, ll \cup {l}, al \cup {g}, cl \cup {g})
  <2>1. PICK ll1, al1, cl1 : /\ ll1 = ll \cup {Place(o, x)} /\ al1 = al \cup {Number(o, Place(o, x))}
                             /\ cl1 = cl \cup {Number(o, Place(o, x))}
    OBVIOUS
  <2>. QED BY <1>4, <1>8, <2>1, ThreadGoes DEF NodeFine
<1>10. LeftFine(o, ll \cup {l}, al \cup {g}, cl \cup {g})
  BY <1>7 DEF NodeFine, LeftFine
<1>11. \A y \in Trxs : D1[y] >= 0 => y # x /\ D[y] >= 0 /\ D1[y] = D[y]
  BY DEF Apart, FAILED
<1>12. IndexFine(o, D1, d, ll \cup {l})
  <2>1. ASSUME NEW i \in 1..(Len(o) + 1), i \notin ll \cup {l} PROVE Bounded(d, Number(o, i - 1))
    <3>1. b + 1 <= Number(o, i - 1) /\ Number(o, i - 1) \in Nat
      BY <1>3, <1>4, <2>1
    <3>2. b + 1 \in Nat
      OBVIOUS
    <3>. QED BY <1>6, <3>1, <3>2, BoundedMore
  <2>2. ASSUME NEW y \in Trxs, D1[y] >= 0
        PROVE  Remembers(d, Number(o, Place(o, y)), WriteSet[y].keys)
    BY <1>3, <1>4, <1>6, <1>11, <2>2
  <2>. QED BY <2>1, <2>2 DEF IndexFine
<1>13. ASSUME CoversFine(o, D) PROVE CoversFine(o, D1)
  BY <1>11, <1>13 DEF CoversFine
<1>. QED BY <1>4, <1>5, <1>9, <1>10, <1>12, <1>13 DEF NodeFine

\* The group puts a write set or a commit cut in its order.
LEMMA NodeReceives ==
    ASSUME NEW n, NEW o, IsOrder(o), NEW P, NEW S, NEW D, NEW c,
           NEW ll, NEW al, NEW cl, NodeFine(n, o, P, S, D, c, ll, al, cl),
           NEW e, NEW q, Longer(q, o, e), IsOrder(q),
           e.cut = 0 => /\ ~ Has(o, e.trx)
                        /\ Source[e.trx] = n => P[e.trx] \notin {"idle", "exec", "pre"}
    PROVE  NodeFine(n, q, P, S, D, c, ll, al, cl)
<1>1. /\ Len(q) = Len(o) + 1 /\ Len(o) \in Nat
      /\ \A i \in 0..Len(o) : Number(q, i) = Number(o, i)
      /\ Number(q, Len(q)) = Number(o, Len(o)) + (IF e.cut = 0 THEN 1 ELSE 0)
      /\ \A x : Has(o, x) => Has(q, x) /\ Place(q, x) = Place(o, x)
      /\ \A x : Has(q, x) /\ ~ Has(o, x) => e.cut = 0 /\ e.trx = x /\ Place(q, x) = Len(q)
  BY AppendOrder
<1>2. Number(o, Len(o)) \in Nat
  BY <1>1, NumberIs
<1>3. ASSUME NEW x, Has(o, x)
      PROVE  Number(q, Place(q, x)) = Number(o, Place(o, x)) /\ Place(q, x) = Place(o, x) /\ Has(q, x)
  <2>1. Place(o, x) \in 0..Len(o)
    BY <1>1, <1>3, PlaceIs
  <2>. QED BY <1>1, <1>3, <2>1
<1>4. /\ ll \subseteq 1..Len(o) /\ al \subseteq 1..Number(o, Len(o)) /\ cl \subseteq 1..Number(o, Len(o))
  BY DEF NodeFine, LeftFine
<1>5. ASSUME NEW x \in Trxs PROVE Thread(n, x, q, P, S, D, ll, al, cl)
  <2>1. Standing(Source[x] = n, P[x], S[x], D[x], Has(o, x), Place(o, x), Number(o, Place(o, x)),
                 ll, al, cl)
    BY DEF NodeFine, ThreadsFine, Thread
  <2>2. CASE Has(o, x)
    <3>1. Has(q, x) = Has(o, x)
      BY <1>3, <2>2 DEF Has
    <3>. QED BY <1>3, <2>1, <2>2, <3>1 DEF Thread
  <2>3. CASE ~ Has(o, x) /\ ~ Has(q, x)
    <3>1. Has(q, x) = FALSE /\ Has(o, x) = FALSE
      BY <2>3 DEF Has
    <3>2. PICK l, g, k, m : /\ l = Place(o, x) /\ g = Number(o, Place(o, x))
                            /\ k = Place(q, x) /\ m = Number(q, Place(q, x))
      OBVIOUS
    <3>3. Standing(Source[x] = n, P[x], S[x], D[x], FALSE, l, g, ll, al, cl)
      BY <2>1, <3>1, <3>2
    <3>4. Standing(Source[x] = n, P[x], S[x], D[x], FALSE, k, m, ll, al, cl)
      BY ONLY <3>3, StandingWaits
    <3>. QED BY <3>1, <3>2, <3>4 DEF Thread
  <2>4. CASE ~ Has(o, x) /\ Has(q, x)
    <3>1. Has(q, x) = TRUE /\ Has(o, x) = FALSE
      BY <2>4 DEF Has
    <3>2. e.cut = 0 /\ e.trx = x /\ Place(q, x) = Len(q)
      BY <1>1, <2>4
    <3>3. PICK l, g : l = Place(q, x) /\ g = Number(q, Place(q, x))
      OBVIOUS
    <3>4. l = Len(o) + 1 /\ g = Number(o, Len(o)) + 1
      BY <1>1, <3>2, <3>3
    <3>5. l \notin ll /\ g \notin al /\ g \notin cl
      BY ONLY <1>1, <1>2, <1>4, <3>4
    <3>6. (Source[x] = n) => P[x] \notin {"idle", "exec", "pre"}
      BY <3>2
    <3>7. Standing(Source[x] = n, P[x], S[x], D[x], TRUE, l, g, ll, al, cl)
      <4>1. PICK k, m : k = Place(o, x) /\ m = Number(o, Place(o, x))
        OBVIOUS
      <4>2. Standing(Source[x] = n, P[x], S[x], D[x], FALSE, k, m, ll, al, cl)
        BY <2>1, <3>1, <4>1
      <4>. QED BY ONLY <3>5, <3>6, <4>2, StandingSent
    <3>. QED BY <3>1, <3>3, <3>7 DEF Thread
  <2>. QED BY <2>2, <2>3, <2>4
<1>6. \A x \in Trxs : D[x] >= 0 => Has(o, x)
  BY StandingPassed DEF NodeFine, ThreadsFine, Thread
<1>7. LeftFine(q, ll, al, cl)
  <2>1. Len(o) <= Len(q) /\ Number(o, Len(o)) <= Number(q, Len(q)) /\ Number(q, Len(q)) \in Nat
    BY <1>1, <1>2
  <2>. QED BY <1>1, <1>2, <1>4, <2>1 DEF LeftFine
<1>8. IndexFine(q, D, c, ll)
  <2>1. ASSUME NEW i \in 1..(Len(q) + 1), i \notin ll PROVE Bounded(c, Number(q, i - 1))
    <3>1. CASE i \in 1..(Len(o) + 1)
      <4>1. i - 1 \in 0..Len(o)
        BY <1>1, <3>1
      <4>. QED BY <1>1, <2>1, <3>1, <4>1 DEF NodeFine, IndexFine
    <3>2. CASE i \notin 1..(Len(o) + 1)
      <4>1. i - 1 = Len(q)
        BY <1>1, <3>2
      <4>2. PICK k : k = Len(o) + 1
        OBVIOUS
      <4>3. k \in 1..(Len(o) + 1) /\ k \notin ll /\ k - 1 = Len(o)
        BY <1>1, <1>4, <4>2
      <4>4. Bounded(c, Number(o, k - 1))
        BY <4>3 DEF NodeFine, IndexFine
      <4>5. Bounded(c, Number(o, Len(o)))
        BY <4>3, <4>4
      <4>6. Number(o, Len(o)) <= Number(q, Len(q)) /\ Number(q, Len(q)) \in Nat
        BY <1>1, <1>2
      <4>. QED BY <1>2, <4>1, <4>5, <4>6, BoundedMore
    <3>. QED BY <3>1, <3>2
  <2>2. ASSUME NEW x \in Trxs, D[x] >= 0
        PROVE  Remembers(c, Number(q, Place(q, x)), WriteSet[x].keys)
    BY <1>3, <1>6, <2>2 DEF NodeFine, IndexFine
  <2>. QED BY <2>1, <2>2 DEF IndexFine
<1>9. ASSUME CoversFine(o, D) PROVE CoversFine(q, D)
  BY <1>3, <1>6, <1>9 DEF CoversFine
<1>. QED BY <1>5, <1>7, <1>8, <1>9 DEF NodeFine, ThreadsFine

----------------------------------------------------------------------------
(* The actions, for OrderInv.                                              *)

\* The thread of x on n would be at p, with the TrxHandle in state s
StandsAt(n, x, p, s) ==
    Standing(Source[x] = n, p, s, depends[n][x], Ordered(x), LocalSeqno(x), GlobalSeqno(x),
             local_left[n], apply_left[n], commit_left[n])

\* Variables of OrderInv that most steps leave alone
common == <<order, depends, cert, local_left, apply_left, commit_left>>

\* Two numbers have a maximum.
LEMMA MaxOfTwo ==
    ASSUME NEW x \in Int, NEW y \in Int
    PROVE  Max({x, y}) \in Int
<1>1. PICK b \in {x, y} : x <= b /\ y <= b
  OBVIOUS
<1>2. Max({x, y}) \in {x, y}
  BY <1>1, MaxExists
<1>. QED BY <1>2

\* The index of a node is one that has seen no more than the order.
LEMMA IndexBounded ==
    ASSUME OrderInv, NEW n \in Nodes
    PROVE  /\ Len(order) \in Nat /\ Count(Len(order)) \in Nat
           /\ Bounded(cert[n], Count(Len(order))) /\ SafeToDiscard(cert[n]) \in Int
<1>1. IsOrder(order)
  BY SameOrder DEF OrderInv
<1>2. Len(order) \in Nat
  BY <1>1 DEF IsOrder
<1>3. Count(Len(order)) \in Nat
  BY <1>1, <1>2, NumberIs, SameOrder
<1>4. PICK i : i = Len(order) + 1
  OBVIOUS
<1>5. i \in 1..(Len(order) + 1) /\ i \notin local_left[n] /\ i - 1 = Len(order)
  BY <1>2, <1>4 DEF OrderInv, NodeOK, LeftOK
<1>6. Bounded(cert[n], Count(i - 1))
  BY <1>5 DEF OrderInv, NodeOK, KnowsPassed
<1>7. Bounded(cert[n], Count(Len(order)))
  BY <1>5, <1>6
<1>. QED BY <1>2, <1>3, <1>7, SafeInt

\* What it means to have one's turn.
LEMMA Turns ==
    ASSUME OrderInv, NEW n \in Nodes
    PROVE  /\ \A i : LocalTurn(n, i) => 1..(i - 1) \subseteq local_left[n] /\ i \notin local_left[n]
           /\ LastLeft(commit_left[n]) \in Nat
           /\ \A x : CommitTurn(n, x) => 1..(GlobalSeqno(x) - 1) \subseteq commit_left[n]
           /\ \A x \in Trxs : ApplyTurn(n, x) /\ Source[x] # n =>
                 1..depends[n][x] \subseteq apply_left[n]
<1>1. /\ Len(order) \in Nat /\ Count(Len(order)) \in Nat
      /\ local_left[n] \subseteq 1..Len(order)
      /\ apply_left[n] \subseteq 1..Count(Len(order)) /\ commit_left[n] \subseteq 1..Count(Len(order))
  BY IndexBounded DEF OrderInv, NodeOK, LeftOK
<1>2. PICK a, b, c : /\ a = LastLeft(local_left[n]) /\ b = LastLeft(apply_left[n])
                     /\ c = LastLeft(commit_left[n])
  OBVIOUS
<1>3. /\ a \in Nat /\ 1..a \subseteq local_left[n] /\ a + 1 \notin local_left[n]
      /\ b \in Nat /\ 1..b \subseteq apply_left[n]
      /\ c \in Nat /\ 1..c \subseteq commit_left[n]
  BY <1>1, <1>2, LastLeftIs
<1>4. ASSUME NEW i, LocalTurn(n, i)
      PROVE  1..(i - 1) \subseteq local_left[n] /\ i \notin local_left[n]
  <2>1. i = a + 1
    BY <1>2, <1>4 DEF LocalTurn
  <2>2. i - 1 = a
    BY <1>3, <2>1
  <2>. QED BY <1>3, <2>1, <2>2
<1>5. ASSUME NEW x, CommitTurn(n, x) PROVE 1..(GlobalSeqno(x) - 1) \subseteq commit_left[n]
  <2>1. GlobalSeqno(x) = c + 1
    BY <1>2, <1>5 DEF CommitTurn
  <2>2. GlobalSeqno(x) - 1 = c
    BY <1>3, <2>1
  <2>. QED BY <1>3, <2>2
<1>6. ASSUME NEW x \in Trxs, ApplyTurn(n, x), Source[x] # n
      PROVE  1..depends[n][x] \subseteq apply_left[n]
  <2>1. b >= depends[n][x] /\ depends[n][x] \in Int
    BY <1>2, <1>6 DEF ApplyTurn, OrderInv, ValuesOK
  <2>2. 1..depends[n][x] \subseteq 1..b
    BY <1>3, <2>1
  <2>. QED BY <1>3, <2>2
<1>. QED BY <1>2, <1>3, <1>4, <1>5, <1>6

\* Steps on n change nothing elsewhere
OnlyOn(n) ==
    \A m \in Nodes : m # n =>
        /\ pc'[m] = pc[m] /\ state'[m] = state[m] /\ depends'[m] = depends[m] /\ cert'[m] = cert[m]
        /\ local_left'[m] = local_left[m] /\ apply_left'[m] = apply_left[m]
        /\ commit_left'[m] = commit_left[m]

\* A step on n that leaves n as the invariant says.
LEMMA NodeStep ==
    ASSUME OrderInv, NEW n \in Nodes, UNCHANGED order, ValuesOK', OnlyOn(n),
           NodeFine(n, order, pc'[n], state'[n], depends'[n], cert'[n], local_left'[n],
                    apply_left'[n], commit_left'[n])
    PROVE  OrderInv'
<1>1. OrderOK'
  BY DEF OrderInv, OrderOK, IsTrx
<1>2. ASSUME NEW m \in Nodes PROVE NodeOK(m)'
  <2>1. CASE m = n
    BY <2>1, SameNodeNext
  <2>2. CASE m # n
    <3>1. NodeFine(m, order, pc[m], state[m], depends[m], cert[m], local_left[m],
                   apply_left[m], commit_left[m])
      BY SameNode DEF OrderInv
    <3>2. NodeFine(m, order', pc'[m], state'[m], depends'[m], cert'[m], local_left'[m],
                   apply_left'[m], commit_left'[m])
      BY <2>2, <3>1 DEF OnlyOn
    <3>. QED BY <3>2, SameNodeNext
  <2>. QED BY <2>1, <2>2
<1>. QED BY <1>1, <1>2 DEF OrderInv

\* What a step of the thread of x on n changes in pc and state.
LEMMA GoesApart ==
    ASSUME TypeOK, NEW n \in Nodes, NEW x \in Trxs, NEW p, NEW s, Goes(n, x, p, s)
    PROVE  /\ pc'[n][x] = p /\ state'[n][x] = s
           /\ Apart(x, pc[n], pc'[n]) /\ Apart(x, state[n], state'[n])
           /\ \A m \in Nodes : m # n => pc'[m] = pc[m] /\ state'[m] = state[m]
BY DEF TypeOK, Goes, Apart

\* A step of the thread of x that leaves the monitors and the index alone.
LEMMA MoveStep ==
    ASSUME OrderInv, TypeOK, NEW n \in Nodes, NEW x \in Trxs, NEW p, NEW s, Goes(n, x, p, s),
           UNCHANGED common, ValuesOK', StandsAt(n, x, p, s)
    PROVE  OrderInv'
<1>1. /\ pc'[n][x] = p /\ state'[n][x] = s
      /\ Apart(x, pc[n], pc'[n]) /\ Apart(x, state[n], state'[n])
      /\ \A m \in Nodes : m # n => pc'[m] = pc[m] /\ state'[m] = state[m]
  BY GoesApart
<1>2. OnlyOn(n)
  BY <1>1 DEF OnlyOn, common
<1>3. NodeFine(n, order, pc[n], state[n], depends[n], cert[n], local_left[n], apply_left[n],
               commit_left[n]) /\ IsOrder(order)
  BY SameNode, SameOrder DEF OrderInv
<1>4. Thread(n, x, order, pc'[n], state'[n], depends[n], local_left[n], apply_left[n], commit_left[n])
  <2>1. Ordered(x) = Has(order, x) /\ LocalSeqno(x) = Place(order, x)
        /\ GlobalSeqno(x) = Number(order, Place(order, x))
    BY SameOrder DEF Ordered, Has
  <2>. QED BY <1>1, <2>1 DEF StandsAt, Thread
<1>5. Apart(x, depends[n], depends[n])
  BY DEF Apart
<1>6. NodeFine(n, order, pc'[n], state'[n], depends[n], cert[n], local_left[n], apply_left[n],
               commit_left[n])
  BY <1>1, <1>3, <1>4, <1>5, NodeMoves
<1>. QED BY <1>2, <1>6, NodeStep DEF common

\* Where a thread stands now.
LEMMA StandsNow ==
    ASSUME OrderInv, NEW n \in Nodes, NEW x \in Trxs
    PROVE  StandsAt(n, x, pc[n][x], state[n][x])
BY DEF OrderInv, NodeOK, Stands, StandsAt

\* A thread in front of the test goes on, still in front of it.
LEMMA StandsUntested ==
    ASSUME NEW n, NEW x, NEW p, NEW s, StandsAt(n, x, p, s), Untested(p, s), NEW q, NEW r,
           Untested(q, r), q \in {"idle", "exec", "pre"} => p \in {"idle", "exec", "pre"},
           q \in {"local", "rlocal", "bf"} => Ordered(x)
    PROVE  StandsAt(n, x, q, r)
<1>1. ~ GivenUp(q, r) /\ ~ UnderWay(q, r) /\ ~ Ended(q, r) /\ ~ HadTurn(q, r)
  BY WhereItIs
<1>2. q \notin {"applying", "commit"}
  BY DEF Untested
<1>. QED BY <1>1, <1>2 DEF StandsAt, Standing

\* It gives up, before the order or behind it.
LEMMA StandsGivenUp ==
    ASSUME NEW n, NEW x, NEW p, NEW s, StandsAt(n, x, p, s), Untested(p, s) \/ GivenUp(p, s),
           NEW q, NEW r, GivenUp(q, r)
    PROVE  StandsAt(n, x, q, r)
<1>1. ~ Untested(q, r) /\ ~ UnderWay(q, r) /\ ~ Ended(q, r) /\ ~ HadTurn(q, r)
  BY WhereItIs
<1>2. q \notin {"applying", "commit", "idle", "exec", "pre", "local", "rlocal", "bf"}
  BY DEF GivenUp
<1>. QED BY <1>1, <1>2 DEF StandsAt, Standing

\* It goes on behind the test.
LEMMA StandsUnderWay ==
    ASSUME NEW n, NEW x, NEW p, NEW s, StandsAt(n, x, p, s), UnderWay(p, s), NEW q, NEW r,
           UnderWay(q, r),
           HadTurn(q, r) => HadTurn(p, s) \/ 1..(GlobalSeqno(x) - 1) \subseteq commit_left[n],
           Source[x] # n /\ q \in {"applying", "commit"} =>
               p \in {"applying", "commit"} \/ 1..depends[n][x] \subseteq apply_left[n]
    PROVE  StandsAt(n, x, q, r)
<1>1. ~ Untested(q, r) /\ ~ GivenUp(q, r) /\ ~ Ended(q, r)
  BY WhereItIs
<1>2. q \notin {"idle", "exec", "pre"}
  BY DEF UnderWay, Untested
<1>3. Ordered(x)
  BY DEF StandsAt, Standing
<1>. QED BY <1>1, <1>2, <1>3 DEF StandsAt, Standing

\* The last seqno reported stays a number.
LEMMA ReportedValues ==
    ASSUME OrderInv, NEW n \in Nodes, NEW c, SafeToDiscard(c) \in Int, Report(n, c)
    PROVE  last_committed' \in [Nodes -> Int]
<1>1. last_committed \in [Nodes -> Int]
  BY DEF OrderInv, ValuesOK
<1>2. Max({last_committed[n], SafeToDiscard(c)}) \in Int
  BY <1>1, MaxOfTwo
<1>. QED BY <1>1, <1>2 DEF Report

\* Values that a step leaves alone.
LEMMA SameValues ==
    ASSUME OrderInv, UNCHANGED <<depends, cert, local_left, apply_left, commit_left, reported>>,
           last_seen' \in [Trxs -> Nat \cup {-1}], last_committed' \in [Nodes -> Int]
    PROVE  ValuesOK'
BY DEF OrderInv, ValuesOK

\* The same for a step that assigns no position either.
LEMMA UnchangedValues ==
    ASSUME OrderInv, UNCHANGED <<depends, cert, local_left, apply_left, commit_left, reported>>,
           UNCHANGED <<last_seen, last_committed>>
    PROVE  ValuesOK'
BY DEF OrderInv, ValuesOK

\* Steps in front of the test.
LEMMA EarlySteps ==
    ASSUME OrderInv, ThreadInv, NEW n \in Nodes, NEW x \in Trxs,
           \/ Begin(n, x) \/ StartCommit(n, x) \/ ToiStart(n, x) \/ ExecAborted(n, x)
           \/ Replicate(n, x) \/ Interrupted(n, x)
    PROVE  OrderInv'
<1>. USE DEF At
<1>1. TypeOK /\ StandsAt(n, x, pc[n][x], state[n][x])
  BY StandsNow DEF ThreadInv
<1>2. \A p \in {"idle", "exec", "pre", "gcs"} : Untested(p, state[n][x])
  BY DEF Untested
<1>3. CASE Begin(n, x)
  <2>1. /\ pc[n][x] = "idle" /\ UNCHANGED common
        /\ UNCHANGED <<depends, cert, local_left, apply_left, commit_left, reported>>
        /\ UNCHANGED <<last_seen, last_committed>>
    BY <1>3 DEF Begin, Startable, common, monitors, reports
  <2>2. Goes(n, x, "exec", state[n][x])
    <3>1. state = [state EXCEPT ![n][x] = state[n][x]]
      BY <1>1 DEF TypeOK
    <3>. QED BY <1>3, <3>1 DEF Begin, Goes
  <2>3. StandsAt(n, x, "exec", state[n][x])
    BY <1>1, <1>2, <2>1, StandsUntested
  <2>4. ValuesOK'
    BY <2>1, UnchangedValues
  <2>. QED BY <1>1, <2>1, <2>2, <2>3, <2>4, MoveStep
<1>4. CASE StartCommit(n, x) \/ ToiStart(n, x)
  <2>1. /\ pc[n][x] \in {"idle", "exec"} /\ UNCHANGED common /\ Goes(n, x, "pre", "EXECUTING")
        /\ UNCHANGED <<depends, cert, local_left, apply_left, commit_left, reported>>
        /\ UNCHANGED <<last_seen, last_committed>>
    BY <1>4 DEF StartCommit, ToiStart, Startable, Only, common, monitors, reports
  <2>2. Untested("pre", "EXECUTING")
    BY DEF Untested
  <2>3. StandsAt(n, x, "pre", "EXECUTING")
    BY <1>1, <1>2, <2>1, <2>2, StandsUntested
  <2>4. ValuesOK'
    BY <2>1, UnchangedValues
  <2>. QED BY <1>1, <2>1, <2>3, <2>4, MoveStep
<1>5. CASE ExecAborted(n, x)
  <2>1. /\ pc[n][x] = "exec" /\ UNCHANGED common /\ Goes(n, x, "done", "ROLLED_BACK")
        /\ UNCHANGED <<depends, cert, local_left, apply_left, commit_left, reported>>
        /\ UNCHANGED last_seen /\ Report(n, cert[n])
    BY <1>5 DEF ExecAborted, common, monitors
  <2>2. GivenUp("done", "ROLLED_BACK")
    BY DEF GivenUp
  <2>3. StandsAt(n, x, "done", "ROLLED_BACK")
    BY <1>1, <1>2, <2>1, <2>2, StandsGivenUp
  <2>4. ValuesOK'
    <3>1. last_committed' \in [Nodes -> Int]
      BY <2>1, IndexBounded, ReportedValues
    <3>2. last_seen' \in [Trxs -> Nat \cup {-1}]
      BY <2>1 DEF OrderInv, ValuesOK
    <3>. QED BY <2>1, <3>1, <3>2, SameValues
  <2>. QED BY <1>1, <2>1, <2>3, <2>4, MoveStep
<1>6. CASE Replicate(n, x) \/ Interrupted(n, x)
  <2>1. /\ pc[n][x] \in {"pre", "gcs"} /\ UNCHANGED common
        /\ UNCHANGED <<depends, cert, local_left, apply_left, commit_left, reported>>
        /\ UNCHANGED last_committed
        /\ Goes(n, x, "fail", "ABORTING") \/ Goes(n, x, "gcs", "REPLICATING")
        /\ UNCHANGED last_seen \/ last_seen' = [last_seen EXCEPT ![x] = LastLeft(commit_left[n])]
    BY <1>6 DEF Replicate, Interrupted, Only, common, monitors, reports
  <2>2. ValuesOK'
    <3>1. LastLeft(commit_left[n]) \in Nat
      BY Turns
    <3>2. last_seen \in [Trxs -> Nat \cup {-1}] /\ last_committed \in [Nodes -> Int]
      BY DEF OrderInv, ValuesOK
    <3>3. last_seen' \in [Trxs -> Nat \cup {-1}] /\ last_committed' \in [Nodes -> Int]
      BY <2>1, <3>1, <3>2
    <3>. QED BY <2>1, <3>3, SameValues
  <2>3. GivenUp("fail", "ABORTING") /\ Untested("gcs", "REPLICATING")
    BY DEF GivenUp, Untested
  <2>4. StandsAt(n, x, "fail", "ABORTING") /\ StandsAt(n, x, "gcs", "REPLICATING")
    <3>1. StandsAt(n, x, "fail", "ABORTING")
      BY <1>1, <1>2, <2>1, <2>3, StandsGivenUp
    <3>2. StandsAt(n, x, "gcs", "REPLICATING")
      BY <1>1, <1>2, <2>1, <2>3, StandsUntested
    <3>. QED BY <3>1, <3>2
  <2>5. CASE Goes(n, x, "fail", "ABORTING")
    BY <1>1, <2>1, <2>2, <2>4, <2>5, MoveStep
  <2>6. CASE Goes(n, x, "gcs", "REPLICATING")
    BY <1>1, <2>1, <2>2, <2>4, <2>6, MoveStep
  <2>. QED BY <2>1, <2>5, <2>6
<1>. QED BY <1>3, <1>4, <1>5, <1>6

\* A step that concerns the thread alone, the wsrep_conflict_state apart.
LEMMA OnlyStep ==
    ASSUME OrderInv, ThreadInv, NEW n \in Nodes, NEW x \in Trxs, NEW p, NEW s, Goes(n, x, p, s),
           UNCHANGED <<order, last_seen, depends, cert, monitors, reports>>, StandsAt(n, x, p, s)
    PROVE  OrderInv'
<1>1. /\ UNCHANGED common /\ UNCHANGED <<last_seen, last_committed>>
      /\ UNCHANGED <<depends, cert, local_left, apply_left, commit_left, reported>>
  BY DEF common, monitors, reports
<1>2. ValuesOK' /\ TypeOK
  BY <1>1, UnchangedValues DEF ThreadInv
<1>. QED BY <1>1, <1>2, MoveStep

\* pre_commit() behind the test, and the commit.
LEMMA CommitSteps ==
    ASSUME OrderInv, ThreadInv, NEW n \in Nodes, NEW x \in Trxs,
           \/ EnterApply(n, x) \/ ApplyInterrupted(n, x) \/ EnterCommit(n, x)
           \/ CommitInterrupted(n, x) \/ ServerCommit(n, x) \/ EngineCommit(n, x)
           \/ ToiExecute(n, x) \/ ReplayEnterCommit(n, x) \/ ReplayApply(n, x)
    PROVE  OrderInv'
<1>. USE DEF At
<1>1. StandsAt(n, x, pc[n][x], state[n][x])
  BY StandsNow
<1>2. UNCHANGED <<order, last_seen, depends, cert, monitors, reports>>
  BY DEF EnterApply, ApplyInterrupted, EnterCommit, CommitInterrupted, ServerCommit, EngineCommit,
         ToiExecute, ReplayEnterCommit, ReplayApply, Only
<1>3. CASE EnterApply(n, x) \/ ApplyInterrupted(n, x) \/ CommitInterrupted(n, x)
  <2>1. /\ pc[n][x] \in {"apply", "commit"} /\ Source[x] = n
        /\ \/ Goes(n, x, "bf", "MUST_REPLAY_CM") \/ Goes(n, x, "bf", "MUST_REPLAY_AM")
           \/ Goes(n, x, "commit", "COMMITTING")
    BY <1>3 DEF EnterApply, ApplyInterrupted, CommitInterrupted, Only
  <2>2. \A to \in {<<"bf", "MUST_REPLAY_CM">>, <<"bf", "MUST_REPLAY_AM">>, <<"commit", "COMMITTING">>} :
           UnderWay(to[1], to[2]) /\ ~ HadTurn(to[1], to[2])
    BY DEF UnderWay, HadTurn, Untested, GivenUp, Ended
  <2>3. UnderWay(pc[n][x], state[n][x])
    BY <2>1 DEF UnderWay, Untested, GivenUp
  <2>4. \A to \in {<<"bf", "MUST_REPLAY_CM">>, <<"bf", "MUST_REPLAY_AM">>, <<"commit", "COMMITTING">>} :
           StandsAt(n, x, to[1], to[2])
    BY <1>1, <2>1, <2>2, <2>3, StandsUnderWay
  <2>5. /\ StandsAt(n, x, "bf", "MUST_REPLAY_CM") /\ StandsAt(n, x, "bf", "MUST_REPLAY_AM")
        /\ StandsAt(n, x, "commit", "COMMITTING")
    BY <2>4
  <2>. QED BY <1>2, <2>1, <2>5, OnlyStep
<1>4. CASE EnterCommit(n, x) \/ ReplayEnterCommit(n, x)
  <2>1. /\ pc[n][x] \in {"commit", "rcommit"} /\ CommitTurn(n, x)
        /\ \/ Goes(n, x, "toi", "APPLYING") \/ Goes(n, x, "bf", "MUST_REPLAY")
           \/ Goes(n, x, "ok", "COMMITTING") \/ Goes(n, x, "replaying", "REPLAYING")
    BY <1>4 DEF EnterCommit, ReplayEnterCommit, Only
  <2>2. /\ UnderWay("toi", "APPLYING") /\ UnderWay("bf", "MUST_REPLAY")
        /\ UnderWay("ok", "COMMITTING") /\ UnderWay("replaying", "REPLAYING")
        /\ UnderWay(pc[n][x], state[n][x])
    BY <2>1 DEF UnderWay, Untested, GivenUp
  <2>3. 1..(GlobalSeqno(x) - 1) \subseteq commit_left[n]
    BY <2>1, Turns
  <2>4. /\ StandsAt(n, x, "toi", "APPLYING") /\ StandsAt(n, x, "bf", "MUST_REPLAY")
        /\ StandsAt(n, x, "ok", "COMMITTING") /\ StandsAt(n, x, "replaying", "REPLAYING")
    BY <1>1, <2>2, <2>3, StandsUnderWay
  <2>. QED BY <1>2, <2>1, <2>4, OnlyStep
<1>5. CASE ServerCommit(n, x) \/ EngineCommit(n, x) \/ ToiExecute(n, x) \/ ReplayApply(n, x)
  <2>1. /\ pc[n][x] \in {"ok", "engine", "toi", "replaying"}
        /\ \E p \in {"engine", "committed"} : \E s : Goes(n, x, p, s)
    <3>1. CASE ServerCommit(n, x)
      <4>1. state = [state EXCEPT ![n][x] = state[n][x]]
        BY DEF ThreadInv, TypeOK
      <4>2. Goes(n, x, "engine", state[n][x])
        BY <3>1, <4>1 DEF ServerCommit, Goes
      <4>. QED BY <3>1, <4>2 DEF ServerCommit
    <3>2. CASE EngineCommit(n, x)
      BY <3>2 DEF EngineCommit, Only
    <3>3. CASE ToiExecute(n, x) \/ ReplayApply(n, x)
      BY <3>3 DEF ToiExecute, ReplayApply, Only
    <3>. QED BY <1>5, <3>1, <3>2, <3>3
  <2>2. PICK p \in {"engine", "committed"} : \E s : Goes(n, x, p, s)
    BY <2>1
  <2>5. PICK s : Goes(n, x, p, s)
    BY <2>2
  <2>3. UnderWay(p, s) /\ UnderWay(pc[n][x], state[n][x]) /\ HadTurn(pc[n][x], state[n][x])
    BY <2>1 DEF UnderWay, Untested, GivenUp, HadTurn
  <2>4. StandsAt(n, x, p, s)
    BY <1>1, <2>3, StandsUnderWay
  <2>. QED BY <1>2, <2>4, <2>5, OnlyStep
<1>. QED BY <1>3, <1>4, <1>5

\* The appliers.
LEMMA ApplierSteps ==
    ASSUME OrderInv, ThreadInv, NEW n \in Nodes, NEW x \in Trxs, ApplierStep(n, x)
    PROVE  OrderInv'
<1>. USE DEF At
<1>1. StandsAt(n, x, pc[n][x], state[n][x])
  BY StandsNow
<1>2. UNCHANGED <<order, last_seen, depends, cert, monitors, reports>>
  BY DEF ApplierStep, RemoteEnterApply, RemoteApply, RemoteCommit, Only
<1>3. CASE RemoteEnterApply(n, x)
  <2>1. /\ pc[n][x] = "apply" /\ ApplyTurn(n, x) /\ Source[x] # n /\ Goes(n, x, "applying", "APPLYING")
    BY <1>3 DEF RemoteEnterApply, Only
  <2>2. 1..depends[n][x] \subseteq apply_left[n]
    BY <2>1, Turns
  <2>3. /\ UnderWay("applying", "APPLYING") /\ ~ HadTurn("applying", "APPLYING")
        /\ UnderWay(pc[n][x], state[n][x])
    BY <2>1 DEF UnderWay, Untested, GivenUp, HadTurn, Ended
  <2>4. StandsAt(n, x, "applying", "APPLYING")
    BY <1>1, <2>2, <2>3, StandsUnderWay
  <2>. QED BY <1>2, <2>1, <2>4, OnlyStep
<1>4. CASE RemoteApply(n, x)
  <2>1. pc[n][x] = "applying" /\ Goes(n, x, "commit", "APPLYING")
    BY <1>4 DEF RemoteApply, Only
  <2>2. /\ UnderWay("commit", "APPLYING") /\ ~ HadTurn("commit", "APPLYING")
        /\ UnderWay(pc[n][x], state[n][x])
    BY <2>1 DEF UnderWay, Untested, GivenUp, HadTurn, Ended
  <2>3. StandsAt(n, x, "commit", "APPLYING")
    BY <1>1, <2>1, <2>2, StandsUnderWay
  <2>. QED BY <1>2, <2>1, <2>3, OnlyStep
<1>5. CASE RemoteCommit(n, x)
  <2>1. pc[n][x] = "commit" /\ CommitTurn(n, x) /\ Goes(n, x, "committed", "COMMITTING")
    BY <1>5 DEF RemoteCommit, Only
  <2>2. 1..(GlobalSeqno(x) - 1) \subseteq commit_left[n]
    BY <2>1, Turns
  <2>3. UnderWay("committed", "COMMITTING") /\ UnderWay(pc[n][x], state[n][x])
    BY <2>1 DEF UnderWay, Untested, GivenUp
  <2>4. StandsAt(n, x, "committed", "COMMITTING")
    BY <1>1, <2>2, <2>3, StandsUnderWay
  <2>. QED BY <1>2, <2>1, <2>4, OnlyStep
<1>. QED BY <1>3, <1>4, <1>5 DEF ApplierStep

\* The end of what was given up, and the start of a replay.
LEMMA RollbackSteps ==
    ASSUME OrderInv, ThreadInv, NEW n \in Nodes, NEW x \in Trxs, Rollback(n, x) \/ ReplayStart(n, x)
    PROVE  OrderInv'
<1>1. StandsAt(n, x, pc[n][x], state[n][x]) /\ TypeOK
  BY StandsNow DEF ThreadInv
<1>2. CASE Rollback(n, x)
  <2>1. /\ pc[n][x] \in {"fail", "rfail"} /\ UNCHANGED common /\ Goes(n, x, "done", "ROLLED_BACK")
        /\ UNCHANGED <<depends, cert, local_left, apply_left, commit_left, reported>>
        /\ UNCHANGED last_seen /\ Report(n, cert[n])
    BY <1>2 DEF Rollback, common, monitors
  <2>2. GivenUp("done", "ROLLED_BACK") /\ GivenUp(pc[n][x], state[n][x])
    BY <2>1 DEF GivenUp
  <2>3. StandsAt(n, x, "done", "ROLLED_BACK")
    BY <1>1, <2>2, StandsGivenUp
  <2>4. ValuesOK'
    <3>1. last_committed' \in [Nodes -> Int]
      BY <2>1, IndexBounded, ReportedValues
    <3>2. last_seen' \in [Trxs -> Nat \cup {-1}]
      BY <2>1 DEF OrderInv, ValuesOK
    <3>. QED BY <2>1, <3>1, <3>2, SameValues
  <2>. QED BY <1>1, <2>1, <2>3, <2>4, MoveStep
<1>3. CASE ReplayStart(n, x)
  <2>1. pc[n][x] = "bf" /\ UNCHANGED <<order, last_seen, depends, cert, monitors, reports>>
    BY <1>3 DEF ReplayStart, At
  <2>2. state[n][x] \in {"MUST_CERT_AND_REPLAY", "MUST_REPLAY_AM", "MUST_REPLAY_CM", "MUST_REPLAY"}
    BY <2>1 DEF ThreadInv, ThreadOK, ThreadFine, StatesAt, ApplierPc
  <2>3. \/ state[n][x] = "MUST_CERT_AND_REPLAY" /\ Goes(n, x, "rlocal", "CERTIFYING")
        \/ state[n][x] = "MUST_REPLAY_AM" /\ Goes(n, x, "rapply", "MUST_REPLAY_AM")
        \/ state[n][x] = "MUST_REPLAY_CM" /\ Goes(n, x, "rcommit", "MUST_REPLAY_CM")
        \/ state[n][x] = "MUST_REPLAY" /\ Goes(n, x, "replaying", "REPLAYING")
    BY <1>3, <2>2 DEF ReplayStart, Is
  <2>4. Ordered(x)
    BY <1>1, <2>1 DEF StandsAt, Standing
  <2>5. CASE state[n][x] = "MUST_CERT_AND_REPLAY" /\ Goes(n, x, "rlocal", "CERTIFYING")
    <3>1. Untested(pc[n][x], state[n][x]) /\ Untested("rlocal", "CERTIFYING")
      BY <2>1, <2>5 DEF Untested
    <3>2. StandsAt(n, x, "rlocal", "CERTIFYING")
      BY <1>1, <2>4, <3>1, StandsUntested
    <3>. QED BY <2>1, <2>5, <3>2, OnlyStep
  <2>6. ASSUME state[n][x] # "MUST_CERT_AND_REPLAY",
               NEW p \in {"rapply", "rcommit", "replaying"}, NEW s, Goes(n, x, p, s),
               p = "replaying" => state[n][x] = "MUST_REPLAY"
        PROVE  OrderInv'
    <3>1. /\ UnderWay(pc[n][x], state[n][x]) /\ UnderWay(p, s)
          /\ HadTurn(p, s) => HadTurn(pc[n][x], state[n][x])
      BY <2>1, <2>6 DEF UnderWay, Untested, GivenUp, HadTurn, Ended
    <3>2. StandsAt(n, x, p, s)
      BY <1>1, <2>6, <3>1, StandsUnderWay
    <3>. QED BY <2>1, <2>6, <3>2, OnlyStep
  <2>. QED BY <2>3, <2>5, <2>6
<1>. QED BY <1>2, <1>3

\* An abort changes the state of a thread, but not how far it has come.
LEMMA AbortSteps ==
    ASSUME OrderInv, ThreadInv, NEW n \in Nodes, NEW bf \in Trxs, NEW x \in Trxs, Kill(n, bf, x)
    PROVE  OrderInv'
<1>1. StandsAt(n, x, pc[n][x], state[n][x])
  BY StandsNow
<1>2. /\ UNCHANGED <<order, last_seen, depends, cert, monitors, reports>>
      /\ pc' = pc /\ pc = [pc EXCEPT ![n][x] = pc[n][x]] /\ state = [state EXCEPT ![n][x] = state[n][x]]
  BY DEF Kill, ThreadInv, TypeOK
<1>3. CASE ~ QueryCommitting(n, x)
  <2>1. Goes(n, x, pc[n][x], state[n][x])
    BY <1>2, <1>3 DEF Kill, Goes
  <2>. QED BY <1>1, <1>2, <2>1, OnlyStep
<1>4. CASE QueryCommitting(n, x)
  <2>1. pc[n][x] \in {"pre", "gcs", "local", "apply", "commit", "ok", "fail"}
    BY <1>4 DEF Kill, QueryCommitting, Holds, ThreadInv, ThreadOK, ThreadFine
  <2>2. PICK s : Goes(n, x, pc[n][x], s)
    <3>1. state' = [state EXCEPT ![n][x] = IF state[n][x] = "ABORTING" THEN "ABORTING" ELSE "MUST_ABORT"]
      BY <1>4 DEF Kill
    <3>. QED BY <1>2, <3>1 DEF Goes
  <2>3. /\ Untested(pc[n][x], s) <=> Untested(pc[n][x], state[n][x])
        /\ GivenUp(pc[n][x], s) <=> GivenUp(pc[n][x], state[n][x])
        /\ UnderWay(pc[n][x], s) <=> UnderWay(pc[n][x], state[n][x])
        /\ Ended(pc[n][x], s) <=> Ended(pc[n][x], state[n][x])
        /\ HadTurn(pc[n][x], s) <=> HadTurn(pc[n][x], state[n][x])
    BY <2>1 DEF Untested, GivenUp, UnderWay, Ended, HadTurn
  <2>4. StandsAt(n, x, pc[n][x], s)
    BY <1>1, <2>3 DEF StandsAt, Standing
  <2>. QED BY <1>2, <2>2, <2>4, OnlyStep
<1>. QED BY <1>3, <1>4

\* The write set as the certification sees it, and its place.
LEMMA TheWriteSet ==
    ASSUME OrderInv, NEW x \in Trxs
    PROVE  /\ IsOrder(order) /\ IsWriteSet(Trx(x), x, order) /\ Ordered(x) = Has(order, x)
           /\ LocalSeqno(x) = Place(order, x) /\ GlobalSeqno(x) = Number(order, Place(order, x))
<1>1. IsOrder(order) /\ last_seen[x] \in Nat \cup {-1}
  BY SameOrder DEF OrderInv, ValuesOK
<1>2. LocalSeqno(x) = Place(order, x) /\ GlobalSeqno(x) = Number(order, Place(order, x))
  BY SameOrder
<1>3. WriteSet[x].isolation \in BOOLEAN /\ WriteSet[x].pa_unsafe \in BOOLEAN
  BY ReplicatorAssumption
<1>4. /\ Trx(x).global_seqno = GlobalSeqno(x) /\ Trx(x).last_seen_seqno = last_seen[x]
      /\ Trx(x).keys = WriteSet[x].keys /\ Trx(x).isolation = WriteSet[x].isolation
      /\ Trx(x).pa_unsafe = WriteSet[x].pa_unsafe
  BY DEF Trx
<1>5. IsWriteSet(Trx(x), x, order)
  BY <1>1, <1>2, <1>3, <1>4 DEF IsWriteSet
<1>. QED BY <1>1, <1>2, <1>5 DEF Ordered, Has

\* A node as NodeFine sees it.
LEMMA TheNode ==
    ASSUME OrderInv, NEW n \in Nodes
    PROVE  NodeFine(n, order, pc[n], state[n], depends[n], cert[n], local_left[n], apply_left[n],
                    commit_left[n])
BY SameNode DEF OrderInv

\* The domains that ValuesOK speaks of.
LEMMA Domains ==
    ValuesOK => /\ DOMAIN cert = Nodes /\ DOMAIN local_left = Nodes
                /\ DOMAIN apply_left = Nodes /\ DOMAIN commit_left = Nodes
BY DEF ValuesOK

\* A replay is applied after everything before it: depends_seqno is raised.
LEMMA ReplaySteps ==
    ASSUME OrderInv, ThreadInv, NEW n \in Nodes, NEW x \in Trxs, ReplayEnterApply(n, x)
    PROVE  OrderInv'
<1>1. /\ pc[n][x] = "rapply" /\ Goes(n, x, "rcommit", "MUST_REPLAY_CM")
      /\ depends' = [depends EXCEPT ![n][x] = GlobalSeqno(x) - 1]
      /\ UNCHANGED <<order, last_seen, cert, local_left, apply_left, commit_left, reported, last_committed>>
  BY DEF ReplayEnterApply, At, monitors, reports
<1>2. StandsAt(n, x, pc[n][x], state[n][x]) /\ TypeOK
  BY StandsNow DEF ThreadInv
<1>3. UnderWay(pc[n][x], state[n][x])
  BY <1>1 DEF UnderWay, Untested, GivenUp
<1>4. Ordered(x) /\ depends[n][x] >= 0
  BY <1>2, <1>3 DEF StandsAt, Standing
<1>5. /\ IsOrder(order) /\ Has(order, x) /\ GlobalSeqno(x) = Number(order, Place(order, x))
      /\ LocalSeqno(x) = Place(order, x) /\ Ordered(x) = Has(order, x)
  BY <1>4, TheWriteSet
<1>6. GlobalSeqno(x) \in Nat /\ GlobalSeqno(x) - 1 \in Nat
  BY <1>5, PlaceNumber
<1>7. depends \in [Nodes -> [Trxs -> Int]]
  BY DEF OrderInv, ValuesOK
<1>8. /\ depends'[n][x] = GlobalSeqno(x) - 1 /\ Apart(x, depends[n], depends'[n])
      /\ \A m \in Nodes : m # n => depends'[m] = depends[m]
      /\ depends' \in [Nodes -> [Trxs -> Int]]
  BY <1>1, <1>6, <1>7 DEF Apart
<1>9. /\ pc'[n][x] = "rcommit" /\ state'[n][x] = "MUST_REPLAY_CM"
      /\ Apart(x, pc[n], pc'[n]) /\ Apart(x, state[n], state'[n])
      /\ \A m \in Nodes : m # n => pc'[m] = pc[m] /\ state'[m] = state[m]
  BY <1>1, <1>2, GoesApart
<1>10. OnlyOn(n)
  BY <1>1, <1>8, <1>9 DEF OnlyOn
<1>11. ValuesOK'
  BY <1>1, <1>8 DEF OrderInv, ValuesOK
<1>12. Thread(n, x, order, pc'[n], state'[n], depends'[n], local_left[n], apply_left[n], commit_left[n])
  <2>1. /\ UnderWay("rcommit", "MUST_REPLAY_CM") /\ ~ HadTurn("rcommit", "MUST_REPLAY_CM")
        /\ ~ Untested("rcommit", "MUST_REPLAY_CM") /\ ~ GivenUp("rcommit", "MUST_REPLAY_CM")
    BY DEF UnderWay, Untested, GivenUp, HadTurn, Ended
  <2>2. GlobalSeqno(x) - 1 \in Int /\ GlobalSeqno(x) - 1 >= 0
    BY <1>6
  <2>3. /\ 1..LocalSeqno(x) \subseteq local_left[n]
        /\ GlobalSeqno(x) \notin apply_left[n] /\ GlobalSeqno(x) \notin commit_left[n]
    BY <1>2, <1>3, <1>4 DEF StandsAt, Standing
  <2>4. Standing(Source[x] = n, "rcommit", "MUST_REPLAY_CM", GlobalSeqno(x) - 1, Has(order, x),
                 LocalSeqno(x), GlobalSeqno(x), local_left[n], apply_left[n], commit_left[n])
    BY <1>5, <2>1, <2>2, <2>3 DEF Standing
  <2>. QED BY <1>5, <1>8, <1>9, <2>4 DEF Thread
<1>13. NodeFine(n, order, pc'[n], state'[n], depends'[n], cert[n], local_left[n], apply_left[n],
                commit_left[n])
  <2>1. depends'[n][x] = Number(order, Place(order, x)) - 1
    BY <1>5, <1>8
  <2>. QED BY <1>4, <1>5, <1>8, <1>9, <1>12, <2>1, TheNode, NodeMoves
<1>. QED BY <1>1, <1>10, <1>11, <1>13, NodeStep

\* ReplicatorSMM::cert() of a thread that has its turn in the local monitor.
LEMMA CertifySteps ==
    ASSUME OrderInv, ThreadInv, NEW n \in Nodes, NEW x \in Trxs, Ordered(x),
           Untested(pc[n][x], state[n][x]), NEW p, NEW s, NEW q, NEW r,
           Certify(n, x, Goes(n, x, p, s), Goes(n, x, q, r)),
           p \in {"apply", "rapply"} \/ (p = "bf" /\ s = "MUST_REPLAY_AM"),
           q \in {"fail", "rfail"} \/ (q = "done" /\ r = "ROLLED_BACK")
    PROVE  OrderInv'
<1>1. PICK t, v, a : t = Trx(x) /\ v = Verdict(cert[n], t) /\ a = append_trx(cert[n], t)
  OBVIOUS
<1>2. PICK l, g : l = LocalSeqno(x) /\ g = GlobalSeqno(x)
  OBVIOUS
<1>3. /\ IsOrder(order) /\ IsWriteSet(t, x, order) /\ Has(order, x)
      /\ l = Place(order, x) /\ g = Number(order, Place(order, x))
  BY <1>1, <1>2, TheWriteSet
<1>4. /\ LocalTurn(n, l) /\ local_left' = [local_left EXCEPT ![n] = @ \cup {l}]
      /\ depends' = [depends EXCEPT ![n][x] = v]
      /\ UNCHANGED <<order, last_committed, reported, last_seen>>
  BY <1>1, <1>2 DEF Certify, Leave, reports
<1>5. IF v = FAILED
      THEN /\ Goes(n, x, q, r) /\ cert' = [cert EXCEPT ![n] = set_trx_committed(a, t)]
           /\ apply_left' = [apply_left EXCEPT ![n] = @ \cup {g}]
           /\ commit_left' = [commit_left EXCEPT ![n] = @ \cup {g}]
      ELSE /\ Goes(n, x, p, s) /\ cert' = [cert EXCEPT ![n] = a]
           /\ UNCHANGED <<apply_left, commit_left>>
  BY <1>1, <1>2 DEF Certify, CancelBoth, Leave
<1>6. /\ DOMAIN cert = Nodes /\ DOMAIN local_left = Nodes /\ DOMAIN apply_left = Nodes
      /\ DOMAIN commit_left = Nodes /\ depends \in [Nodes -> [Trxs -> Int]]
  BY Domains DEF OrderInv, ValuesOK
<1>7. 1..(Place(order, x) - 1) \subseteq local_left[n] /\ Place(order, x) \notin local_left[n]
  BY <1>3, <1>4, Turns
<1>8. v \in Int
  <2>1. PICK b \in Nat : AtTurn(b, x, order, depends[n], cert[n], local_left[n], t)
    BY <1>3, <1>7, TheNode, TurnToCertify
  <2>2. v \in 0..b \cup {FAILED}
    BY <1>1, <2>1 DEF AtTurn
  <2>. QED BY <2>2 DEF FAILED
<1>9. /\ local_left'[n] = local_left[n] \cup {l}
      /\ \A m \in Nodes : m # n => local_left'[m] = local_left[m] /\ depends'[m] = depends[m]
      /\ DOMAIN local_left' = Nodes /\ depends'[n][x] = v /\ Apart(x, depends[n], depends'[n])
      /\ depends' \in [Nodes -> [Trxs -> Int]]
  BY <1>4, <1>6, <1>8 DEF Apart
<1>10. TypeOK
  BY DEF ThreadInv
<1>11. CASE v # FAILED
  <2>1. /\ Goes(n, x, p, s) /\ cert' = [cert EXCEPT ![n] = a] /\ UNCHANGED <<apply_left, commit_left>>
    BY <1>5, <1>11
  <2>2. /\ pc'[n][x] = p /\ state'[n][x] = s
        /\ Apart(x, pc[n], pc'[n]) /\ Apart(x, state[n], state'[n])
        /\ \A m \in Nodes : m # n => pc'[m] = pc[m] /\ state'[m] = state[m]
    BY <1>10, <2>1, GoesApart
  <2>3. /\ cert'[n] = a /\ DOMAIN cert' = Nodes
        /\ \A m \in Nodes : m # n => cert'[m] = cert[m]
    BY <1>6, <2>1
  <2>4. OnlyOn(n)
    BY <1>9, <2>1, <2>2, <2>3 DEF OnlyOn
  <2>5. ValuesOK'
    BY <1>4, <1>6, <1>9, <2>1, <2>3 DEF OrderInv, ValuesOK
  <2>6. NodeFine(n, order, pc'[n], state'[n], depends'[n], append_trx(cert[n], t),
                 local_left[n] \cup {Place(order, x)}, apply_left[n], commit_left[n])
    BY <1>1, <1>3, <1>7, <1>9, <1>11, <2>2, TheNode, NodePasses
  <2>. QED BY <1>1, <1>3, <1>4, <1>9, <2>1, <2>3, <2>4, <2>5, <2>6, NodeStep
<1>12. CASE v = FAILED
  <2>1. /\ Goes(n, x, q, r) /\ cert' = [cert EXCEPT ![n] = set_trx_committed(a, t)]
        /\ apply_left' = [apply_left EXCEPT ![n] = @ \cup {g}]
        /\ commit_left' = [commit_left EXCEPT ![n] = @ \cup {g}]
    BY <1>5, <1>12
  <2>2. /\ pc'[n][x] = q /\ state'[n][x] = r
        /\ Apart(x, pc[n], pc'[n]) /\ Apart(x, state[n], state'[n])
        /\ \A m \in Nodes : m # n => pc'[m] = pc[m] /\ state'[m] = state[m]
    BY <1>10, <2>1, GoesApart
  <2>3. /\ cert'[n] = set_trx_committed(a, t) /\ DOMAIN cert' = Nodes
        /\ \A m \in Nodes : m # n => cert'[m] = cert[m]
    BY <1>6, <2>1
  <2>4. /\ apply_left'[n] = apply_left[n] \cup {g} /\ commit_left'[n] = commit_left[n] \cup {g}
        /\ DOMAIN apply_left' = Nodes /\ DOMAIN commit_left' = Nodes
        /\ \A m \in Nodes : m # n => apply_left'[m] = apply_left[m] /\ commit_left'[m] = commit_left[m]
    BY <1>6, <2>1
  <2>5. OnlyOn(n)
    BY <1>9, <2>2, <2>3, <2>4 DEF OnlyOn
  <2>6. ValuesOK'
    BY <1>4, <1>6, <1>9, <2>3, <2>4 DEF OrderInv, ValuesOK
  <2>7. NodeFine(n, order, pc'[n], state'[n], depends'[n], set_trx_committed(append_trx(cert[n], t), t),
                 local_left[n] \cup {Place(order, x)},
                 apply_left[n] \cup {Number(order, Place(order, x))},
                 commit_left[n] \cup {Number(order, Place(order, x))})
    BY <1>1, <1>3, <1>7, <1>9, <1>12, <2>2, TheNode, NodeFails
  <2>. QED BY <1>1, <1>3, <1>4, <1>9, <2>3, <2>4, <2>5, <2>6, <2>7, NodeStep
<1>. QED BY <1>11, <1>12

\* cert_for_aborted(): given up out of order, or left for the replay.
LEMMA AbortedCertSteps ==
    ASSUME OrderInv, ThreadInv, NEW n \in Nodes, NEW x \in Trxs, Ordered(x),
           pc[n][x] \in {"gcs", "local"}, CertForAborted(n, x)
    PROVE  OrderInv'
<1>1. Untested(pc[n][x], state[n][x]) /\ StandsAt(n, x, pc[n][x], state[n][x]) /\ TypeOK
  BY StandsNow DEF Untested, ThreadInv
<1>2. UNCHANGED <<order, last_seen, depends, cert, reports>>
  BY DEF CertForAborted
<1>3. CASE Goes(n, x, "bf", "MUST_CERT_AND_REPLAY") /\ UNCHANGED monitors
  <2>1. Untested("bf", "MUST_CERT_AND_REPLAY")
    BY DEF Untested
  <2>2. StandsAt(n, x, "bf", "MUST_CERT_AND_REPLAY")
    BY <1>1, <2>1, StandsUntested
  <2>. QED BY <1>2, <1>3, <2>2, OnlyStep
<1>4. CASE /\ Goes(n, x, "fail", "ABORTING") /\ Leave(local_left, n, LocalSeqno(x))
           /\ CancelBoth(n, x)
  <2>1. PICK l, g : l = LocalSeqno(x) /\ g = GlobalSeqno(x)
    OBVIOUS
  <2>2. /\ IsOrder(order) /\ Has(order, x) /\ l = Place(order, x)
        /\ g = Number(order, Place(order, x))
    BY <2>1, TheWriteSet
  <2>3. /\ local_left' = [local_left EXCEPT ![n] = @ \cup {l}]
        /\ apply_left' = [apply_left EXCEPT ![n] = @ \cup {g}]
        /\ commit_left' = [commit_left EXCEPT ![n] = @ \cup {g}]
    BY <1>4, <2>1 DEF CancelBoth, Leave
  <2>4. DOMAIN local_left = Nodes /\ DOMAIN apply_left = Nodes /\ DOMAIN commit_left = Nodes
    BY Domains DEF OrderInv
  <2>5. /\ local_left'[n] = local_left[n] \cup {l} /\ DOMAIN local_left' = Nodes
        /\ apply_left'[n] = apply_left[n] \cup {g} /\ commit_left'[n] = commit_left[n] \cup {g}
        /\ DOMAIN apply_left' = Nodes /\ DOMAIN commit_left' = Nodes
        /\ \A m \in Nodes : m # n =>
              /\ local_left'[m] = local_left[m] /\ apply_left'[m] = apply_left[m]
              /\ commit_left'[m] = commit_left[m]
    BY <2>3, <2>4
  <2>6. /\ pc'[n][x] = "fail" /\ state'[n][x] = "ABORTING"
        /\ Apart(x, pc[n], pc'[n]) /\ Apart(x, state[n], state'[n])
        /\ \A m \in Nodes : m # n => pc'[m] = pc[m] /\ state'[m] = state[m]
    BY <1>1, <1>4, GoesApart
  <2>7. OnlyOn(n)
    BY <1>2, <2>5, <2>6 DEF OnlyOn
  <2>8. ValuesOK'
    BY <1>2, <2>4, <2>5 DEF OrderInv, ValuesOK, reports
  <2>9. NodeFine(n, order, pc'[n], state'[n], depends[n], cert[n],
                 local_left[n] \cup {Place(order, x)},
                 apply_left[n] \cup {Number(order, Place(order, x))},
                 commit_left[n] \cup {Number(order, Place(order, x))})
    BY <1>1, <2>2, <2>6, TheNode, NodeGivesUp
  <2>. QED BY <1>2, <2>2, <2>5, <2>7, <2>8, <2>9, NodeStep
<1>. QED BY <1>3, <1>4 DEF CertForAborted

\* The test of a write set, wherever it is made.
LEMMA TestSteps ==
    ASSUME OrderInv, ThreadInv, NEW n \in Nodes, NEW x \in Trxs,
           \/ Replicated(n, x) \/ CertLocal(n, x) \/ CertInterrupted(n, x) \/ ReplayCert(n, x)
           \/ RemoteCert(n, x)
    PROVE  OrderInv'
<1>1. StandsAt(n, x, pc[n][x], state[n][x])
  BY StandsNow
<1>2. CASE Replicated(n, x)
  <2>1. pc[n][x] = "gcs" /\ Ordered(x)
    BY <1>2 DEF Replicated, At
  <2>2. CASE CertForAborted(n, x)
    BY <2>1, <2>2, AbortedCertSteps
  <2>3. CASE Only(n, x, "local", "CERTIFYING")
    <3>1. /\ Goes(n, x, "local", "CERTIFYING")
          /\ UNCHANGED <<order, last_seen, depends, cert, monitors, reports>>
      BY <2>3 DEF Only
    <3>2. Untested(pc[n][x], state[n][x]) /\ Untested("local", "CERTIFYING")
      BY <2>1 DEF Untested
    <3>3. StandsAt(n, x, "local", "CERTIFYING")
      BY <1>1, <2>1, <3>2, StandsUntested
    <3>. QED BY <3>1, <3>3, OnlyStep
  <2>. QED BY <1>2, <2>2, <2>3 DEF Replicated
<1>3. CASE CertLocal(n, x) \/ CertInterrupted(n, x)
  <2>1. pc[n][x] = "local" /\ Untested(pc[n][x], state[n][x])
    BY <1>3 DEF CertLocal, CertInterrupted, At, Untested
  <2>2. Ordered(x)
    BY <1>1, <2>1 DEF StandsAt, Standing
  <2>3. CASE CertInterrupted(n, x)
    BY <2>1, <2>2, <2>3, AbortedCertSteps DEF CertInterrupted
  <2>4. CASE CertLocal(n, x)
    <3>1. CASE Is(n, x, "MUST_ABORT")
      <4>1. Certify(n, x, Goes(n, x, "bf", "MUST_REPLAY_AM"), Goes(n, x, "fail", "ABORTING"))
        BY <2>4, <3>1 DEF CertLocal, Certify
      <4>. QED BY <2>1, <2>2, <4>1, CertifySteps
    <3>2. CASE ~ Is(n, x, "MUST_ABORT")
      <4>1. Certify(n, x, Goes(n, x, "apply", "APPLYING"), Goes(n, x, "fail", "ABORTING"))
        BY <2>4, <3>2 DEF CertLocal, Certify
      <4>. QED BY <2>1, <2>2, <4>1, CertifySteps
    <3>. QED BY <3>1, <3>2
  <2>. QED BY <1>3, <2>3, <2>4
<1>4. CASE ReplayCert(n, x)
  <2>1. /\ pc[n][x] = "rlocal" /\ Untested(pc[n][x], state[n][x])
        /\ Certify(n, x, Goes(n, x, "rapply", "MUST_REPLAY_AM"), Goes(n, x, "rfail", "ABORTING"))
    BY <1>4 DEF ReplayCert, At, Untested
  <2>2. Ordered(x)
    BY <1>1, <2>1 DEF StandsAt, Standing
  <2>. QED BY <2>1, <2>2, CertifySteps
<1>5. CASE RemoteCert(n, x)
  <2>1. /\ Ordered(x) /\ Untested(pc[n][x], state[n][x])
        /\ Certify(n, x, Goes(n, x, "apply", "CERTIFYING"), Goes(n, x, "done", "ROLLED_BACK"))
    BY <1>5 DEF RemoteCert, At, Untested
  <2>. QED BY <2>1, CertifySteps
<1>. QED BY <1>2, <1>3, <1>4, <1>5

\* The end of a committed transaction.
LEMMA FinishSteps ==
    ASSUME OrderInv, ThreadInv, NEW n \in Nodes, NEW x \in Trxs, PostCommit(n, x) \/ RemoteDone(n, x)
    PROVE  OrderInv'
<1>1. /\ pc[n][x] = "committed" /\ Goes(n, x, "done", "COMMITTED") /\ Finish(n, x)
      /\ UNCHANGED <<order, last_seen, depends, local_left, reported>>
  BY DEF PostCommit, RemoteDone, At
<1>2. PICK t, c, g : t = Trx(x) /\ c = set_trx_committed(cert[n], t) /\ g = GlobalSeqno(x)
  OBVIOUS
<1>3. /\ IsOrder(order) /\ IsWriteSet(t, x, order) /\ g = Number(order, Place(order, x))
  BY <1>2, TheWriteSet
<1>4. /\ apply_left' = [apply_left EXCEPT ![n] = @ \cup {g}]
      /\ commit_left' = [commit_left EXCEPT ![n] = @ \cup {g}]
      /\ cert' = [cert EXCEPT ![n] = c] /\ Report(n, c)
  BY <1>1, <1>2 DEF Finish, Leave
<1>5. DOMAIN cert = Nodes /\ DOMAIN apply_left = Nodes /\ DOMAIN commit_left = Nodes
  BY Domains DEF OrderInv
<1>6. /\ apply_left'[n] = apply_left[n] \cup {g} /\ commit_left'[n] = commit_left[n] \cup {g}
      /\ DOMAIN apply_left' = Nodes /\ DOMAIN commit_left' = Nodes
      /\ cert'[n] = c /\ DOMAIN cert' = Nodes
      /\ \A m \in Nodes : m # n =>
            /\ apply_left'[m] = apply_left[m] /\ commit_left'[m] = commit_left[m]
            /\ cert'[m] = cert[m]
  BY <1>4, <1>5
<1>7. TypeOK
  BY DEF ThreadInv
<1>8. /\ pc'[n][x] = "done" /\ state'[n][x] = "COMMITTED"
      /\ Apart(x, pc[n], pc'[n]) /\ Apart(x, state[n], state'[n])
      /\ \A m \in Nodes : m # n => pc'[m] = pc[m] /\ state'[m] = state[m]
  BY <1>1, <1>7, GoesApart
<1>9. OnlyOn(n)
  BY <1>1, <1>6, <1>8 DEF OnlyOn
<1>10. t.last_seen_seqno \in Nat \cup {-1}
  BY <1>3 DEF IsWriteSet
<1>11. SafeToDiscard(c) \in Int
  <2>1. PICK b \in Nat : Bounded(cert[n], b)
    BY IndexBounded
  <2>2. Bounded(c, b)
    BY <1>2, <1>10, <2>1, CommittedRemembers
  <2>. QED BY <2>2, SafeInt
<1>12. ValuesOK'
  <2>1. last_committed' \in [Nodes -> Int]
    BY <1>4, <1>11, ReportedValues
  <2>2. DOMAIN local_left' = Nodes
    BY <1>1, Domains DEF OrderInv
  <2>3. /\ depends' \in [Nodes -> [Trxs -> Int]] /\ last_seen' \in [Trxs -> Nat \cup {-1}]
        /\ reported' \in [Nodes -> Nat]
    BY <1>1 DEF OrderInv, ValuesOK
  <2>. QED BY ONLY <1>6, <2>1, <2>2, <2>3 DEF ValuesOK
<1>13. NodeFine(n, order, pc'[n], state'[n], depends[n], set_trx_committed(cert[n], t), local_left[n],
                apply_left[n] \cup {Number(order, Place(order, x))},
                commit_left[n] \cup {Number(order, Place(order, x))})
  BY <1>1, <1>3, <1>8, <1>10, TheNode, NodeFinishes
<1>. QED BY <1>1, <1>2, <1>3, <1>6, <1>9, <1>12, <1>13, NodeStep

\* process_commit_cut().
LEMMA CutSteps ==
    ASSUME OrderInv, ThreadInv, NEW n \in Nodes, ProcessCut(n)
    PROVE  OrderInv'
<1>1. PICK i \in DOMAIN order :
        /\ order[i].cut > 0
        /\ cert' = [cert EXCEPT ![n] = purge_trxs_upto(@, order[i].cut)]
        /\ local_left' = [local_left EXCEPT ![n] = @ \cup {i}]
        /\ UNCHANGED <<order, threads, depends, apply_left, commit_left, reports>>
  BY DEF ProcessCut, Leave
<1>2. IsOrder(order) /\ DOMAIN order = 1..Len(order)
  BY SameOrder DEF OrderInv, IsOrder
<1>3. DOMAIN cert = Nodes /\ DOMAIN local_left = Nodes
  BY Domains DEF OrderInv
<1>4. /\ local_left'[n] = local_left[n] \cup {i} /\ cert'[n] = purge_trxs_upto(cert[n], order[i].cut)
      /\ DOMAIN local_left' = Nodes /\ DOMAIN cert' = Nodes
      /\ \A m \in Nodes : m # n => local_left'[m] = local_left[m] /\ cert'[m] = cert[m]
  BY <1>1, <1>3
<1>5. UNCHANGED <<order, pc, state, depends, apply_left, commit_left, last_seen, last_committed, reported>>
  BY <1>1 DEF threads, reports
<1>6. OnlyOn(n)
  BY <1>4, <1>5 DEF OnlyOn
<1>7. ValuesOK'
  BY <1>3, <1>4, <1>5 DEF OrderInv, ValuesOK
<1>8. order[i].cut # 0
  BY <1>1
<1>9. NodeFine(n, order, pc[n], state[n], depends[n], purge_trxs_upto(cert[n], order[i].cut),
               local_left[n] \cup {i}, apply_left[n], commit_left[n])
  BY <1>2, <1>8, TheNode, NodeCuts
<1>. QED BY <1>4, <1>5, <1>6, <1>7, <1>9, NodeStep

\* What is appended to the order fits in.
LEMMA OrderGrows ==
    ASSUME NEW o, IsOrder(o), NEW e \in [cut : 0..MaxCut, trx : Trxs \cup {"none"}],
           e.cut = 0 => e.trx \in Trxs /\ ~ Has(o, e.trx), NEW q, Longer(q, o, e)
    PROVE  IsOrder(q)
<1>1. PICK E : E = [cut : 0..MaxCut, trx : Trxs \cup {"none"}]
  OBVIOUS
<1>2. o \in Seq(E) /\ e \in E
  BY <1>1 DEF IsOrder
<1>3. /\ q \in Seq(E) /\ DOMAIN o = 1..Len(o) /\ DOMAIN q = 1..(Len(o) + 1) /\ Len(o) \in Nat
      /\ q[Len(o) + 1] = e /\ \A i \in 1..Len(o) : q[i] = o[i]
  BY <1>2 DEF Longer
<1>4. ASSUME NEW i \in DOMAIN q, q[i].cut = 0 PROVE q[i].trx \in Trxs
  BY <1>3, <1>4 DEF IsOrder
<1>5. ASSUME NEW i \in DOMAIN q, NEW j \in DOMAIN q, q[i].cut = 0, q[j].cut = 0, q[i].trx = q[j].trx
      PROVE  i = j
  <2>1. CASE i \in DOMAIN o /\ j \in DOMAIN o
    BY <1>3, <1>5, <2>1 DEF IsOrder
  <2>2. CASE i \notin DOMAIN o /\ j \notin DOMAIN o
    BY <1>3, <2>2
  <2>3. CASE i \in DOMAIN o /\ j \notin DOMAIN o
    BY <1>3, <1>5, <2>3 DEF Has
  <2>4. CASE i \notin DOMAIN o /\ j \in DOMAIN o
    BY <1>3, <1>5, <2>4 DEF Has
  <2>. QED BY <2>1, <2>2, <2>3, <2>4
<1>. QED BY <1>1, <1>3, <1>4, <1>5 DEF IsOrder

\* The group appends e to the order, and nothing happens on the nodes.
LEMMA ReceiveStep ==
    ASSUME OrderInv, NEW e \in [cut : 0..MaxCut, trx : Trxs \cup {"none"}],
           e.cut = 0 => /\ e.trx \in Trxs /\ ~ Ordered(e.trx)
                        /\ pc[Source[e.trx]][e.trx] \notin {"idle", "exec", "pre"},
           order' = Append(order, e),
           UNCHANGED <<pc, state, depends, cert, local_left, apply_left, commit_left>>, ValuesOK'
    PROVE  OrderInv'
<1>1. IsOrder(order) /\ (e.cut = 0 => ~ Has(order, e.trx))
  BY SameOrder DEF OrderInv
<1>2. Longer(order', order, e)
  BY DEF Longer
<1>3. IsOrder(order')
  BY <1>1, <1>2, OrderGrows
<1>4. ASSUME NEW n \in Nodes PROVE NodeOK(n)'
  <2>1. e.cut = 0 => /\ ~ Has(order, e.trx)
                     /\ Source[e.trx] = n => pc[n][e.trx] \notin {"idle", "exec", "pre"}
    BY <1>1
  <2>2. NodeFine(n, order', pc[n], state[n], depends[n], cert[n], local_left[n], apply_left[n],
                 commit_left[n])
    BY <1>1, <1>2, <1>3, <2>1, TheNode, NodeReceives
  <2>. QED BY <2>2, SameNodeNext
<1>. QED BY <1>3, <1>4, SameOrderNext DEF OrderInv

\* A write set is ordered.
LEMMA SendSteps ==
    ASSUME OrderInv, NEW x \in Trxs, Send(x)
    PROVE  OrderInv'
<1>1. PICK e : e = [cut |-> 0, trx |-> x]
  OBVIOUS
<1>2. e \in [cut : 0..MaxCut, trx : Trxs \cup {"none"}] /\ e.cut = 0 /\ e.trx = x
  BY <1>1, ReplicatorAssumption
<1>3. /\ pc[Source[x]][x] = "gcs" /\ ~ Ordered(x) /\ order' = Append(order, e)
      /\ UNCHANGED <<pc, state, depends, cert, local_left, apply_left, commit_left>>
      /\ UNCHANGED <<last_seen, last_committed, reported>>
  BY <1>1 DEF Send, At, threads, monitors, reports
<1>4. ValuesOK'
  BY <1>3, UnchangedValues
<1>. QED BY <1>2, <1>3, <1>4, ReceiveStep

\* A step that changes nothing that OrderInv speaks of but the values reported.
LEMMA IdleStep ==
    ASSUME OrderInv, ValuesOK',
           UNCHANGED <<order, pc, state, depends, cert, local_left, apply_left, commit_left>>
    PROVE  OrderInv'
<1>1. IsOrder(order)
  BY SameOrder DEF OrderInv
<1>2. ASSUME NEW n \in Nodes PROVE NodeOK(n)'
  BY TheNode, SameNodeNext
<1>. QED BY <1>1, <1>2, SameOrderNext DEF OrderInv

\* A report, and the commit cut it may bring about.
LEMMA ReportSends ==
    ASSUME OrderInv, NEW n \in Nodes, SendReport(n)
    PROVE  /\ UNCHANGED <<pc, state, conflict, last_seen, depends, cert, local_left, apply_left, commit_left>>
           /\ ValuesOK'
           /\ \/ UNCHANGED order
              \/ \E e \in [cut : 0..MaxCut, trx : Trxs \cup {"none"}] :
                    e.cut # 0 /\ order' = Append(order, e)
<1>1. PICK after, cut : after = [reported EXCEPT ![n] = last_committed[n]] /\ cut = Min(Range(after))
  OBVIOUS
<1>2. /\ reported[n] < last_committed[n] /\ reported' = after
      /\ order' = IF cut > LastCut /\ cut <= MaxCut
                  THEN Append(order, [cut |-> cut, trx |-> "none"]) ELSE order
      /\ UNCHANGED <<pc, state, conflict, depends, cert, local_left, apply_left, commit_left>>
      /\ UNCHANGED <<last_seen, last_committed>>
  BY <1>1 DEF SendReport, threads, monitors
<1>3. last_committed \in [Nodes -> Int] /\ reported \in [Nodes -> Nat]
  BY DEF OrderInv, ValuesOK
<1>4. after \in [Nodes -> Nat]
  BY <1>1, <1>2, <1>3
<1>5. ValuesOK'
  BY <1>2, <1>4 DEF OrderInv, ValuesOK
<1>6. cut \in Nat
  <2>1. PICK S : S = Range(after)
    OBVIOUS
  <2>2. S \in SUBSET Int /\ S # {} /\ \A v \in S : v \in Nat /\ 0 <= v
    BY <1>4, <2>1 DEF Range
  <2>3. Min(S) \in S
    BY <2>2, MinExists
  <2>. QED BY <1>1, <2>1, <2>2, <2>3
<1>7. LastCut \in Int /\ 0 <= LastCut
  <2>1. PICK S : S = {order[i].cut : i \in DOMAIN order} \cup {0}
    OBVIOUS
  <2>2. \A i \in DOMAIN order : order[i].cut \in 0..MaxCut
    <3>1. PICK E : E = [cut : 0..MaxCut, trx : Trxs \cup {"none"}]
      OBVIOUS
    <3>2. order \in Seq(E)
      BY <3>1 DEF OrderInv, OrderOK
    <3>3. \A i \in DOMAIN order : order[i] \in E
      BY <3>2
    <3>. QED BY <3>1, <3>3
  <2>3. S \in SUBSET Int /\ 0 \in S /\ \A v \in S : v <= MaxCut
    BY <2>1, <2>2, ReplicatorAssumption
  <2>4. PICK b \in Int : b = MaxCut
    BY ReplicatorAssumption
  <2>5. S # {} /\ \A v \in S : v <= b
    BY <2>3, <2>4
  <2>6. Max(S) \in S /\ \A v \in S : Max(S) >= v
    BY ONLY <2>3, <2>5, b \in Int, MaxExists
  <2>. QED BY <2>1, <2>3, <2>6 DEF LastCut
<1>8. CASE cut > LastCut /\ cut <= MaxCut
  <2>1. PICK e : e = [cut |-> cut, trx |-> "none"]
    OBVIOUS
  <2>2. e \in [cut : 0..MaxCut, trx : Trxs \cup {"none"}] /\ e.cut # 0
    BY <1>6, <1>7, <1>8, <2>1, ReplicatorAssumption
  <2>3. order' = Append(order, e)
    BY <1>2, <1>8, <2>1
  <2>. QED BY <1>2, <1>5, <2>2, <2>3
<1>9. CASE ~ (cut > LastCut /\ cut <= MaxCut)
  BY <1>2, <1>5, <1>9
<1>. QED BY <1>8, <1>9

\* It keeps OrderInv.
LEMMA ReportSteps ==
    ASSUME OrderInv, NEW n \in Nodes, SendReport(n)
    PROVE  OrderInv'
<1>1. /\ UNCHANGED <<pc, state, depends, cert, local_left, apply_left, commit_left>> /\ ValuesOK'
      /\ \/ UNCHANGED order
         \/ \E e \in [cut : 0..MaxCut, trx : Trxs \cup {"none"}] :
               e.cut # 0 /\ order' = Append(order, e)
  BY ReportSends
<1>2. CASE UNCHANGED order
  BY <1>1, <1>2, IdleStep
<1>3. CASE \E e \in [cut : 0..MaxCut, trx : Trxs \cup {"none"}] : e.cut # 0 /\ order' = Append(order, e)
  <2>1. PICK e \in [cut : 0..MaxCut, trx : Trxs \cup {"none"}] :
          e.cut # 0 /\ order' = Append(order, e)
    BY <1>3
  <2>. QED BY <1>1, <2>1, ReceiveStep
<1>. QED BY <1>1, <1>2, <1>3

\* OrderInv holds at the start.
LEMMA InitOrderInv == Init => OrderInv
<1>1. SUFFICES ASSUME Init PROVE OrderInv
  OBVIOUS
<1>2. OrderOK
  BY <1>1 DEF Init, OrderOK
<1>3. ValuesOK
  BY <1>1 DEF Init, ValuesOK
<1>4. ASSUME NEW n \in Nodes PROVE NodeOK(n)
  <2>1. /\ order = <<>> /\ depends[n] = [x \in Trxs |-> -1] /\ cert[n] = NewCertification(0)
        /\ pc[n] = [x \in Trxs |-> "idle"]
        /\ local_left[n] = {} /\ apply_left[n] = {} /\ commit_left[n] = {}
    BY <1>1 DEF Init
  <2>2. Len(order) = 0 /\ DOMAIN order = {}
    BY <2>1
  <2>3. ASSUME NEW x \in Trxs PROVE Stands(n, x)
    <3>1. /\ pc[n][x] = "idle" /\ depends[n][x] = FAILED /\ FAILED \in Int /\ ~ Ordered(x)
      BY <2>1, <2>2 DEF Ordered, FAILED
    <3>2. Untested("idle", state[n][x])
      BY DEF Untested
    <3>3. /\ ~ GivenUp("idle", state[n][x]) /\ ~ UnderWay("idle", state[n][x])
          /\ ~ Ended("idle", state[n][x]) /\ ~ HadTurn("idle", state[n][x])
      BY <3>2, WhereItIs
    <3>. QED BY <2>1, <3>1, <3>3 DEF Stands, Standing
  <2>4. LeftOK(n)
    BY <2>1 DEF LeftOK
  <2>5. ASSUME NEW x \in Trxs PROVE ~ Passed(n, x)
    BY <2>1 DEF Passed
  <2>6. KnowsPassed(n)
    <3>1. ASSUME NEW i \in 1..(Len(order) + 1) PROVE Bounded(cert[n], Count(i - 1))
      <4>1. i - 1 = 0
        BY <2>2
      <4>2. Count(0) = 0
        BY <1>2, NumberIs, SameOrder
      <4>. QED BY <2>1, <4>1, <4>2, NewBounded
    <3>. QED BY <2>5, <3>1 DEF KnowsPassed
  <2>7. Covers(n)
    BY <2>5 DEF Covers
  <2>. QED BY <2>3, <2>4, <2>6, <2>7 DEF NodeOK
<1>. QED BY <1>2, <1>3, <1>4 DEF OrderInv

\* OrderInv is kept by every step, on top of ThreadInv.
LEMMA NextOrderInv == OrderInv /\ ThreadInv /\ [Next]_vars => OrderInv'
<1>1. SUFFICES ASSUME OrderInv, ThreadInv, [Next]_vars PROVE OrderInv'
  OBVIOUS
<1>2. CASE UNCHANGED vars
  <2>1. UNCHANGED <<order, pc, state, depends, cert, local_left, apply_left, commit_left>>
        /\ UNCHANGED <<depends, cert, local_left, apply_left, commit_left, reported>>
        /\ UNCHANGED <<last_seen, last_committed>>
    BY <1>2 DEF vars
  <2>2. ValuesOK'
    BY <1>1, <2>1, UnchangedValues
  <2>. QED BY <1>1, <2>1, <2>2, IdleStep
<1>3. CASE Next
  <2>1. ASSUME NEW n \in Nodes, NEW x \in Trxs, Begin(n, x) \/ StartCommit(n, x) \/ ToiStart(n, x)
        PROVE  OrderInv'
    BY <1>1, <2>1, EarlySteps
  <2>2. ASSUME NEW x \in Trxs, Send(x) PROVE OrderInv'
    BY <1>1, <2>2, SendSteps
  <2>3. ASSUME NEW n \in Nodes, NEW x \in Trxs, ClientStep(n, x) PROVE OrderInv'
    <3>1. CASE ExecAborted(n, x) \/ Replicate(n, x) \/ Interrupted(n, x)
      BY <1>1, <3>1, EarlySteps
    <3>2. CASE \/ EnterApply(n, x) \/ ApplyInterrupted(n, x) \/ EnterCommit(n, x)
               \/ CommitInterrupted(n, x) \/ ServerCommit(n, x) \/ EngineCommit(n, x)
               \/ ToiExecute(n, x) \/ ReplayEnterCommit(n, x) \/ ReplayApply(n, x)
      BY <1>1, <3>2, CommitSteps
    <3>3. CASE Rollback(n, x) \/ ReplayStart(n, x)
      BY <1>1, <3>3, RollbackSteps
    <3>4. CASE ReplayEnterApply(n, x)
      BY <1>1, <3>4, ReplaySteps
    <3>. QED BY <2>3, <3>1, <3>2, <3>3, <3>4 DEF ClientStep
  <2>4. ASSUME NEW n \in Nodes, NEW x \in Trxs, ApplierStep(n, x) PROVE OrderInv'
    BY <1>1, <2>4, ApplierSteps
  <2>5. ASSUME NEW n \in Nodes, NEW x \in Trxs, NEW y \in Trxs, Kill(n, x, y) PROVE OrderInv'
    BY <1>1, <2>5, AbortSteps
  <2>6. ASSUME NEW n \in Nodes, NEW x \in Trxs, CertificationStep(n, x) PROVE OrderInv'
    BY <1>1, <2>6, TestSteps, FinishSteps DEF CertificationStep
  <2>7. ASSUME NEW n \in Nodes, ProcessCut(n) PROVE OrderInv'
    BY <1>1, <2>7, CutSteps
  <2>8. ASSUME NEW n \in Nodes, SendReport(n) PROVE OrderInv'
    BY <1>1, <2>8, ReportSteps
  <2>. QED BY <1>3, <2>1, <2>2, <2>3, <2>4, <2>5, <2>6, <2>7, <2>8 DEF Next, Progress
<1>. QED BY <1>1, <1>2, <1>3

\* How far each thread has come is what the monitors of its node say, a write set
\* that has passed the test is known to the index of the node, and its
\* depends_seqno covers everything it depends on, whatever aborts, replays, tests
\* out of order and purges come in between.
THEOREM OrderInvariantHolds == Spec => []OrderInv
<1>. QED BY InitOrderInv, NextOrderInv, ThreadInvariantHolds, PTL DEF Spec

\* Where appliers work in parallel, the changes of a write set are made when all
\* that it depends on is committed on the node (ApplyOrder and depends_seqno), and
\* a transaction is committed on its source after all of it too.
THEOREM WritesInOrderHolds ==
    ASSUME ShortKeysFirst
    PROVE  Spec => []WritesInOrder
<1>1. OrderInv => WritesInOrder
  <2>1. SUFFICES ASSUME OrderInv, NEW n \in Nodes, NEW r \in Trxs, NEW x \in Trxs,
                        Passed(n, r), Before(r, x), Dependent(WriteSet[r], WriteSet[x]), Written(n, x)
                 PROVE  r \in Committed(n)
    BY DEF WritesInOrder
  <2>2. Passed(n, x)
    BY <2>1 DEF Written
  <2>3. StandsAt(n, r, pc[n][r], state[n][r]) /\ StandsAt(n, x, pc[n][x], state[n][x])
    BY <2>1, StandsNow
  <2>4. GlobalSeqno(r) <= depends[n][x]
    BY <2>1, <2>2 DEF OrderInv, NodeOK, Covers
  <2>5. /\ Ordered(r) /\ Ordered(x) /\ GlobalSeqno(r) < GlobalSeqno(x)
        /\ GlobalSeqno(r) \in Nat /\ 1 <= GlobalSeqno(r) /\ GlobalSeqno(x) \in Nat
        /\ depends[n][x] \in Int /\ depends[n][r] \in Int
    <3>1. Ordered(r) /\ Ordered(x) /\ GlobalSeqno(r) < GlobalSeqno(x)
      BY <2>1 DEF Before
    <3>2. \A y \in {r, x} : /\ IsOrder(order) /\ Has(order, y)
                            /\ GlobalSeqno(y) = Number(order, Place(order, y))
      BY <2>1, <3>1, TheWriteSet
    <3>3. \A y \in {r, x} : GlobalSeqno(y) \in Nat /\ 1 <= GlobalSeqno(y)
      BY <3>2, PlaceNumber
    <3>. QED BY <2>1, <3>1, <3>3 DEF OrderInv, ValuesOK
  <2>6. UnderWay(pc[n][x], state[n][x]) \/ Ended(pc[n][x], state[n][x])
    BY <2>2, <2>3, StandingPassed DEF StandsAt, Passed
  <2>7. UnderWay(pc[n][r], state[n][r]) \/ Ended(pc[n][r], state[n][r])
    BY <2>1, <2>3, StandingPassed DEF StandsAt, Passed
  <2>8. GlobalSeqno(r) \in apply_left[n] \/ GlobalSeqno(r) \in commit_left[n]
    <3>1. CASE pc[n][x] \in {"committed", "done"}
      <4>1. HadTurn(pc[n][x], state[n][x])
        BY <2>6, <3>1 DEF HadTurn, UnderWay
      <4>2. 1..(GlobalSeqno(x) - 1) \subseteq commit_left[n]
        BY <2>3, <4>1 DEF StandsAt, Standing
      <4>3. GlobalSeqno(r) \in 1..(GlobalSeqno(x) - 1)
        BY <2>5
      <4>. QED BY <4>2, <4>3
    <3>2. CASE Source[x] # n /\ pc[n][x] = "commit"
      <4>1. 1..depends[n][x] \subseteq apply_left[n]
        BY <2>3, <3>2 DEF StandsAt, Standing
      <4>2. GlobalSeqno(r) \in 1..depends[n][x]
        BY <2>4, <2>5
      <4>. QED BY <4>1, <4>2
    <3>. QED BY <2>1, <3>1, <3>2 DEF Written, At
  <2>9. ~ UnderWay(pc[n][r], state[n][r])
    BY <2>3, <2>5, <2>8 DEF StandsAt, Standing
  <2>. QED BY <2>7, <2>9 DEF Ended, Committed, Is
<1>. QED BY <1>1, OrderInvariantHolds, PTL

----------------------------------------------------------------------------
(* Locks and last_seen_seqno.                                              *)

\* A local transaction at p that is not isolated holds its locks
HoldsAt(p) == p \in {"exec", "pre", "gcs", "local", "apply", "commit", "ok", "fail", "bf", "engine"}

\* The thread of x on its source goes to p, with the TrxHandle in state s and the
\* wsrep_conflict_state c; the other local threads stay
OwnGoes(x, p, s, c) ==
    \A y \in Trxs :
        /\ pc'[Source[y]][y] = IF y = x THEN p ELSE pc[Source[y]][y]
        /\ state'[Source[y]][y] = IF y = x THEN s ELSE state[Source[y]][y]
        /\ conflict'[y] = IF y = x THEN c ELSE conflict[y]

\* That is what Goes does on the source.
LEMMA OwnStep ==
    ASSUME ThreadInv, NEW n \in Nodes, NEW x \in Trxs, Source[x] = n, NEW p, NEW s, NEW c,
           Goes(n, x, p, s), conflict' = [conflict EXCEPT ![x] = c]
    PROVE  OwnGoes(x, p, s, c)
BY ReplicatorAssumption DEF ThreadInv, TypeOK, Goes, OwnGoes

\* Those that hold locks, or are replayed, go on without taking more.
LEMMA LocksStep ==
    ASSUME LocksOK, NEW x \in Trxs, NEW p, NEW s, NEW c, OwnGoes(x, p, s, c),
           Replayed(p) => c = "REPLAYING" /\ (p = "rfail" => s = "ABORTING"),
           ~ TOI(x) /\ Replayed(p) => HoldsAt(pc[Source[x]][x]) \/ Replayed(pc[Source[x]][x]),
           ~ TOI(x) /\ HoldsAt(p) =>
               \/ LocksFree(Source[x], x) /\ p = "exec"
               \/ /\ HoldsAt(pc[Source[x]][x])
                  /\ \/ pc[Source[x]][x] # "exec" \/ p = "exec"
                     \/ \A y \in Trxs : Source[y] = Source[x] => conflict[y] # "REPLAYING"
    PROVE  LocksOK'
<1>1. ASSUME NEW r \in Trxs, Replayed(pc'[Source[r]][r])
      PROVE  /\ conflict'[r] = "REPLAYING"
             /\ pc'[Source[r]][r] = "rfail" => state'[Source[r]][r] = "ABORTING"
  BY <1>1 DEF LocksOK, OwnGoes, At, Is
<1>2. ASSUME NEW r \in Trxs, NEW y \in Trxs, r # y, Source[r] = Source[y], LocksConflict(r, y),
             ~ TOI(y), HoldsAt(pc'[Source[y]][y])
      PROVE  /\ ~ (~ TOI(r) /\ HoldsAt(pc'[Source[r]][r]))
             /\ ~ TOI(r) /\ Replayed(pc'[Source[r]][r]) => pc'[Source[y]][y] = "exec"
  <2>1. LocksConflict(y, r)
    BY <1>2 DEF LocksConflict, Dependent
  <2>2. \A z \in Trxs : Holds(Source[z], z) <=> ~ TOI(z) /\ HoldsAt(pc[Source[z]][z])
    BY DEF Holds, HoldsAt
  <2>3. \A z \in Trxs : Replayed(pc[Source[z]][z]) => conflict[z] = "REPLAYING"
    BY DEF LocksOK
  <2>4. ASSUME ~ TOI(y), HoldsAt(pc[Source[y]][y])
        PROVE  /\ ~ (~ TOI(r) /\ HoldsAt(pc[Source[r]][r]))
               /\ ~ TOI(r) /\ Replayed(pc[Source[r]][r]) => pc[Source[y]][y] = "exec"
    BY <1>2, <2>2, <2>4 DEF LocksOK, At
  <2>5. ~ (Replayed(p) /\ HoldsAt(p))
    BY DEF Replayed, HoldsAt
  <2>6. CASE y = x
    <3>1. pc'[Source[y]][y] = p /\ pc'[Source[r]][r] = pc[Source[r]][r]
      BY <1>2, <2>6 DEF OwnGoes
    <3>2. CASE LocksFree(Source[x], x) /\ p = "exec"
      BY <1>2, <2>1, <2>2, <2>6, <3>1, <3>2 DEF LocksFree
    <3>3. CASE /\ HoldsAt(pc[Source[x]][x])
               /\ \/ pc[Source[x]][x] # "exec" \/ p = "exec"
                  \/ \A z \in Trxs : Source[z] = Source[x] => conflict[z] # "REPLAYING"
      BY <1>2, <2>3, <2>4, <2>6, <3>1, <3>3
    <3>. QED BY <1>2, <2>6, <3>1, <3>2, <3>3
  <2>7. CASE r = x
    <3>1. pc'[Source[r]][r] = p /\ pc'[Source[y]][y] = pc[Source[y]][y]
      BY <1>2, <2>7 DEF OwnGoes
    <3>2. ASSUME ~ TOI(r), HoldsAt(p) PROVE FALSE
      <4>1. CASE LocksFree(Source[x], x)
        <5>1. Holds(Source[x], y)
          BY <1>2, <2>2, <2>7, <3>1
        <5>. QED BY <1>2, <2>7, <4>1, <5>1 DEF LocksFree
      <4>2. CASE HoldsAt(pc[Source[x]][x])
        BY <1>2, <2>4, <2>7, <3>1, <3>2, <4>2
      <4>. QED BY <2>7, <3>2, <4>1, <4>2
    <3>3. ASSUME ~ TOI(r), Replayed(p) PROVE pc[Source[y]][y] = "exec"
      BY <1>2, <2>4, <2>7, <3>1, <3>3
    <3>. QED BY <3>1, <3>2, <3>3
  <2>8. CASE y # x /\ r # x
    BY <1>2, <2>4, <2>8 DEF OwnGoes
  <2>. QED BY <2>6, <2>7, <2>8
<1>3. \A z \in Trxs : Holds(Source[z], z)' <=> ~ TOI(z) /\ HoldsAt(pc'[Source[z]][z])
  BY DEF Holds, HoldsAt, TOI
<1>4. \A r, y \in Trxs : LocksConflict(r, y)' <=> LocksConflict(r, y)
  BY DEF LocksConflict
<1>. QED BY <1>1, <1>2, <1>3, <1>4 DEF LocksOK, At, Is, TOI

\* r and x are transactions of one node that its locks keep apart, and r is
\* before x, which has its place in the order or is on its way to the group
Follows(r, x) ==
    /\ r # x /\ Source[r] = Source[x] /\ ~ TOI(r) /\ ~ TOI(x)
    /\ Dependent(WriteSet[r], WriteSet[x]) /\ Ordered(r)
    /\ IF Ordered(x) THEN GlobalSeqno(r) < GlobalSeqno(x) ELSE At(Source[x], x, "gcs")

\* What SeesTurns says of them
LEMMA SeesTurnsIs ==
    SeesTurns <=> \A r, x \in Trxs : Follows(r, x) => \/ GivenUp(pc[Source[r]][r], state[Source[r]][r])
                                                      \/ last_seen[x] >= GlobalSeqno(r) - 1
BY DEF SeesTurns, Follows

\* Nobody gets to gcs, or takes back that it has given up.
LEMMA TurnsStep ==
    ASSUME SeesTurns, NEW x \in Trxs, NEW p, NEW s, NEW c, OwnGoes(x, p, s, c),
           UNCHANGED <<order, last_seen>>,
           p = "gcs" /\ ~ Ordered(x) => pc[Source[x]][x] = "gcs",
           GivenUp(pc[Source[x]][x], state[Source[x]][x]) => GivenUp(p, s)
    PROVE  SeesTurns'
<1>1. \A y : (Ordered(y)' <=> Ordered(y)) /\ GlobalSeqno(y)' = GlobalSeqno(y)
  BY DEF Ordered, GlobalSeqno, LocalSeqno, IsTrx
<1>2. ASSUME NEW r \in Trxs, NEW y \in Trxs, r # y, Source[r] = Source[y], ~ TOI(r), ~ TOI(y),
             Dependent(WriteSet[r], WriteSet[y]), Ordered(r),
             IF Ordered(y) THEN GlobalSeqno(r) < GlobalSeqno(y) ELSE pc'[Source[y]][y] = "gcs"
      PROVE  GivenUp(pc'[Source[r]][r], state'[Source[r]][r]) \/ last_seen[y] >= GlobalSeqno(r) - 1
  <2>1. ~ Ordered(y) => pc[Source[y]][y] = "gcs"
    BY <1>2 DEF OwnGoes
  <2>2. GivenUp(pc[Source[r]][r], state[Source[r]][r]) \/ last_seen[y] >= GlobalSeqno(r) - 1
    BY <1>2, <2>1, SeesTurnsIs DEF Follows, At
  <2>3. GivenUp(pc[Source[r]][r], state[Source[r]][r]) => GivenUp(pc'[Source[r]][r], state'[Source[r]][r])
    BY DEF OwnGoes
  <2>. QED BY <2>2, <2>3
<1>. QED BY <1>1, <1>2 DEF SeesTurns, At, TOI

\* A step of a local thread, for both.
LEMMA LockStep ==
    ASSUME LockInv, ThreadInv, NEW n \in Nodes, NEW x \in Trxs, Source[x] = n, NEW p, NEW s, NEW c,
           Goes(n, x, p, s), conflict' = [conflict EXCEPT ![x] = c], UNCHANGED <<order, last_seen>>,
           Replayed(p) => c = "REPLAYING" /\ (p = "rfail" => s = "ABORTING"),
           ~ TOI(x) /\ Replayed(p) => HoldsAt(pc[n][x]) \/ Replayed(pc[n][x]),
           ~ TOI(x) /\ HoldsAt(p) =>
               \/ LocksFree(n, x) /\ p = "exec"
               \/ /\ HoldsAt(pc[n][x])
                  /\ \/ pc[n][x] # "exec" \/ p = "exec"
                     \/ \A y \in Trxs : Source[y] = n => conflict[y] # "REPLAYING",
           p = "gcs" /\ ~ Ordered(x) => pc[n][x] = "gcs",
           GivenUp(pc[n][x], state[n][x]) => GivenUp(p, s)
    PROVE  LockInv'
<1>1. OwnGoes(x, p, s, c)
  BY OwnStep
<1>2. LocksOK'
  BY <1>1, LocksStep DEF LockInv
<1>3. SeesTurns'
  BY <1>1, TurnsStep DEF LockInv
<1>. QED BY <1>2, <1>3 DEF LockInv

\* The steps of appliers do not concern the local threads.
LEMMA ElsewhereStep ==
    ASSUME LockInv, ThreadInv, NEW n \in Nodes, NEW x \in Trxs, Source[x] # n, NEW p, NEW s,
           Goes(n, x, p, s), UNCHANGED <<order, last_seen, conflict>>
    PROVE  LockInv'
<1>1. \A y \in Trxs : /\ pc'[Source[y]][y] = pc[Source[y]][y]
                      /\ state'[Source[y]][y] = state[Source[y]][y]
  BY ReplicatorAssumption DEF ThreadInv, TypeOK, Goes
<1>2. \A y : (Ordered(y)' <=> Ordered(y)) /\ GlobalSeqno(y)' = GlobalSeqno(y)
  BY DEF Ordered, GlobalSeqno, LocalSeqno, IsTrx
<1>3. LocksOK'
  <2>1. \A y \in Trxs : Holds(Source[y], y)' <=> Holds(Source[y], y)
    BY <1>1 DEF Holds, TOI
  <2>2. \A r, y \in Trxs : LocksConflict(r, y)' <=> LocksConflict(r, y)
    BY DEF LocksConflict
  <2>. QED BY <1>1, <2>1, <2>2 DEF LockInv, LocksOK, At, Is, TOI
<1>4. SeesTurns'
  BY <1>1, <1>2 DEF LockInv, SeesTurns, At, TOI
<1>. QED BY <1>3, <1>4 DEF LockInv

\* Nothing changes.
LEMMA LockIdle ==
    ASSUME LockInv, UNCHANGED <<order, last_seen, conflict, pc, state>>
    PROVE  LockInv'
<1>1. \A y : (Ordered(y)' <=> Ordered(y)) /\ GlobalSeqno(y)' = GlobalSeqno(y)
  BY DEF Ordered, GlobalSeqno, LocalSeqno, IsTrx
<1>2. LocksOK'
  BY DEF LockInv, LocksOK, At, Is, TOI, Holds, LocksConflict
<1>3. SeesTurns'
  BY <1>1 DEF LockInv, SeesTurns, At, TOI
<1>. QED BY <1>2, <1>3 DEF LockInv

\* Inside pre_commit() and the commit: locks are kept or given back.
LEMMA LockInside ==
    ASSUME LockInv, ThreadInv, NEW n \in Nodes, NEW x \in Trxs, Source[x] = n,
           pc[n][x] \in {"gcs", "local", "apply", "commit", "ok", "engine"},
           NEW p, NEW s, NEW c, Goes(n, x, p, s), conflict' = [conflict EXCEPT ![x] = c],
           UNCHANGED <<order, last_seen>>, ~ Replayed(p), p # "gcs"
    PROVE  LockInv'
<1>1. HoldsAt(pc[n][x]) /\ pc[n][x] # "exec" /\ ~ GivenUp(pc[n][x], state[n][x])
  BY DEF HoldsAt, GivenUp
<1>. QED BY <1>1, LockStep

\* The same when the wsrep_conflict_state stays.
LEMMA LockInsideQuiet ==
    ASSUME LockInv, ThreadInv, NEW n \in Nodes, NEW x \in Trxs, Source[x] = n,
           pc[n][x] \in {"gcs", "local", "apply", "commit", "ok", "engine"},
           NEW p, NEW s, Goes(n, x, p, s), UNCHANGED <<order, last_seen, conflict>>,
           ~ Replayed(p), p # "gcs"
    PROVE  LockInv'
<1>1. conflict' = [conflict EXCEPT ![x] = conflict[x]]
  BY DEF ThreadInv, TypeOK
<1>. QED BY <1>1, LockInside

\* Where only a local thread can be.
LEMMA LocalThread ==
    ASSUME ThreadInv, NEW n \in Nodes, NEW x \in Trxs
    PROVE  /\ pc[n][x] \notin ApplierPc => Source[x] = n
           /\ pc[n][x] \notin ClientPc => Source[x] # n
           /\ Source[x] = n /\ pc[n][x] = "fail" => state[n][x] = "ABORTING"
<1>1. ThreadFine(n, x, pc[n][x], state[n][x], conflict[x])
  BY DEF ThreadInv, ThreadOK
<1>. QED BY <1>1 DEF ThreadFine, StatesAt

\* From the return of gcs_repl() to the commit in the engine the locks stay where
\* they are, or are given up.
LEMMA LockCommitSteps ==
    ASSUME LockInv, ThreadInv, NEW n \in Nodes, NEW x \in Trxs,
           \/ Interrupted(n, x) \/ EnterApply(n, x) \/ ApplyInterrupted(n, x) \/ EnterCommit(n, x)
           \/ CommitInterrupted(n, x) \/ ServerCommit(n, x) \/ EngineCommit(n, x)
           \/ Replicated(n, x) \/ CertLocal(n, x) \/ CertInterrupted(n, x)
    PROVE  LockInv'
<1>. USE DEF At
<1>1. pc[n][x] \in {"gcs", "local", "apply", "commit", "ok", "engine"} /\ UNCHANGED <<order, last_seen>>
  BY DEF Interrupted, EnterApply, ApplyInterrupted, EnterCommit, CommitInterrupted, ServerCommit,
         EngineCommit, Replicated, CertLocal, CertInterrupted, Only, CertForAborted, Certify
<1>2. Source[x] = n
  <2>1. CASE ServerCommit(n, x) \/ EngineCommit(n, x)
    <3>1. pc[n][x] \notin ApplierPc
      BY <2>1 DEF ServerCommit, EngineCommit, ApplierPc
    <3>. QED BY <3>1, LocalThread
  <2>2. CASE ~ (ServerCommit(n, x) \/ EngineCommit(n, x))
    BY <2>2 DEF Interrupted, EnterApply, ApplyInterrupted, EnterCommit, CommitInterrupted, Replicated,
                CertLocal, CertInterrupted
  <2>. QED BY <2>1, <2>2
<1>3. CASE ServerCommit(n, x)
  <2>1. state = [state EXCEPT ![n][x] = state[n][x]]
    BY DEF ThreadInv, TypeOK
  <2>2. Goes(n, x, "engine", state[n][x]) /\ conflict' = [conflict EXCEPT ![x] = "NO_CONFLICT"]
    BY <1>3, <2>1 DEF ServerCommit, Goes
  <2>3. ~ Replayed("engine")
    BY DEF Replayed
  <2>. QED BY <1>1, <1>2, <2>2, <2>3, LockInside
<1>4. CASE ~ ServerCommit(n, x)
  <2>1. UNCHANGED conflict
    BY <1>4 DEF Interrupted, EnterApply, ApplyInterrupted, EnterCommit, CommitInterrupted,
                EngineCommit, Replicated, CertLocal, CertInterrupted, Only, CertForAborted
  <2>2. \E p \in {"fail", "commit", "bf", "toi", "ok", "committed", "local", "apply"} :
           \E s \in States \cup {state[n][x]} : Goes(n, x, p, s)
    <3>1. CASE CertLocal(n, x)
      <4>1. \/ Goes(n, x, "bf", "MUST_REPLAY_AM") \/ Goes(n, x, "apply", "APPLYING")
            \/ Goes(n, x, "fail", "ABORTING")
        BY <3>1 DEF CertLocal, Certify
      <4>. QED BY <4>1 DEF States
    <3>2. CASE Replicated(n, x) \/ CertInterrupted(n, x)
      <4>1. \/ Goes(n, x, "fail", "ABORTING") \/ Goes(n, x, "bf", "MUST_CERT_AND_REPLAY")
            \/ Goes(n, x, "local", "CERTIFYING")
        BY <3>2 DEF Replicated, CertInterrupted, CertForAborted, Only
      <4>. QED BY <4>1 DEF States
    <3>3. CASE \/ Interrupted(n, x) \/ EnterApply(n, x) \/ ApplyInterrupted(n, x)
               \/ CommitInterrupted(n, x) \/ EngineCommit(n, x)
      <4>1. \/ Goes(n, x, "fail", "ABORTING") \/ Goes(n, x, "bf", "MUST_REPLAY_CM")
            \/ Goes(n, x, "commit", "COMMITTING") \/ Goes(n, x, "bf", "MUST_REPLAY_AM")
            \/ Goes(n, x, "committed", state[n][x])
        BY <3>3 DEF Interrupted, EnterApply, ApplyInterrupted, CommitInterrupted, EngineCommit, Only
      <4>. QED BY <4>1 DEF States
    <3>4. CASE EnterCommit(n, x)
      <4>1. \/ Goes(n, x, "toi", "APPLYING") \/ Goes(n, x, "bf", "MUST_REPLAY")
            \/ Goes(n, x, "ok", "COMMITTING")
        BY <3>4 DEF EnterCommit, Only
      <4>. QED BY <4>1 DEF States
    <3>. QED BY <1>4, <3>1, <3>2, <3>3, <3>4
  <2>3. PICK p \in {"fail", "commit", "bf", "toi", "ok", "committed", "local", "apply"} :
           \E s \in States \cup {state[n][x]} : Goes(n, x, p, s)
    BY <2>2
  <2>4. PICK s \in States \cup {state[n][x]} : Goes(n, x, p, s)
    BY <2>3
  <2>5. ~ Replayed(p) /\ p # "gcs"
    BY <2>3 DEF Replayed
  <2>. QED BY <1>1, <1>2, <2>1, <2>4, <2>5, LockInsideQuiet
<1>. QED BY <1>3, <1>4

\* The start of a transaction and of its COMMIT.
LEMMA LockStartSteps ==
    ASSUME LockInv, ThreadInv, NEW n \in Nodes, NEW x \in Trxs,
           Begin(n, x) \/ StartCommit(n, x) \/ ToiStart(n, x) \/ ExecAborted(n, x)
    PROVE  LockInv'
<1>. USE DEF At
<1>1. conflict = [conflict EXCEPT ![x] = conflict[x]] /\ state = [state EXCEPT ![n][x] = state[n][x]]
  BY DEF ThreadInv, TypeOK
<1>2. CASE Begin(n, x)
  <2>1. /\ Source[x] = n /\ pc[n][x] = "idle" /\ LocksFree(n, x) /\ UNCHANGED <<order, last_seen>>
        /\ Goes(n, x, "exec", state[n][x]) /\ conflict' = [conflict EXCEPT ![x] = conflict[x]]
    BY <1>1, <1>2 DEF Begin, Startable, Goes
  <2>2. ~ Replayed("exec") /\ ~ GivenUp(pc[n][x], state[n][x])
    BY <2>1 DEF Replayed, GivenUp
  <2>. QED BY <2>1, <2>2, LockStep
<1>3. CASE StartCommit(n, x)
  <2>1. /\ Source[x] = n /\ pc[n][x] = "exec" /\ UNCHANGED <<order, last_seen>>
        /\ \A y \in Trxs : Source[y] = n => conflict[y] # "REPLAYING"
        /\ Goes(n, x, "pre", "EXECUTING") /\ conflict' = [conflict EXCEPT ![x] = conflict[x]]
    BY <1>1, <1>3 DEF StartCommit, Only
  <2>2. ~ Replayed("pre") /\ ~ GivenUp(pc[n][x], state[n][x]) /\ HoldsAt(pc[n][x])
    BY <2>1 DEF Replayed, GivenUp, HoldsAt
  <2>. QED BY <2>1, <2>2, LockStep
<1>4. CASE ToiStart(n, x)
  <2>1. /\ Source[x] = n /\ pc[n][x] = "idle" /\ TOI(x) /\ UNCHANGED <<order, last_seen>>
        /\ Goes(n, x, "pre", "EXECUTING") /\ conflict' = [conflict EXCEPT ![x] = conflict[x]]
    BY <1>1, <1>4 DEF ToiStart, Startable, Only
  <2>2. ~ Replayed("pre") /\ ~ GivenUp(pc[n][x], state[n][x])
    BY <2>1 DEF Replayed, GivenUp
  <2>. QED BY <2>1, <2>2, LockStep
<1>5. CASE ExecAborted(n, x)
  <2>1. /\ Source[x] = n /\ pc[n][x] = "exec" /\ UNCHANGED <<order, last_seen>>
        /\ Goes(n, x, "done", "ROLLED_BACK") /\ conflict' = [conflict EXCEPT ![x] = "NO_CONFLICT"]
    BY <1>5 DEF ExecAborted
  <2>2. ~ Replayed("done") /\ ~ HoldsAt("done") /\ GivenUp("done", "ROLLED_BACK")
    BY DEF Replayed, GivenUp, HoldsAt
  <2>. QED BY <2>1, <2>2, LockStep
<1>. QED BY <1>2, <1>3, <1>4, <1>5

\* The end of a transaction: its locks are gone.
LEMMA LockEndSteps ==
    ASSUME LockInv, ThreadInv, NEW n \in Nodes, NEW x \in Trxs,
           Rollback(n, x) \/ ToiExecute(n, x) \/ PostCommit(n, x) \/ ReplayApply(n, x)
    PROVE  LockInv'
<1>. USE DEF At
<1>1. conflict = [conflict EXCEPT ![x] = conflict[x]]
  BY DEF ThreadInv, TypeOK
<1>2. /\ ~ Replayed("done") /\ ~ HoldsAt("done") /\ GivenUp("done", "ROLLED_BACK")
      /\ ~ Replayed("committed") /\ ~ HoldsAt("committed")
  BY DEF Replayed, GivenUp, HoldsAt
<1>3. CASE Rollback(n, x)
  <2>1. /\ pc[n][x] \in {"fail", "rfail"} /\ UNCHANGED <<order, last_seen>>
        /\ Goes(n, x, "done", "ROLLED_BACK") /\ conflict' = [conflict EXCEPT ![x] = "NO_CONFLICT"]
    BY <1>3 DEF Rollback
  <2>2. Source[x] = n
    BY <2>1, LocalThread DEF ApplierPc
  <2>. QED BY <1>2, <2>1, <2>2, LockStep
<1>4. CASE ToiExecute(n, x) \/ ReplayApply(n, x)
  <2>1. /\ pc[n][x] \in {"toi", "replaying"} /\ UNCHANGED <<order, last_seen>>
        /\ Goes(n, x, "committed", "APPLYING") \/ Goes(n, x, "committed", "REPLAYING")
        /\ conflict' = [conflict EXCEPT ![x] = conflict[x]]
    BY <1>1, <1>4 DEF ToiExecute, ReplayApply, Only
  <2>2. Source[x] = n /\ ~ GivenUp(pc[n][x], state[n][x])
    BY <2>1, LocalThread DEF ApplierPc, GivenUp
  <2>3. CASE Goes(n, x, "committed", "APPLYING")
    BY <1>2, <2>1, <2>2, <2>3, LockStep
  <2>4. CASE Goes(n, x, "committed", "REPLAYING")
    BY <1>2, <2>1, <2>2, <2>4, LockStep
  <2>. QED BY <2>1, <2>3, <2>4
<1>5. CASE PostCommit(n, x)
  <2>1. /\ Source[x] = n /\ pc[n][x] = "committed" /\ UNCHANGED <<order, last_seen>>
        /\ Goes(n, x, "done", "COMMITTED") /\ conflict' = [conflict EXCEPT ![x] = "NO_CONFLICT"]
    BY <1>5 DEF PostCommit
  <2>2. ~ GivenUp(pc[n][x], state[n][x])
    BY <2>1 DEF GivenUp
  <2>. QED BY <1>2, <2>1, <2>2, LockStep
<1>. QED BY <1>3, <1>4, <1>5

\* A replay begins when the locks are given back, and takes none before its turn.
LEMMA LockReplaySteps ==
    ASSUME LockInv, ThreadInv, NEW n \in Nodes, NEW x \in Trxs,
           \/ ReplayStart(n, x) \/ ReplayCert(n, x) \/ ReplayEnterApply(n, x)
           \/ ReplayEnterCommit(n, x)
    PROVE  LockInv'
<1>. USE DEF At
<1>1. conflict = [conflict EXCEPT ![x] = conflict[x]]
  BY DEF ThreadInv, TypeOK
<1>2. /\ pc[n][x] \in {"bf", "rlocal", "rapply", "rcommit"} /\ UNCHANGED <<order, last_seen>>
  BY DEF ReplayStart, ReplayCert, ReplayEnterApply, ReplayEnterCommit, Certify, Only
<1>3. Source[x] = n /\ ~ GivenUp(pc[n][x], state[n][x])
  BY <1>2, LocalThread DEF ApplierPc, GivenUp
<1>4. conflict' = [conflict EXCEPT ![x] = "REPLAYING"]
  <2>1. CASE ReplayStart(n, x)
    BY <2>1 DEF ReplayStart
  <2>2. CASE ~ ReplayStart(n, x)
    <3>1. UNCHANGED conflict /\ pc[n][x] \in {"rlocal", "rapply", "rcommit"}
      BY <2>2 DEF ReplayCert, ReplayEnterApply, ReplayEnterCommit, Only
    <3>2. conflict[x] = "REPLAYING"
      BY <1>3, <3>1 DEF LockInv, LocksOK, Replayed
    <3>. QED BY <1>1, <3>1, <3>2
  <2>. QED BY <2>1, <2>2
<1>5. /\ HoldsAt(pc[n][x]) \/ Replayed(pc[n][x])
      /\ \A p \in {"rlocal", "rapply", "rcommit", "replaying", "rfail"} : ~ HoldsAt(p)
  BY <1>2 DEF HoldsAt, Replayed
<1>6. \/ Goes(n, x, "rlocal", "CERTIFYING") \/ Goes(n, x, "rapply", "MUST_REPLAY_AM")
      \/ Goes(n, x, "rcommit", "MUST_REPLAY_CM") \/ Goes(n, x, "replaying", "REPLAYING")
      \/ Goes(n, x, "rfail", "ABORTING")
  <2>1. CASE ReplayStart(n, x)
    <3>1. state[n][x] \in {"MUST_CERT_AND_REPLAY", "MUST_REPLAY_AM", "MUST_REPLAY_CM", "MUST_REPLAY"}
      <4>1. pc[n][x] = "bf" /\ ThreadFine(n, x, pc[n][x], state[n][x], conflict[x])
        BY <2>1 DEF ReplayStart, ThreadInv, ThreadOK
      <4>. QED BY <1>3, <4>1 DEF ThreadFine, StatesAt
    <3>. QED BY <2>1, <3>1 DEF ReplayStart, Is
  <2>2. CASE ReplayCert(n, x)
    BY <2>2 DEF ReplayCert, Certify
  <2>3. CASE ReplayEnterApply(n, x) \/ ReplayEnterCommit(n, x)
    BY <2>3 DEF ReplayEnterApply, ReplayEnterCommit, Only
  <2>. QED BY <2>1, <2>2, <2>3
<1>7. PICK p \in {"rlocal", "rapply", "rcommit", "replaying", "rfail"},
           s \in {"CERTIFYING", "MUST_REPLAY_AM", "MUST_REPLAY_CM", "REPLAYING", "ABORTING"} :
        Goes(n, x, p, s) /\ (p = "rfail" => s = "ABORTING")
  BY <1>6
<1>. QED BY <1>2, <1>3, <1>4, <1>5, <1>7, LockStep

\* Who is aborted keeps its locks until it is rolled back.
LEMMA LockAbortSteps ==
    ASSUME LockInv, ThreadInv, NEW n \in Nodes, NEW bf \in Trxs, NEW x \in Trxs, Kill(n, bf, x)
    PROVE  LockInv'
<1>1. /\ Holds(n, x) /\ conflict' = [conflict EXCEPT ![x] = "MUST_ABORT"]
      /\ UNCHANGED <<order, pc, last_seen>>
  BY DEF Kill
<1>2. Source[x] = n /\ HoldsAt(pc[n][x])
  BY <1>1 DEF Holds, HoldsAt
<1>3. PICK s : Goes(n, x, pc[n][x], s)
  <2>1. pc = [pc EXCEPT ![n][x] = pc[n][x]] /\ state = [state EXCEPT ![n][x] = state[n][x]]
    BY DEF ThreadInv, TypeOK
  <2>2. \E s : state' = [state EXCEPT ![n][x] = s]
    <3>1. CASE QueryCommitting(n, x)
      BY <3>1 DEF Kill
    <3>2. CASE ~ QueryCommitting(n, x)
      BY <2>1, <3>2 DEF Kill
    <3>. QED BY <3>1, <3>2
  <2>. QED BY <1>1, <2>1, <2>2 DEF Goes
<1>4. ~ Replayed(pc[n][x])
  BY <1>2 DEF HoldsAt, Replayed
<1>5. GivenUp(pc[n][x], state[n][x]) => GivenUp(pc[n][x], s)
  BY <1>2 DEF HoldsAt, GivenUp
<1>. QED BY <1>1, <1>2, <1>3, <1>4, <1>5, LockStep

\* The appliers.
LEMMA LockApplierSteps ==
    ASSUME LockInv, ThreadInv, NEW n \in Nodes, NEW x \in Trxs,
           ApplierStep(n, x) \/ RemoteCert(n, x) \/ RemoteDone(n, x)
    PROVE  LockInv'
<1>. USE DEF At
<1>1. Source[x] # n /\ UNCHANGED <<order, last_seen, conflict>>
  <2>1. CASE RemoteApply(n, x)
    <3>1. pc[n][x] \notin ClientPc /\ UNCHANGED <<order, last_seen, conflict>>
      BY <2>1 DEF RemoteApply, ClientPc, Only
    <3>. QED BY <3>1, LocalThread
  <2>2. CASE ~ RemoteApply(n, x)
    BY <2>2 DEF ApplierStep, RemoteEnterApply, RemoteCommit, RemoteCert, RemoteDone, Only, Certify
  <2>. QED BY <2>1, <2>2
<1>2. \/ Goes(n, x, "applying", "APPLYING") \/ Goes(n, x, "commit", "APPLYING")
      \/ Goes(n, x, "committed", "COMMITTING") \/ Goes(n, x, "apply", "CERTIFYING")
      \/ Goes(n, x, "done", "ROLLED_BACK") \/ Goes(n, x, "done", "COMMITTED")
  <2>1. CASE ApplierStep(n, x)
    BY <2>1 DEF ApplierStep, RemoteEnterApply, RemoteApply, RemoteCommit, Only
  <2>2. CASE RemoteCert(n, x)
    BY <2>2 DEF RemoteCert, Certify
  <2>3. CASE RemoteDone(n, x)
    BY <2>3 DEF RemoteDone
  <2>. QED BY <2>1, <2>2, <2>3
<1>3. \E p : \E s : Goes(n, x, p, s)
  BY <1>2
<1>4. PICK p : \E s : Goes(n, x, p, s)
  BY <1>3
<1>5. PICK s : Goes(n, x, p, s)
  BY <1>4
<1>. QED BY <1>1, <1>5, ElsewhereStep

\* Who has its place in the order and neither holds its locks nor is replayed has
\* had its turn in the commit monitor, or has given up.
LEMMA OrderedLater ==
    ASSUME OrderInv, ThreadInv, NEW n \in Nodes, NEW r \in Trxs, Source[r] = n, Ordered(r),
           ~ HoldsAt(pc[n][r]), ~ Replayed(pc[n][r]), ~ GivenUp(pc[n][r], state[n][r])
    PROVE  /\ LastLeft(commit_left[n]) >= GlobalSeqno(r) - 1
           /\ LastLeft(commit_left[n]) \in Nat /\ GlobalSeqno(r) - 1 \in Nat
<1>1. pc[n][r] \in ClientPc
  BY DEF ThreadInv, ThreadOK, ThreadFine
<1>2. StandsAt(n, r, pc[n][r], state[n][r])
  BY StandsNow
<1>3. pc[n][r] # "idle"
  BY <1>2 DEF StandsAt, Standing
<1>4. pc[n][r] \in {"toi", "committed", "done"}
  BY <1>1, <1>3 DEF ClientPc, HoldsAt, Replayed
<1>5. HadTurn(pc[n][r], state[n][r])
  BY <1>4 DEF HadTurn, Ended, GivenUp
<1>6. 1..(GlobalSeqno(r) - 1) \subseteq commit_left[n]
  BY <1>2, <1>5 DEF StandsAt, Standing
<1>7. GlobalSeqno(r) - 1 \in Nat
  <2>1. IsOrder(order) /\ Has(order, r) /\ GlobalSeqno(r) = Number(order, Place(order, r))
    BY TheWriteSet
  <2>. QED BY <2>1, PlaceNumber
<1>8. PICK k \in Nat : commit_left[n] \subseteq 1..k
  BY IndexBounded DEF OrderInv, NodeOK, LeftOK
<1>9. PICK m, l, g : m = commit_left[n] /\ l = LastLeft(m) /\ g = GlobalSeqno(r) - 1
  OBVIOUS
<1>10. l \in Nat /\ \A j \in Nat : 1..j \subseteq m => j <= l
  BY <1>8, <1>9, LastLeftIs
<1>11. g <= l
  BY <1>6, <1>7, <1>9, <1>10
<1>. QED BY <1>7, <1>9, <1>10, <1>11

\* replicate() assigns last_seen_seqno while the locks are held.
LEMMA LockReplicateSteps ==
    ASSUME LockInv, OrderInv, ThreadInv, NEW n \in Nodes, NEW x \in Trxs, Replicate(n, x)
    PROVE  LockInv'
<1>1. /\ Source[x] = n /\ pc[n][x] = "pre" /\ UNCHANGED <<order, conflict>>
      /\ \/ Goes(n, x, "fail", "ABORTING") /\ UNCHANGED last_seen
         \/ /\ Goes(n, x, "gcs", "REPLICATING")
            /\ last_seen' = [last_seen EXCEPT ![x] = LastLeft(commit_left[n])]
  BY DEF Replicate, At
<1>2. conflict' = [conflict EXCEPT ![x] = conflict[x]]
  BY <1>1 DEF ThreadInv, TypeOK
<1>3. /\ HoldsAt(pc[n][x]) /\ ~ GivenUp(pc[n][x], state[n][x])
      /\ ~ Replayed("fail") /\ ~ Replayed("gcs") /\ pc[n][x] # "exec"
  BY <1>1 DEF HoldsAt, GivenUp, Replayed
<1>4. CASE Goes(n, x, "fail", "ABORTING") /\ UNCHANGED last_seen
  BY <1>1, <1>2, <1>3, <1>4, LockStep
<1>5. CASE /\ Goes(n, x, "gcs", "REPLICATING")
           /\ last_seen' = [last_seen EXCEPT ![x] = LastLeft(commit_left[n])]
  <2>1. OwnGoes(x, "gcs", "REPLICATING", conflict[x])
    BY <1>1, <1>2, <1>5, OwnStep
  <2>2. LocksOK'
    BY <1>1, <1>3, <2>1, LocksStep DEF LockInv
  <2>3. \A y : (Ordered(y)' <=> Ordered(y)) /\ GlobalSeqno(y)' = GlobalSeqno(y)
    BY <1>1 DEF Ordered, GlobalSeqno, LocalSeqno, IsTrx
  <2>4. ~ Ordered(x)
    <3>1. StandsAt(n, x, pc[n][x], state[n][x])
      BY StandsNow
    <3>. QED BY <1>1, <3>1 DEF StandsAt, Standing
  <2>5. last_seen \in [Trxs -> Nat \cup {-1}]
    BY DEF OrderInv, ValuesOK
  <2>6. ASSUME NEW r \in Trxs, NEW y \in Trxs, r # y, Source[r] = Source[y], ~ TOI(r), ~ TOI(y),
               Dependent(WriteSet[r], WriteSet[y]), Ordered(r),
               IF Ordered(y) THEN GlobalSeqno(r) < GlobalSeqno(y) ELSE pc'[Source[y]][y] = "gcs"
        PROVE  GivenUp(pc'[Source[r]][r], state'[Source[r]][r]) \/ last_seen'[y] >= GlobalSeqno(r) - 1
    <3>1. r # x /\ pc'[Source[r]][r] = pc[Source[r]][r] /\ state'[Source[r]][r] = state[Source[r]][r]
      BY <2>1, <2>4, <2>6 DEF OwnGoes
    <3>2. CASE y = x
      <4>1. LocksConflict(r, x) /\ Holds(n, x) /\ Source[r] = n
        BY <1>1, <1>3, <2>6, <3>2 DEF LocksConflict, Holds, HoldsAt
      <4>2. ~ Holds(n, r) /\ (Replayed(pc[n][r]) => pc[n][x] = "exec")
        BY <1>1, <2>6, <3>2, <4>1 DEF LockInv, LocksOK, At
      <4>3. ~ HoldsAt(pc[n][r]) /\ ~ Replayed(pc[n][r])
        BY <1>1, <2>6, <4>1, <4>2 DEF Holds, HoldsAt
      <4>4. last_seen'[x] = LastLeft(commit_left[n])
        BY <1>5, <2>5
      <4>. QED BY <2>6, <3>1, <3>2, <4>1, <4>3, <4>4, OrderedLater
    <3>3. CASE y # x
      <4>1. last_seen'[y] = last_seen[y] /\ pc'[Source[y]][y] = pc[Source[y]][y]
        BY <1>5, <2>1, <2>5, <3>3 DEF OwnGoes
      <4>2. Follows(r, y)
        BY <2>6, <4>1 DEF Follows, At
      <4>. QED BY <3>1, <4>1, <4>2, SeesTurnsIs DEF LockInv
    <3>. QED BY <3>2, <3>3
  <2>7. SeesTurns'
    BY <2>3, <2>6 DEF SeesTurns, At, TOI
  <2>. QED BY <2>2, <2>7 DEF LockInv
<1>. QED BY <1>1, <1>4, <1>5

\* The group appends to the order: a write set that gets its place has seen what
\* it had to see when it was on its way, and two whose locks conflict are not on
\* their way together.
LEMMA LockReceive ==
    ASSUME LockInv, OrderInv, NEW e \in [cut : 0..MaxCut, trx : Trxs \cup {"none"}],
           e.cut = 0 => /\ e.trx \in Trxs /\ ~ Ordered(e.trx)
                        /\ pc[Source[e.trx]][e.trx] = "gcs",
           order' = Append(order, e), UNCHANGED <<pc, state, conflict, last_seen>>
    PROVE  LockInv'
<1>1. IsOrder(order) /\ (e.cut = 0 => ~ Has(order, e.trx))
  BY SameOrder DEF OrderInv
<1>2. Longer(order', order, e)
  BY DEF Longer
<1>3. IsOrder(order')
  BY <1>1, <1>2, OrderGrows
<1>4. PICK o, q : o = order /\ q = order'
  OBVIOUS
<1>5. /\ Len(q) = Len(o) + 1 /\ Len(o) \in Nat
      /\ \A i \in 0..Len(o) : Number(q, i) = Number(o, i)
      /\ Number(q, Len(q)) = Number(o, Len(o)) + (IF e.cut = 0 THEN 1 ELSE 0)
      /\ \A x : Has(o, x) => Has(q, x) /\ Place(q, x) = Place(o, x)
      /\ \A x : Has(q, x) /\ ~ Has(o, x) => e.cut = 0 /\ e.trx = x /\ Place(q, x) = Len(q)
  BY <1>1, <1>2, <1>3, <1>4, AppendOrder
<1>6. ASSUME NEW x, Ordered(x)
      PROVE  /\ Ordered(x)' /\ GlobalSeqno(x)' = GlobalSeqno(x) /\ GlobalSeqno(x) \in Nat
             /\ GlobalSeqno(x) <= Number(o, Len(o))
  <2>1. Has(o, x)
    BY <1>4, <1>6, SameOrder
  <2>2. Place(o, x) \in 0..Len(o)
    BY <1>1, <1>4, <2>1, PlaceIs
  <2>3. Number(o, Place(o, x)) \in 1..Number(o, Len(o))
    BY <1>1, <1>4, <2>1, PlaceNumber
  <2>4. Number(o, Len(o)) \in Nat
    BY <1>1, <1>4, <1>5, NumberIs
  <2>5. Has(q, x) /\ Number(q, Place(q, x)) = Number(o, Place(o, x))
    BY <1>5, <2>1, <2>2
  <2>6. Ordered(x)' /\ GlobalSeqno(x)' = Number(q, Place(q, x)) /\ GlobalSeqno(x) = Number(o, Place(o, x))
    BY <1>4, <2>5, SameOrder, SameOrderNext
  <2>. QED BY <2>3, <2>4, <2>5, <2>6
<1>7. ASSUME NEW x, Ordered(x)', ~ Ordered(x)
      PROVE  e.cut = 0 /\ e.trx = x /\ GlobalSeqno(x)' = Number(o, Len(o)) + 1
  <2>1. Has(q, x) /\ ~ Has(o, x)
    BY <1>4, <1>7, SameOrder, SameOrderNext
  <2>2. GlobalSeqno(x)' = Number(q, Place(q, x))
    BY <1>4, SameOrderNext
  <2>. QED BY <1>5, <2>1, <2>2
<1>8. LocksOK'
  BY DEF LockInv, LocksOK, At, Is, TOI, Holds, LocksConflict
<1>9. ASSUME NEW r \in Trxs, NEW x \in Trxs, Follows(r, x)'
      PROVE  \/ GivenUp(pc[Source[r]][r], state[Source[r]][r])
             \/ last_seen[x] >= GlobalSeqno(r)' - 1
  <2>1. /\ r # x /\ Source[r] = Source[x] /\ ~ TOI(r) /\ ~ TOI(x)
        /\ Dependent(WriteSet[r], WriteSet[x]) /\ Ordered(r)'
        /\ IF Ordered(x)' THEN GlobalSeqno(r)' < GlobalSeqno(x)' ELSE pc[Source[x]][x] = "gcs"
    BY <1>9 DEF Follows, At, TOI
  <2>2. CASE Ordered(r)
    <3>1. Follows(r, x)
      <4>1. CASE Ordered(x)
        BY <1>6, <2>1, <2>2, <4>1 DEF Follows
      <4>2. CASE ~ Ordered(x)
        BY <1>7, <2>1, <2>2, <4>2 DEF Follows, At
      <4>. QED BY <4>1, <4>2
    <3>. QED BY <1>6, <2>2, <3>1, SeesTurnsIs DEF LockInv
  <2>3. CASE ~ Ordered(r)
    <3>1. e.cut = 0 /\ e.trx = r /\ GlobalSeqno(r)' = Number(o, Len(o)) + 1
      BY <1>7, <2>1, <2>3
    <3>2. Number(o, Len(o)) \in Nat
      BY <1>1, <1>4, <1>5, NumberIs
    <3>3. ~ Ordered(x)
      <4>1. SUFFICES ASSUME Ordered(x) PROVE FALSE
        OBVIOUS
      <4>2. GlobalSeqno(x)' \in Nat /\ GlobalSeqno(x)' <= Number(o, Len(o)) /\ Ordered(x)'
        BY <1>6, <4>1
      <4>. QED BY <2>1, <3>1, <3>2, <4>2
    <3>4. ~ Ordered(x)'
      BY <1>7, <2>1, <3>1, <3>3
    <3>5. pc[Source[x]][x] = "gcs" /\ pc[Source[r]][r] = "gcs"
      BY <2>1, <3>1, <3>4
    <3>6. Holds(Source[x], x) /\ Holds(Source[r], r) /\ LocksConflict(r, x)
      BY <2>1, <3>5 DEF Holds, LocksConflict
    <3>. QED BY <2>1, <3>6 DEF LockInv, LocksOK
  <2>. QED BY <2>2, <2>3
<1>10. SeesTurns'
  BY <1>9 DEF SeesTurns, Follows, At, TOI
<1>. QED BY <1>8, <1>10 DEF LockInv

\* The group's steps.
LEMMA LockGroupSteps ==
    ASSUME LockInv, OrderInv, (\E x \in Trxs : Send(x)) \/ (\E n \in Nodes : SendReport(n))
    PROVE  LockInv'
<1>1. ASSUME NEW x \in Trxs, Send(x) PROVE LockInv'
  <2>1. PICK e : e = [cut |-> 0, trx |-> x]
    OBVIOUS
  <2>2. e \in [cut : 0..MaxCut, trx : Trxs \cup {"none"}] /\ e.cut = 0 /\ e.trx = x
    BY <2>1, ReplicatorAssumption
  <2>3. /\ pc[Source[x]][x] = "gcs" /\ ~ Ordered(x) /\ order' = Append(order, e)
        /\ UNCHANGED <<pc, state, conflict, last_seen>>
    BY <1>1, <2>1 DEF Send, At, threads
  <2>. QED BY <2>2, <2>3, LockReceive
<1>2. ASSUME NEW n \in Nodes, SendReport(n) PROVE LockInv'
  <2>1. UNCHANGED <<pc, state, conflict, last_seen>>
    BY <1>2, ReportSends
  <2>2. CASE UNCHANGED order
    BY <2>1, <2>2, LockIdle
  <2>3. CASE ~ UNCHANGED order
    <3>1. PICK e \in [cut : 0..MaxCut, trx : Trxs \cup {"none"}] :
            e.cut # 0 /\ order' = Append(order, e)
      BY <1>2, <2>3, ReportSends
    <3>. QED BY <2>1, <3>1, LockReceive
  <2>. QED BY <2>2, <2>3
<1>. QED BY <1>1, <1>2

\* LockInv holds at the start.
LEMMA InitLockInv == Init => LockInv
<1>1. SUFFICES ASSUME Init PROVE LockInv
  OBVIOUS
<1>2. \A x \in Trxs : pc[Source[x]][x] = "idle" /\ ~ Ordered(x)
  BY <1>1, ReplicatorAssumption DEF Init, Ordered
<1>3. \A x \in Trxs : ~ Replayed(pc[Source[x]][x]) /\ ~ Holds(Source[x], x)
  BY <1>2 DEF Replayed, Holds
<1>. QED BY <1>2, <1>3 DEF LockInv, LocksOK, SeesTurns

\* LockInv is kept by every step, on top of the other two.
LEMMA NextLockInv == LockInv /\ OrderInv /\ ThreadInv /\ [Next]_vars => LockInv'
<1>1. SUFFICES ASSUME LockInv, OrderInv, ThreadInv, [Next]_vars PROVE LockInv'
  OBVIOUS
<1>2. CASE UNCHANGED vars
  BY <1>1, <1>2, LockIdle DEF vars
<1>3. CASE Next
  <2>1. ASSUME NEW n \in Nodes, NEW x \in Trxs, Begin(n, x) \/ StartCommit(n, x) \/ ToiStart(n, x)
        PROVE  LockInv'
    BY <1>1, <2>1, LockStartSteps
  <2>2. ASSUME NEW x \in Trxs, Send(x) PROVE LockInv'
    BY <1>1, <2>2, LockGroupSteps
  <2>3. ASSUME NEW n \in Nodes, NEW x \in Trxs, ClientStep(n, x) PROVE LockInv'
    <3>1. CASE ExecAborted(n, x)
      BY <1>1, <3>1, LockStartSteps
    <3>2. CASE Replicate(n, x)
      BY <1>1, <3>2, LockReplicateSteps
    <3>3. CASE \/ Interrupted(n, x) \/ EnterApply(n, x) \/ ApplyInterrupted(n, x) \/ EnterCommit(n, x)
               \/ CommitInterrupted(n, x) \/ ServerCommit(n, x) \/ EngineCommit(n, x)
      BY <1>1, <3>3, LockCommitSteps
    <3>4. CASE ToiExecute(n, x) \/ Rollback(n, x) \/ ReplayApply(n, x)
      BY <1>1, <3>4, LockEndSteps
    <3>5. CASE ReplayStart(n, x) \/ ReplayEnterApply(n, x) \/ ReplayEnterCommit(n, x)
      BY <1>1, <3>5, LockReplaySteps
    <3>. QED BY <2>3, <3>1, <3>2, <3>3, <3>4, <3>5 DEF ClientStep
  <2>4. ASSUME NEW n \in Nodes, NEW x \in Trxs, ApplierStep(n, x) PROVE LockInv'
    BY <1>1, <2>4, LockApplierSteps
  <2>5. ASSUME NEW n \in Nodes, NEW x \in Trxs, NEW y \in Trxs, Kill(n, x, y) PROVE LockInv'
    BY <1>1, <2>5, LockAbortSteps
  <2>6. ASSUME NEW n \in Nodes, NEW x \in Trxs, CertificationStep(n, x) PROVE LockInv'
    <3>1. CASE Replicated(n, x) \/ CertLocal(n, x) \/ CertInterrupted(n, x)
      BY <1>1, <3>1, LockCommitSteps
    <3>2. CASE ReplayCert(n, x)
      BY <1>1, <3>2, LockReplaySteps
    <3>3. CASE RemoteCert(n, x) \/ RemoteDone(n, x)
      BY <1>1, <3>3, LockApplierSteps
    <3>4. CASE PostCommit(n, x)
      BY <1>1, <3>4, LockEndSteps
    <3>. QED BY <2>6, <3>1, <3>2, <3>3, <3>4 DEF CertificationStep
  <2>7. ASSUME NEW n \in Nodes, ProcessCut(n) PROVE LockInv'
    BY <1>1, <2>7, LockIdle DEF ProcessCut, threads
  <2>8. ASSUME NEW n \in Nodes, SendReport(n) PROVE LockInv'
    BY <1>1, <2>8, LockGroupSteps
  <2>. QED BY <1>3, <2>1, <2>2, <2>3, <2>4, <2>5, <2>6, <2>7, <2>8 DEF Next, Progress
<1>. QED BY <1>1, <1>2, <1>3

\* Locks that conflict are never held by two transactions of a node, one that takes
\* them during a replay waits with its COMMIT, and last_seen_seqno shows that a
\* transaction was replicated after the turn of those it conflicts with.
THEOREM LockInvariantHolds == Spec => []LockInv
<1>. QED BY InitLockInv, NextLockInv, OrderInvariantHolds, ThreadInvariantHolds, PTL DEF Spec

\* Certification may take the order of a node's own transactions for granted: as
\* long as the nodes come to the same end for a write set, a transaction was
\* replicated when all that it conflicts with, of its own node and ordered before
\* it, had had its turn to commit, with replays and BF aborts in between.
THEOREM OwnOrderKeptHolds == Spec => [](SameOutcome => OwnOrderKept)
<1>1. LockInv /\ OrderInv /\ ThreadInv /\ SameOutcome => OwnOrderKept
  <2>1. SUFFICES ASSUME LockInv, OrderInv, ThreadInv, SameOutcome, NEW x \in Trxs, Ordered(x),
                        NEW t \in PassedBefore(x), t.source_id = Trx(x).source_id,
                        ~ t.isolation, ~ Trx(x).isolation, Dependent(t, Trx(x))
                 PROVE  Trx(x).last_seen_seqno >= t.global_seqno - 1
    BY DEF OwnOrderKept, OwnOrder
  <2>2. PICK r \in Trxs : t = Trx(r) /\ Before(r, x) /\ \E n \in Nodes : Passed(n, r)
    BY <2>1 DEF PassedBefore
  <2>3. PICK n \in Nodes : Passed(n, r)
    BY <2>2
  <2>4. \A y \in Trxs : /\ Trx(y).source_id = Source[y] /\ Trx(y).isolation = WriteSet[y].isolation
                        /\ Trx(y).last_seen_seqno = last_seen[y] /\ Trx(y).keys = WriteSet[y].keys
                        /\ Trx(y).global_seqno = GlobalSeqno(y)
    BY DEF Trx
  <2>5. Dependent(WriteSet[r], WriteSet[x])
    BY <2>1, <2>2, <2>4 DEF Dependent, Writes
  <2>6. r # x
    <3>1. Ordered(x) /\ GlobalSeqno(r) < GlobalSeqno(x)
      BY <2>2 DEF Before
    <3>2. GlobalSeqno(x) \in Nat
      BY <2>1, <3>1, TheWriteSet, PlaceNumber
    <3>. QED BY <3>1, <3>2
  <2>7. last_seen[x] >= GlobalSeqno(r) - 1
    <3>1. Follows(r, x)
      BY <2>1, <2>2, <2>4, <2>5, <2>6 DEF Follows, Before, TOI
    <3>2. \/ GivenUp(pc[Source[r]][r], state[Source[r]][r])
          \/ last_seen[x] >= GlobalSeqno(r) - 1
      BY <2>1, <3>1, SeesTurnsIs DEF LockInv
    <3>3. ASSUME GivenUp(pc[Source[r]][r], state[Source[r]][r]) PROVE FALSE
      <4>1. Source[r] \in Nodes
        BY ReplicatorAssumption
      <4>2. state[Source[r]][r] \in {"ABORTING", "ROLLED_BACK"}
        <5>1. CASE pc[Source[r]][r] = "rfail"
          BY <2>1, <5>1 DEF LockInv, LocksOK, Replayed, At, Is
        <5>2. CASE pc[Source[r]][r] = "fail"
          BY <2>1, <4>1, <5>2, LocalThread
        <5>. QED BY <3>3, <5>1, <5>2 DEF GivenUp
      <4>3. Failed(Source[r], r)
        BY <2>2, <4>2 DEF Failed, Before
      <4>. QED BY <2>1, <2>3, <4>1, <4>3 DEF SameOutcome
    <3>. QED BY <3>2, <3>3
  <2>. QED BY <2>2, <2>4, <2>7
<1>2. LockInv /\ OrderInv /\ ThreadInv => (SameOutcome => OwnOrderKept)
  BY <1>1
<1>. QED BY <1>2, LockInvariantHolds, OrderInvariantHolds, ThreadInvariantHolds, PTL

----------------------------------------------------------------------------
(* The verdicts of a node.  o is the order, L last_seen, and P, S, D, c and *)
(* ll are pc, state, depends, the index and the local monitor of the node.  *)

Seqno(o, x) == Number(o, Place(o, x))

TrxAt(o, L, x) ==
    [global_seqno |-> Seqno(o, x), last_seen_seqno |-> L[x], source_id |-> Source[x],
     keys |-> WriteSet[x].keys, isolation |-> WriteSet[x].isolation,
     pa_unsafe |-> WriteSet[x].pa_unsafe]

CutAt(o, x) == Max({o[i].cut : i \in 1..Place(o, x)})

Precedes(o, r, x) == Has(o, r) /\ Has(o, x) /\ Seqno(o, r) < Seqno(o, x)

Passing(o, L, D) == {TrxAt(o, L, y) : y \in {z \in Trxs : D[z] >= 0}}

Misses(o, L, D, r, x) ==
    /\ D[r] >= 0 /\ Precedes(o, r, x)
    /\ Writes(WriteSet[r], WriteSet[x]) /\ Unseen(TrxAt(o, L, r), TrxAt(o, L, x))

Refutes(o, L, D, x) ==
    \/ L[x] < 0 \/ Seqno(o, x) - L[x] > MaxLength
    \/ ~ TOI(x) /\ \E r \in Trxs : Misses(o, L, D, r, x)

Hides(o, L, D, x) ==
    \E h \in Trxs : /\ D[h] >= 0 /\ Precedes(o, h, x) /\ Source[h] = Source[x] /\ ~ TOI(h)
                   /\ Dependent(WriteSet[h], WriteSet[x]) /\ L[x] < Seqno(o, h) - 1

Justifies(o, L, D, x) ==
    /\ L[x] >= 0 /\ Seqno(o, x) - L[x] <= MaxLength
    /\ ShortKeysFirst /\ ~ TOI(x) =>
          \A r \in Trxs : Misses(o, L, D, r, x) => Seqno(o, r) < CutAt(o, x) \/ Hides(o, L, D, x)

\* What has the seqno g is gone from trx_map_
Forgets(o, ll, g) ==
    \E i \in ll : 1..i \subseteq ll /\ (o[i].cut > g \/ Number(o, i) - g > MaxLength)

SaysOf(n, x, o, L, P, S, D, c, ll) ==
    /\ D[x] >= 0 =>
          Justifies(o, L, D, x) /\ (Seqno(o, x) \in DOMAIN c.trx_map \/ Forgets(o, ll, Seqno(o, x)))
    /\ S[x] \in {"ABORTING", "ROLLED_BACK"} => GivenUp(P[x], S[x])
    /\ GivenUp(P[x], S[x]) => IF Has(o, x) THEN Refutes(o, L, D, x) ELSE Source[x] = n

Says(n, o, L, P, S, D, c, ll) ==
    /\ RefersTo(c, Passing(o, L, D)) /\ c.initial_position = 0
    /\ \A x \in Trxs : SaysOf(n, x, o, L, P, S, D, c, ll)

\* They are what VerdictInv says of a node.
LEMMA SameVerdict ==
    VerdictInv <=> \A n \in Nodes : Says(n, order, last_seen, pc[n], state[n], depends[n], cert[n],
                                         local_left[n])
<1>1. /\ \A x : /\ Ordered(x) <=> Has(order, x)
                /\ LocalSeqno(x) = Place(order, x)
                /\ GlobalSeqno(x) = Seqno(order, x)
      /\ \A i : Count(i) = Number(order, i)
  BY SameOrder DEF Seqno
<1>2. \A x : Trx(x) = TrxAt(order, last_seen, x)
  BY <1>1 DEF Trx, TrxAt
<1>3. \A x : CutBefore(x) = CutAt(order, x)
  BY <1>1 DEF CutBefore, CutAt
<1>4. \A r, x : Before(r, x) <=> Precedes(order, r, x)
  BY <1>1 DEF Before, Precedes
<1>5. ASSUME NEW n
      PROVE  /\ PassedOn(n) = Passing(order, last_seen, depends[n])
             /\ \A r, x : Missed(n, r, x) <=> Misses(order, last_seen, depends[n], r, x)
  BY <1>2, <1>4 DEF PassedOn, Passing, Passed, Missed, Misses
<1>6. ASSUME NEW n, NEW x
      PROVE  /\ Refuted(n, x) <=> Refutes(order, last_seen, depends[n], x)
             /\ Hidden(n, x) <=> Hides(order, last_seen, depends[n], x)
             /\ Purged(n, x) <=> Forgets(order, local_left[n], Seqno(order, x))
  <2>1. Refuted(n, x) <=> Refutes(order, last_seen, depends[n], x)
    BY <1>1, <1>5 DEF Refuted, Refutes
  <2>2. Hidden(n, x) <=> Hides(order, last_seen, depends[n], x)
    BY <1>1, <1>4 DEF Hidden, Hides, Passed
  <2>3. Purged(n, x) <=> Forgets(order, local_left[n], Seqno(order, x))
    BY <1>1 DEF Purged, Forgets
  <2>. QED BY <2>1, <2>2, <2>3
<1>7. ASSUME NEW n, NEW x
      PROVE  Justified(n, x) <=> Justifies(order, last_seen, depends[n], x)
  BY <1>1, <1>3, <1>5, <1>6 DEF Justified, Justifies
<1>8. ASSUME NEW n, NEW x
      PROVE  VerdictOK(n, x) <=> SaysOf(n, x, order, last_seen, pc[n], state[n], depends[n], cert[n],
                                        local_left[n])
  BY <1>1, <1>6, <1>7 DEF VerdictOK, SaysOf, Passed
<1>. QED BY <1>5, <1>8 DEF VerdictInv, Says

\* Also in the next state.
LEMMA SameVerdictNext ==
    VerdictInv' <=> \A n \in Nodes : Says(n, order', last_seen', pc'[n], state'[n], depends'[n],
                                          cert'[n], local_left'[n])
<1>1. /\ \A x : /\ Ordered(x)' <=> Has(order', x)
                /\ LocalSeqno(x)' = Place(order', x)
                /\ GlobalSeqno(x)' = Seqno(order', x)
      /\ \A i : Count(i)' = Number(order', i)
  BY SameOrderNext DEF Seqno
<1>2. \A x : Trx(x)' = TrxAt(order', last_seen', x)
  BY <1>1 DEF Trx, TrxAt
<1>3. \A x : CutBefore(x)' = CutAt(order', x)
  BY <1>1 DEF CutBefore, CutAt
<1>4. \A r, x : Before(r, x)' <=> Precedes(order', r, x)
  BY <1>1 DEF Before, Precedes
<1>5. ASSUME NEW n
      PROVE  /\ PassedOn(n)' = Passing(order', last_seen', depends'[n])
             /\ \A r, x : Missed(n, r, x)' <=> Misses(order', last_seen', depends'[n], r, x)
  BY <1>2, <1>4 DEF PassedOn, Passing, Passed, Missed, Misses
<1>6. ASSUME NEW n, NEW x
      PROVE  /\ Refuted(n, x)' <=> Refutes(order', last_seen', depends'[n], x)
             /\ Hidden(n, x)' <=> Hides(order', last_seen', depends'[n], x)
             /\ Purged(n, x)' <=> Forgets(order', local_left'[n], Seqno(order', x))
  <2>1. Refuted(n, x)' <=> Refutes(order', last_seen', depends'[n], x)
    BY <1>1, <1>5 DEF Refuted, Refutes, TOI
  <2>2. Hidden(n, x)' <=> Hides(order', last_seen', depends'[n], x)
    BY <1>1, <1>4 DEF Hidden, Hides, Passed, TOI
  <2>3. Purged(n, x)' <=> Forgets(order', local_left'[n], Seqno(order', x))
    BY <1>1 DEF Purged, Forgets
  <2>. QED BY <2>1, <2>2, <2>3
<1>7. ASSUME NEW n, NEW x
      PROVE  Justified(n, x)' <=> Justifies(order', last_seen', depends'[n], x)
  BY <1>1, <1>3, <1>5, <1>6 DEF Justified, Justifies, TOI, ShortKeysFirst
<1>8. ASSUME NEW n, NEW x
      PROVE  VerdictOK(n, x)' <=> SaysOf(n, x, order', last_seen', pc'[n], state'[n], depends'[n],
                                         cert'[n], local_left'[n])
  BY <1>1, <1>6, <1>7 DEF VerdictOK, SaysOf, Passed
<1>9. ASSUME NEW n
      PROVE  RefersTo(cert[n], PassedOn(n))' <=> RefersTo(cert'[n], Passing(order', last_seen', depends'[n]))
  BY <1>5 DEF RefersTo
<1>. QED BY <1>8, <1>9 DEF VerdictInv, Says

\* What is ordered in o with the positions L is so in q with K
Keeps(o, L, q, K) ==
    /\ \A x : Has(o, x) => Has(q, x) /\ Place(q, x) = Place(o, x)
    /\ \A x \in Trxs : Has(o, x) => K[x] = L[x]
    /\ \A i \in 1..Len(o) : q[i] = o[i] /\ Number(q, i) = Number(o, i)

\* An order keeps itself.
LEMMA KeepsSame ==
    ASSUME NEW o, NEW L, NEW K, \A x \in Trxs : Has(o, x) => K[x] = L[x]
    PROVE  Keeps(o, L, o, K)
BY DEF Keeps

\* Nothing changes for a write set that is ordered.
LEMMA KeepsTrx ==
    ASSUME NEW o, IsOrder(o), NEW L, NEW q, NEW K, Keeps(o, L, q, K), NEW x \in Trxs, Has(o, x)
    PROVE  /\ Seqno(q, x) = Seqno(o, x) /\ TrxAt(q, K, x) = TrxAt(o, L, x)
           /\ CutAt(q, x) = CutAt(o, x) /\ K[x] = L[x] /\ Has(q, x)
<1>1. /\ Has(q, x) /\ Place(q, x) = Place(o, x) /\ K[x] = L[x]
      /\ \A i \in 1..Len(o) : q[i] = o[i] /\ Number(q, i) = Number(o, i)
  BY DEF Keeps
<1>2. Place(o, x) \in 1..Len(o) /\ Len(o) \in Nat
  BY PlaceIs
<1>3. Seqno(q, x) = Seqno(o, x)
  BY <1>1, <1>2 DEF Seqno
<1>4. {q[i].cut : i \in 1..Place(q, x)} = {o[i].cut : i \in 1..Place(o, x)}
  <2>1. \A i \in 1..Place(o, x) : q[i] = o[i]
    BY <1>1, <1>2
  <2>. QED BY <1>1, <2>1
<1>. QED BY <1>1, <1>3, <1>4 DEF TrxAt, CutAt

\* What has passed on a node is ordered.
LEMMA PassedHas ==
    ASSUME NEW n, NEW o, NEW P, NEW S, NEW D, NEW ll, NEW al, NEW cl,
           ThreadsFine(n, o, P, S, D, ll, al, cl), NEW x \in Trxs, D[x] >= 0
    PROVE  Has(o, x) /\ 1..Place(o, x) \subseteq ll
BY StandingPassed DEF ThreadsFine, Thread

\* Two write sets that are ordered.
LEMMA KeepsBefore ==
    ASSUME NEW o, IsOrder(o), NEW L, NEW q, NEW K, Keeps(o, L, q, K), NEW r \in Trxs, Has(o, r),
           NEW x \in Trxs, Has(o, x)
    PROVE  Precedes(q, r, x) <=> Precedes(o, r, x)
BY KeepsTrx DEF Precedes

\* A step by which nothing passes: the index of the node refers to what it referred
\* to, and who gives up is refuted.
LEMMA SaysStep ==
    ASSUME NEW n, NEW o, IsOrder(o), NEW L, NEW P, NEW S, NEW D, NEW c, NEW ll, NEW al, NEW cl,
           ThreadsFine(n, o, P, S, D, ll, al, cl), ll \subseteq 1..Len(o),
           Says(n, o, L, P, S, D, c, ll),
           NEW q, NEW K, Keeps(o, L, q, K), NEW P1, NEW S1, NEW D1, NEW c1, NEW ll1, ll \subseteq ll1,
           \A y \in Trxs : D1[y] >= 0 <=> D[y] >= 0,
           RefersTo(c1, Passing(o, L, D)), c1.initial_position = 0,
           \A g \in DOMAIN c.trx_map : g \in DOMAIN c1.trx_map \/ Forgets(q, ll1, g),
           \A y \in Trxs : S1[y] \in {"ABORTING", "ROLLED_BACK"} => GivenUp(P1[y], S1[y]),
           \A y \in Trxs : GivenUp(P1[y], S1[y]) =>
               \/ GivenUp(P[y], S[y]) /\ (Has(q, y) => Has(o, y))
               \/ ~ Has(q, y) /\ Source[y] = n
               \/ Has(o, y) /\ Refutes(o, L, D, y)
    PROVE  Says(n, q, K, P1, S1, D1, c1, ll1)
<1>1. \A y \in Trxs : D[y] >= 0 => Has(o, y)
  BY PassedHas
<1>2. \A y \in Trxs : Has(o, y) =>
         /\ Seqno(q, y) = Seqno(o, y) /\ TrxAt(q, K, y) = TrxAt(o, L, y)
         /\ CutAt(q, y) = CutAt(o, y) /\ K[y] = L[y] /\ Has(q, y)
  BY KeepsTrx
<1>3. Passing(q, K, D1) = Passing(o, L, D)
  <2>1. {z \in Trxs : D1[z] >= 0} = {z \in Trxs : D[z] >= 0}
    OBVIOUS
  <2>2. \A y \in {z \in Trxs : D[z] >= 0} : TrxAt(q, K, y) = TrxAt(o, L, y)
    BY <1>1, <1>2
  <2>. QED BY <2>1, <2>2 DEF Passing
<1>4. ASSUME NEW r \in Trxs, NEW x \in Trxs, Has(o, x)
      PROVE  Misses(q, K, D1, r, x) <=> Misses(o, L, D, r, x)
  <2>1. CASE D[r] >= 0
    <3>1. Has(o, r)
      BY <1>1, <2>1
    <3>2. Precedes(q, r, x) <=> Precedes(o, r, x)
      BY <1>4, <3>1, KeepsBefore
    <3>. QED BY <1>2, <1>4, <2>1, <3>1, <3>2 DEF Misses
  <2>2. CASE ~ (D[r] >= 0)
    BY <2>2 DEF Misses
  <2>. QED BY <2>1, <2>2
<1>5. ASSUME NEW x \in Trxs, Has(o, x), Refutes(o, L, D, x) PROVE Refutes(q, K, D1, x)
  BY <1>2, <1>4, <1>5 DEF Refutes
<1>6. ASSUME NEW x \in Trxs, Has(o, x), Hides(o, L, D, x) PROVE Hides(q, K, D1, x)
  <2>1. PICK h \in Trxs : /\ D[h] >= 0 /\ Precedes(o, h, x) /\ Source[h] = Source[x] /\ ~ TOI(h)
                          /\ Dependent(WriteSet[h], WriteSet[x]) /\ L[x] < Seqno(o, h) - 1
    BY <1>6 DEF Hides
  <2>2. Has(o, h) /\ Precedes(q, h, x)
    BY <1>1, <1>6, <2>1, KeepsBefore
  <2>. QED BY <1>2, <1>6, <2>1, <2>2 DEF Hides
<1>7. ASSUME NEW x \in Trxs, D1[x] >= 0
      PROVE  /\ Justifies(q, K, D1, x)
             /\ Seqno(q, x) \in DOMAIN c1.trx_map \/ Forgets(q, ll1, Seqno(q, x))
  <2>1. D[x] >= 0 /\ Has(o, x)
    BY <1>1, <1>7
  <2>2. /\ Justifies(o, L, D, x)
        /\ Seqno(o, x) \in DOMAIN c.trx_map \/ Forgets(o, ll, Seqno(o, x))
    BY <2>1 DEF Says, SaysOf
  <2>3. K[x] = L[x] /\ Seqno(q, x) = Seqno(o, x) /\ CutAt(q, x) = CutAt(o, x)
    BY <1>2, <2>1
  <2>4. ASSUME ShortKeysFirst, ~ TOI(x), NEW r \in Trxs, Misses(q, K, D1, r, x)
        PROVE  Seqno(q, r) < CutAt(q, x) \/ Hides(q, K, D1, x)
    <3>1. Misses(o, L, D, r, x) /\ Has(o, r)
      BY <1>1, <1>4, <2>1, <2>4 DEF Misses
    <3>2. Seqno(o, r) < CutAt(o, x) \/ Hides(o, L, D, x)
      BY <2>2, <2>4, <3>1 DEF Justifies
    <3>. QED BY <1>2, <1>6, <2>1, <2>3, <3>1, <3>2
  <2>5. Justifies(q, K, D1, x)
    BY <2>2, <2>3, <2>4 DEF Justifies
  <2>6. ASSUME Forgets(o, ll, Seqno(o, x)) PROVE Forgets(q, ll1, Seqno(q, x))
    <3>1. PICK i \in ll : /\ 1..i \subseteq ll
                          /\ o[i].cut > Seqno(o, x) \/ Number(o, i) - Seqno(o, x) > MaxLength
      BY <2>6 DEF Forgets
    <3>2. q[i] = o[i] /\ Number(q, i) = Number(o, i)
      BY <3>1 DEF Keeps
    <3>. QED BY <2>3, <3>1, <3>2 DEF Forgets
  <2>. QED BY <2>2, <2>3, <2>5, <2>6
<1>8. ASSUME NEW x \in Trxs, GivenUp(P1[x], S1[x])
      PROVE  IF Has(q, x) THEN Refutes(q, K, D1, x) ELSE Source[x] = n
  <2>1. CASE GivenUp(P[x], S[x]) /\ (Has(q, x) => Has(o, x))
    <3>1. IF Has(o, x) THEN Refutes(o, L, D, x) ELSE Source[x] = n
      BY <2>1 DEF Says, SaysOf
    <3>. QED BY <1>2, <1>5, <2>1, <3>1
  <2>2. CASE ~ Has(q, x) /\ Source[x] = n
    BY <2>2
  <2>3. CASE Has(o, x) /\ Refutes(o, L, D, x)
    BY <1>2, <1>5, <2>3
  <2>. QED BY <1>8, <2>1, <2>2, <2>3
<1>9. ASSUME NEW x \in Trxs PROVE SaysOf(n, x, q, K, P1, S1, D1, c1, ll1)
  BY <1>7, <1>8 DEF SaysOf
<1>. QED BY <1>3, <1>9 DEF Says

\* The write sets that have passed, as the certification sees them.
LEMMA PassingSets ==
    ASSUME NEW n, NEW o, IsOrder(o), NEW L, NEW P, NEW S, NEW D, NEW ll, NEW al, NEW cl,
           ThreadsFine(n, o, P, S, D, ll, al, cl)
    PROVE  AreWriteSets(Passing(o, L, D))
<1>1. ASSUME NEW r \in Passing(o, L, D)
      PROVE  \E y \in Trxs : /\ D[y] >= 0 /\ Has(o, y) /\ r = TrxAt(o, L, y)
                             /\ r.global_seqno = Seqno(o, y) /\ r.keys = WriteSet[y].keys
  <2>1. PICK y \in Trxs : D[y] >= 0 /\ r = TrxAt(o, L, y)
    BY <1>1 DEF Passing
  <2>2. Has(o, y)
    BY <2>1, PassedHas
  <2>. QED BY <2>1, <2>2 DEF TrxAt
<1>2. ASSUME NEW r \in Passing(o, L, D) PROVE r.keys \in Seq(Key) /\ r.global_seqno \in Nat
  <2>1. PICK y \in Trxs : /\ Has(o, y) /\ r.global_seqno = Seqno(o, y) /\ r.keys = WriteSet[y].keys
    BY <1>1
  <2>2. WriteSet[y].keys \in Seq(Key)
    BY ReplicatorAssumption
  <2>3. Seqno(o, y) \in Nat
    BY <2>1, PlaceNumber DEF Seqno
  <2>. QED BY <2>1, <2>2, <2>3
<1>3. ASSUME NEW r \in Passing(o, L, D), NEW s \in Passing(o, L, D), r.global_seqno = s.global_seqno
      PROVE  r = s
  <2>1. PICK y \in Trxs : Has(o, y) /\ r = TrxAt(o, L, y) /\ r.global_seqno = Seqno(o, y)
    BY <1>1
  <2>2. PICK z \in Trxs : Has(o, z) /\ s = TrxAt(o, L, z) /\ s.global_seqno = Seqno(o, z)
    BY <1>1
  <2>3. y = z
    BY <1>3, <2>1, <2>2, PlacesDiffer DEF Seqno
  <2>. QED BY <2>1, <2>2, <2>3
<1>. QED BY <1>2, <1>3 DEF AreWriteSets

\* The test fails a write set that has not been in the local monitor: the history of
\* the node refutes it.
LEMMA FailureRefutes ==
    ASSUME NEW n, NEW x \in Trxs, NEW o, IsOrder(o), Has(o, x), NEW L, NEW P, NEW S, NEW D, NEW c,
           NEW ll, NEW al, NEW cl, NodeFine(n, o, P, S, D, c, ll, al, cl), Place(o, x) \notin ll,
           NEW t, t = TrxAt(o, L, x), IsWriteSet(t, x, o),
           NEW k, Bounded(k, Number(o, Place(o, x) - 1)), RefersTo(k, Passing(o, L, D)),
           k.initial_position = 0, NEW E, E \subseteq Elements(t.keys), TestWith(k, t, E) = FAILED
    PROVE  Refutes(o, L, D, x)
<1>1. PICK b : b = Number(o, Place(o, x) - 1)
  OBVIOUS
<1>2. /\ b \in Nat /\ Seqno(o, x) = b + 1 /\ t.global_seqno = b + 1 /\ t.last_seen_seqno = L[x]
      /\ t.isolation = TOI(x) /\ t.keys = WriteSet[x].keys
  BY <1>1, PlaceNumber DEF Seqno, TrxAt, TOI
<1>3. t.isolation \in BOOLEAN /\ t.pa_unsafe \in BOOLEAN /\ t.keys \in Seq(Key)
  BY <1>2, ReplicatorAssumption DEF IsWriteSet
<1>4. Fails(k, t, E)
  BY <1>1, <1>2, <1>3, TestFails
<1>5. AreWriteSets(Passing(o, L, D))
  BY PassingSets DEF NodeFine
<1>6. \/ t.last_seen_seqno < 0
      \/ t.global_seqno - t.last_seen_seqno > MaxLength
      \/ ~ t.isolation /\ \E r \in Passing(o, L, D) : Writes(r, t) /\ Unseen(r, t)
  BY <1>1, <1>2, <1>3, <1>4, <1>5, FailureReal
<1>7. ASSUME NEW r \in Passing(o, L, D), Writes(r, t), Unseen(r, t)
      PROVE  \E y \in Trxs : Misses(o, L, D, y, x)
  <2>1. PICK y \in Trxs : D[y] >= 0 /\ r = TrxAt(o, L, y)
    BY <1>7 DEF Passing
  <2>2. Place(o, x) \in 1..(Len(o) + 1)
    BY PlaceIs
  <2>3. Has(o, y) /\ Seqno(o, y) \in 1..b
    BY ONLY <1>1, <2>1, <2>2, PassedBelow, IsOrder(o), NodeFine(n, o, P, S, D, c, ll, al, cl),
            Place(o, x) \notin ll DEF Seqno
  <2>4. Precedes(o, y, x)
    BY <1>2, <2>3 DEF Precedes
  <2>5. Writes(WriteSet[y], WriteSet[x])
    <3>1. r.keys = WriteSet[y].keys
      BY <2>1 DEF TrxAt
    <3>. QED BY <1>2, <1>7, <3>1 DEF Writes
  <2>. QED BY <1>7, <2>1, <2>4, <2>5 DEF Misses
<1>. QED BY <1>2, <1>6, <1>7 DEF Refutes

\* A cut before x.
LEMMA CutBounds ==
    ASSUME NEW o, IsOrder(o), NEW x, Has(o, x)
    PROVE  CutAt(o, x) \in Nat /\ \A i \in 1..Place(o, x) : o[i].cut \in Nat /\ o[i].cut <= CutAt(o, x)
<1>. DEFINE C == {o[i].cut : i \in 1..Place(o, x)}
<1>1. Place(o, x) \in 1..Len(o) /\ Len(o) \in Nat /\ MaxCut \in Nat
  BY PlaceIs, ReplicatorAssumption
<1>2. \A i \in 1..Place(o, x) : o[i].cut \in 0..MaxCut
  <2>1. PICK E : E = [cut : 0..MaxCut, trx : Trxs \cup {"none"}]
    OBVIOUS
  <2>2. o \in Seq(E)
    BY <2>1 DEF IsOrder
  <2>3. \A i \in 1..Place(o, x) : o[i] \in E
    BY <1>1, <2>2
  <2>. QED BY <2>1, <2>3
<1>3. C \in SUBSET Int /\ C # {} /\ \A k \in C : k <= MaxCut
  <2>1. 1 \in 1..Place(o, x)
    BY <1>1
  <2>2. o[1].cut \in C
    BY <2>1
  <2>. QED BY <1>1, <1>2, <2>2
<1>4. \A i \in 1..Place(o, x) : o[i].cut \in C
  OBVIOUS
<1>5. CutAt(o, x) = Max(C)
  BY DEF CutAt
<1>6. \A k \in C : k \in Nat
  BY <1>1, <1>2
<1>. HIDE DEF C
<1>7. PICK b \in Int : b = MaxCut
  BY <1>1
<1>8. Max(C) \in C /\ \A k \in C : Max(C) >= k
  BY <1>3, <1>7, MaxExists
<1>. QED BY <1>4, <1>5, <1>6, <1>8

\* A write set that is not in trx_map_ any more and that x has not seen is before a
\* cut that is before x.
LEMMA ForgottenCut ==
    ASSUME NEW o, IsOrder(o), NEW x, Has(o, x), NEW ll, Place(o, x) \notin ll, ll \subseteq 1..Len(o),
           NEW g \in Nat, Forgets(o, ll, g), NEW s \in Int, g > s, Seqno(o, x) - s <= MaxLength
    PROVE  g < CutAt(o, x)
<1>1. PICK i \in ll : 1..i \subseteq ll /\ (o[i].cut > g \/ Number(o, i) - g > MaxLength)
  BY DEF Forgets
<1>2. PICK l : l = Place(o, x)
  OBVIOUS
<1>3. l \in 1..Len(o) /\ Len(o) \in Nat /\ i \in 1..Len(o)
  BY <1>1, <1>2, PlaceIs
<1>4. i < l
  BY <1>1, <1>2, <1>3
<1>5. i \in 0..l /\ l \in Nat /\ i \in Nat /\ i \in 1..l
  BY <1>3, <1>4
<1>6. Number(o, i) <= Number(o, l) /\ Number(o, l) \in Nat /\ Number(o, i) \in Nat
  BY <1>5, NumberIs
<1>7. CASE o[i].cut > g
  BY <1>2, <1>5, <1>7, CutBounds
<1>8. CASE Number(o, i) - g > MaxLength
  <2>1. PICK a, b : a = Number(o, i) /\ b = Number(o, l)
    OBVIOUS
  <2>2. b - s <= MaxLength /\ a - g > MaxLength /\ a <= b /\ a \in Nat /\ b \in Nat
    BY <1>2, <1>6, <1>8, <2>1 DEF Seqno
  <2>. QED BY ONLY <2>2, MaxLengthAssumption, g \in Nat, s \in Int, g > s
<1>. QED BY <1>1, <1>7, <1>8

\* A write set passes: the history of the node justifies it.
LEMMA PassJustified ==
    ASSUME NEW n, NEW x \in Trxs, NEW o, IsOrder(o), Has(o, x), NEW L, NEW P, NEW S, NEW D, NEW c,
           NEW ll, NEW al, NEW cl, NodeFine(n, o, P, S, D, c, ll, al, cl),
           Says(n, o, L, P, S, D, c, ll), Place(o, x) \notin ll,
           NEW t, t = TrxAt(o, L, x), IsWriteSet(t, x, o), Verdict(c, t) # FAILED
    PROVE  Justifies(o, L, D, x)
<1>1. PICK b, k : b = Number(o, Place(o, x) - 1) /\ k = Trimmed(c, t)
  OBVIOUS
<1>2. /\ b \in Nat /\ Seqno(o, x) = b + 1 /\ t.global_seqno = b + 1 /\ t.last_seen_seqno = L[x]
      /\ t.isolation = TOI(x) /\ t.keys = WriteSet[x].keys /\ t.source_id = Source[x]
  BY <1>1, PlaceNumber DEF Seqno, TrxAt, TOI
<1>3. /\ t.isolation \in BOOLEAN /\ t.pa_unsafe \in BOOLEAN /\ t.keys \in Seq(Key)
      /\ t.last_seen_seqno \in Nat \cup {-1}
  BY <1>2, ReplicatorAssumption DEF IsWriteSet
<1>4. Place(o, x) \in 1..(Len(o) + 1)
  BY PlaceIs
<1>5. Bounded(c, b)
  BY <1>1, <1>4 DEF NodeFine, IndexFine
<1>6. RefersTo(c, Passing(o, L, D)) /\ c.initial_position = 0
  BY DEF Says
<1>7. Bounded(k, b) /\ \A g \in 1..b : \A keys : Remembers(c, g, keys) => Remembers(k, g, keys)
  BY <1>1, <1>2, <1>5, TrimRemembers
<1>8. /\ RefersTo(k, Passing(o, L, D)) /\ k.initial_position = 0
      /\ \A g \in DOMAIN c.trx_map : g \notin DOMAIN k.trx_map => g < (b + 1) - MaxLength
  BY <1>1, <1>2, <1>5, <1>6, TrimRefers
<1>9. ~ Fails(k, t, KeyList(t.keys))
  <2>1. Verdict(c, t) = TestWith(k, t, KeyList(t.keys))
    BY <1>1, TestCases DEF Verdict
  <2>. QED BY <2>1 DEF TestWith
<1>10. L[x] >= 0 /\ Seqno(o, x) - L[x] <= MaxLength /\ L[x] \in Nat
  <2>1. ~ (t.last_seen_seqno < 0) /\ ~ (t.global_seqno - t.last_seen_seqno > MaxLength)
    BY <1>8, <1>9 DEF Fails
  <2>. QED BY <1>2, <1>3, <2>1, MaxLengthAssumption
<1>11. ASSUME ShortKeysFirst, ~ TOI(x), NEW r \in Trxs, Misses(o, L, D, r, x)
       PROVE  Seqno(o, r) < CutAt(o, x) \/ Hides(o, L, D, x)
  <2>1. PICK g, w : g = Seqno(o, r) /\ w = TrxAt(o, L, r)
    OBVIOUS
  <2>2. D[r] >= 0 /\ Writes(WriteSet[r], WriteSet[x]) /\ Unseen(w, t)
    BY <1>11, <2>1 DEF Misses
  <2>3. g \in 1..b
    BY ONLY <1>1, <1>4, <2>1, <2>2, PassedBelow, IsOrder(o), NodeFine(n, o, P, S, D, c, ll, al, cl),
            Place(o, x) \notin ll DEF Seqno
  <2>4. w.global_seqno = g /\ w.keys = WriteSet[r].keys /\ w \in Passing(o, L, D)
    BY <2>1, <2>2 DEF TrxAt, Passing
  <2>5. g > L[x]
    BY <1>2, <2>2, <2>4 DEF Unseen
  <2>6. CASE g \in DOMAIN k.trx_map
    <3>1. Remembers(k, g, w.keys)
      <4>1. Remembers(c, g, w.keys)
        BY <2>1, <2>2, <2>4 DEF NodeFine, IndexFine, Seqno
      <4>. QED BY <1>7, <2>3, <4>1
    <3>2. ShortFirst(w.keys) /\ ShortFirst(t.keys)
      BY <1>2, <1>11, <2>4 DEF ShortKeysFirst
    <3>3. Writes(w, t)
      BY <1>2, <2>2, <2>4 DEF Writes
    <3>4. AreWriteSets(Passing(o, L, D))
      BY PassingSets DEF NodeFine
    <3>5. t.last_seen_seqno \in Int /\ ~ t.isolation
      BY <1>2, <1>3, <1>11
    <3>6. PICK h \in Passing(o, L, D) :
             /\ h.source_id = t.source_id /\ ~ h.isolation /\ Dependent(h, t)
             /\ t.last_seen_seqno < h.global_seqno - 1
      BY <1>2, <1>3, <1>7, <1>8, <1>9, <2>2, <2>4, <2>6, <3>1, <3>2, <3>3, <3>4, <3>5, ConflictOrHidden
    <3>7. PICK y \in Trxs : D[y] >= 0 /\ h = TrxAt(o, L, y)
      BY <3>6 DEF Passing
    <3>8. /\ h.source_id = Source[y] /\ h.isolation = TOI(y) /\ h.keys = WriteSet[y].keys
          /\ h.global_seqno = Seqno(o, y)
      BY <3>7 DEF TrxAt, TOI
    <3>9. Has(o, y) /\ Seqno(o, y) \in 1..b
      BY ONLY <1>1, <1>4, <3>7, PassedBelow, IsOrder(o), NodeFine(n, o, P, S, D, c, ll, al, cl),
              Place(o, x) \notin ll DEF Seqno
    <3>10. Precedes(o, y, x)
      BY <1>2, <3>9 DEF Precedes
    <3>11. Dependent(WriteSet[y], WriteSet[x])
      BY <1>2, <3>6, <3>8 DEF Dependent, Writes
    <3>. QED BY <1>2, <3>6, <3>7, <3>8, <3>10, <3>11 DEF Hides
  <2>7. CASE g \in DOMAIN c.trx_map /\ g \notin DOMAIN k.trx_map
    <3>1. g < (b + 1) - MaxLength
      BY <1>8, <2>7
    <3>2. (b + 1) - L[x] <= MaxLength
      BY <1>2, <1>10
    <3>. QED BY ONLY <1>2, <1>10, <2>3, <2>5, <3>1, <3>2, MaxLengthAssumption
  <2>8. CASE g \notin DOMAIN c.trx_map
    <3>1. Forgets(o, ll, g)
      BY <2>1, <2>2, <2>8 DEF Says, SaysOf
    <3>2. ll \subseteq 1..Len(o) /\ g \in Nat /\ L[x] \in Int
      BY <1>10, <2>3 DEF NodeFine, LeftFine
    <3>. QED BY <1>10, <2>1, <2>5, <3>1, <3>2, ForgottenCut
  <2>. QED BY <2>6, <2>7, <2>8
<1>. QED BY <1>10, <1>11 DEF Justifies

\* append_trx() of a write set that passes.
LEMMA SaysPasses ==
    ASSUME NEW n, NEW x \in Trxs, NEW o, IsOrder(o), Has(o, x), NEW L, NEW P, NEW S, NEW D, NEW c,
           NEW ll, NEW al, NEW cl, NodeFine(n, o, P, S, D, c, ll, al, cl),
           Says(n, o, L, P, S, D, c, ll), Place(o, x) \notin ll, 1..(Place(o, x) - 1) \subseteq ll,
           NEW t, t = TrxAt(o, L, x), IsWriteSet(t, x, o), Verdict(c, t) # FAILED,
           NEW P1, NEW S1, NEW D1, Apart(x, P, P1), Apart(x, S, S1), Apart(x, D, D1),
           D1[x] = Verdict(c, t), ~ GivenUp(P1[x], S1[x]), S1[x] \notin {"ABORTING", "ROLLED_BACK"}
    PROVE  Says(n, o, L, P1, S1, D1, append_trx(c, t), ll \cup {Place(o, x)})
<1>1. PICK a, l, ll1 : a = append_trx(c, t) /\ l = Place(o, x) /\ ll1 = ll \cup {l}
  OBVIOUS
<1>2. PICK b \in Nat : AtTurn(b, x, o, D, c, ll, t)
  BY TurnToCertify
<1>3. /\ t.global_seqno = b + 1 /\ Seqno(o, x) = b + 1 /\ Bounded(c, b)
      /\ D1[x] >= 0 /\ \A y \in Trxs : D[y] >= 0 => y # x /\ Seqno(o, y) \in 1..b
  BY <1>2 DEF AtTurn, Seqno
<1>4. /\ \A y \in Trxs : y # x => D1[y] = D[y] /\ P1[y] = P[y] /\ S1[y] = S[y]
      /\ \A y \in Trxs : D1[y] >= 0 <=> y = x \/ D[y] >= 0
  BY <1>3 DEF Apart
<1>5. RefersTo(c, Passing(o, L, D)) /\ c.initial_position = 0
  BY DEF Says
<1>6. Passing(o, L, D1) = Passing(o, L, D) \cup {t}
  BY <1>4 DEF Passing
<1>7. /\ RefersTo(a, Passing(o, L, D) \cup {t}) /\ a.initial_position = 0
      /\ b + 1 \in DOMAIN a.trx_map
      /\ \A g \in DOMAIN c.trx_map : g \notin DOMAIN a.trx_map => g < (b + 1) - MaxLength
  <2>1. PICK W, v : W = Passing(o, L, D) /\ v = Verdict(c, t)
    OBVIOUS
  <2>2. /\ RefersTo(a, IF v = FAILED THEN W ELSE W \cup {t})
        /\ a.initial_position = c.initial_position /\ t.global_seqno \in DOMAIN a.trx_map
        /\ \A g \in DOMAIN c.trx_map :
              g \notin DOMAIN a.trx_map => g < t.global_seqno - MaxLength
    BY ONLY <1>1, <1>3, <1>5, <2>1, AppendRefers
  <2>3. RefersTo(a, W \cup {t})
    BY <2>1, <2>2
  <2>. QED BY ONLY <1>3, <1>5, <2>1, <2>2, <2>3
<1>8. 1..l \subseteq ll1 /\ l \in ll1 /\ Number(o, l) = b + 1
  BY <1>1, <1>2, PlaceIs DEF AtTurn
<1>9. ASSUME NEW g \in DOMAIN c.trx_map, g \notin DOMAIN a.trx_map PROVE Forgets(o, ll1, g)
  <2>1. g < (b + 1) - MaxLength /\ g \in 1..b
    BY <1>3, <1>7, <1>9 DEF Bounded
  <2>2. Number(o, l) - g > MaxLength
    BY <1>8, <2>1, MaxLengthAssumption
  <2>. QED BY <1>8, <2>2 DEF Forgets
<1>10. ASSUME NEW y \in Trxs, D[y] >= 0, NEW r \in Trxs, Misses(o, L, D1, r, y)
       PROVE  Misses(o, L, D, r, y)
  <2>1. Seqno(o, y) \in 1..b /\ Seqno(o, r) < Seqno(o, y)
    BY <1>3, <1>10 DEF Misses, Precedes
  <2>2. r # x
    BY <1>3, <2>1
  <2>. QED BY <1>4, <1>10, <2>2 DEF Misses
<1>11. \A y \in Trxs : Hides(o, L, D, y) => Hides(o, L, D1, y)
  BY <1>4 DEF Hides
<1>12. \A y \in Trxs : Refutes(o, L, D, y) => Refutes(o, L, D1, y)
  BY <1>4 DEF Refutes, Misses
<1>13. ASSUME NEW y \in Trxs, D1[y] >= 0
       PROVE  /\ Justifies(o, L, D1, y)
              /\ Seqno(o, y) \in DOMAIN a.trx_map \/ Forgets(o, ll1, Seqno(o, y))
  <2>1. CASE y = x
    <3>1. Justifies(o, L, D, x)
      BY PassJustified
    <3>2. ASSUME NEW r \in Trxs, Misses(o, L, D1, r, x) PROVE Misses(o, L, D, r, x)
      <4>1. r # x
        BY <1>3, <3>2 DEF Misses, Precedes
      <4>. QED BY <1>4, <3>2, <4>1 DEF Misses
    <3>3. Justifies(o, L, D1, x)
      BY <1>11, <3>1, <3>2 DEF Justifies
    <3>. QED BY <1>3, <1>7, <2>1, <3>3
  <2>2. CASE y # x
    <3>1. /\ D[y] >= 0 /\ Justifies(o, L, D, y)
          /\ Seqno(o, y) \in DOMAIN c.trx_map \/ Forgets(o, ll, Seqno(o, y))
      BY <1>4, <1>13, <2>2 DEF Says, SaysOf
    <3>2. Justifies(o, L, D1, y)
      BY <1>10, <1>11, <3>1 DEF Justifies
    <3>3. Forgets(o, ll, Seqno(o, y)) => Forgets(o, ll1, Seqno(o, y))
      BY <1>1 DEF Forgets
    <3>. QED BY <1>9, <3>1, <3>2, <3>3
  <2>. QED BY <2>1, <2>2
<1>14. ASSUME NEW y \in Trxs
       PROVE  /\ S1[y] \in {"ABORTING", "ROLLED_BACK"} => GivenUp(P1[y], S1[y])
              /\ GivenUp(P1[y], S1[y]) => IF Has(o, y) THEN Refutes(o, L, D1, y) ELSE Source[y] = n
  <2>1. CASE y = x
    BY <2>1
  <2>2. CASE y # x
    <3>1. /\ S[y] \in {"ABORTING", "ROLLED_BACK"} => GivenUp(P[y], S[y])
          /\ GivenUp(P[y], S[y]) => IF Has(o, y) THEN Refutes(o, L, D, y) ELSE Source[y] = n
      BY DEF Says, SaysOf
    <3>. QED BY <1>4, <1>12, <2>2, <3>1
  <2>. QED BY <2>1, <2>2
<1>15. ASSUME NEW y \in Trxs PROVE SaysOf(n, y, o, L, P1, S1, D1, a, ll1)
  BY <1>13, <1>14 DEF SaysOf
<1>16. Says(n, o, L, P1, S1, D1, a, ll1)
  BY <1>6, <1>7, <1>15 DEF Says
<1>. QED BY <1>1, <1>16

\* append_trx() and set_trx_committed() of a write set that fails.
LEMMA SaysFails ==
    ASSUME NEW n, NEW x \in Trxs, NEW o, IsOrder(o), Has(o, x), NEW L, NEW P, NEW S, NEW D, NEW c,
           NEW ll, NEW al, NEW cl, NodeFine(n, o, P, S, D, c, ll, al, cl),
           Says(n, o, L, P, S, D, c, ll), Place(o, x) \notin ll, 1..(Place(o, x) - 1) \subseteq ll,
           NEW t, t = TrxAt(o, L, x), IsWriteSet(t, x, o), Verdict(c, t) = FAILED,
           NEW P1, NEW S1, NEW D1, Apart(x, P, P1), Apart(x, S, S1), Apart(x, D, D1),
           D1[x] = FAILED, GivenUp(P1[x], S1[x])
    PROVE  Says(n, o, L, P1, S1, D1, set_trx_committed(append_trx(c, t), t), ll \cup {Place(o, x)})
<1>1. PICK a, d, l, ll1, k : /\ a = append_trx(c, t) /\ d = set_trx_committed(a, t)
                             /\ l = Place(o, x) /\ ll1 = ll \cup {l} /\ k = Trimmed(c, t)
  OBVIOUS
<1>2. PICK b \in Nat : AtTurn(b, x, o, D, c, ll, t)
  BY TurnToCertify
<1>3. /\ t.global_seqno = b + 1 /\ Seqno(o, x) = b + 1 /\ Bounded(c, b) /\ Bounded(a, b + 1)
      /\ b = Number(o, Place(o, x) - 1) /\ Number(o, l) = b + 1
      /\ \A y \in Trxs : D[y] >= 0 => y # x
  BY <1>1, <1>2 DEF AtTurn, Seqno
<1>4. /\ \A y \in Trxs : y # x => D1[y] = D[y] /\ P1[y] = P[y] /\ S1[y] = S[y]
      /\ \A y \in Trxs : D1[y] >= 0 <=> D[y] >= 0
  BY <1>3 DEF Apart, FAILED
<1>5. PICK W : W = Passing(o, L, D)
  OBVIOUS
<1>6. RefersTo(c, W) /\ c.initial_position = 0
  BY <1>5 DEF Says
<1>7. /\ RefersTo(a, W) /\ a.initial_position = 0
      /\ \A g \in DOMAIN c.trx_map : g \notin DOMAIN a.trx_map => g < (b + 1) - MaxLength
  <2>1. /\ RefersTo(a, IF Verdict(c, t) = FAILED THEN W ELSE W \cup {t})
        /\ a.initial_position = c.initial_position
        /\ \A g \in DOMAIN c.trx_map :
              g \notin DOMAIN a.trx_map => g < t.global_seqno - MaxLength
    BY ONLY <1>1, <1>3, <1>6, AppendRefers
  <2>. QED BY <1>3, <1>6, <2>1
<1>8. RefersTo(d, W) /\ d.initial_position = 0 /\ d.trx_map = a.trx_map
  <2>1. DOMAIN a = CertFields
    BY <1>3 DEF Bounded
  <2>. QED BY <1>1, <1>7, <2>1, CommittedRefers
<1>9. Bounded(k, b) /\ RefersTo(k, W) /\ k.initial_position = 0
  <2>1. t.global_seqno \in Int
    BY <1>3
  <2>. QED BY <1>1, <1>3, <1>6, <2>1, TrimRemembers, TrimRefers
<1>10. Refutes(o, L, D, x)
  <2>1. TestWith(k, t, KeyList(t.keys)) = FAILED
    BY <1>1, TestCases DEF Verdict
  <2>2. KeyList(t.keys) \subseteq Elements(t.keys)
    BY DEF KeyList
  <2>3. Bounded(k, Number(o, Place(o, x) - 1))
    BY <1>3, <1>9
  <2>. QED BY <1>5, <1>9, <2>1, <2>2, <2>3, FailureRefutes
<1>11. 1..l \subseteq ll1 /\ l \in ll1
  BY <1>1, PlaceIs
<1>12. ASSUME NEW g \in DOMAIN c.trx_map, g \notin DOMAIN d.trx_map PROVE Forgets(o, ll1, g)
  <2>1. g < (b + 1) - MaxLength /\ g \in 1..b
    BY <1>3, <1>7, <1>8, <1>12 DEF Bounded
  <2>2. Number(o, l) - g > MaxLength
    BY <1>3, <2>1, MaxLengthAssumption
  <2>. QED BY <1>11, <2>2 DEF Forgets
<1>13. \A y \in Trxs : S1[y] \in {"ABORTING", "ROLLED_BACK"} => GivenUp(P1[y], S1[y])
  BY <1>4 DEF Says, SaysOf
<1>14. \A y \in Trxs : GivenUp(P1[y], S1[y]) =>
          GivenUp(P[y], S[y]) \/ (Has(o, y) /\ Refutes(o, L, D, y))
  BY <1>4, <1>10
<1>15. ThreadsFine(n, o, P, S, D, ll, al, cl) /\ ll \subseteq 1..Len(o)
  BY DEF NodeFine, LeftFine
<1>16. Keeps(o, L, o, L) /\ ll \subseteq ll1
  BY <1>1, KeepsSame
<1>17. Says(n, o, L, P1, S1, D1, d, ll1)
  BY <1>4, <1>5, <1>8, <1>12, <1>13, <1>14, <1>15, <1>16, SaysStep
<1>. QED BY <1>1, <1>17

\* cert_for_aborted() fails a write set out of order.
LEMMA SaysGivesUp ==
    ASSUME NEW n, NEW x \in Trxs, NEW o, IsOrder(o), Has(o, x), NEW L, NEW P, NEW S, NEW D, NEW c,
           NEW ll, NEW al, NEW cl, NodeFine(n, o, P, S, D, c, ll, al, cl),
           Says(n, o, L, P, S, D, c, ll), Place(o, x) \notin ll,
           NEW t, t = TrxAt(o, L, x), IsWriteSet(t, x, o), do_test(c, t, FALSE) = FAILED,
           NEW P1, NEW S1, Apart(x, P, P1), Apart(x, S, S1), GivenUp(P1[x], S1[x])
    PROVE  Says(n, o, L, P1, S1, D, c, ll \cup {Place(o, x)})
<1>1. PICK ll1, W : ll1 = ll \cup {Place(o, x)} /\ W = Passing(o, L, D)
  OBVIOUS
<1>2. RefersTo(c, W) /\ c.initial_position = 0
  BY <1>1 DEF Says
<1>3. Refutes(o, L, D, x)
  <2>1. TestWith(c, t, Elements(t.keys)) = FAILED
    BY TestCases
  <2>2. Place(o, x) \in 1..(Len(o) + 1)
    BY PlaceIs
  <2>3. Bounded(c, Number(o, Place(o, x) - 1))
    BY <2>2 DEF NodeFine, IndexFine
  <2>. QED BY <1>1, <1>2, <2>1, <2>3, FailureRefutes
<1>4. \A y \in Trxs : y # x => P1[y] = P[y] /\ S1[y] = S[y]
  BY DEF Apart
<1>5. \A y \in Trxs : S1[y] \in {"ABORTING", "ROLLED_BACK"} => GivenUp(P1[y], S1[y])
  BY <1>4 DEF Says, SaysOf
<1>6. \A y \in Trxs : GivenUp(P1[y], S1[y]) =>
          GivenUp(P[y], S[y]) \/ (Has(o, y) /\ Refutes(o, L, D, y))
  BY <1>3, <1>4
<1>7. ThreadsFine(n, o, P, S, D, ll, al, cl) /\ ll \subseteq 1..Len(o)
  BY DEF NodeFine, LeftFine
<1>8. Keeps(o, L, o, L) /\ ll \subseteq ll1
  BY <1>1, KeepsSame
<1>9. Says(n, o, L, P1, S1, D, c, ll1)
  BY <1>1, <1>2, <1>5, <1>6, <1>7, <1>8, SaysStep
<1>. QED BY <1>1, <1>9

\* A commit cut at its turn.
LEMMA SaysCuts ==
    ASSUME NEW n, NEW o, IsOrder(o), NEW L, NEW P, NEW S, NEW D, NEW c,
           NEW ll, NEW al, NEW cl, NodeFine(n, o, P, S, D, c, ll, al, cl),
           Says(n, o, L, P, S, D, c, ll), NEW i \in 1..Len(o), 1..(i - 1) \subseteq ll
    PROVE  Says(n, o, L, P, S, D, purge_trxs_upto(c, o[i].cut), ll \cup {i})
<1>1. PICK d, s, ll1, W : /\ s = o[i].cut /\ d = purge_trxs_upto(c, s) /\ ll1 = ll \cup {i}
                          /\ W = Passing(o, L, D)
  OBVIOUS
<1>2. s \in Int
  <2>1. PICK E : E = [cut : 0..MaxCut, trx : Trxs \cup {"none"}]
    OBVIOUS
  <2>2. o \in Seq(E)
    BY <2>1 DEF IsOrder
  <2>3. o[i] \in E
    BY <2>2
  <2>. QED BY <1>1, <2>1, <2>3, ReplicatorAssumption
<1>3. RefersTo(c, W) /\ c.initial_position = 0
  BY <1>1 DEF Says
<1>4. PICK b \in Nat : Bounded(c, b)
  <2>1. Len(o) \in Nat
    BY DEF IsOrder
  <2>2. PICK j : j = Len(o) + 1
    OBVIOUS
  <2>3. j \in 1..(Len(o) + 1) /\ j \notin ll /\ j - 1 = Len(o)
    BY <2>1, <2>2 DEF NodeFine, LeftFine
  <2>4. Bounded(c, Number(o, j - 1)) /\ Number(o, j - 1) \in Nat
    BY <2>1, <2>3, NumberIs DEF NodeFine, IndexFine
  <2>. QED BY <2>4
<1>5. /\ RefersTo(d, W) /\ d.initial_position = 0
      /\ \A g \in DOMAIN c.trx_map : g \notin DOMAIN d.trx_map => g < s
  BY <1>1, <1>2, <1>3, <1>4, CutRefers
<1>6. 1..i \subseteq ll1 /\ i \in ll1 /\ ll \subseteq ll1
  BY <1>1
<1>7. ASSUME NEW g \in DOMAIN c.trx_map, g \notin DOMAIN d.trx_map PROVE Forgets(o, ll1, g)
  <2>1. g < s /\ g \in Int
    BY <1>4, <1>5, <1>7 DEF Bounded
  <2>2. o[i].cut > g
    BY <1>1, <1>2, <2>1
  <2>. QED BY <1>6, <2>2 DEF Forgets
<1>8. ThreadsFine(n, o, P, S, D, ll, al, cl) /\ ll \subseteq 1..Len(o)
  BY DEF NodeFine, LeftFine
<1>9. Keeps(o, L, o, L)
  BY KeepsSame
<1>10. \A y \in Trxs : S[y] \in {"ABORTING", "ROLLED_BACK"} => GivenUp(P[y], S[y])
  BY DEF Says, SaysOf
<1>11. Says(n, o, L, P, S, D, d, ll1)
  BY <1>1, <1>5, <1>6, <1>7, <1>8, <1>9, <1>10, SaysStep
<1>. QED BY <1>1, <1>11

----------------------------------------------------------------------------
(* The actions, for VerdictInv.                                            *)

\* A node as Says sees it.
LEMMA TheVerdict ==
    ASSUME VerdictInv, OrderInv, NEW n \in Nodes
    PROVE  /\ Says(n, order, last_seen, pc[n], state[n], depends[n], cert[n], local_left[n])
           /\ ThreadsFine(n, order, pc[n], state[n], depends[n], local_left[n], apply_left[n],
                          commit_left[n])
           /\ local_left[n] \subseteq 1..Len(order) /\ IsOrder(order)
<1>1. Says(n, order, last_seen, pc[n], state[n], depends[n], cert[n], local_left[n])
  BY SameVerdict
<1>2. NodeFine(n, order, pc[n], state[n], depends[n], cert[n], local_left[n], apply_left[n],
               commit_left[n])
  BY TheNode
<1>. QED BY <1>1, <1>2, SameOrder DEF NodeFine, LeftFine, OrderInv

\* A step that does not concern the node m, though others may get their place in the
\* order or their position.
LEMMA SaysElsewhere ==
    ASSUME VerdictInv, OrderInv, NEW m \in Nodes, NEW q, NEW K, Keeps(order, last_seen, q, K),
           \A y \in Trxs : GivenUp(pc[m][y], state[m][y]) /\ Has(q, y) => Ordered(y)
    PROVE  Says(m, q, K, pc[m], state[m], depends[m], cert[m], local_left[m])
<1>1. PICK P, S, D, c, ll, al, cl : /\ P = pc[m] /\ S = state[m] /\ D = depends[m] /\ c = cert[m]
                                    /\ ll = local_left[m] /\ al = apply_left[m] /\ cl = commit_left[m]
  OBVIOUS
<1>2. PICK o, L : o = order /\ L = last_seen
  OBVIOUS
<1>3. /\ Says(m, o, L, P, S, D, c, ll) /\ ThreadsFine(m, o, P, S, D, ll, al, cl)
      /\ ll \subseteq 1..Len(o) /\ IsOrder(o)
  BY <1>1, <1>2, TheVerdict
<1>4. \A y \in Trxs : GivenUp(P[y], S[y]) => (Has(q, y) => Has(o, y))
  BY <1>1, <1>2, SameOrder
<1>5. /\ RefersTo(c, Passing(o, L, D)) /\ c.initial_position = 0
      /\ \A y \in Trxs : S[y] \in {"ABORTING", "ROLLED_BACK"} => GivenUp(P[y], S[y])
  BY <1>3 DEF Says, SaysOf
<1>6. Says(m, q, K, P, S, D, c, ll)
  BY <1>2, <1>3, <1>4, <1>5, SaysStep
<1>. QED BY <1>1, <1>6

\* A step on n that leaves n as the invariant says.
LEMMA VerdictStep ==
    ASSUME VerdictInv, OrderInv, NEW n \in Nodes, UNCHANGED order, OnlyOn(n),
           \A y \in Trxs : Ordered(y) => last_seen'[y] = last_seen[y],
           Says(n, order, last_seen', pc'[n], state'[n], depends'[n], cert'[n], local_left'[n])
    PROVE  VerdictInv'
<1>1. Keeps(order, last_seen, order, last_seen')
  BY SameOrder, KeepsSame
<1>2. \A y \in Trxs : Has(order, y) => Ordered(y)
  BY SameOrder
<1>3. ASSUME NEW m \in Nodes
      PROVE  Says(m, order', last_seen', pc'[m], state'[m], depends'[m], cert'[m], local_left'[m])
  <2>1. CASE m = n
    BY <2>1
  <2>2. CASE m # n
    <3>1. Says(m, order, last_seen', pc[m], state[m], depends[m], cert[m], local_left[m])
      BY <1>1, <1>2, SaysElsewhere
    <3>. QED BY <2>2, <3>1 DEF OnlyOn
  <2>. QED BY <2>1, <2>2
<1>. QED BY <1>3, SameVerdictNext

\* A step of the thread of x that leaves the local monitor and the index alone, and
\* by which nothing passes or fails.
LEMMA VerdictMoves ==
    ASSUME VerdictInv, OrderInv, TypeOK, NEW n \in Nodes, NEW x \in Trxs, NEW p, NEW s,
           Goes(n, x, p, s), UNCHANGED <<order, cert, local_left, apply_left, commit_left>>,
           \A m \in Nodes : m # n => depends'[m] = depends[m],
           \A y \in Trxs : depends'[n][y] >= 0 <=> depends[n][y] >= 0,
           \A y \in Trxs : Ordered(y) => last_seen'[y] = last_seen[y],
           s \in {"ABORTING", "ROLLED_BACK"} => GivenUp(p, s),
           GivenUp(p, s) => GivenUp(pc[n][x], state[n][x]) \/ (~ Ordered(x) /\ Source[x] = n)
    PROVE  VerdictInv'
<1>1. /\ pc'[n][x] = p /\ state'[n][x] = s
      /\ Apart(x, pc[n], pc'[n]) /\ Apart(x, state[n], state'[n])
      /\ \A m \in Nodes : m # n => pc'[m] = pc[m] /\ state'[m] = state[m]
  BY GoesApart
<1>2. OnlyOn(n)
  BY <1>1 DEF OnlyOn
<1>3. PICK P, S, D, c, ll, al, cl : /\ P = pc[n] /\ S = state[n] /\ D = depends[n] /\ c = cert[n]
                                    /\ ll = local_left[n] /\ al = apply_left[n] /\ cl = commit_left[n]
  OBVIOUS
<1>4. PICK o, L, K, P1, S1, D1 : /\ o = order /\ L = last_seen /\ K = last_seen' /\ P1 = pc'[n]
                                 /\ S1 = state'[n] /\ D1 = depends'[n]
  OBVIOUS
<1>5. /\ Says(n, o, L, P, S, D, c, ll) /\ ThreadsFine(n, o, P, S, D, ll, al, cl)
      /\ ll \subseteq 1..Len(o) /\ IsOrder(o)
  BY <1>3, <1>4, TheVerdict
<1>6. Keeps(o, L, o, K)
  BY <1>4, SameOrder, KeepsSame
<1>7. \A y \in Trxs : y # x => P1[y] = P[y] /\ S1[y] = S[y]
  BY <1>1, <1>3, <1>4 DEF Apart
<1>8. /\ RefersTo(c, Passing(o, L, D)) /\ c.initial_position = 0
      /\ \A y \in Trxs : S[y] \in {"ABORTING", "ROLLED_BACK"} => GivenUp(P[y], S[y])
  BY <1>5 DEF Says, SaysOf
<1>9. P1[x] = p /\ S1[x] = s
  BY <1>1, <1>4
<1>10. \A y \in Trxs : S1[y] \in {"ABORTING", "ROLLED_BACK"} => GivenUp(P1[y], S1[y])
  BY <1>7, <1>8, <1>9
<1>11. \A y \in Trxs : GivenUp(P1[y], S1[y]) =>
          GivenUp(P[y], S[y]) \/ (~ Has(o, y) /\ Source[y] = n)
  BY <1>3, <1>4, <1>7, <1>9, SameOrder
<1>12. \A y \in Trxs : D1[y] >= 0 <=> D[y] >= 0
  BY <1>3, <1>4
<1>13. Says(n, o, K, P1, S1, D1, c, ll)
  BY <1>5, <1>6, <1>8, <1>10, <1>11, <1>12, SaysStep
<1>. QED BY <1>2, <1>3, <1>4, <1>13, VerdictStep

\* Steps that concern neither threads nor indexes nor the order.
LEMMA VerdictIdle ==
    ASSUME VerdictInv, UNCHANGED <<order, last_seen, pc, state, depends, cert, local_left>>
    PROVE  VerdictInv'
BY SameVerdict, SameVerdictNext

\* The group appends to the order.
LEMMA VerdictReceive ==
    ASSUME VerdictInv, OrderInv, NEW e \in [cut : 0..MaxCut, trx : Trxs \cup {"none"}],
           e.cut = 0 => /\ e.trx \in Trxs /\ ~ Ordered(e.trx)
                        /\ pc[Source[e.trx]][e.trx] = "gcs",
           order' = Append(order, e), UNCHANGED <<pc, state, last_seen, depends, cert, local_left>>
    PROVE  VerdictInv'
<1>1. IsOrder(order) /\ (e.cut = 0 => ~ Has(order, e.trx))
  BY SameOrder DEF OrderInv
<1>2. Longer(order', order, e)
  BY DEF Longer
<1>3. IsOrder(order')
  BY <1>1, <1>2, OrderGrows
<1>4. PICK o, q, L : o = order /\ q = order' /\ L = last_seen
  OBVIOUS
<1>5. /\ Len(q) = Len(o) + 1 /\ Len(o) \in Nat
      /\ \A i \in 0..Len(o) : Number(q, i) = Number(o, i)
      /\ \A x : Has(o, x) => Has(q, x) /\ Place(q, x) = Place(o, x)
      /\ \A x : Has(q, x) /\ ~ Has(o, x) => e.cut = 0 /\ e.trx = x
  BY <1>1, <1>2, <1>3, <1>4, AppendOrder
<1>6. \A i \in 1..Len(o) : q[i] = o[i] /\ Number(q, i) = Number(o, i)
  <2>1. \A i \in 1..Len(o) : q[i] = o[i]
    BY <1>1, <1>2, <1>4 DEF Longer, IsOrder
  <2>. QED BY <1>5, <2>1
<1>7. Keeps(order, last_seen, q, L)
  BY <1>4, <1>5, <1>6 DEF Keeps
<1>8. ASSUME NEW m \in Nodes, NEW y \in Trxs, GivenUp(pc[m][y], state[m][y]), Has(q, y)
      PROVE  Ordered(y)
  <2>1. SUFFICES ASSUME ~ Ordered(y) PROVE FALSE
    OBVIOUS
  <2>2. ~ Has(order, y)
    BY <2>1, SameOrder
  <2>3. pc[Source[y]][y] = "gcs"
    BY <1>4, <1>5, <1>8, <2>2
  <2>4. Source[y] = m
    BY <1>8, <2>2, TheVerdict DEF Says, SaysOf
  <2>. QED BY <1>8, <2>3, <2>4 DEF GivenUp
<1>9. ASSUME NEW m \in Nodes
      PROVE  Says(m, order', last_seen', pc'[m], state'[m], depends'[m], cert'[m], local_left'[m])
  <2>1. Says(m, q, L, pc[m], state[m], depends[m], cert[m], local_left[m])
    BY <1>7, <1>8, SaysElsewhere
  <2>. QED BY <1>4, <2>1
<1>. QED BY <1>9, SameVerdictNext

\* The group's steps.
LEMMA VerdictGroupSteps ==
    ASSUME VerdictInv, OrderInv, (\E x \in Trxs : Send(x)) \/ (\E n \in Nodes : SendReport(n))
    PROVE  VerdictInv'
<1>1. ASSUME NEW x \in Trxs, Send(x) PROVE VerdictInv'
  <2>1. PICK e : e = [cut |-> 0, trx |-> x]
    OBVIOUS
  <2>2. e \in [cut : 0..MaxCut, trx : Trxs \cup {"none"}] /\ e.cut = 0 /\ e.trx = x
    BY <2>1, ReplicatorAssumption
  <2>3. /\ pc[Source[x]][x] = "gcs" /\ ~ Ordered(x) /\ order' = Append(order, e)
        /\ UNCHANGED <<pc, state, last_seen, depends, cert, local_left>>
    BY <1>1, <2>1 DEF Send, At, threads, monitors
  <2>. QED BY <2>2, <2>3, VerdictReceive
<1>2. ASSUME NEW n \in Nodes, SendReport(n) PROVE VerdictInv'
  <2>1. UNCHANGED <<pc, state, last_seen, depends, cert, local_left>>
    BY <1>2 DEF SendReport, threads, monitors
  <2>2. CASE UNCHANGED order
    BY <2>1, <2>2, VerdictIdle
  <2>3. CASE ~ UNCHANGED order
    <3>1. PICK e \in [cut : 0..MaxCut, trx : Trxs \cup {"none"}] :
            e.cut # 0 /\ order' = Append(order, e)
      BY <1>2, <2>3, ReportSends
    <3>. QED BY <2>1, <3>1, VerdictReceive
  <2>. QED BY <2>2, <2>3
<1>. QED BY <1>1, <1>2

\* A step that concerns the thread alone, the wsrep_conflict_state apart.
LEMMA VerdictOnly ==
    ASSUME VerdictInv, OrderInv, ThreadInv, NEW n \in Nodes, NEW x \in Trxs, NEW p, NEW s,
           Goes(n, x, p, s), UNCHANGED <<order, last_seen, depends, cert, monitors>>,
           s \in {"ABORTING", "ROLLED_BACK"} => GivenUp(p, s),
           GivenUp(p, s) => GivenUp(pc[n][x], state[n][x]) \/ (~ Ordered(x) /\ Source[x] = n)
    PROVE  VerdictInv'
<1>1. TypeOK /\ UNCHANGED <<order, cert, local_left, apply_left, commit_left>>
  BY DEF ThreadInv, monitors
<1>2. /\ \A m \in Nodes : m # n => depends'[m] = depends[m]
      /\ \A y \in Trxs : depends'[n][y] >= 0 <=> depends[n][y] >= 0
      /\ \A y \in Trxs : Ordered(y) => last_seen'[y] = last_seen[y]
  OBVIOUS
<1>. QED BY <1>1, <1>2, VerdictMoves

\* Who is not given up is in neither of the states of those who are.
LEMMA NotGivenUp ==
    ASSUME VerdictInv, NEW n \in Nodes, NEW x \in Trxs, ~ GivenUp(pc[n][x], state[n][x])
    PROVE  state[n][x] \notin {"ABORTING", "ROLLED_BACK"}
BY DEF VerdictInv, VerdictOK

\* Steps in front of the test.
LEMMA VerdictEarlySteps ==
    ASSUME VerdictInv, OrderInv, ThreadInv, NEW n \in Nodes, NEW x \in Trxs,
           \/ Begin(n, x) \/ StartCommit(n, x) \/ ToiStart(n, x) \/ ExecAborted(n, x)
           \/ Replicate(n, x) \/ Interrupted(n, x)
    PROVE  VerdictInv'
<1>. USE DEF At
<1>1. Source[x] = n
  BY DEF Begin, StartCommit, ToiStart, ExecAborted, Replicate, Interrupted, Startable
<1>2. ~ Ordered(x)
  <2>1. CASE Interrupted(n, x)
    BY <2>1 DEF Interrupted
  <2>2. CASE ~ Interrupted(n, x)
    <3>1. pc[n][x] \in {"idle", "exec", "pre"}
      BY <2>2 DEF Begin, StartCommit, ToiStart, ExecAborted, Replicate, Startable
    <3>2. StandsAt(n, x, pc[n][x], state[n][x])
      BY StandsNow
    <3>. QED BY <1>1, <3>1, <3>2 DEF StandsAt, Standing
  <2>. QED BY <2>1, <2>2
<1>3. TypeOK /\ UNCHANGED <<order, cert, local_left, apply_left, commit_left, depends>>
  BY DEF ThreadInv, monitors, Begin, StartCommit, ToiStart, ExecAborted, Replicate, Interrupted, Only
<1>4. \A y \in Trxs : Ordered(y) => last_seen'[y] = last_seen[y]
  <2>1. CASE Replicate(n, x)
    <3>1. UNCHANGED last_seen \/ last_seen' = [last_seen EXCEPT ![x] = LastLeft(commit_left[n])]
      BY <2>1 DEF Replicate
    <3>2. DOMAIN last_seen = Trxs
      BY DEF OrderInv, ValuesOK
    <3>. QED BY <1>2, <3>1, <3>2
  <2>2. CASE ~ Replicate(n, x)
    BY <2>2 DEF Begin, StartCommit, ToiStart, ExecAborted, Interrupted, Only
  <2>. QED BY <2>1, <2>2
<1>5. PICK p, s : Goes(n, x, p, s) /\ (s \in {"ABORTING", "ROLLED_BACK"} => GivenUp(p, s))
  <2>1. CASE Begin(n, x)
    <3>1. state = [state EXCEPT ![n][x] = state[n][x]]
      BY <1>3 DEF TypeOK
    <3>2. Goes(n, x, "exec", state[n][x])
      BY <2>1, <3>1 DEF Begin, Goes
    <3>3. ~ GivenUp(pc[n][x], state[n][x])
      BY <2>1 DEF Begin, Startable, GivenUp
    <3>. QED BY <3>2, <3>3, NotGivenUp
  <2>2. CASE StartCommit(n, x) \/ ToiStart(n, x)
    <3>1. Goes(n, x, "pre", "EXECUTING")
      BY <2>2 DEF StartCommit, ToiStart, Only
    <3>. QED BY <3>1
  <2>3. CASE ExecAborted(n, x)
    <3>1. Goes(n, x, "done", "ROLLED_BACK")
      BY <2>3 DEF ExecAborted
    <3>. QED BY <3>1 DEF GivenUp
  <2>4. CASE Replicate(n, x) \/ Interrupted(n, x)
    <3>1. Goes(n, x, "fail", "ABORTING") \/ Goes(n, x, "gcs", "REPLICATING")
      BY <2>4 DEF Replicate, Interrupted, Only
    <3>2. GivenUp("fail", "ABORTING")
      BY DEF GivenUp
    <3>. QED BY <3>1, <3>2
  <2>. QED BY <2>1, <2>2, <2>3, <2>4
<1>6. /\ \A m \in Nodes : m # n => depends'[m] = depends[m]
      /\ \A y \in Trxs : depends'[n][y] >= 0 <=> depends[n][y] >= 0
  BY <1>3
<1>. QED BY <1>1, <1>2, <1>3, <1>4, <1>5, <1>6, VerdictMoves

\* Steps of a thread that has passed, and of those that are replayed or rolled back.
LEMMA VerdictLateSteps ==
    ASSUME VerdictInv, OrderInv, ThreadInv, NEW n \in Nodes, NEW x \in Trxs,
           \/ EnterApply(n, x) \/ ApplyInterrupted(n, x) \/ EnterCommit(n, x)
           \/ CommitInterrupted(n, x) \/ ServerCommit(n, x) \/ EngineCommit(n, x)
           \/ ToiExecute(n, x) \/ ReplayEnterCommit(n, x) \/ ReplayApply(n, x)
           \/ ApplierStep(n, x) \/ Rollback(n, x) \/ ReplayStart(n, x)
    PROVE  VerdictInv'
<1>. USE DEF At
<1>1. UNCHANGED <<order, last_seen, depends, cert, monitors>>
  BY DEF EnterApply, ApplyInterrupted, EnterCommit, CommitInterrupted, ServerCommit, EngineCommit,
         ToiExecute, ReplayEnterCommit, ReplayApply, Only, ApplierStep, RemoteEnterApply, RemoteApply,
         RemoteCommit, Rollback, ReplayStart
<1>2. PICK p, s : /\ Goes(n, x, p, s)
                  /\ \/ GivenUp(p, s) /\ GivenUp(pc[n][x], state[n][x])
                     \/ ~ GivenUp(p, s) /\ s \notin {"ABORTING", "ROLLED_BACK"}
  <2>1. CASE \/ EnterApply(n, x) \/ ApplyInterrupted(n, x) \/ EnterCommit(n, x)
             \/ CommitInterrupted(n, x) \/ ReplayEnterCommit(n, x)
    <3>1. \/ Goes(n, x, "bf", "MUST_REPLAY_CM") \/ Goes(n, x, "bf", "MUST_REPLAY_AM")
          \/ Goes(n, x, "commit", "COMMITTING") \/ Goes(n, x, "toi", "APPLYING")
          \/ Goes(n, x, "bf", "MUST_REPLAY") \/ Goes(n, x, "ok", "COMMITTING")
          \/ Goes(n, x, "replaying", "REPLAYING")
      BY <2>1 DEF EnterApply, ApplyInterrupted, EnterCommit, CommitInterrupted, ReplayEnterCommit, Only
    <3>2. \A q \in {"bf", "commit", "toi", "ok", "replaying"} : \A r : ~ GivenUp(q, r)
      BY DEF GivenUp
    <3>. QED BY <3>1, <3>2
  <2>2. CASE ServerCommit(n, x)
    <3>1. state = [state EXCEPT ![n][x] = state[n][x]]
      BY DEF ThreadInv, TypeOK
    <3>2. Goes(n, x, "engine", state[n][x])
      BY <2>2, <3>1 DEF ServerCommit, Goes
    <3>3. ~ GivenUp(pc[n][x], state[n][x]) /\ ~ GivenUp("engine", state[n][x])
      BY <2>2 DEF ServerCommit, GivenUp
    <3>. QED BY <3>2, <3>3, NotGivenUp
  <2>3. CASE EngineCommit(n, x)
    <3>1. Goes(n, x, "committed", state[n][x])
      BY <2>3 DEF EngineCommit, Only
    <3>2. ~ GivenUp(pc[n][x], state[n][x]) /\ ~ GivenUp("committed", state[n][x])
      BY <2>3 DEF EngineCommit, GivenUp
    <3>. QED BY <3>1, <3>2, NotGivenUp
  <2>4. CASE ToiExecute(n, x) \/ ReplayApply(n, x) \/ ApplierStep(n, x)
    <3>1. \/ Goes(n, x, "committed", "APPLYING") \/ Goes(n, x, "committed", "REPLAYING")
          \/ Goes(n, x, "applying", "APPLYING") \/ Goes(n, x, "commit", "APPLYING")
          \/ Goes(n, x, "committed", "COMMITTING")
      BY <2>4 DEF ToiExecute, ReplayApply, ApplierStep, RemoteEnterApply, RemoteApply, RemoteCommit, Only
    <3>2. \A q \in {"committed", "applying", "commit"} : \A r : ~ GivenUp(q, r)
      BY DEF GivenUp
    <3>. QED BY <3>1, <3>2
  <2>5. CASE Rollback(n, x)
    BY <2>5 DEF Rollback, GivenUp
  <2>6. CASE ReplayStart(n, x)
    <3>1. pc[n][x] = "bf"
      BY <2>6 DEF ReplayStart
    <3>2. state[n][x] \in {"MUST_CERT_AND_REPLAY", "MUST_REPLAY_AM", "MUST_REPLAY_CM", "MUST_REPLAY"}
      BY <3>1 DEF ThreadInv, ThreadOK, ThreadFine, StatesAt, ApplierPc
    <3>3. \/ Goes(n, x, "rlocal", "CERTIFYING") \/ Goes(n, x, "rapply", "MUST_REPLAY_AM")
          \/ Goes(n, x, "rcommit", "MUST_REPLAY_CM") \/ Goes(n, x, "replaying", "REPLAYING")
      BY <2>6, <3>2 DEF ReplayStart, Is
    <3>4. \A q \in {"rlocal", "rapply", "rcommit", "replaying"} : \A r : ~ GivenUp(q, r)
      BY DEF GivenUp
    <3>. QED BY <3>3, <3>4
  <2>. QED BY <2>1, <2>2, <2>3, <2>4, <2>5, <2>6
<1>. QED BY <1>1, <1>2, VerdictOnly

\* An abort gives nobody up.
LEMMA VerdictAbortSteps ==
    ASSUME VerdictInv, OrderInv, ThreadInv, NEW n \in Nodes, NEW bf \in Trxs, NEW x \in Trxs,
           Kill(n, bf, x)
    PROVE  VerdictInv'
<1>1. /\ UNCHANGED <<order, last_seen, depends, cert, monitors>>
      /\ pc' = pc /\ pc = [pc EXCEPT ![n][x] = pc[n][x]] /\ state = [state EXCEPT ![n][x] = state[n][x]]
  BY DEF Kill, ThreadInv, TypeOK
<1>2. pc[n][x] # "done"
  BY DEF Kill, Holds
<1>3. PICK s : Goes(n, x, pc[n][x], s) /\ s \in {state[n][x], "MUST_ABORT"}
  <2>1. \/ UNCHANGED state
        \/ state' = [state EXCEPT ![n][x] = IF state[n][x] = "ABORTING" THEN "ABORTING" ELSE "MUST_ABORT"]
    BY DEF Kill
  <2>2. CASE UNCHANGED state
    BY <1>1, <2>2 DEF Goes
  <2>3. CASE state[n][x] = "ABORTING" /\ state' = [state EXCEPT ![n][x] = "ABORTING"]
    BY <1>1, <2>3 DEF Goes
  <2>4. CASE state' = [state EXCEPT ![n][x] = "MUST_ABORT"]
    BY <1>1, <2>4 DEF Goes
  <2>. QED BY <2>1, <2>2, <2>3, <2>4
<1>4. GivenUp(pc[n][x], s) <=> GivenUp(pc[n][x], state[n][x])
  BY <1>2 DEF GivenUp
<1>5. s \in {"ABORTING", "ROLLED_BACK"} => GivenUp(pc[n][x], s)
  BY <1>3, <1>4, NotGivenUp
<1>. QED BY <1>1, <1>3, <1>4, <1>5, VerdictOnly

\* A replay raises depends_seqno, which says as before that it has passed.
LEMMA VerdictReplaySteps ==
    ASSUME VerdictInv, OrderInv, ThreadInv, NEW n \in Nodes, NEW x \in Trxs, ReplayEnterApply(n, x)
    PROVE  VerdictInv'
<1>1. /\ pc[n][x] = "rapply" /\ Goes(n, x, "rcommit", "MUST_REPLAY_CM")
      /\ depends' = [depends EXCEPT ![n][x] = GlobalSeqno(x) - 1]
      /\ UNCHANGED <<order, last_seen, cert, local_left, apply_left, commit_left>>
  BY DEF ReplayEnterApply, At, monitors
<1>2. StandsAt(n, x, pc[n][x], state[n][x]) /\ TypeOK
  BY StandsNow DEF ThreadInv
<1>3. UnderWay(pc[n][x], state[n][x]) /\ ~ GivenUp("rcommit", "MUST_REPLAY_CM")
  BY <1>1 DEF UnderWay, Untested, GivenUp
<1>4. Ordered(x) /\ depends[n][x] >= 0
  BY <1>2, <1>3 DEF StandsAt, Standing
<1>5. GlobalSeqno(x) - 1 \in Nat
  BY <1>4, TheWriteSet, PlaceNumber
<1>6. depends \in [Nodes -> [Trxs -> Int]]
  BY DEF OrderInv, ValuesOK
<1>7. /\ \A m \in Nodes : m # n => depends'[m] = depends[m]
      /\ \A y \in Trxs : depends'[n][y] >= 0 <=> depends[n][y] >= 0
  BY <1>1, <1>4, <1>5, <1>6
<1>. QED BY <1>1, <1>2, <1>3, <1>7, VerdictMoves

\* A node and one of its write sets as Says sees them.
LEMMA TheTest ==
    ASSUME VerdictInv, OrderInv, NEW n \in Nodes, NEW x \in Trxs, Ordered(x)
    PROVE  /\ Says(n, order, last_seen, pc[n], state[n], depends[n], cert[n], local_left[n])
           /\ NodeFine(n, order, pc[n], state[n], depends[n], cert[n], local_left[n], apply_left[n],
                       commit_left[n])
           /\ IsOrder(order) /\ Has(order, x) /\ LocalSeqno(x) = Place(order, x)
           /\ Trx(x) = TrxAt(order, last_seen, x) /\ IsWriteSet(Trx(x), x, order)
<1>1. /\ IsOrder(order) /\ IsWriteSet(Trx(x), x, order) /\ Has(order, x)
      /\ LocalSeqno(x) = Place(order, x) /\ GlobalSeqno(x) = Seqno(order, x)
  BY TheWriteSet DEF Seqno
<1>2. Trx(x) = TrxAt(order, last_seen, x)
  BY <1>1 DEF Trx, TrxAt
<1>. QED BY <1>1, <1>2, TheVerdict, TheNode

\* ReplicatorSMM::cert() of a thread that has its turn in the local monitor.
LEMMA VerdictCertifySteps ==
    ASSUME VerdictInv, OrderInv, ThreadInv, NEW n \in Nodes, NEW x \in Trxs, Ordered(x),
           NEW p, NEW s, NEW q, NEW r, Certify(n, x, Goes(n, x, p, s), Goes(n, x, q, r)),
           ~ GivenUp(p, s), s \notin {"ABORTING", "ROLLED_BACK"}, GivenUp(q, r)
    PROVE  VerdictInv'
<1>1. PICK t, v, a : t = Trx(x) /\ v = Verdict(cert[n], t) /\ a = append_trx(cert[n], t)
  OBVIOUS
<1>2. PICK l, g : l = LocalSeqno(x) /\ g = GlobalSeqno(x)
  OBVIOUS
<1>3. /\ LocalTurn(n, l) /\ local_left' = [local_left EXCEPT ![n] = @ \cup {l}]
      /\ depends' = [depends EXCEPT ![n][x] = v] /\ UNCHANGED <<order, last_seen>>
  BY <1>1, <1>2 DEF Certify, Leave
<1>4. IF v = FAILED
      THEN /\ Goes(n, x, q, r) /\ cert' = [cert EXCEPT ![n] = set_trx_committed(a, t)]
           /\ apply_left' = [apply_left EXCEPT ![n] = @ \cup {g}]
           /\ commit_left' = [commit_left EXCEPT ![n] = @ \cup {g}]
      ELSE /\ Goes(n, x, p, s) /\ cert' = [cert EXCEPT ![n] = a]
           /\ UNCHANGED <<apply_left, commit_left>>
  BY <1>1, <1>2 DEF Certify, CancelBoth, Leave
<1>5. /\ DOMAIN cert = Nodes /\ DOMAIN local_left = Nodes /\ DOMAIN apply_left = Nodes
      /\ DOMAIN commit_left = Nodes /\ depends \in [Nodes -> [Trxs -> Int]] /\ TypeOK
  BY Domains DEF OrderInv, ValuesOK, ThreadInv
<1>6. /\ Says(n, order, last_seen, pc[n], state[n], depends[n], cert[n], local_left[n])
      /\ NodeFine(n, order, pc[n], state[n], depends[n], cert[n], local_left[n], apply_left[n],
                  commit_left[n])
      /\ IsOrder(order) /\ Has(order, x) /\ l = Place(order, x)
      /\ t = TrxAt(order, last_seen, x) /\ IsWriteSet(t, x, order)
  BY <1>1, <1>2, TheTest
<1>7. 1..(Place(order, x) - 1) \subseteq local_left[n] /\ Place(order, x) \notin local_left[n]
  BY <1>3, <1>6, Turns
<1>8. /\ local_left'[n] = local_left[n] \cup {Place(order, x)}
      /\ \A m \in Nodes : m # n => local_left'[m] = local_left[m] /\ depends'[m] = depends[m]
      /\ depends'[n][x] = v /\ Apart(x, depends[n], depends'[n])
  BY <1>3, <1>5, <1>6 DEF Apart
<1>9. \A y \in Trxs : Ordered(y) => last_seen'[y] = last_seen[y]
  BY <1>3
<1>10. CASE v # FAILED
  <2>1. /\ Goes(n, x, p, s) /\ cert' = [cert EXCEPT ![n] = a] /\ UNCHANGED <<apply_left, commit_left>>
    BY <1>4, <1>10
  <2>2. /\ pc'[n][x] = p /\ state'[n][x] = s
        /\ Apart(x, pc[n], pc'[n]) /\ Apart(x, state[n], state'[n])
        /\ \A m \in Nodes : m # n => pc'[m] = pc[m] /\ state'[m] = state[m]
    BY <1>5, <2>1, GoesApart
  <2>3. cert'[n] = append_trx(cert[n], t) /\ \A m \in Nodes : m # n => cert'[m] = cert[m]
    BY <1>1, <1>5, <2>1
  <2>4. OnlyOn(n)
    BY <1>8, <2>1, <2>2, <2>3 DEF OnlyOn
  <2>5. PICK P1, S1, D1 : P1 = pc'[n] /\ S1 = state'[n] /\ D1 = depends'[n]
    OBVIOUS
  <2>6. /\ Apart(x, pc[n], P1) /\ Apart(x, state[n], S1) /\ Apart(x, depends[n], D1)
        /\ D1[x] = Verdict(cert[n], t) /\ Verdict(cert[n], t) # FAILED
        /\ ~ GivenUp(P1[x], S1[x]) /\ S1[x] \notin {"ABORTING", "ROLLED_BACK"}
    BY <1>1, <1>8, <1>10, <2>2, <2>5
  <2>7. Says(n, order, last_seen, P1, S1, D1, append_trx(cert[n], t), local_left[n] \cup {Place(order, x)})
    BY <1>6, <1>7, <2>6, SaysPasses
  <2>. QED BY <1>3, <1>8, <1>9, <2>3, <2>4, <2>5, <2>7, VerdictStep
<1>11. CASE v = FAILED
  <2>1. /\ Goes(n, x, q, r) /\ cert' = [cert EXCEPT ![n] = set_trx_committed(a, t)]
        /\ apply_left' = [apply_left EXCEPT ![n] = @ \cup {g}]
        /\ commit_left' = [commit_left EXCEPT ![n] = @ \cup {g}]
    BY <1>4, <1>11
  <2>2. /\ pc'[n][x] = q /\ state'[n][x] = r
        /\ Apart(x, pc[n], pc'[n]) /\ Apart(x, state[n], state'[n])
        /\ \A m \in Nodes : m # n => pc'[m] = pc[m] /\ state'[m] = state[m]
    BY <1>5, <2>1, GoesApart
  <2>3. /\ cert'[n] = set_trx_committed(append_trx(cert[n], t), t)
        /\ \A m \in Nodes : m # n => cert'[m] = cert[m]
    BY <1>1, <1>5, <2>1
  <2>4. \A m \in Nodes : m # n => apply_left'[m] = apply_left[m] /\ commit_left'[m] = commit_left[m]
    BY <1>5, <2>1
  <2>5. OnlyOn(n)
    BY <1>8, <2>2, <2>3, <2>4 DEF OnlyOn
  <2>6. PICK P1, S1, D1 : P1 = pc'[n] /\ S1 = state'[n] /\ D1 = depends'[n]
    OBVIOUS
  <2>7. /\ Apart(x, pc[n], P1) /\ Apart(x, state[n], S1) /\ Apart(x, depends[n], D1)
        /\ D1[x] = FAILED /\ Verdict(cert[n], t) = FAILED /\ GivenUp(P1[x], S1[x])
    BY <1>1, <1>8, <1>11, <2>2, <2>6
  <2>8. Says(n, order, last_seen, P1, S1, D1, set_trx_committed(append_trx(cert[n], t), t),
             local_left[n] \cup {Place(order, x)})
    BY <1>6, <1>7, <2>7, SaysFails
  <2>. QED BY <1>3, <1>8, <1>9, <2>3, <2>5, <2>6, <2>8, VerdictStep
<1>. QED BY <1>10, <1>11

\* cert_for_aborted(): given up out of order, or left for the replay.
LEMMA VerdictAbortedSteps ==
    ASSUME VerdictInv, OrderInv, ThreadInv, NEW n \in Nodes, NEW x \in Trxs, Ordered(x),
           pc[n][x] \in {"gcs", "local"}, CertForAborted(n, x)
    PROVE  VerdictInv'
<1>1. Untested(pc[n][x], state[n][x]) /\ StandsAt(n, x, pc[n][x], state[n][x]) /\ TypeOK
  BY StandsNow DEF Untested, ThreadInv
<1>2. UNCHANGED <<order, last_seen, depends, cert>>
  BY DEF CertForAborted
<1>3. CASE Goes(n, x, "bf", "MUST_CERT_AND_REPLAY") /\ UNCHANGED monitors
  <2>1. ~ GivenUp("bf", "MUST_CERT_AND_REPLAY")
    BY DEF GivenUp
  <2>. QED BY <1>2, <1>3, <2>1, VerdictOnly
<1>4. CASE /\ do_test(cert[n], Trx(x), FALSE) = FAILED
           /\ Goes(n, x, "fail", "ABORTING") /\ Leave(local_left, n, LocalSeqno(x))
           /\ CancelBoth(n, x)
  <2>1. PICK l, g, t : l = LocalSeqno(x) /\ g = GlobalSeqno(x) /\ t = Trx(x)
    OBVIOUS
  <2>2. /\ Says(n, order, last_seen, pc[n], state[n], depends[n], cert[n], local_left[n])
        /\ NodeFine(n, order, pc[n], state[n], depends[n], cert[n], local_left[n], apply_left[n],
                    commit_left[n])
        /\ IsOrder(order) /\ Has(order, x) /\ l = Place(order, x)
        /\ t = TrxAt(order, last_seen, x) /\ IsWriteSet(t, x, order)
    BY <2>1, TheTest
  <2>3. /\ local_left' = [local_left EXCEPT ![n] = @ \cup {l}]
        /\ apply_left' = [apply_left EXCEPT ![n] = @ \cup {g}]
        /\ commit_left' = [commit_left EXCEPT ![n] = @ \cup {g}]
    BY <1>4, <2>1 DEF CancelBoth, Leave
  <2>4. DOMAIN local_left = Nodes /\ DOMAIN apply_left = Nodes /\ DOMAIN commit_left = Nodes
    BY Domains DEF OrderInv
  <2>5. /\ local_left'[n] = local_left[n] \cup {Place(order, x)}
        /\ \A m \in Nodes : m # n =>
              /\ local_left'[m] = local_left[m] /\ apply_left'[m] = apply_left[m]
              /\ commit_left'[m] = commit_left[m]
    BY <2>2, <2>3, <2>4
  <2>6. /\ pc'[n][x] = "fail" /\ state'[n][x] = "ABORTING"
        /\ Apart(x, pc[n], pc'[n]) /\ Apart(x, state[n], state'[n])
        /\ \A m \in Nodes : m # n => pc'[m] = pc[m] /\ state'[m] = state[m]
    BY <1>1, <1>4, GoesApart
  <2>7. OnlyOn(n)
    BY <1>2, <2>5, <2>6 DEF OnlyOn
  <2>8. Place(order, x) \notin local_left[n]
    BY <1>1, <2>1, <2>2 DEF StandsAt, Standing
  <2>9. PICK P1, S1 : P1 = pc'[n] /\ S1 = state'[n]
    OBVIOUS
  <2>10. Apart(x, pc[n], P1) /\ Apart(x, state[n], S1) /\ GivenUp(P1[x], S1[x])
    BY <2>6, <2>9 DEF GivenUp
  <2>11. do_test(cert[n], t, FALSE) = FAILED
    BY <1>4, <2>1
  <2>12. Says(n, order, last_seen, P1, S1, depends[n], cert[n], local_left[n] \cup {Place(order, x)})
    BY <2>2, <2>8, <2>10, <2>11, SaysGivesUp
  <2>. QED BY <1>2, <2>5, <2>7, <2>9, <2>12, VerdictStep
<1>. QED BY <1>3, <1>4 DEF CertForAborted

\* The test of a write set, wherever it is made.
LEMMA VerdictTestSteps ==
    ASSUME VerdictInv, OrderInv, ThreadInv, NEW n \in Nodes, NEW x \in Trxs,
           \/ Replicated(n, x) \/ CertLocal(n, x) \/ CertInterrupted(n, x) \/ ReplayCert(n, x)
           \/ RemoteCert(n, x)
    PROVE  VerdictInv'
<1>1. StandsAt(n, x, pc[n][x], state[n][x])
  BY StandsNow
<1>2. /\ GivenUp("fail", "ABORTING") /\ GivenUp("rfail", "ABORTING") /\ GivenUp("done", "ROLLED_BACK")
      /\ ~ GivenUp("bf", "MUST_REPLAY_AM") /\ ~ GivenUp("apply", "APPLYING")
      /\ ~ GivenUp("apply", "CERTIFYING") /\ ~ GivenUp("rapply", "MUST_REPLAY_AM")
      /\ ~ GivenUp("local", "CERTIFYING")
  BY DEF GivenUp
<1>3. CASE Replicated(n, x)
  <2>1. pc[n][x] = "gcs" /\ Ordered(x)
    BY <1>3 DEF Replicated, At
  <2>2. CASE CertForAborted(n, x)
    BY <2>1, <2>2, VerdictAbortedSteps
  <2>3. CASE Only(n, x, "local", "CERTIFYING")
    BY <1>2, <2>3, VerdictOnly DEF Only
  <2>. QED BY <1>3, <2>2, <2>3 DEF Replicated
<1>4. CASE CertLocal(n, x) \/ CertInterrupted(n, x)
  <2>1. pc[n][x] = "local"
    BY <1>4 DEF CertLocal, CertInterrupted, At
  <2>2. Ordered(x)
    BY <1>1, <2>1 DEF StandsAt, Standing
  <2>3. CASE CertInterrupted(n, x)
    BY <2>1, <2>2, <2>3, VerdictAbortedSteps DEF CertInterrupted
  <2>4. CASE CertLocal(n, x)
    <3>1. CASE Is(n, x, "MUST_ABORT")
      <4>1. Certify(n, x, Goes(n, x, "bf", "MUST_REPLAY_AM"), Goes(n, x, "fail", "ABORTING"))
        BY <2>4, <3>1 DEF CertLocal, Certify
      <4>. QED BY <1>2, <2>2, <4>1, VerdictCertifySteps
    <3>2. CASE ~ Is(n, x, "MUST_ABORT")
      <4>1. Certify(n, x, Goes(n, x, "apply", "APPLYING"), Goes(n, x, "fail", "ABORTING"))
        BY <2>4, <3>2 DEF CertLocal, Certify
      <4>. QED BY <1>2, <2>2, <4>1, VerdictCertifySteps
    <3>. QED BY <3>1, <3>2
  <2>. QED BY <1>4, <2>3, <2>4
<1>5. CASE ReplayCert(n, x)
  <2>1. /\ pc[n][x] = "rlocal"
        /\ Certify(n, x, Goes(n, x, "rapply", "MUST_REPLAY_AM"), Goes(n, x, "rfail", "ABORTING"))
    BY <1>5 DEF ReplayCert, At
  <2>2. Ordered(x)
    BY <1>1, <2>1 DEF StandsAt, Standing
  <2>. QED BY <1>2, <2>1, <2>2, VerdictCertifySteps
<1>6. CASE RemoteCert(n, x)
  <2>1. /\ Ordered(x)
        /\ Certify(n, x, Goes(n, x, "apply", "CERTIFYING"), Goes(n, x, "done", "ROLLED_BACK"))
    BY <1>6 DEF RemoteCert
  <2>. QED BY <1>2, <2>1, VerdictCertifySteps
<1>. QED BY <1>3, <1>4, <1>5, <1>6

\* The end of a committed transaction: set_trx_committed() leaves the index alone.
LEMMA VerdictFinishSteps ==
    ASSUME VerdictInv, OrderInv, ThreadInv, NEW n \in Nodes, NEW x \in Trxs,
           PostCommit(n, x) \/ RemoteDone(n, x)
    PROVE  VerdictInv'
<1>1. /\ pc[n][x] = "committed" /\ Goes(n, x, "done", "COMMITTED") /\ Finish(n, x)
      /\ UNCHANGED <<order, last_seen, depends, local_left>>
  BY DEF PostCommit, RemoteDone, At
<1>2. PICK t, d, g : t = Trx(x) /\ d = set_trx_committed(cert[n], t) /\ g = GlobalSeqno(x)
  OBVIOUS
<1>3. /\ apply_left' = [apply_left EXCEPT ![n] = @ \cup {g}]
      /\ commit_left' = [commit_left EXCEPT ![n] = @ \cup {g}]
      /\ cert' = [cert EXCEPT ![n] = d]
  BY <1>1, <1>2 DEF Finish, Leave
<1>4. DOMAIN cert = Nodes /\ DOMAIN apply_left = Nodes /\ DOMAIN commit_left = Nodes /\ TypeOK
  BY Domains DEF OrderInv, ThreadInv
<1>5. /\ cert'[n] = d
      /\ \A m \in Nodes : m # n =>
            /\ apply_left'[m] = apply_left[m] /\ commit_left'[m] = commit_left[m]
            /\ cert'[m] = cert[m]
  BY <1>3, <1>4
<1>6. /\ pc'[n][x] = "done" /\ state'[n][x] = "COMMITTED"
      /\ Apart(x, pc[n], pc'[n]) /\ Apart(x, state[n], state'[n])
      /\ \A m \in Nodes : m # n => pc'[m] = pc[m] /\ state'[m] = state[m]
  BY <1>1, <1>4, GoesApart
<1>7. OnlyOn(n)
  BY <1>1, <1>5, <1>6 DEF OnlyOn
<1>8. PICK P, S, D, c, ll, al, cl : /\ P = pc[n] /\ S = state[n] /\ D = depends[n] /\ c = cert[n]
                                    /\ ll = local_left[n] /\ al = apply_left[n] /\ cl = commit_left[n]
  OBVIOUS
<1>9. PICK o, L, P1, S1 : o = order /\ L = last_seen /\ P1 = pc'[n] /\ S1 = state'[n]
  OBVIOUS
<1>10. /\ Says(n, o, L, P, S, D, c, ll) /\ ThreadsFine(n, o, P, S, D, ll, al, cl)
       /\ ll \subseteq 1..Len(o) /\ IsOrder(o)
  BY <1>8, <1>9, TheVerdict
<1>11. /\ RefersTo(c, Passing(o, L, D)) /\ c.initial_position = 0
       /\ \A y \in Trxs : S[y] \in {"ABORTING", "ROLLED_BACK"} => GivenUp(P[y], S[y])
  BY <1>10 DEF Says, SaysOf
<1>12. RefersTo(d, Passing(o, L, D)) /\ d.initial_position = 0 /\ d.trx_map = c.trx_map
  <2>1. PICK b \in Nat : Bounded(cert[n], b)
    BY IndexBounded
  <2>2. DOMAIN c = CertFields
    BY <1>8, <2>1 DEF Bounded
  <2>. QED BY <1>2, <1>8, <1>11, <2>2, CommittedRefers
<1>13. /\ \A y \in Trxs : y # x => P1[y] = P[y] /\ S1[y] = S[y]
       /\ P1[x] = "done" /\ S1[x] = "COMMITTED"
  BY <1>6, <1>8, <1>9 DEF Apart
<1>14. ~ GivenUp("done", "COMMITTED")
  BY DEF GivenUp
<1>15. \A y \in Trxs : S1[y] \in {"ABORTING", "ROLLED_BACK"} => GivenUp(P1[y], S1[y])
  BY <1>11, <1>13
<1>16. \A y \in Trxs : GivenUp(P1[y], S1[y]) => GivenUp(P[y], S[y])
  BY <1>13, <1>14
<1>17. Keeps(o, L, o, L)
  BY KeepsSame
<1>18. Says(n, o, L, P1, S1, D, d, ll)
  BY <1>10, <1>12, <1>15, <1>16, <1>17, SaysStep
<1>. QED BY <1>1, <1>5, <1>7, <1>8, <1>9, <1>18, VerdictStep

\* process_commit_cut().
LEMMA VerdictCutSteps ==
    ASSUME VerdictInv, OrderInv, NEW n \in Nodes, ProcessCut(n)
    PROVE  VerdictInv'
<1>1. PICK i \in DOMAIN order :
        /\ LocalTurn(n, i)
        /\ cert' = [cert EXCEPT ![n] = purge_trxs_upto(@, order[i].cut)]
        /\ local_left' = [local_left EXCEPT ![n] = @ \cup {i}]
        /\ UNCHANGED <<order, threads, depends, apply_left, commit_left>>
  BY DEF ProcessCut, Leave
<1>2. IsOrder(order) /\ i \in 1..Len(order)
  BY SameOrder DEF OrderInv, IsOrder
<1>3. DOMAIN cert = Nodes /\ DOMAIN local_left = Nodes
  BY Domains DEF OrderInv
<1>4. /\ local_left'[n] = local_left[n] \cup {i} /\ cert'[n] = purge_trxs_upto(cert[n], order[i].cut)
      /\ \A m \in Nodes : m # n => local_left'[m] = local_left[m] /\ cert'[m] = cert[m]
  BY <1>1, <1>3
<1>5. UNCHANGED <<order, pc, state, depends, apply_left, commit_left, last_seen>>
  BY <1>1 DEF threads
<1>6. OnlyOn(n)
  BY <1>4, <1>5 DEF OnlyOn
<1>7. 1..(i - 1) \subseteq local_left[n]
  BY <1>1, Turns
<1>8. Says(n, order, last_seen, pc[n], state[n], depends[n], purge_trxs_upto(cert[n], order[i].cut),
           local_left[n] \cup {i})
  BY <1>2, <1>7, TheVerdict, TheNode, SaysCuts
<1>. QED BY <1>4, <1>5, <1>6, <1>8, VerdictStep

\* VerdictInv holds at the start.
LEMMA InitVerdictInv == Init => VerdictInv
<1>1. SUFFICES ASSUME Init, NEW n \in Nodes
               PROVE  /\ RefersTo(cert[n], PassedOn(n)) /\ cert[n].initial_position = 0
                      /\ \A x \in Trxs : VerdictOK(n, x)
  BY DEF VerdictInv
<1>2. /\ pc[n] = [x \in Trxs |-> "idle"] /\ depends[n] = [x \in Trxs |-> -1]
      /\ state[n] = [x \in Trxs |-> IF Source[x] = n THEN "EXECUTING" ELSE "REPLICATING"]
      /\ cert[n] = NewCertification(0)
  BY <1>1 DEF Init
<1>3. RefersTo(cert[n], PassedOn(n)) /\ cert[n].initial_position = 0
  <2>1. NewCertification(0).cert_index = <<>> /\ NewCertification(0).initial_position = 0
    BY DEF NewCertification, assign_initial_position
  <2>. QED BY <1>2, <2>1 DEF RefersTo
<1>4. ASSUME NEW x \in Trxs PROVE VerdictOK(n, x)
  <2>1. /\ pc[n][x] = "idle" /\ ~ (depends[n][x] >= 0)
        /\ state[n][x] \notin {"ABORTING", "ROLLED_BACK"}
    BY <1>2
  <2>. QED BY <2>1 DEF VerdictOK, Passed, GivenUp
<1>. QED BY <1>3, <1>4

\* VerdictInv is kept by every step, on top of OrderInv and ThreadInv.
LEMMA NextVerdictInv == VerdictInv /\ OrderInv /\ ThreadInv /\ [Next]_vars => VerdictInv'
<1>1. SUFFICES ASSUME VerdictInv, OrderInv, ThreadInv, [Next]_vars PROVE VerdictInv'
  OBVIOUS
<1>2. CASE UNCHANGED vars
  BY <1>1, <1>2, VerdictIdle DEF vars
<1>3. CASE Next
  <2>1. ASSUME NEW n \in Nodes, NEW x \in Trxs, Begin(n, x) \/ StartCommit(n, x) \/ ToiStart(n, x)
        PROVE  VerdictInv'
    BY <1>1, <2>1, VerdictEarlySteps
  <2>2. ASSUME NEW x \in Trxs, Send(x) PROVE VerdictInv'
    BY <1>1, <2>2, VerdictGroupSteps
  <2>3. ASSUME NEW n \in Nodes, NEW x \in Trxs, ClientStep(n, x) PROVE VerdictInv'
    <3>1. CASE ExecAborted(n, x) \/ Replicate(n, x) \/ Interrupted(n, x)
      BY <1>1, <3>1, VerdictEarlySteps
    <3>2. CASE \/ EnterApply(n, x) \/ ApplyInterrupted(n, x) \/ EnterCommit(n, x)
               \/ CommitInterrupted(n, x) \/ ServerCommit(n, x) \/ EngineCommit(n, x)
               \/ ToiExecute(n, x) \/ ReplayEnterCommit(n, x) \/ ReplayApply(n, x)
               \/ Rollback(n, x) \/ ReplayStart(n, x)
      BY <1>1, <3>2, VerdictLateSteps
    <3>3. CASE ReplayEnterApply(n, x)
      BY <1>1, <3>3, VerdictReplaySteps
    <3>. QED BY <2>3, <3>1, <3>2, <3>3 DEF ClientStep
  <2>4. ASSUME NEW n \in Nodes, NEW x \in Trxs, ApplierStep(n, x) PROVE VerdictInv'
    BY <1>1, <2>4, VerdictLateSteps
  <2>5. ASSUME NEW n \in Nodes, NEW x \in Trxs, NEW y \in Trxs, Kill(n, x, y) PROVE VerdictInv'
    BY <1>1, <2>5, VerdictAbortSteps
  <2>6. ASSUME NEW n \in Nodes, NEW x \in Trxs, CertificationStep(n, x) PROVE VerdictInv'
    BY <1>1, <2>6, VerdictTestSteps, VerdictFinishSteps DEF CertificationStep
  <2>7. ASSUME NEW n \in Nodes, ProcessCut(n) PROVE VerdictInv'
    BY <1>1, <2>7, VerdictCutSteps
  <2>8. ASSUME NEW n \in Nodes, SendReport(n) PROVE VerdictInv'
    BY <1>1, <2>8, VerdictGroupSteps
  <2>. QED BY <1>3, <2>1, <2>2, <2>3, <2>4, <2>5, <2>6, <2>7, <2>8 DEF Next, Progress
<1>. QED BY <1>1, <1>2, <1>3

\* A verdict stays true to the whole history of its node, though the index is purged
\* and keeps one write set for a key: who fails is refuted by a write set that has
\* passed on the node, and who passes is not, but for what a commit cut has purged or
\* a write set of its own node hides.
THEOREM VerdictInvariantHolds == Spec => []VerdictInv
<1>. QED BY InitVerdictInv, NextVerdictInv, OrderInvariantHolds, ThreadInvariantHolds, PTL DEF Spec

\* Two nodes disagree about x, which is ordered
Disputed(x) ==
    /\ Ordered(x)
    /\ \E n, m \in Nodes : Passed(n, x) /\ GivenUp(pc[m][x], state[m][x])

\* The first dispute would need a write set that one of the nodes does not know, which
\* is a dispute before it.
LEMMA NoFirstDispute ==
    ASSUME VerdictInv, LockInv, OrderInv, NotOvertaken, ShortKeysFirst, NEW x \in Trxs,
           \A y \in Trxs : Before(y, x) => ~ Disputed(y)
    PROVE  ~ Disputed(x)
<1>1. SUFFICES ASSUME Disputed(x) PROVE FALSE
  OBVIOUS
<1>2. PICK n \in Nodes, m \in Nodes : Passed(n, x) /\ GivenUp(pc[m][x], state[m][x])
  BY <1>1 DEF Disputed
<1>3. Ordered(x)
  BY <1>1 DEF Disputed
<1>4. Justified(n, x) /\ Refuted(m, x)
  BY <1>2, <1>3 DEF VerdictInv, VerdictOK
<1>5. \A y \in Trxs : Ordered(y) =>
         /\ IsOrder(order) /\ Has(order, y) /\ LocalSeqno(y) = Place(order, y)
         /\ GlobalSeqno(y) = Number(order, Place(order, y))
  BY TheWriteSet
<1>6. /\ \A y \in Trxs : last_seen[y] \in Nat \cup {-1}
      /\ \A y \in Trxs : Ordered(y) => GlobalSeqno(y) \in Nat
  BY <1>5, PlaceNumber DEF OrderInv, ValuesOK
<1>7. PICK r \in Trxs : ~ TOI(x) /\ Missed(m, r, x)
  <2>1. ~ (last_seen[x] < 0) /\ ~ (GlobalSeqno(x) - last_seen[x] > MaxLength)
    BY <1>3, <1>4, <1>6, MaxLengthAssumption DEF Justified
  <2>. QED BY <1>4, <2>1 DEF Refuted
<1>8. Passed(m, r) /\ Before(r, x) /\ Ordered(r) /\ GlobalSeqno(r) < GlobalSeqno(x)
  BY <1>7 DEF Missed, Before
<1>9. GlobalSeqno(r) > last_seen[x]
  BY <1>7 DEF Missed, Unseen, Trx
<1>10. Passed(n, r)
  <2>1. StandsAt(n, r, pc[n][r], state[n][r])
    BY StandsNow
  <2>2. 1..LocalSeqno(x) \subseteq local_left[n]
    <3>1. StandsAt(n, x, pc[n][x], state[n][x])
      BY StandsNow
    <3>. QED BY <1>2, <3>1, StandingPassed DEF StandsAt, Passed
  <2>3. LocalSeqno(r) \in local_left[n]
    <3>1. PICK a, b : a = LocalSeqno(r) /\ b = LocalSeqno(x)
      OBVIOUS
    <3>2. a \in 1..Len(order) /\ b \in 1..Len(order) /\ Len(order) \in Nat
      BY <1>3, <1>5, <1>8, <3>1, PlaceIs
    <3>3. ~ (b <= a)
      <4>1. SUFFICES ASSUME b <= a PROVE FALSE
        OBVIOUS
      <4>2. a \in 0..Len(order) /\ b \in 0..a /\ a \in Nat /\ IsOrder(order)
        BY <1>3, <1>5, <3>2, <4>1
      <4>3. Number(order, b) <= Number(order, a)
        BY <4>2, NumberIs
      <4>4. Number(order, a) < Number(order, b)
        BY <1>3, <1>5, <1>8, <3>1
      <4>5. Number(order, a) \in Nat /\ Number(order, b) \in Nat
        BY <1>3, <1>5, <1>6, <1>8, <3>1
      <4>. QED BY <4>3, <4>4, <4>5
    <3>4. a \in 1..b
      BY <3>2, <3>3
    <3>. QED BY <2>2, <3>1, <3>4
  <2>4. ~ Untested(pc[n][r], state[n][r])
    BY <1>8, <2>1, <2>3 DEF StandsAt, Standing
  <2>5. ~ GivenUp(pc[n][r], state[n][r])
    BY <1>8 DEF Disputed
  <2>6. UnderWay(pc[n][r], state[n][r]) \/ Ended(pc[n][r], state[n][r])
    BY <2>4, <2>5, WhereItIs
  <2>. QED BY <2>1, <2>6 DEF StandsAt, Standing, Passed
<1>11. Missed(n, r, x)
  BY <1>7, <1>10 DEF Missed
<1>12. GlobalSeqno(r) < CutBefore(x) \/ Hidden(n, x)
  BY <1>4, <1>7, <1>11 DEF Justified
<1>13. CASE GlobalSeqno(r) < CutBefore(x)
  <2>1. CutBefore(x) <= last_seen[x] + 1
    BY <1>3 DEF NotOvertaken
  <2>2. CutBefore(x) \in Nat
    <3>1. CutBefore(x) = CutAt(order, x)
      BY <1>3, <1>5 DEF CutBefore, CutAt
    <3>. QED BY <1>3, <1>5, <3>1, CutBounds
  <2>. QED BY <1>6, <1>8, <1>9, <1>13, <2>1, <2>2
<1>14. CASE Hidden(n, x)
  <2>1. PICK h \in Trxs : /\ Passed(n, h) /\ Before(h, x) /\ Source[h] = Source[x] /\ ~ TOI(h)
                          /\ Dependent(WriteSet[h], WriteSet[x]) /\ last_seen[x] < GlobalSeqno(h) - 1
    BY <1>14 DEF Hidden
  <2>2. Ordered(h) /\ GlobalSeqno(h) < GlobalSeqno(x)
    BY <2>1 DEF Before
  <2>3. h # x
    BY <1>3, <1>6, <2>2
  <2>4. Follows(h, x)
    BY <1>3, <1>7, <2>1, <2>2, <2>3 DEF Follows
  <2>5. ~ (last_seen[x] >= GlobalSeqno(h) - 1)
    BY <1>6, <2>1, <2>2
  <2>6. GivenUp(pc[Source[h]][h], state[Source[h]][h])
    BY <2>4, <2>5, SeesTurnsIs DEF LockInv
  <2>7. Source[h] \in Nodes
    BY ReplicatorAssumption
  <2>8. Disputed(h)
    BY <2>1, <2>2, <2>6, <2>7 DEF Disputed
  <2>. QED BY <2>1, <2>8
<1>. QED BY <1>12, <1>13, <1>14

\* There is no dispute.
LEMMA NoDispute ==
    ASSUME VerdictInv, LockInv, OrderInv, NotOvertaken, ShortKeysFirst, NEW x \in Trxs
    PROVE  ~ Disputed(x)
<1>1. SUFFICES ASSUME Disputed(x) PROVE FALSE
  OBVIOUS
<1>. DEFINE B == {GlobalSeqno(y) : y \in {z \in Trxs : Disputed(z)}}
<1>2. \A y \in Trxs : Ordered(y) => GlobalSeqno(y) \in Nat
  BY TheWriteSet, PlaceNumber
<1>3. B \in SUBSET Int /\ B # {} /\ \A k \in B : 0 <= k
  BY <1>1, <1>2 DEF Disputed
<1>4. Min(B) \in B /\ \A k \in B : Min(B) <= k
  <2>1. PICK b \in Int : b = 0
    OBVIOUS
  <2>2. \A k \in B : b <= k
    BY <1>3, <2>1
  <2>. HIDE DEF B
  <2>. QED BY <1>3, <2>2, MinExists
<1>5. PICK y \in Trxs : Disputed(y) /\ GlobalSeqno(y) = Min(B)
  BY <1>4
<1>6. ASSUME NEW z \in Trxs, Before(z, y) PROVE ~ Disputed(z)
  <2>1. SUFFICES ASSUME Disputed(z) PROVE FALSE
    OBVIOUS
  <2>2. GlobalSeqno(z) \in B
    BY <2>1
  <2>3. GlobalSeqno(y) <= GlobalSeqno(z)
    BY <1>4, <1>5, <2>2
  <2>4. GlobalSeqno(z) < GlobalSeqno(y) /\ GlobalSeqno(z) \in Nat /\ GlobalSeqno(y) \in Nat
    BY <1>2, <1>6 DEF Before
  <2>. QED BY <2>3, <2>4
<1>. QED BY <1>5, <1>6, NoFirstDispute

\* All nodes come to the same end for a write set, with tests out of order, replays
\* and purges at different times, as long as no commit cut overtakes a write set on
\* its way into the order (where one does, the run certification_cut shows that they
\* do not).
THEOREM SameOutcomeHolds ==
    ASSUME ShortKeysFirst
    PROVE  Spec => [](NotOvertaken => SameOutcome)
<1>1. VerdictInv /\ LockInv /\ OrderInv => (NotOvertaken => SameOutcome)
  <2>1. SUFFICES ASSUME VerdictInv, LockInv, OrderInv, NotOvertaken, NEW x \in Trxs, NEW n \in Nodes,
                        NEW m \in Nodes, Passed(n, x), Failed(m, x)
                 PROVE  FALSE
    BY DEF SameOutcome
  <2>2. GivenUp(pc[m][x], state[m][x]) /\ Ordered(x)
    BY <2>1, NotGivenUp DEF Failed
  <2>3. Disputed(x)
    BY <2>1, <2>2 DEF Disputed
  <2>. QED BY <2>1, <2>3, NoDispute
<1>. QED BY <1>1, VerdictInvariantHolds, LockInvariantHolds, OrderInvariantHolds, PTL

\* With it, certification may take the order of a node's own transactions for
\* granted whenever no commit cut overtakes a write set.
THEOREM OwnOrderKeptUnlessOvertaken ==
    ASSUME ShortKeysFirst
    PROVE  Spec => [](NotOvertaken => OwnOrderKept)
<1>. QED BY SameOutcomeHolds, OwnOrderKeptHolds, PTL

----------------------------------------------------------------------------
(* What a transaction has seen.                                            *)

\* A step of the thread of x on n takes no locks, and what it has written it has
\* written before, or while no locks are in its way.
LEMMA SeenStep ==
    ASSUME SeenInv, ThreadInv, NEW n \in Nodes, NEW x \in Trxs, NEW p, NEW s, Goes(n, x, p, s),
           UNCHANGED <<order, last_seen, seen>>,
           Source[x] = n /\ ~ TOI(x) /\ HoldsAt(p) => HoldsAt(pc[n][x]),
           p \in {"committed", "done"} /\ s # "ROLLED_BACK" => x \in Committed(n) \/ LocksFree(n, x),
           Source[x] # n /\ p = "commit" => pc[n][x] = "commit" \/ LocksFree(n, x),
           GivenUp(pc[n][x], state[n][x]) => GivenUp(p, s),
           Source[x] = n /\ p = "gcs" => pc[n][x] = "gcs",
           Source[x] = n => IF TOI(x) THEN p \notin {"ok", "engine"} ELSE p # "toi"
    PROVE  SeenInv'
<1>1. \A m \in Nodes, y \in Trxs :
         /\ pc'[m][y] = IF m = n /\ y = x THEN p ELSE pc[m][y]
         /\ state'[m][y] = IF m = n /\ y = x THEN s ELSE state[m][y]
  BY DEF ThreadInv, TypeOK, Goes
<1>2. \A y \in Trxs : Source[y] \in Nodes
  BY ReplicatorAssumption
<1>3. \A y : (Ordered(y)' <=> Ordered(y)) /\ GlobalSeqno(y)' = GlobalSeqno(y)
  BY DEF Ordered, GlobalSeqno, LocalSeqno, IsTrx
<1>4. \A y \in Trxs : /\ Holds(Source[y], y) <=> ~ TOI(y) /\ HoldsAt(pc[Source[y]][y])
                      /\ Holds(Source[y], y)' <=> ~ TOI(y) /\ HoldsAt(pc'[Source[y]][y])
  BY DEF Holds, HoldsAt, TOI
<1>5. \A r, y : LocksConflict(r, y)' <=> LocksConflict(r, y)
  BY DEF LocksConflict
<1>6. ASSUME NEW r \in Trxs, NEW y \in Trxs, r # y, ~ TOI(y), HoldsAt(pc'[Source[y]][y]),
             LocksConflict(r, y)
      PROVE  /\ pc'[Source[y]][r] \in {"committed", "done"} /\ state'[Source[y]][r] # "ROLLED_BACK" =>
                    r \in seen[y]
             /\ Source[r] # Source[y] => pc'[Source[y]][r] # "commit"
  <2>1. Holds(Source[y], y)
    BY <1>1, <1>2, <1>4, <1>6
  <2>2. /\ r \in Committed(Source[y]) => r \in seen[y]
        /\ Source[r] # Source[y] => pc[Source[y]][r] # "commit"
    BY <1>6, <2>1 DEF SeenInv, LocksKeepOut, At
  <2>3. CASE r = x /\ Source[y] = n
    <3>1. pc'[n][r] = p /\ state'[n][r] = s
      BY <1>1, <2>3
    <3>2. ~ LocksFree(n, x)
      BY <1>6, <2>1, <2>3 DEF LocksFree
    <3>. QED BY <2>2, <2>3, <3>1, <3>2
  <2>4. CASE ~ (r = x /\ Source[y] = n)
    <3>1. pc'[Source[y]][r] = pc[Source[y]][r] /\ state'[Source[y]][r] = state[Source[y]][r]
      BY <1>1, <1>2, <2>4
    <3>. QED BY <2>2, <3>1 DEF Committed, Is
  <2>. QED BY <2>3, <2>4
<1>7. LocksKeepOut'
  BY <1>4, <1>5, <1>6 DEF LocksKeepOut, Committed, At, Is
<1>8. ASSUME NEW r \in Trxs, NEW y \in Trxs, InThePast(r, y)'
      PROVE  GivenUp(pc'[Source[y]][r], state'[Source[y]][r]) \/ r \in seen[y]
  <2>1. pc'[Source[y]][y] = "gcs" => pc[Source[y]][y] = "gcs"
    BY <1>1, <1>2
  <2>2. InThePast(r, y)
    BY <1>3, <1>8, <2>1 DEF InThePast, At, TOI
  <2>3. GivenUp(pc[Source[y]][r], state[Source[y]][r]) \/ r \in seen[y]
    BY <2>2 DEF SeenInv, PastSeen
  <2>. QED BY <1>1, <1>2, <2>3
<1>9. PastSeen'
  BY <1>8 DEF PastSeen
<1>10. SeenBounds'
  <2>1. Count(Len(order))' = Count(Len(order))
    BY DEF Count, IsTrx
  <2>. QED BY <1>1, <1>2, <2>1 DEF SeenInv, SeenBounds, TOI
<1>11. seen' \in [Trxs -> SUBSET Trxs]
  BY DEF SeenInv
<1>. QED BY <1>7, <1>9, <1>10, <1>11 DEF SeenInv

\* Steps that concern no thread, nor the order.
LEMMA SeenIdle ==
    ASSUME SeenInv, UNCHANGED <<order, last_seen, seen, pc, state>>
    PROVE  SeenInv'
<1>1. \A y : (Ordered(y)' <=> Ordered(y)) /\ GlobalSeqno(y)' = GlobalSeqno(y)
  BY DEF Ordered, GlobalSeqno, LocalSeqno, IsTrx
<1>2. LocksKeepOut'
  BY DEF SeenInv, LocksKeepOut, Committed, At, Is, Holds, TOI, LocksConflict
<1>3. PastSeen'
  BY <1>1 DEF SeenInv, PastSeen, InThePast, At, TOI
<1>4. SeenBounds'
  <2>1. Count(Len(order))' = Count(Len(order))
    BY DEF Count, IsTrx
  <2>. QED BY <2>1 DEF SeenInv, SeenBounds, TOI
<1>5. seen' \in [Trxs -> SUBSET Trxs]
  BY DEF SeenInv
<1>. QED BY <1>2, <1>3, <1>4, <1>5 DEF SeenInv

\* A transaction is executed: it sees what is committed.
LEMMA SeenBegin ==
    ASSUME SeenInv, OrderInv, ThreadInv, NEW n \in Nodes, NEW x \in Trxs, Begin(n, x)
    PROVE  SeenInv'
<1>1. /\ Source[x] = n /\ pc[n][x] = "idle" /\ pc' = [pc EXCEPT ![n][x] = "exec"]
      /\ seen' = [seen EXCEPT ![x] = Committed(n)] /\ UNCHANGED <<order, state, last_seen>>
      /\ \A y \in Trxs : Source[y] # n /\ pc[n][y] = "commit" => ~ LocksConflict(x, y)
  BY DEF Begin, Startable, At
<1>2. /\ \A m \in Nodes, y \in Trxs : pc'[m][y] = IF m = n /\ y = x THEN "exec" ELSE pc[m][y]
      /\ \A y \in Trxs : Source[y] \in Nodes
  BY <1>1, ReplicatorAssumption DEF ThreadInv, TypeOK
<1>3. \A y \in Trxs : seen'[y] = IF y = x THEN Committed(n) ELSE seen[y]
  BY <1>1 DEF SeenInv
<1>4. \A y : (Ordered(y)' <=> Ordered(y)) /\ GlobalSeqno(y)' = GlobalSeqno(y)
  BY <1>1 DEF Ordered, GlobalSeqno, LocalSeqno, IsTrx
<1>5. ~ Ordered(x)
  <2>1. StandsAt(n, x, pc[n][x], state[n][x])
    BY StandsNow
  <2>. QED BY <1>1, <2>1 DEF StandsAt, Standing
<1>6. \A y \in Trxs : /\ Holds(Source[y], y) <=> ~ TOI(y) /\ HoldsAt(pc[Source[y]][y])
                      /\ Holds(Source[y], y)' <=> ~ TOI(y) /\ HoldsAt(pc'[Source[y]][y])
  BY DEF Holds, HoldsAt, TOI
<1>7. \A r, y : LocksConflict(r, y)' <=> LocksConflict(r, y)
  BY DEF LocksConflict
<1>8. ASSUME NEW r \in Trxs, NEW y \in Trxs, r # y, ~ TOI(y), HoldsAt(pc'[Source[y]][y]),
             LocksConflict(r, y)
      PROVE  /\ pc'[Source[y]][r] \in {"committed", "done"} /\ state[Source[y]][r] # "ROLLED_BACK" =>
                    r \in seen'[y]
             /\ Source[r] # Source[y] => pc'[Source[y]][r] # "commit"
  <2>1. CASE y = x
    <3>1. pc'[n][r] = pc[n][r] /\ LocksConflict(x, r)
      BY <1>2, <1>8, <2>1 DEF LocksConflict, Dependent
    <3>2. seen'[y] = Committed(n) /\ Source[y] = n
      BY <1>1, <1>3, <2>1
    <3>3. pc[n][r] \in {"committed", "done"} /\ state[n][r] # "ROLLED_BACK" => r \in Committed(n)
      BY DEF Committed, Is
    <3>4. Source[r] # n => pc[n][r] # "commit"
      BY <1>1, <3>1
    <3>. QED BY <3>1, <3>2, <3>3, <3>4
  <2>2. CASE y # x
    <3>1. Holds(Source[y], y)
      BY <1>2, <1>6, <1>8, <2>2
    <3>2. /\ r \in Committed(Source[y]) => r \in seen[y]
          /\ Source[r] # Source[y] => pc[Source[y]][r] # "commit"
      BY <1>8, <3>1 DEF SeenInv, LocksKeepOut, At
    <3>3. pc'[Source[y]][r] \in {pc[Source[y]][r], "exec"}
      BY <1>2
    <3>. QED BY <1>3, <2>2, <3>2, <3>3 DEF Committed, Is
  <2>. QED BY <2>1, <2>2
<1>9. LocksKeepOut'
  BY <1>1, <1>6, <1>7, <1>8 DEF LocksKeepOut, Committed, At, Is
<1>10. ASSUME NEW r \in Trxs, NEW y \in Trxs, InThePast(r, y)'
       PROVE  GivenUp(pc'[Source[y]][r], state[Source[y]][r]) \/ r \in seen'[y]
  <2>1. /\ pc'[Source[y]][y] = "gcs" => pc[Source[y]][y] = "gcs"
        /\ y = x => pc'[Source[y]][y] = "exec"
    BY <1>1, <1>2
  <2>2. y # x
    BY <1>4, <1>5, <1>10, <2>1 DEF InThePast, At
  <2>3. InThePast(r, y)
    BY <1>1, <1>4, <1>10, <2>1 DEF InThePast, At, TOI
  <2>4. GivenUp(pc[Source[y]][r], state[Source[y]][r]) \/ r \in seen[y]
    BY <2>3 DEF SeenInv, PastSeen
  <2>5. GivenUp(pc[Source[y]][r], state[Source[y]][r]) => pc'[Source[y]][r] = pc[Source[y]][r]
    BY <1>1, <1>2 DEF GivenUp
  <2>. QED BY <1>3, <2>2, <2>4, <2>5
<1>11. PastSeen'
  BY <1>1, <1>10 DEF PastSeen
<1>12. SeenBounds'
  <2>1. Count(Len(order))' = Count(Len(order))
    BY <1>1 DEF Count, IsTrx
  <2>. QED BY <1>1, <1>2, <2>1 DEF SeenInv, SeenBounds, TOI
<1>13. seen' \in [Trxs -> SUBSET Trxs]
  BY <1>1 DEF SeenInv, Committed
<1>. QED BY <1>9, <1>11, <1>12, <1>13 DEF SeenInv

\* A step of a local thread that commits nothing.
LEMMA SeenQuiet ==
    ASSUME SeenInv, ThreadInv, NEW n \in Nodes, NEW x \in Trxs, Source[x] = n, NEW p, NEW s,
           Goes(n, x, p, s), UNCHANGED <<order, last_seen, seen>>,
           ~ TOI(x) /\ HoldsAt(p) => HoldsAt(pc[n][x]),
           p # "committed", p = "done" => s = "ROLLED_BACK", p = "gcs" => pc[n][x] = "gcs",
           GivenUp(pc[n][x], state[n][x]) => GivenUp(p, s),
           IF TOI(x) THEN p \notin {"ok", "engine"} ELSE p # "toi"
    PROVE  SeenInv'
<1>1. p \in {"committed", "done"} /\ s # "ROLLED_BACK" => x \in Committed(n) \/ LocksFree(n, x)
  OBVIOUS
<1>2. Source[x] # n /\ p = "commit" => pc[n][x] = "commit" \/ LocksFree(n, x)
  OBVIOUS
<1>. QED BY <1>1, <1>2, SeenStep

\* COMMIT is asked for, or the transaction is rolled back.
LEMMA SeenStartSteps ==
    ASSUME SeenInv, ThreadInv, NEW n \in Nodes, NEW x \in Trxs,
           \/ StartCommit(n, x) \/ ToiStart(n, x) \/ ExecAborted(n, x) \/ Interrupted(n, x)
           \/ Rollback(n, x)
    PROVE  SeenInv'
<1>. USE DEF At
<1>1. UNCHANGED <<order, last_seen, seen>>
  BY DEF StartCommit, ToiStart, ExecAborted, Interrupted, Rollback, Only
<1>2. Source[x] = n
  <2>1. CASE Rollback(n, x)
    <3>1. pc[n][x] \notin ApplierPc
      BY <2>1 DEF Rollback, ApplierPc
    <3>. QED BY <3>1, LocalThread
  <2>2. CASE ~ Rollback(n, x)
    BY <2>2 DEF StartCommit, ToiStart, ExecAborted, Interrupted, Startable
  <2>. QED BY <2>1, <2>2
<1>3. CASE StartCommit(n, x) \/ ToiStart(n, x)
  <2>1. /\ Goes(n, x, "pre", "EXECUTING") /\ pc[n][x] \in {"idle", "exec"}
        /\ ~ TOI(x) => pc[n][x] = "exec" \/ TOI(x)
    BY <1>3 DEF StartCommit, ToiStart, Startable, Only
  <2>2. ~ GivenUp(pc[n][x], state[n][x]) /\ (~ TOI(x) => HoldsAt(pc[n][x]))
    BY <2>1 DEF GivenUp, HoldsAt
  <2>. QED BY <1>1, <1>2, <2>1, <2>2, SeenQuiet
<1>4. CASE Interrupted(n, x)
  <2>1. Goes(n, x, "fail", "ABORTING") /\ pc[n][x] = "gcs"
    BY <1>4 DEF Interrupted, Only
  <2>2. GivenUp("fail", "ABORTING") /\ HoldsAt(pc[n][x])
    BY <2>1 DEF GivenUp, HoldsAt
  <2>. QED BY <1>1, <1>2, <2>1, <2>2, SeenQuiet
<1>5. CASE ExecAborted(n, x) \/ Rollback(n, x)
  <2>1. Goes(n, x, "done", "ROLLED_BACK")
    BY <1>5 DEF ExecAborted, Rollback
  <2>2. GivenUp("done", "ROLLED_BACK") /\ ~ HoldsAt("done")
    BY <2>1 DEF GivenUp, HoldsAt
  <2>. QED BY <1>1, <1>2, <2>1, <2>2, SeenQuiet
<1>. QED BY <1>3, <1>4, <1>5

\* pre_commit(), until the engine commits: the locks are kept, or given up.
LEMMA SeenInsideSteps ==
    ASSUME SeenInv, ThreadInv, NEW n \in Nodes, NEW x \in Trxs,
           \/ EnterApply(n, x) \/ ApplyInterrupted(n, x) \/ EnterCommit(n, x)
           \/ CommitInterrupted(n, x) \/ ServerCommit(n, x)
           \/ Replicated(n, x) \/ CertLocal(n, x) \/ CertInterrupted(n, x)
    PROVE  SeenInv'
<1>. USE DEF At
<1>1. pc[n][x] \in {"gcs", "local", "apply", "commit", "ok"} /\ UNCHANGED <<order, last_seen, seen>>
  BY DEF EnterApply, ApplyInterrupted, EnterCommit, CommitInterrupted, ServerCommit,
         Replicated, CertLocal, CertInterrupted, Only, CertForAborted, Certify
<1>2. Source[x] = n
  <2>1. CASE ServerCommit(n, x)
    <3>1. pc[n][x] \notin ApplierPc
      BY <2>1 DEF ServerCommit, ApplierPc
    <3>. QED BY <3>1, LocalThread
  <2>2. CASE ~ ServerCommit(n, x)
    BY <2>2 DEF EnterApply, ApplyInterrupted, EnterCommit, CommitInterrupted, Replicated,
                CertLocal, CertInterrupted
  <2>. QED BY <2>1, <2>2
<1>3. HoldsAt(pc[n][x]) /\ ~ GivenUp(pc[n][x], state[n][x])
  BY <1>1 DEF HoldsAt, GivenUp
<1>4. CASE ServerCommit(n, x)
  <2>1. state = [state EXCEPT ![n][x] = state[n][x]]
    BY DEF ThreadInv, TypeOK
  <2>2. Goes(n, x, "engine", state[n][x]) /\ pc[n][x] = "ok"
    BY <1>4, <2>1 DEF ServerCommit, Goes
  <2>3. ~ TOI(x)
    BY <1>2, <2>2 DEF SeenInv, SeenBounds
  <2>. QED BY <1>1, <1>2, <1>3, <2>2, <2>3, SeenQuiet
<1>5. CASE EnterCommit(n, x)
  <2>1. \/ TOI(x) /\ Goes(n, x, "toi", "APPLYING")
        \/ Goes(n, x, "bf", "MUST_REPLAY")
        \/ ~ TOI(x) /\ Goes(n, x, "ok", "COMMITTING")
    BY <1>5 DEF EnterCommit, Only
  <2>2. CASE TOI(x) /\ Goes(n, x, "toi", "APPLYING")
    BY <1>1, <1>2, <1>3, <2>2, SeenQuiet
  <2>3. CASE Goes(n, x, "bf", "MUST_REPLAY")
    BY <1>1, <1>2, <1>3, <2>3, SeenQuiet
  <2>4. CASE ~ TOI(x) /\ Goes(n, x, "ok", "COMMITTING")
    BY <1>1, <1>2, <1>3, <2>4, SeenQuiet
  <2>. QED BY <2>1, <2>2, <2>3, <2>4
<1>6. CASE ~ ServerCommit(n, x) /\ ~ EnterCommit(n, x)
  <2>1. \E p \in {"fail", "commit", "bf", "local", "apply"} : \E s \in States : Goes(n, x, p, s)
    <3>1. CASE CertLocal(n, x)
      <4>1. \/ Goes(n, x, "bf", "MUST_REPLAY_AM") \/ Goes(n, x, "apply", "APPLYING")
            \/ Goes(n, x, "fail", "ABORTING")
        BY <3>1 DEF CertLocal, Certify
      <4>. QED BY <4>1 DEF States
    <3>2. CASE Replicated(n, x) \/ CertInterrupted(n, x)
      <4>1. \/ Goes(n, x, "fail", "ABORTING") \/ Goes(n, x, "bf", "MUST_CERT_AND_REPLAY")
            \/ Goes(n, x, "local", "CERTIFYING")
        BY <3>2 DEF Replicated, CertInterrupted, CertForAborted, Only
      <4>. QED BY <4>1 DEF States
    <3>3. CASE EnterApply(n, x) \/ ApplyInterrupted(n, x) \/ CommitInterrupted(n, x)
      <4>1. \/ Goes(n, x, "bf", "MUST_REPLAY_CM") \/ Goes(n, x, "commit", "COMMITTING")
            \/ Goes(n, x, "bf", "MUST_REPLAY_AM")
        BY <3>3 DEF EnterApply, ApplyInterrupted, CommitInterrupted, Only
      <4>. QED BY <4>1 DEF States
    <3>. QED BY <1>6, <3>1, <3>2, <3>3
  <2>2. PICK p \in {"fail", "commit", "bf", "local", "apply"} : \E s \in States : Goes(n, x, p, s)
    BY <2>1
  <2>3. PICK s \in States : Goes(n, x, p, s)
    BY <2>2
  <2>. QED BY <1>1, <1>2, <1>3, <2>3, SeenQuiet
<1>. QED BY <1>4, <1>5, <1>6

\* The replay, until it is applied: without locks.
LEMMA SeenReplaySteps ==
    ASSUME SeenInv, ThreadInv, NEW n \in Nodes, NEW x \in Trxs,
           \/ ReplayStart(n, x) \/ ReplayCert(n, x) \/ ReplayEnterApply(n, x)
           \/ ReplayEnterCommit(n, x)
    PROVE  SeenInv'
<1>. USE DEF At
<1>1. /\ pc[n][x] \in {"bf", "rlocal", "rapply", "rcommit"} /\ UNCHANGED <<order, last_seen, seen>>
  BY DEF ReplayStart, ReplayCert, ReplayEnterApply, ReplayEnterCommit, Certify, Only
<1>2. Source[x] = n /\ ~ GivenUp(pc[n][x], state[n][x])
  BY <1>1, LocalThread DEF ApplierPc, GivenUp
<1>3. \/ Goes(n, x, "rlocal", "CERTIFYING") \/ Goes(n, x, "rapply", "MUST_REPLAY_AM")
      \/ Goes(n, x, "rcommit", "MUST_REPLAY_CM") \/ Goes(n, x, "replaying", "REPLAYING")
      \/ Goes(n, x, "rfail", "ABORTING")
  <2>1. CASE ReplayStart(n, x)
    <3>1. state[n][x] \in {"MUST_CERT_AND_REPLAY", "MUST_REPLAY_AM", "MUST_REPLAY_CM", "MUST_REPLAY"}
      <4>1. pc[n][x] = "bf" /\ ThreadFine(n, x, pc[n][x], state[n][x], conflict[x])
        BY <2>1 DEF ReplayStart, ThreadInv, ThreadOK
      <4>. QED BY <1>2, <4>1 DEF ThreadFine, StatesAt
    <3>. QED BY <2>1, <3>1 DEF ReplayStart, Is
  <2>2. CASE ReplayCert(n, x)
    BY <2>2 DEF ReplayCert, Certify
  <2>3. CASE ReplayEnterApply(n, x) \/ ReplayEnterCommit(n, x)
    BY <2>3 DEF ReplayEnterApply, ReplayEnterCommit, Only
  <2>. QED BY <2>1, <2>2, <2>3
<1>4. PICK p \in {"rlocal", "rapply", "rcommit", "replaying", "rfail"},
           s \in {"CERTIFYING", "MUST_REPLAY_AM", "MUST_REPLAY_CM", "REPLAYING", "ABORTING"} :
        Goes(n, x, p, s)
  BY <1>3
<1>5. ~ HoldsAt(p)
  BY <1>4 DEF HoldsAt
<1>. QED BY <1>1, <1>2, <1>4, <1>5, SeenQuiet

\* A local transaction commits while it holds its locks, or when they are free.
LEMMA SeenCommitSteps ==
    ASSUME SeenInv, LockInv, VerdictInv, ThreadInv, NEW n \in Nodes, NEW x \in Trxs,
           EngineCommit(n, x) \/ ToiExecute(n, x) \/ ReplayApply(n, x) \/ PostCommit(n, x)
    PROVE  SeenInv'
<1>. USE DEF At
<1>1. pc[n][x] \in {"engine", "toi", "replaying", "committed"} /\ UNCHANGED <<order, last_seen, seen>>
  BY DEF EngineCommit, ToiExecute, ReplayApply, PostCommit, Only
<1>2. Source[x] = n
  <2>1. CASE PostCommit(n, x)
    BY <2>1 DEF PostCommit
  <2>2. CASE ~ PostCommit(n, x)
    <3>1. pc[n][x] \notin ApplierPc
      BY <2>2 DEF EngineCommit, ToiExecute, ReplayApply, ApplierPc
    <3>. QED BY <3>1, LocalThread
  <2>. QED BY <2>1, <2>2
<1>3. ~ GivenUp(pc[n][x], state[n][x]) /\ ~ HoldsAt("committed") /\ ~ HoldsAt("done")
  BY <1>1 DEF GivenUp, HoldsAt
<1>4. x \in Committed(n) \/ LocksFree(n, x)
  <2>1. CASE EngineCommit(n, x)
    <3>1. pc[n][x] = "engine"
      BY <2>1 DEF EngineCommit
    <3>2. ~ TOI(x)
      BY <1>2, <3>1 DEF SeenInv, SeenBounds
    <3>3. Holds(n, x)
      BY <1>2, <3>1, <3>2 DEF Holds
    <3>4. ASSUME NEW y \in Trxs \ {x}, Holds(n, y), LocksConflict(x, y) PROVE FALSE
      <4>1. Source[y] = n
        BY <3>4 DEF Holds
      <4>. QED BY <1>2, <3>3, <3>4, <4>1 DEF LockInv, LocksOK
    <3>. QED BY <3>4 DEF LocksFree
  <2>2. CASE ToiExecute(n, x) \/ ReplayApply(n, x)
    BY <2>2 DEF ToiExecute, ReplayApply
  <2>3. CASE PostCommit(n, x)
    <3>1. pc[n][x] = "committed" /\ state[n][x] # "ROLLED_BACK"
      BY <1>3, <2>3, NotGivenUp DEF PostCommit
    <3>. QED BY <3>1 DEF Committed, Is
  <2>. QED BY <2>1, <2>2, <2>3
<1>5. \/ Goes(n, x, "committed", state[n][x]) \/ Goes(n, x, "committed", "APPLYING")
      \/ Goes(n, x, "committed", "REPLAYING") \/ Goes(n, x, "done", "COMMITTED")
  BY DEF EngineCommit, ToiExecute, ReplayApply, PostCommit, Only
<1>6. PICK p \in {"committed", "done"}, s \in {state[n][x], "APPLYING", "REPLAYING", "COMMITTED"} :
        Goes(n, x, p, s)
  BY <1>5
<1>7. ~ HoldsAt(p) /\ p \notin {"commit", "gcs", "ok", "engine", "toi"}
  BY <1>3, <1>6
<1>. QED BY <1>1, <1>2, <1>3, <1>4, <1>6, <1>7, SeenStep

\* An applier writes when the locks it needs are free, and nobody takes them while it
\* waits for its turn to commit.
LEMMA SeenApplierSteps ==
    ASSUME SeenInv, VerdictInv, ThreadInv, NEW n \in Nodes, NEW x \in Trxs,
           ApplierStep(n, x) \/ RemoteCert(n, x) \/ RemoteDone(n, x)
    PROVE  SeenInv'
<1>. USE DEF At
<1>1. /\ Source[x] # n /\ UNCHANGED <<order, last_seen, seen>>
      /\ pc[n][x] \in {"idle", "apply", "applying", "commit", "committed"}
  <2>1. CASE RemoteApply(n, x)
    <3>1. pc[n][x] = "applying" /\ UNCHANGED <<order, last_seen, seen>>
      BY <2>1 DEF RemoteApply, Only
    <3>2. pc[n][x] \notin ClientPc
      BY <3>1 DEF ClientPc
    <3>. QED BY <3>1, <3>2, LocalThread
  <2>2. CASE ~ RemoteApply(n, x)
    BY <2>2 DEF ApplierStep, RemoteEnterApply, RemoteCommit, RemoteCert, RemoteDone, Only, Certify
  <2>. QED BY <2>1, <2>2
<1>2. ~ GivenUp(pc[n][x], state[n][x])
  BY <1>1 DEF GivenUp
<1>3. CASE RemoteEnterApply(n, x)
  <2>1. Goes(n, x, "applying", "APPLYING")
    BY <1>3 DEF RemoteEnterApply, Only
  <2>. QED BY <1>1, <1>2, <2>1, SeenStep
<1>4. CASE RemoteApply(n, x)
  <2>1. Goes(n, x, "commit", "APPLYING") /\ LocksFree(n, x)
    BY <1>4 DEF RemoteApply, Only
  <2>. QED BY <1>1, <1>2, <2>1, SeenStep
<1>5. CASE RemoteCommit(n, x)
  <2>1. Goes(n, x, "committed", "COMMITTING") /\ pc[n][x] = "commit"
    BY <1>5 DEF RemoteCommit, Only
  <2>2. ASSUME NEW y \in Trxs \ {x}, Holds(n, y), LocksConflict(x, y) PROVE FALSE
    <3>1. Source[y] = n
      BY <2>2 DEF Holds
    <3>. QED BY <1>1, <2>1, <2>2, <3>1 DEF SeenInv, LocksKeepOut
  <2>3. LocksFree(n, x)
    BY <2>2 DEF LocksFree
  <2>. QED BY <1>1, <1>2, <2>1, <2>3, SeenStep
<1>6. CASE RemoteCert(n, x)
  <2>1. Goes(n, x, "apply", "CERTIFYING") \/ Goes(n, x, "done", "ROLLED_BACK")
    BY <1>6 DEF RemoteCert, Certify
  <2>2. CASE Goes(n, x, "apply", "CERTIFYING")
    BY <1>1, <1>2, <2>2, SeenStep
  <2>3. CASE Goes(n, x, "done", "ROLLED_BACK")
    BY <1>1, <1>2, <2>3, SeenStep
  <2>. QED BY <2>1, <2>2, <2>3
<1>7. CASE RemoteDone(n, x)
  <2>1. Goes(n, x, "done", "COMMITTED") /\ pc[n][x] = "committed"
    BY <1>7 DEF RemoteDone
  <2>2. x \in Committed(n)
    BY <1>2, <2>1, NotGivenUp DEF Committed, Is
  <2>. QED BY <1>1, <1>2, <2>1, <2>2, SeenStep
<1>. QED BY <1>3, <1>4, <1>5, <1>6, <1>7 DEF ApplierStep

\* Who is aborted keeps its locks.
LEMMA SeenAbortSteps ==
    ASSUME SeenInv, ThreadInv, NEW n \in Nodes, NEW bf \in Trxs, NEW x \in Trxs, Kill(n, bf, x)
    PROVE  SeenInv'
<1>1. Holds(n, x) /\ UNCHANGED <<order, pc, last_seen, seen>>
  BY DEF Kill
<1>2. Source[x] = n /\ HoldsAt(pc[n][x])
  BY <1>1 DEF Holds, HoldsAt
<1>3. PICK s : Goes(n, x, pc[n][x], s)
  <2>1. pc = [pc EXCEPT ![n][x] = pc[n][x]] /\ state = [state EXCEPT ![n][x] = state[n][x]]
    BY DEF ThreadInv, TypeOK
  <2>2. \E s : state' = [state EXCEPT ![n][x] = s]
    <3>1. CASE QueryCommitting(n, x)
      BY <3>1 DEF Kill
    <3>2. CASE ~ QueryCommitting(n, x)
      BY <2>1, <3>2 DEF Kill
    <3>. QED BY <3>1, <3>2
  <2>. QED BY <1>1, <2>1, <2>2 DEF Goes
<1>4. pc[n][x] \notin {"committed", "done"} /\ (GivenUp(pc[n][x], state[n][x]) => GivenUp(pc[n][x], s))
  BY <1>2 DEF HoldsAt, GivenUp
<1>5. IF TOI(x) THEN pc[n][x] \notin {"ok", "engine"} ELSE pc[n][x] # "toi"
  BY <1>2 DEF SeenInv, SeenBounds
<1>. QED BY <1>1, <1>2, <1>3, <1>4, <1>5, SeenQuiet

\* What was ordered before a transaction that is replicated now, and either has left
\* the commit monitor or is kept apart from it by its locks, has been seen by it or is
\* given up.
LEMMA SeenBeforeReplicate ==
    ASSUME SeenInv, LockInv, VerdictInv, OrderInv, ThreadInv, NEW n \in Nodes, NEW x \in Trxs,
           Source[x] = n, pc[n][x] = "pre", ~ TOI(x), NEW r \in Trxs, r # x, Ordered(r),
           Dependent(WriteSet[r], WriteSet[x]),
           GlobalSeqno(r) <= LastLeft(commit_left[n]) \/ (Source[r] = n /\ ~ TOI(r))
    PROVE  GivenUp(pc[n][r], state[n][r]) \/ r \in seen[x]
<1>1. SUFFICES ASSUME ~ GivenUp(pc[n][r], state[n][r]) PROVE r \in seen[x]
  OBVIOUS
<1>2. Holds(n, x) /\ LocksConflict(r, x)
  BY DEF Holds, LocksConflict
<1>3. SUFFICES r \in Committed(n)
  BY <1>2 DEF SeenInv, LocksKeepOut
<1>4. StandsAt(n, r, pc[n][r], state[n][r])
  BY StandsNow
<1>5. CASE GlobalSeqno(r) <= LastLeft(commit_left[n])
  <2>1. IsOrder(order) /\ Has(order, r) /\ GlobalSeqno(r) = Number(order, Place(order, r))
    BY TheWriteSet
  <2>2. PICK g : g = GlobalSeqno(r)
    OBVIOUS
  <2>3. Number(order, Place(order, r)) \in 1..Number(order, Len(order))
    BY <2>1, PlaceNumber
  <2>4. Count(Len(order)) \in Nat /\ Count(Len(order)) = Number(order, Len(order))
    BY IndexBounded, SameOrder
  <2>5. g \in Nat /\ g >= 1
    BY <2>1, <2>2, <2>3, <2>4
  <2>6. PICK k \in Nat : commit_left[n] \subseteq 1..k
    BY IndexBounded DEF OrderInv, NodeOK, LeftOK
  <2>7. PICK m, l : m = commit_left[n] /\ l = LastLeft(m)
    OBVIOUS
  <2>8. l \in Nat /\ 1..l \subseteq m
    BY <2>6, <2>7, LastLeftIs
  <2>9. g \in commit_left[n]
    BY <1>5, <2>2, <2>5, <2>7, <2>8
  <2>10. ~ Untested(pc[n][r], state[n][r]) /\ ~ UnderWay(pc[n][r], state[n][r])
    BY <1>4, <2>2, <2>9 DEF StandsAt, Standing
  <2>11. Ended(pc[n][r], state[n][r])
    BY <1>1, <2>10, WhereItIs
  <2>. QED BY <2>11 DEF Ended, Committed, Is
<1>6. CASE Source[r] = n /\ ~ TOI(r)
  <2>1. ~ Holds(n, r) /\ (Replayed(pc[n][r]) => pc[n][x] = "exec")
    BY <1>2, <1>6 DEF LockInv, LocksOK, At
  <2>2. ~ HoldsAt(pc[n][r]) /\ ~ Replayed(pc[n][r])
    BY <1>6, <2>1 DEF Holds, HoldsAt
  <2>3. pc[n][r] \in ClientPc
    BY <1>6 DEF ThreadInv, ThreadOK, ThreadFine
  <2>4. pc[n][r] # "idle"
    BY <1>4, <1>6 DEF StandsAt, Standing
  <2>5. pc[n][r] # "toi"
    BY <1>6 DEF SeenInv, SeenBounds
  <2>6. pc[n][r] \in {"committed", "done"}
    BY <2>2, <2>3, <2>4, <2>5 DEF ClientPc, HoldsAt, Replayed
  <2>7. state[n][r] # "ROLLED_BACK"
    BY <1>1, NotGivenUp
  <2>. QED BY <2>6, <2>7 DEF Committed, Is
<1>. QED BY <1>5, <1>6

\* replicate(): the past of the transaction is fixed.
LEMMA SeenReplicateSteps ==
    ASSUME SeenInv, LockInv, VerdictInv, OrderInv, ThreadInv, NEW n \in Nodes, NEW x \in Trxs,
           Replicate(n, x)
    PROVE  SeenInv'
<1>1. /\ Source[x] = n /\ pc[n][x] = "pre" /\ UNCHANGED <<order, seen>>
      /\ \/ Goes(n, x, "fail", "ABORTING") /\ UNCHANGED last_seen
         \/ /\ Goes(n, x, "gcs", "REPLICATING")
            /\ last_seen' = [last_seen EXCEPT ![x] = LastLeft(commit_left[n])]
  BY DEF Replicate, At
<1>2. HoldsAt(pc[n][x]) /\ ~ GivenUp(pc[n][x], state[n][x])
  BY <1>1 DEF HoldsAt, GivenUp
<1>3. CASE Goes(n, x, "fail", "ABORTING") /\ UNCHANGED last_seen
  BY <1>1, <1>2, <1>3, SeenQuiet
<1>4. CASE /\ Goes(n, x, "gcs", "REPLICATING")
           /\ last_seen' = [last_seen EXCEPT ![x] = LastLeft(commit_left[n])]
  <2>1. \A m \in Nodes, y \in Trxs :
           /\ pc'[m][y] = IF m = n /\ y = x THEN "gcs" ELSE pc[m][y]
           /\ state'[m][y] = IF m = n /\ y = x THEN "REPLICATING" ELSE state[m][y]
    BY <1>4 DEF ThreadInv, TypeOK, Goes
  <2>2. \A y \in Trxs : Source[y] \in Nodes
    BY ReplicatorAssumption
  <2>3. \A y : (Ordered(y)' <=> Ordered(y)) /\ GlobalSeqno(y)' = GlobalSeqno(y)
    BY <1>1 DEF Ordered, GlobalSeqno, LocalSeqno, IsTrx
  <2>4. ~ Ordered(x)
    <3>1. StandsAt(n, x, pc[n][x], state[n][x])
      BY StandsNow
    <3>. QED BY <1>1, <3>1 DEF StandsAt, Standing
  <2>5. \A y \in Trxs : last_seen'[y] = IF y = x THEN LastLeft(commit_left[n]) ELSE last_seen[y]
    BY <1>4 DEF OrderInv, ValuesOK
  <2>6. LocksKeepOut'
    <3>1. \A y \in Trxs : Holds(Source[y], y)' <=> Holds(Source[y], y)
      BY <1>1, <2>1, <2>2 DEF Holds, TOI
    <3>2. \A r, y : LocksConflict(r, y)' <=> LocksConflict(r, y)
      BY DEF LocksConflict
    <3>3. \A m \in Nodes, r \in Trxs : /\ r \in Committed(m)' => r \in Committed(m)
                                       /\ pc'[m][r] = "commit" => pc[m][r] = "commit"
      BY <2>1 DEF Committed, Is
    <3>. QED BY <1>1, <2>2, <3>1, <3>2, <3>3 DEF SeenInv, LocksKeepOut, At
  <2>7. ASSUME NEW r \in Trxs, NEW y \in Trxs, InThePast(r, y)'
        PROVE  GivenUp(pc'[Source[y]][r], state'[Source[y]][r]) \/ r \in seen[y]
    <3>1. /\ r # y /\ ~ TOI(y) /\ Dependent(WriteSet[r], WriteSet[y]) /\ Ordered(r)
          /\ Ordered(y) \/ pc'[Source[y]][y] = "gcs"
          /\ \/ GlobalSeqno(r) <= last_seen'[y]
             \/ Source[r] = Source[y] /\ ~ TOI(r) /\ (Ordered(y) => GlobalSeqno(r) < GlobalSeqno(y))
      BY <2>3, <2>7 DEF InThePast, At, TOI
    <3>2. r # x
      BY <2>4, <3>1
    <3>3. pc'[Source[y]][r] = pc[Source[y]][r] /\ state'[Source[y]][r] = state[Source[y]][r]
      BY <2>1, <2>2, <3>2
    <3>4. CASE y = x
      <4>1. GlobalSeqno(r) <= LastLeft(commit_left[n]) \/ (Source[r] = n /\ ~ TOI(r))
        BY <1>1, <2>5, <3>1, <3>4
      <4>2. GivenUp(pc[n][r], state[n][r]) \/ r \in seen[x]
        BY <1>1, <3>1, <3>4, <4>1, SeenBeforeReplicate
      <4>. QED BY <1>1, <3>3, <3>4, <4>2
    <3>5. CASE y # x
      <4>1. last_seen'[y] = last_seen[y] /\ pc'[Source[y]][y] = pc[Source[y]][y]
        BY <2>1, <2>2, <2>5, <3>5
      <4>2. InThePast(r, y)
        BY <3>1, <4>1 DEF InThePast, At
      <4>. QED BY <3>3, <4>2 DEF SeenInv, PastSeen
    <3>. QED BY <3>4, <3>5
  <2>8. PastSeen'
    BY <1>1, <2>7 DEF PastSeen
  <2>9. SeenBounds'
    <3>1. Count(Len(order))' = Count(Len(order))
      BY <1>1 DEF Count, IsTrx
    <3>2. PICK k \in Nat : k = Count(Len(order)) /\ commit_left[n] \subseteq 1..k
      BY IndexBounded DEF OrderInv, NodeOK, LeftOK
    <3>3. PICK l : l = LastLeft(commit_left[n])
      OBVIOUS
    <3>4. l \in Nat /\ 1..l \subseteq 1..k
      BY <3>2, <3>3, LastLeftIs
    <3>5. l <= k
      BY <3>2, <3>4
    <3>6. \A y \in Trxs : last_seen'[y] <= Count(Len(order))
      BY <2>5, <3>2, <3>3, <3>5 DEF SeenInv, SeenBounds
    <3>. QED BY <1>1, <2>1, <2>2, <3>1, <3>6 DEF SeenInv, SeenBounds, TOI
  <2>10. seen' \in [Trxs -> SUBSET Trxs]
    BY <1>1 DEF SeenInv
  <2>. QED BY <2>6, <2>8, <2>9, <2>10 DEF SeenInv
<1>. QED BY <1>1, <1>3, <1>4

\* The group appends to the order: who gets its place is in nobody's past.
LEMMA SeenReceive ==
    ASSUME SeenInv, LockInv, OrderInv, NEW e \in [cut : 0..MaxCut, trx : Trxs \cup {"none"}],
           e.cut = 0 => /\ e.trx \in Trxs /\ ~ Ordered(e.trx)
                        /\ pc[Source[e.trx]][e.trx] = "gcs",
           order' = Append(order, e), UNCHANGED <<pc, state, last_seen, seen>>
    PROVE  SeenInv'
<1>1. IsOrder(order) /\ (e.cut = 0 => ~ Has(order, e.trx))
  BY SameOrder DEF OrderInv
<1>2. Longer(order', order, e)
  BY DEF Longer
<1>3. IsOrder(order')
  BY <1>1, <1>2, OrderGrows
<1>4. PICK o, q : o = order /\ q = order'
  OBVIOUS
<1>5. /\ Len(q) = Len(o) + 1 /\ Len(o) \in Nat
      /\ \A i \in 0..Len(o) : Number(q, i) = Number(o, i)
      /\ Number(q, Len(q)) = Number(o, Len(o)) + (IF e.cut = 0 THEN 1 ELSE 0)
      /\ \A x : Has(o, x) => Has(q, x) /\ Place(q, x) = Place(o, x)
      /\ \A x : Has(q, x) /\ ~ Has(o, x) => e.cut = 0 /\ e.trx = x /\ Place(q, x) = Len(q)
  BY <1>1, <1>2, <1>3, <1>4, AppendOrder
<1>6. /\ Count(Len(order)) = Number(o, Len(o)) /\ Number(o, Len(o)) \in Nat
      /\ Count(Len(order))' = Number(q, Len(q))
  <2>1. Number(o, Len(o)) \in Nat
    BY <1>1, <1>4, <1>5, NumberIs
  <2>2. Count(Len(order))' = Number(order', Len(order'))
    BY SameOrderNext
  <2>. QED BY <1>4, <2>1, <2>2, SameOrder
<1>7. ASSUME NEW x, Ordered(x)
      PROVE  /\ Ordered(x)' /\ GlobalSeqno(x)' = GlobalSeqno(x) /\ GlobalSeqno(x) \in Nat
             /\ GlobalSeqno(x) <= Number(o, Len(o))
  <2>1. Has(o, x)
    BY <1>4, <1>7, SameOrder
  <2>2. Place(o, x) \in 0..Len(o)
    BY <1>1, <1>4, <2>1, PlaceIs
  <2>3. Number(o, Place(o, x)) \in 1..Number(o, Len(o))
    BY <1>1, <1>4, <2>1, PlaceNumber
  <2>4. Has(q, x) /\ Number(q, Place(q, x)) = Number(o, Place(o, x))
    BY <1>5, <2>1, <2>2
  <2>5. Ordered(x)' /\ GlobalSeqno(x)' = Number(q, Place(q, x)) /\ GlobalSeqno(x) = Number(o, Place(o, x))
    BY <1>4, <2>4, SameOrder, SameOrderNext
  <2>. QED BY <1>6, <2>3, <2>4, <2>5
<1>8. ASSUME NEW x, Ordered(x)', ~ Ordered(x)
      PROVE  e.cut = 0 /\ e.trx = x /\ GlobalSeqno(x)' = Number(o, Len(o)) + 1
  <2>1. Has(q, x) /\ ~ Has(o, x)
    BY <1>4, <1>8, SameOrder, SameOrderNext
  <2>2. GlobalSeqno(x)' = Number(q, Place(q, x))
    BY <1>4, SameOrderNext
  <2>. QED BY <1>5, <2>1, <2>2
<1>9. LocksKeepOut'
  BY DEF SeenInv, LocksKeepOut, Committed, At, Is, Holds, TOI, LocksConflict
<1>10. \A x \in Trxs : last_seen[x] \in Int /\ last_seen[x] <= Number(o, Len(o))
  BY <1>6 DEF SeenInv, SeenBounds, OrderInv, ValuesOK
<1>11. ASSUME NEW r \in Trxs, NEW x \in Trxs, InThePast(r, x)'
       PROVE  GivenUp(pc[Source[x]][r], state[Source[x]][r]) \/ r \in seen[x]
  <2>1. /\ r # x /\ ~ TOI(x) /\ Dependent(WriteSet[r], WriteSet[x]) /\ Ordered(r)'
        /\ Ordered(x)' \/ pc[Source[x]][x] = "gcs"
        /\ \/ GlobalSeqno(r)' <= last_seen[x]
           \/ Source[r] = Source[x] /\ ~ TOI(r) /\ (Ordered(x)' => GlobalSeqno(r)' < GlobalSeqno(x)')
    BY <1>11 DEF InThePast, At, TOI
  <2>2. CASE Ordered(r)
    <3>1. GlobalSeqno(r)' = GlobalSeqno(r)
      BY <1>7, <2>2
    <3>2. Ordered(x) => Ordered(x)' /\ GlobalSeqno(x)' = GlobalSeqno(x)
      BY <1>7
    <3>3. Ordered(x) \/ pc[Source[x]][x] = "gcs"
      BY <1>8, <2>1
    <3>4. InThePast(r, x)
      BY <2>1, <2>2, <3>1, <3>2, <3>3 DEF InThePast, At
    <3>. QED BY <3>4 DEF SeenInv, PastSeen
  <2>3. CASE ~ Ordered(r)
    <3>1. e.cut = 0 /\ e.trx = r /\ GlobalSeqno(r)' = Number(o, Len(o)) + 1
      BY <1>8, <2>1, <2>3
    <3>2. ~ (GlobalSeqno(r)' <= last_seen[x])
      BY <1>6, <1>10, <3>1
    <3>3. Source[r] = Source[x] /\ ~ TOI(r) /\ (Ordered(x)' => GlobalSeqno(r)' < GlobalSeqno(x)')
      BY <2>1, <3>2
    <3>4. ~ Ordered(x)
      <4>1. SUFFICES ASSUME Ordered(x) PROVE FALSE
        OBVIOUS
      <4>2. GlobalSeqno(x)' \in Nat /\ GlobalSeqno(x)' <= Number(o, Len(o)) /\ Ordered(x)'
        BY <1>7, <4>1
      <4>. QED BY <1>6, <3>1, <3>3, <4>2
    <3>5. ~ Ordered(x)'
      BY <1>8, <2>1, <3>1, <3>4
    <3>6. pc[Source[x]][x] = "gcs" /\ pc[Source[r]][r] = "gcs"
      BY <2>1, <3>1, <3>5
    <3>7. Holds(Source[x], x) /\ Holds(Source[r], r) /\ LocksConflict(r, x)
      BY <2>1, <3>3, <3>6 DEF Holds, LocksConflict
    <3>. QED BY <2>1, <3>3, <3>7 DEF LockInv, LocksOK
  <2>. QED BY <2>2, <2>3
<1>12. PastSeen'
  BY <1>11 DEF PastSeen
<1>13. SeenBounds'
  <2>1. Number(q, Len(q)) >= Number(o, Len(o)) /\ Number(q, Len(q)) \in Nat
    BY <1>5, <1>6
  <2>2. \A x \in Trxs : last_seen[x] <= Number(q, Len(q))
    BY <1>6, <1>10, <2>1
  <2>3. \A x \in Trxs : last_seen'[x] <= Count(Len(order))'
    BY <1>6, <2>2
  <2>. QED BY <2>3 DEF SeenInv, SeenBounds, TOI
<1>14. seen' \in [Trxs -> SUBSET Trxs]
  BY DEF SeenInv
<1>. QED BY <1>9, <1>12, <1>13, <1>14 DEF SeenInv

\* The group's steps.
LEMMA SeenGroupSteps ==
    ASSUME SeenInv, LockInv, OrderInv,
           (\E x \in Trxs : Send(x)) \/ (\E n \in Nodes : SendReport(n))
    PROVE  SeenInv'
<1>1. ASSUME NEW x \in Trxs, Send(x) PROVE SeenInv'
  <2>1. PICK e : e = [cut |-> 0, trx |-> x]
    OBVIOUS
  <2>2. e \in [cut : 0..MaxCut, trx : Trxs \cup {"none"}] /\ e.cut = 0 /\ e.trx = x
    BY <2>1, ReplicatorAssumption
  <2>3. /\ pc[Source[x]][x] = "gcs" /\ ~ Ordered(x) /\ order' = Append(order, e)
        /\ UNCHANGED <<pc, state, last_seen, seen>>
    BY <1>1, <2>1 DEF Send, At, threads
  <2>. QED BY <2>2, <2>3, SeenReceive
<1>2. ASSUME NEW n \in Nodes, SendReport(n) PROVE SeenInv'
  <2>1. UNCHANGED <<pc, state, last_seen, seen>>
    BY <1>2 DEF SendReport, threads
  <2>2. CASE UNCHANGED order
    BY <2>1, <2>2, SeenIdle
  <2>3. CASE ~ UNCHANGED order
    <3>1. PICK e \in [cut : 0..MaxCut, trx : Trxs \cup {"none"}] :
            e.cut # 0 /\ order' = Append(order, e)
      BY <1>2, <2>3, ReportSends
    <3>. QED BY <2>1, <3>1, SeenReceive
  <2>. QED BY <2>2, <2>3
<1>. QED BY <1>1, <1>2

\* SeenInv holds at the start.
LEMMA InitSeenInv == Init => SeenInv
<1>1. SUFFICES ASSUME Init PROVE SeenInv
  OBVIOUS
<1>2. \A x \in Trxs : pc[Source[x]][x] = "idle" /\ ~ Ordered(x) /\ last_seen[x] = -1
  BY <1>1, ReplicatorAssumption DEF Init, Ordered
<1>3. \A x \in Trxs : ~ Holds(Source[x], x)
  BY <1>2 DEF Holds
<1>4. LocksKeepOut /\ PastSeen
  BY <1>2, <1>3 DEF LocksKeepOut, PastSeen, InThePast
<1>5. Count(Len(order)) = 0
  <2>1. {j \in 1..Len(order) : IsTrx(j)} = {}
    BY <1>1 DEF Init
  <2>. QED BY <2>1, FS_EmptySet DEF Count
<1>6. SeenBounds
  BY <1>2, <1>5 DEF SeenBounds
<1>7. seen \in [Trxs -> SUBSET Trxs]
  BY <1>1 DEF Init
<1>. QED BY <1>4, <1>6, <1>7 DEF SeenInv

\* SeenInv is kept by every step, on top of the others.
LEMMA NextSeenInv ==
    SeenInv /\ VerdictInv /\ LockInv /\ OrderInv /\ ThreadInv /\ [Next]_vars => SeenInv'
<1>1. SUFFICES ASSUME SeenInv, VerdictInv, LockInv, OrderInv, ThreadInv, [Next]_vars PROVE SeenInv'
  OBVIOUS
<1>2. CASE UNCHANGED vars
  BY <1>1, <1>2, SeenIdle DEF vars
<1>3. CASE Next
  <2>1. ASSUME NEW n \in Nodes, NEW x \in Trxs, Begin(n, x) \/ StartCommit(n, x) \/ ToiStart(n, x)
        PROVE  SeenInv'
    BY <1>1, <2>1, SeenBegin, SeenStartSteps
  <2>2. ASSUME NEW x \in Trxs, Send(x) PROVE SeenInv'
    BY <1>1, <2>2, SeenGroupSteps
  <2>3. ASSUME NEW n \in Nodes, NEW x \in Trxs, ClientStep(n, x) PROVE SeenInv'
    <3>1. CASE ExecAborted(n, x) \/ Interrupted(n, x) \/ Rollback(n, x)
      BY <1>1, <3>1, SeenStartSteps
    <3>2. CASE Replicate(n, x)
      BY <1>1, <3>2, SeenReplicateSteps
    <3>3. CASE \/ EnterApply(n, x) \/ ApplyInterrupted(n, x) \/ EnterCommit(n, x)
               \/ CommitInterrupted(n, x) \/ ServerCommit(n, x)
      BY <1>1, <3>3, SeenInsideSteps
    <3>4. CASE EngineCommit(n, x) \/ ToiExecute(n, x) \/ ReplayApply(n, x)
      BY <1>1, <3>4, SeenCommitSteps
    <3>5. CASE ReplayStart(n, x) \/ ReplayEnterApply(n, x) \/ ReplayEnterCommit(n, x)
      BY <1>1, <3>5, SeenReplaySteps
    <3>. QED BY <2>3, <3>1, <3>2, <3>3, <3>4, <3>5 DEF ClientStep
  <2>4. ASSUME NEW n \in Nodes, NEW x \in Trxs, ApplierStep(n, x) PROVE SeenInv'
    BY <1>1, <2>4, SeenApplierSteps
  <2>5. ASSUME NEW n \in Nodes, NEW x \in Trxs, NEW y \in Trxs, Kill(n, x, y) PROVE SeenInv'
    BY <1>1, <2>5, SeenAbortSteps
  <2>6. ASSUME NEW n \in Nodes, NEW x \in Trxs, CertificationStep(n, x) PROVE SeenInv'
    <3>1. CASE Replicated(n, x) \/ CertLocal(n, x) \/ CertInterrupted(n, x)
      BY <1>1, <3>1, SeenInsideSteps
    <3>2. CASE ReplayCert(n, x)
      BY <1>1, <3>2, SeenReplaySteps
    <3>3. CASE RemoteCert(n, x) \/ RemoteDone(n, x)
      BY <1>1, <3>3, SeenApplierSteps
    <3>4. CASE PostCommit(n, x)
      BY <1>1, <3>4, SeenCommitSteps
    <3>. QED BY <2>6, <3>1, <3>2, <3>3, <3>4 DEF CertificationStep
  <2>7. ASSUME NEW n \in Nodes, ProcessCut(n) PROVE SeenInv'
    BY <1>1, <2>7, SeenIdle DEF ProcessCut, threads
  <2>8. ASSUME NEW n \in Nodes, SendReport(n) PROVE SeenInv'
    BY <1>1, <2>8, SeenGroupSteps
  <2>. QED BY <1>3, <2>1, <2>2, <2>3, <2>4, <2>5, <2>6, <2>7, <2>8 DEF Next, Progress
<1>. QED BY <1>1, <1>2, <1>3

\* A transaction that holds locks has seen all that is committed on its node and that
\* conflicts with them, and one that is replicated has seen what is in its past, but for
\* what was given up.
THEOREM SeenInvariantHolds == Spec => []SeenInv
<1>. QED BY InitSeenInv, NextSeenInv, VerdictInvariantHolds, LockInvariantHolds,
            OrderInvariantHolds, ThreadInvariantHolds, PTL DEF Spec

\* First committer wins, as long as no commit cut overtakes a write set: what a
\* transaction that passed has not seen is in conflict with nothing it holds.
THEOREM SeesConflictingHolds ==
    ASSUME ShortKeysFirst
    PROVE  Spec => [](NotOvertaken => SeesConflicting)
<1>1. SeenInv /\ VerdictInv /\ LockInv /\ OrderInv => (NotOvertaken => SeesConflicting)
  <2>1. SUFFICES ASSUME SeenInv, VerdictInv, LockInv, OrderInv, NotOvertaken,
                        NEW x \in Trxs, NEW r \in Trxs, Passed(Source[x], x), ~ TOI(x), Before(r, x),
                        Passed(Source[x], r), Writes(WriteSet[r], WriteSet[x])
                 PROVE  r \in seen[x]
    BY DEF SeesConflicting
  <2>2. PICK n \in Nodes : n = Source[x]
    BY ReplicatorAssumption
  <2>3. Ordered(r) /\ Ordered(x) /\ GlobalSeqno(r) < GlobalSeqno(x)
    BY <2>1 DEF Before
  <2>4. /\ \A y \in Trxs : last_seen[y] \in Nat \cup {-1}
        /\ \A y \in Trxs : Ordered(y) => GlobalSeqno(y) \in Nat
    <3>1. \A y \in Trxs : Ordered(y) =>
             /\ IsOrder(order) /\ Has(order, y) /\ GlobalSeqno(y) = Number(order, Place(order, y))
      BY <2>1, TheWriteSet
    <3>2. \A y \in Trxs : Ordered(y) => GlobalSeqno(y) \in Nat
      BY <3>1, PlaceNumber
    <3>. QED BY <2>1, <3>2 DEF OrderInv, ValuesOK
  <2>5. r # x
    BY <2>3, <2>4
  <2>6. ~ GivenUp(pc[n][r], state[n][r])
    <3>1. StandsAt(n, r, pc[n][r], state[n][r])
      BY <2>1, StandsNow
    <3>. QED BY <2>1, <2>2, <3>1, StandingPassed, WhereItIs DEF StandsAt, Passed
  <2>7. ~ Unseen(Trx(r), Trx(x))
    <3>1. SUFFICES ASSUME Unseen(Trx(r), Trx(x)) PROVE FALSE
      OBVIOUS
    <3>2. Missed(n, r, x) /\ Justified(n, x)
      BY <2>1, <2>2, <3>1 DEF Missed, VerdictInv, VerdictOK
    <3>3. GlobalSeqno(r) < CutBefore(x) \/ Hidden(n, x)
      BY <2>1, <3>2 DEF Justified
    <3>4. CASE GlobalSeqno(r) < CutBefore(x)
      <4>1. CutBefore(x) <= last_seen[x] + 1
        BY <2>1, <2>3 DEF NotOvertaken
      <4>2. IsOrder(order) /\ Has(order, x) /\ LocalSeqno(x) = Place(order, x)
        BY <2>1, <2>3, TheWriteSet
      <4>3. CutBefore(x) \in Nat
        <5>1. CutBefore(x) = CutAt(order, x)
          BY <4>2 DEF CutBefore, CutAt
        <5>. QED BY <4>2, <5>1, CutBounds
      <4>4. GlobalSeqno(r) > last_seen[x]
        BY <3>1 DEF Unseen, Trx
      <4>. QED BY <2>3, <2>4, <3>4, <4>1, <4>3, <4>4
    <3>5. CASE Hidden(n, x)
      <4>1. PICK h \in Trxs : /\ Passed(n, h) /\ Before(h, x) /\ Source[h] = Source[x] /\ ~ TOI(h)
                              /\ Dependent(WriteSet[h], WriteSet[x])
                              /\ last_seen[x] < GlobalSeqno(h) - 1
        BY <3>5 DEF Hidden
      <4>2. Ordered(h) /\ GlobalSeqno(h) < GlobalSeqno(x)
        BY <4>1 DEF Before
      <4>3. h # x /\ ~ (last_seen[x] >= GlobalSeqno(h) - 1)
        BY <2>3, <2>4, <4>1, <4>2
      <4>4. Follows(h, x)
        BY <2>1, <2>3, <4>1, <4>2, <4>3 DEF Follows
      <4>5. GivenUp(pc[Source[h]][h], state[Source[h]][h])
        BY <2>1, <4>3, <4>4, SeesTurnsIs DEF LockInv
      <4>6. Disputed(h)
        BY <2>2, <4>1, <4>2, <4>5 DEF Disputed
      <4>. QED BY <2>1, <4>6, NoDispute
    <3>. QED BY <3>3, <3>4, <3>5
  <2>8. InThePast(r, x)
    <3>1. GlobalSeqno(r) <= last_seen[x] \/ (Source[r] = Source[x] /\ ~ TOI(r))
      <4>1. GlobalSeqno(r) \in Nat /\ last_seen[x] \in Int
        BY <2>3, <2>4
      <4>. QED BY <2>7, <4>1 DEF Unseen, Trx, TOI
    <3>. QED BY <2>1, <2>3, <2>5, <3>1 DEF InThePast, Dependent
  <2>. QED BY <2>1, <2>2, <2>6, <2>8 DEF SeenInv, PastSeen
<1>. QED BY <1>1, SeenInvariantHolds, VerdictInvariantHolds, LockInvariantHolds, OrderInvariantHolds,
            PTL
============================================================================
