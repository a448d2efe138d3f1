------------------------------ MODULE GcsConn -------------------------------
(***************************************************************************)
(* GCS connections (gcs_conn_t, gcs/src/gcs.c) of the members of a group:  *)
(* the connection state, flow control, and the SYNC and JOIN messages.     *)
(*                                                                         *)
(* Every process has the receiving thread gcs_recv_thread(), application   *)
(* threads that take actions from recv_q in gcs_recv(), threads that       *)
(* replicate actions, and one that runs the state transfers.  fc_lock is   *)
(* held while a flow control message is sent; the lock of recv_q is held   *)
(* while a thread that has found such a message due waits for fc_lock.     *)
(*                                                                         *)
(* Below the connection is what GcsCore models in detail, here only as far *)
(* as a connection can tell: messages in one total order, a new component  *)
(* (COMP) that stops senders until the state exchange has ended (CONF) and *)
(* swallows what is sent meanwhile, and the status of every member.        *)
(***************************************************************************)
EXTENDS Integers, Sequences, FiniteSets, FiniteSetsExt

CONSTANTS
    Procs,        \* the processes
    Threads,      \* Threads[p]: the application threads of p in gcs_recv()
    Writers,      \* processes that replicate actions
    Desyncs,      \* processes that are desynchronised on request
    InitStatus,   \* InitStatus[p]: SYNCED or PRIMARY, what p is in the first configuration
    UpperLimit,   \* upper_limit and lower_limit of recv_q
    LowerLimit,
    SoftLimit,    \* soft and hard limit of the queue of a joiner
    HardLimit,
    ActSizes,     \* sizes an action may have
    MaxThrottle0, \* gcs.max_throttle is 0.0: replication may be stopped altogether
    SyncDonor,    \* gcs.sync_donor
    \* bounds
    MaxAct,       \* actions that are replicated
    MaxConf,      \* components that are formed
    MaxDesync,    \* requests to desync a member
    Tuned,        \* processes where gcs.sync_donor is changed, once
    Crashes       \* processes one of which may crash

\* gcs_conn_state_t
SYNCED  == 0
JOINED  == 1
DONOR   == 2
JOINER  == 3
PRIMARY == 4
OPEN    == 5
CLOSED  == 6

AllThreads == UNION {Threads[p] : p \in Procs}

NoOne == "none"     \* holds no lock
Recv  == "recv"     \* the receiving thread

ASSUME ConnAssumption ==
    /\ IsFiniteSet(Procs) /\ Writers \cup Desyncs \subseteq Procs
    /\ \A p, q \in Procs : p # q => Threads[p] \cap Threads[q] = {}
    /\ {NoOne, Recv} \cap AllThreads = {}
    /\ InitStatus \in [Procs -> {SYNCED, PRIMARY}]
    /\ LowerLimit \in Nat /\ UpperLimit \in Nat /\ LowerLimit <= UpperLimit
    /\ SoftLimit \in Nat /\ HardLimit \in Nat /\ SoftLimit < HardLimit
    /\ ActSizes \subseteq Nat /\ MaxThrottle0 \in BOOLEAN /\ SyncDonor \in BOOLEAN
    /\ {MaxAct, MaxConf, MaxDesync} \subseteq Nat /\ Tuned \cup Crashes \subseteq Procs

CoreStates == {"PRIMARY", "EXCHANGE", "NON_PRIMARY"}

VARIABLES
    conn,       \* conn[p]: gcs_conn_t
    fc_lock,    \* fc_lock[p]: its holder
    recv_lock,  \* recv_lock[p]: who holds the lock of recv_q waiting for fc_lock
    recv_q,     \* recv_q[p]: the actions in it
    canceled,   \* canceled[p]: gu_fifo_cancel_gets() in effect
    paused,     \* paused[p]: the send monitor is paused
    rpc, ract,  \* rpc[p]: where the receiving thread is, ract[p]: the action in its hand
    tpc,        \* tpc[t]: where the application thread t is
    xpc,        \* xpc[p]: where the state transfer p runs is
    \* core and backend:
    up,         \* up[p]: p has not crashed
    view,       \* members of the primary component
    exchange,   \* its state exchange has not ended yet
    conf,       \* ID of the last configuration
    core,       \* core[p]: core->state
    inbox,      \* inbox[p]: delivered, not yet received
    status,     \* status[p] after all messages sent so far
    donor,      \* donor[p]: the donor of the last state transfer to p
    act_id,     \* act_id[p]: actions delivered to p so far
    used,       \* how much of each bound is used
    \* what the properties speak of:
    stopped,    \* stopped[p]: STOPs minus CONTs of p in this configuration
    asked       \* asked[p]: gcs_join() was called in the present transfer of p

locks  == <<fc_lock, recv_lock>>
queue  == <<recv_q, canceled>>
recv   == <<rpc, ract>>
group  == <<up, view, exchange, conf, act_id, used>>
msgs   == <<inbox, status, stopped>>
vars   == <<conn, locks, queue, paused, recv, tpc, xpc, group, core, msgs, donor, asked>>

MaxFc(sync) == IF sync THEN DONOR ELSE JOINED

\* a connection in its first configuration
FirstConn(p) ==
    [state |-> InitStatus[p], conf_id |-> 1, stop_sent |-> 0, stop_count |-> 0,
     queue_len |-> 0, fc_offset |-> 0, max_fc_state |-> MaxFc(SyncDonor),
     need_to_join |-> FALSE, sync_sent |-> FALSE, timeout |-> FALSE, size |-> 0]

NoAct == [t |-> "none"]

Idle == [at |-> "idle", sync |-> FALSE, next |-> "idle"]

\* the first configuration has been installed everywhere; a member that lacks
\* the state is about to ask for it
Init ==
    /\ conn = [p \in Procs |-> FirstConn(p)]
    /\ fc_lock = [p \in Procs |-> NoOne] /\ recv_lock = [p \in Procs |-> NoOne]
    /\ recv_q = [p \in Procs |-> <<>>] /\ paused = [p \in Procs |-> FALSE]
    /\ canceled = [p \in Procs |-> InitStatus[p] = PRIMARY]
    /\ rpc = [p \in Procs |-> "recv"] /\ ract = [p \in Procs |-> NoAct]
    /\ tpc = [t \in AllThreads |->
                 IF \E p \in Procs : InitStatus[p] = PRIMARY /\ t = (CHOOSE u \in Threads[p] : TRUE)
                 THEN [Idle EXCEPT !.at = "gap"] ELSE Idle]
    /\ xpc = [p \in Procs |-> "none"]
    /\ up = [p \in Procs |-> TRUE] /\ view = Procs /\ exchange = FALSE /\ conf = 1
    /\ core = [p \in Procs |-> "PRIMARY"] /\ inbox = [p \in Procs |-> <<>>]
    /\ status = InitStatus /\ donor = [p \in Procs |-> p]
    /\ act_id = [p \in Procs |-> 0]
    /\ used = [act |-> 0, conf |-> 0, desync |-> 0]
    /\ stopped = [p \in Procs |-> 0] /\ asked = [p \in Procs |-> FALSE]

----------------------------------------------------------------------------
(* Sending: core_msg_send_retry() waits as long as it gets -EAGAIN *)

Up(p)    == up[p]
Sends(p) == core[p] = "PRIMARY" /\ p \in view
Fails(p) == core[p] = "NON_PRIMARY"

ToAll(m)    == inbox' = [q \in Procs |-> IF q \in view /\ Up(q) THEN Append(inbox[q], m)
                                         ELSE inbox[q]]
ToOne(p, m) == inbox' = [inbox EXCEPT ![p] = Append(@, m)]

\* gcs_send_fc_event(): an event that is swallowed, or names another
\* configuration, counts nowhere
SendFlow(p, stop) ==
    /\ Sends(p)
    /\ IF exchange THEN UNCHANGED msgs
       ELSE /\ ToAll([t |-> "FLOW", id |-> conn[p].conf_id, stop |-> stop])
            /\ stopped' = [stopped EXCEPT ![p] =
                  IF conn[p].conf_id # conf THEN @ ELSE IF stop THEN @ + 1 ELSE @ - 1]
            /\ UNCHANGED status

\* gcs_core_send_sync(), as gcs_group_handle_sync_msg() will take it
SendSync(p) ==
    /\ Sends(p)
    /\ IF exchange \/ status[p] # JOINED THEN UNCHANGED msgs
       ELSE /\ status' = [status EXCEPT ![p] = SYNCED]
            /\ ToOne(p, [t |-> "SYNC"])
            /\ UNCHANGED stopped

\* gcs_core_send_join(), as gcs_group_handle_join_msg() will take it
SendJoin(p) ==
    /\ Sends(p)
    /\ IF exchange \/ status[p] \notin {DONOR, JOINER} THEN UNCHANGED msgs
       ELSE /\ status' = [status EXCEPT ![p] = JOINED]
            /\ ToOne(p, [t |-> "JOIN", asked |-> asked[p]])
            /\ UNCHANGED stopped

----------------------------------------------------------------------------
(* Flow control *)

Set(p, c) == conn' = [conn EXCEPT ![p] = c]

\* gcs_fc_stop_begin(), apart from fc_lock
StopDue(c) ==
    /\ c.stop_count <= 0 /\ c.stop_sent <= 0
    /\ c.queue_len > UpperLimit + c.fc_offset
    /\ c.state <= c.max_fc_state

\* the offset of the catch-up phase follows the queue down
Lowered(c) == [c EXCEPT !.fc_offset = IF @ > c.queue_len THEN c.queue_len ELSE @]

\* mutant of ContDue: the queue has to fall below the limit
ContBelowLimit(c) ==
    /\ c.stop_sent > 0
    /\ LowerLimit > c.queue_len \/ c.fc_offset > c.queue_len
    /\ c.state <= c.max_fc_state

\* gcs_fc_cont_begin(), apart from fc_lock
ContDue(c) ==
    /\ c.stop_sent > 0
    /\ LowerLimit >= c.queue_len \/ c.fc_offset > c.queue_len
    /\ c.state <= c.max_fc_state

\* gcs_send_sync_begin()
SyncDue(c) == c.state = JOINED /\ LowerLimit >= c.queue_len /\ ~ c.sync_sent

\* mutant of gcs_handle_flow_control: events of any configuration count
AnyConfiguration(c, m) == [c EXCEPT !.stop_count = IF m.stop THEN @ + 1 ELSE @ - 1]

\* gcs_handle_flow_control() and the pause of the send monitor
gcs_handle_flow_control(c, m) ==
    IF m.id # c.conf_id THEN c
    ELSE [c EXCEPT !.stop_count = IF m.stop THEN @ + 1 ELSE @ - 1]

Pause(c, c1, was) ==
    IF c1.stop_count # c.stop_count /\ c1.stop_count \in {0, 1} THEN c1.stop_count = 1 ELSE was

----------------------------------------------------------------------------
(* The receiving thread *)

\* mutant of Allowed: only a joiner can become JOINED
DonorStays ==
    ({JOINED} \X {SYNCED}) \cup ({JOINER} \X {JOINED})
    \cup ({SYNCED, JOINED} \X {DONOR}) \cup ({PRIMARY} \X {JOINER})
    \cup ((SYNCED..OPEN) \X {PRIMARY, CLOSED})
    \cup (((SYNCED..PRIMARY) \cup {CLOSED}) \X {OPEN})

\* the transitions gcs_shift_state() allows
Allowed ==
    ({JOINED} \X {SYNCED}) \cup ({DONOR, JOINER} \X {JOINED})
    \cup ({SYNCED, JOINED} \X {DONOR}) \cup ({PRIMARY} \X {JOINER})
    \cup ((SYNCED..OPEN) \X {PRIMARY, CLOSED})
    \cup (((SYNCED..PRIMARY) \cup {CLOSED}) \X {OPEN})

gcs_shift_state(c, new) == IF <<c.state, new>> \in Allowed THEN [c EXCEPT !.state = new] ELSE c

RecvAt(p, at) == Up(p) /\ rpc[p] = at

GoTo(p, at) ==
    /\ rpc' = [rpc EXCEPT ![p] = at]
    /\ ract' = [ract EXCEPT ![p] = IF at \in {"recv", "stop", "growth"} THEN NoAct ELSE @]

Takes(p, type) == RecvAt(p, "recv") /\ inbox[p] # <<>> /\ Head(inbox[p]).t = type

\* the action just received, and where to go on with it
Hands(p, at) ==
    /\ inbox' = [inbox EXCEPT ![p] = Tail(@)]
    /\ ract' = [ract EXCEPT ![p] = IF at = "recv" THEN NoAct ELSE Head(inbox[p])]
    /\ rpc' = [rpc EXCEPT ![p] = at]

\* the caller waits for its own action in repl_q, the others go to recv_q
Own(p, m) == m.t \in {"ACT", "REQ"} /\ m.from = p
After(p, m) == IF Own(p, m) THEN "recv" ELSE "push"

RecvAct(p) ==
    /\ Takes(p, "ACT")
    /\ Hands(p, After(p, Head(inbox[p])))
    /\ UNCHANGED <<conn, locks, queue, paused, tpc, xpc, group, core, status, stopped, donor, asked>>

RecvFlow(p) ==
    /\ Takes(p, "FLOW")
    /\ LET c == gcs_handle_flow_control(conn[p], Head(inbox[p]))
       IN  Set(p, c) /\ paused' = [paused EXCEPT ![p] = Pause(conn[p], c, @)]
    /\ Hands(p, "recv")
    /\ UNCHANGED <<locks, queue, tpc, xpc, group, core, status, stopped, donor, asked>>

\* core_handle_comp_msg(): nothing can be sent until the state exchange ends
RecvComp(p) ==
    /\ Takes(p, "COMP")
    /\ core' = [core EXCEPT ![p] = "EXCHANGE"]
    /\ Hands(p, "recv")
    /\ UNCHANGED <<conn, locks, queue, paused, tpc, xpc, group, status, stopped, donor, asked>>

\* a configuration comes out of core, which is ready before the connection is
RecvConf(p) ==
    /\ Takes(p, "CONF")
    /\ core' = [core EXCEPT ![p] = IF Head(inbox[p]).my = OPEN THEN "NON_PRIMARY" ELSE "PRIMARY"]
    /\ Hands(p, "conf")
    /\ UNCHANGED <<conn, locks, queue, paused, tpc, xpc, group, status, stopped, donor, asked>>

\* mutant of ConfReset: the SYNC that was sent before still counts
ConfResetKeepsSync(p) ==
    /\ RecvAt(p, "conf") /\ recv_lock[p] = NoOne /\ fc_lock[p] = NoOne
    /\ Set(p, [conn[p] EXCEPT !.stop_sent = 0, !.stop_count = 0, !.conf_id = ract[p].id])
    /\ paused' = [paused EXCEPT ![p] = FALSE]
    /\ GoTo(p, "restore")
    /\ UNCHANGED <<locks, queue, tpc, xpc, group, core, msgs, donor, asked>>

\* gcs_handle_act_conf() under both locks: flow control starts afresh
ConfReset(p) ==
    /\ RecvAt(p, "conf") /\ recv_lock[p] = NoOne /\ fc_lock[p] = NoOne
    /\ Set(p, [conn[p] EXCEPT !.stop_sent = 0, !.stop_count = 0, !.sync_sent = FALSE,
                              !.conf_id = ract[p].id])
    /\ paused' = [paused EXCEPT ![p] = FALSE]
    /\ GoTo(p, "restore")
    /\ UNCHANGED <<locks, queue, tpc, xpc, group, core, msgs, donor, asked>>

\* the rest of gcs_handle_act_conf(): the state is what the group says
ConfRestore(p) ==
    /\ RecvAt(p, "restore")
    /\ LET my == ract[p].my
       IN  /\ Set(p, IF my >= PRIMARY THEN gcs_shift_state(conn[p], my)
                                      ELSE [conn[p] EXCEPT !.state = my])
           /\ GoTo(p, CASE my = PRIMARY -> "release"
                        [] my = JOINED -> "sync?"
                        [] my \in {JOINER, DONOR} /\ conn[p].need_to_join -> "join"
                        [] OTHER -> "push")
    /\ UNCHANGED <<locks, queue, paused, tpc, xpc, group, core, msgs, donor, asked>>

\* gcs_send_sync_begin() under the lock of recv_q
ConfSync(p) ==
    /\ RecvAt(p, "sync?") /\ recv_lock[p] = NoOne
    /\ IF SyncDue(conn[p])
       THEN Set(p, [conn[p] EXCEPT !.sync_sent = TRUE]) /\ GoTo(p, "sync")
       ELSE UNCHANGED conn /\ GoTo(p, "push")
    /\ UNCHANGED <<locks, queue, paused, tpc, xpc, group, core, msgs, donor, asked>>

\* _join() for a JOIN that may have been lost
ConfJoin(p) ==
    /\ RecvAt(p, "join")
    /\ SendJoin(p) \/ (Fails(p) /\ UNCHANGED msgs)
    /\ GoTo(p, "push")
    /\ UNCHANGED <<conn, locks, queue, paused, tpc, xpc, group, core, donor, asked>>

\* _release_flow_control()
ReleaseBegin(p) ==
    /\ RecvAt(p, "release") /\ fc_lock[p] = NoOne
    /\ IF conn[p].stop_sent # 0
       THEN /\ Set(p, [conn[p] EXCEPT !.stop_sent = @ - 1])
            /\ fc_lock' = [fc_lock EXCEPT ![p] = Recv]
            /\ GoTo(p, "cont")
       ELSE UNCHANGED <<conn, fc_lock>> /\ GoTo(p, After(p, ract[p]))
    /\ UNCHANGED <<recv_lock, queue, paused, tpc, xpc, group, core, msgs, donor, asked>>

\* gcs_fc_cont_end(): c is the connection afterwards
ContEnd(p) ==
    \/ SendFlow(p, FALSE) /\ UNCHANGED conn
    \/ Fails(p) /\ UNCHANGED msgs /\ Set(p, [conn[p] EXCEPT !.stop_sent = @ + 1])

ReleaseEnd(p) ==
    /\ RecvAt(p, "cont")
    /\ ContEnd(p)
    /\ fc_lock' = [fc_lock EXCEPT ![p] = NoOne]
    /\ GoTo(p, After(p, ract[p]))
    /\ UNCHANGED <<recv_lock, queue, paused, tpc, xpc, group, core, donor, asked>>

\* gcs_handle_act_state_req(): a donor gives up flow control unless it is to
\* stay in step; the joiner's queue is watched from now on
\* (the connection of a chosen donor is never in a state that rejects a request)
RecvReq(p) ==
    /\ Takes(p, "REQ")
    /\ LET m == Head(inbox[p])
           c == gcs_shift_state(conn[p], m.role)
       IN  /\ Set(p, IF m.role = JOINER THEN [c EXCEPT !.size = Len(recv_q[p])] ELSE c)
           /\ Hands(p, IF m.role = DONOR /\ c.max_fc_state < DONOR THEN "release"
                       ELSE After(p, m))
           /\ xpc' = [xpc EXCEPT ![p] = IF ~ Own(p, m) THEN @
                                       ELSE IF m.role = DONOR THEN "donor" ELSE "joiner"]
    /\ UNCHANGED <<locks, queue, paused, tpc, group, core, status, stopped, donor, asked>>

\* gcs_become_joined(), step by step: it takes no lock
\* (a JOIN with an error code comes from a donor, whose connection it makes no
\* difference to; the joiner's aborts: NeverReceives in module GcsGroup)
RecvJoin(p) ==
    /\ Takes(p, "JOIN")
    /\ Hands(p, IF conn[p].state = JOINER THEN "sst_release" ELSE "joined")
    /\ UNCHANGED <<conn, locks, queue, paused, tpc, xpc, group, core, status, stopped, donor, asked>>

\* _release_sst_flow_control(), in gcs_become_joined() and in _handle_timeout()
SstRelease(p) ==
    /\ RecvAt(p, "sst_release") \/ RecvAt(p, "timeout")
    /\ \/ /\ conn[p].stop_sent > 0 /\ SendFlow(p, FALSE)
          /\ Set(p, [conn[p] EXCEPT !.stop_sent = @ - 1, !.timeout = FALSE])
       \/ /\ conn[p].stop_sent <= 0 \/ Fails(p)
          /\ UNCHANGED msgs /\ Set(p, [conn[p] EXCEPT !.timeout = FALSE])
    /\ GoTo(p, IF rpc[p] = "timeout" THEN "recv" ELSE "joined")
    /\ UNCHANGED <<locks, queue, paused, tpc, xpc, group, core, donor, asked>>

JoinedState(p) ==
    /\ RecvAt(p, "joined")
    /\ Set(p, gcs_shift_state(conn[p], JOINED))
    /\ GoTo(p, IF conn[p].state \in {DONOR, JOINER} THEN "offset" ELSE "push")
    /\ UNCHANGED <<locks, queue, paused, tpc, xpc, group, core, msgs, donor, asked>>

JoinedOffset(p) ==
    /\ RecvAt(p, "offset")
    /\ Set(p, [conn[p] EXCEPT !.fc_offset = conn[p].queue_len, !.need_to_join = FALSE])
    /\ GoTo(p, "test")
    /\ UNCHANGED <<locks, queue, paused, tpc, xpc, group, core, msgs, donor, asked>>

JoinedTest(p) ==
    /\ RecvAt(p, "test")
    /\ GoTo(p, IF SyncDue(conn[p]) THEN "set" ELSE "push")
    /\ UNCHANGED <<conn, locks, queue, paused, tpc, xpc, group, core, msgs, donor, asked>>

JoinedSet(p) ==
    /\ RecvAt(p, "set")
    /\ Set(p, [conn[p] EXCEPT !.sync_sent = TRUE])
    /\ GoTo(p, "sync")
    /\ UNCHANGED <<locks, queue, paused, tpc, xpc, group, core, msgs, donor, asked>>

\* gcs_send_sync_end()
SyncEnd(p) ==
    \/ SendSync(p) /\ UNCHANGED conn
    \/ Fails(p) /\ UNCHANGED msgs /\ Set(p, [conn[p] EXCEPT !.sync_sent = FALSE])

RecvSyncEnd(p) ==
    /\ RecvAt(p, "sync")
    /\ SyncEnd(p)
    /\ GoTo(p, "push")
    /\ UNCHANGED <<locks, queue, paused, tpc, xpc, group, core, donor, asked>>

\* gcs_become_synced()
RecvSync(p) ==
    /\ Takes(p, "SYNC")
    /\ Set(p, [gcs_shift_state(conn[p], SYNCED) EXCEPT !.sync_sent = FALSE, !.fc_offset = 0])
    /\ Hands(p, "push")
    /\ UNCHANGED <<locks, queue, paused, tpc, xpc, group, core, status, stopped, donor, asked>>

\* what the application does with the action depends on this much of it
Item(p) ==
    CASE ract[p].t = "CONF" -> IF ract[p].my = PRIMARY THEN "gap" ELSE "conf"
      [] ract[p].t = "REQ"  -> "donor"
      [] OTHER              -> "idle"

Queued(p) == [conn[p] EXCEPT !.queue_len = Len(recv_q[p]) + 1]

\* the action goes to recv_q; a STOP that is due has to wait for fc_lock
Push(p) ==
    /\ RecvAt(p, "push") /\ recv_lock[p] = NoOne
    /\ Set(p, Queued(p))
    /\ IF StopDue(Queued(p))
       THEN /\ recv_lock' = [recv_lock EXCEPT ![p] = Recv]
            /\ GoTo(p, "stop?") /\ UNCHANGED recv_q
       ELSE /\ recv_q' = [recv_q EXCEPT ![p] = Append(@, Item(p))]
            /\ GoTo(p, IF conn[p].state = JOINER THEN "growth" ELSE "recv")
            /\ UNCHANGED recv_lock
    /\ UNCHANGED <<fc_lock, canceled, paused, tpc, xpc, group, core, msgs, donor, asked>>

StopBegin(p) ==
    /\ RecvAt(p, "stop?") /\ fc_lock[p] = NoOne
    /\ Set(p, [conn[p] EXCEPT !.stop_sent = @ + 1])
    /\ fc_lock' = [fc_lock EXCEPT ![p] = Recv]
    /\ recv_lock' = [recv_lock EXCEPT ![p] = NoOne]
    /\ recv_q' = [recv_q EXCEPT ![p] = Append(@, Item(p))]
    /\ GoTo(p, "stop")
    /\ UNCHANGED <<canceled, paused, tpc, xpc, group, core, msgs, donor, asked>>

\* gcs_fc_stop_end()
StopEnd(p) ==
    /\ RecvAt(p, "stop")
    /\ \/ SendFlow(p, TRUE) /\ UNCHANGED conn
       \/ Fails(p) /\ UNCHANGED msgs /\ Set(p, [conn[p] EXCEPT !.stop_sent = @ - 1])
    /\ fc_lock' = [fc_lock EXCEPT ![p] = NoOne]
    /\ GoTo(p, "recv")
    /\ UNCHANGED <<recv_lock, queue, paused, tpc, xpc, group, core, donor, asked>>

\* _check_recv_queue_growth(), gcs_fc_process(): whether a pause is due between
\* the limits depends on the clock; at the hard limit replication stops until
\* the transfer is complete, or the thread gives up (-ENOMEM)
Growth(p) ==
    /\ RecvAt(p, "growth")
    /\ \E n \in ActSizes :
          LET size == conn[p].size + n
              Go(at, timeout) ==
                  Set(p, [conn[p] EXCEPT !.size = size, !.timeout = timeout]) /\ GoTo(p, at)
              stop == IF conn[p].stop_sent <= 0 THEN "sst_stop" ELSE "recv"
          IN  \/ size < HardLimit /\ Go("recv", conn[p].timeout)
              \/ SoftLimit < size /\ size < HardLimit /\ Go(stop, TRUE)
              \/ size >= HardLimit /\ MaxThrottle0 /\ Go(stop, FALSE)
              \/ size >= HardLimit /\ ~ MaxThrottle0 /\ Go("exit", conn[p].timeout)
    /\ UNCHANGED <<locks, queue, paused, tpc, xpc, group, core, msgs, donor, asked>>

\* mutant of SstStop: the STOP is not counted
SstStopUncounted(p) ==
    /\ RecvAt(p, "sst_stop")
    /\ SendFlow(p, TRUE) \/ (Fails(p) /\ UNCHANGED msgs)
    /\ UNCHANGED conn
    /\ GoTo(p, "recv")
    /\ UNCHANGED <<locks, queue, paused, tpc, xpc, group, core, donor, asked>>

SstStop(p) ==
    /\ RecvAt(p, "sst_stop")
    /\ \/ SendFlow(p, TRUE) /\ Set(p, [conn[p] EXCEPT !.stop_sent = @ + 1])
       \/ Fails(p) /\ UNCHANGED <<msgs, conn>>
    /\ GoTo(p, "recv")
    /\ UNCHANGED <<locks, queue, paused, tpc, xpc, group, core, donor, asked>>

\* gcs_core_recv() returns -ETIMEDOUT: _handle_timeout()
Timeout(p) ==
    /\ RecvAt(p, "recv") /\ inbox[p] = <<>> /\ conn[p].timeout
    /\ IF conn[p].state = JOINER THEN UNCHANGED conn /\ GoTo(p, "timeout")
       ELSE Set(p, [conn[p] EXCEPT !.timeout = FALSE]) /\ UNCHANGED recv
    /\ UNCHANGED <<locks, queue, paused, tpc, xpc, group, core, msgs, donor, asked>>

Receive(p) ==
    \/ RecvAct(p) \/ RecvFlow(p) \/ RecvComp(p) \/ RecvConf(p) \/ RecvReq(p)
    \/ RecvJoin(p) \/ RecvSync(p) \/ Timeout(p)
    \/ ConfReset(p) \/ ConfRestore(p) \/ ConfSync(p) \/ ConfJoin(p)
    \/ ReleaseBegin(p) \/ ReleaseEnd(p) \/ SstRelease(p)
    \/ JoinedState(p) \/ JoinedOffset(p) \/ JoinedTest(p) \/ JoinedSet(p) \/ RecvSyncEnd(p)
    \/ Push(p) \/ StopBegin(p) \/ StopEnd(p) \/ Growth(p) \/ SstStop(p)

----------------------------------------------------------------------------
(* Application threads: gcs_recv() *)

ThreadAt(p, t, at) == Up(p) /\ tpc[t].at = at

\* the head of recv_q is taken; a CONF stops the other threads
Pops(p, t, at, sync) ==
    /\ recv_q' = [recv_q EXCEPT ![p] = Tail(@)]
    /\ canceled' = [canceled EXCEPT ![p] = @ \/ Head(recv_q[p]) \in {"conf", "gap"}]
    /\ tpc' = [tpc EXCEPT ![t] = [at |-> at, sync |-> sync, next |-> Head(recv_q[p])]]

\* gcs_recv() up to the lock it has to wait for: a CONT that is due waits for
\* fc_lock with the queue locked
Get(p, t) ==
    /\ ThreadAt(p, t, "idle") /\ recv_lock[p] = NoOne
    /\ ~ canceled[p] /\ recv_q[p] # <<>>
    /\ LET c    == [conn[p] EXCEPT !.queue_len = Len(recv_q[p]) - 1]
           c1   == Lowered(c)
           sync == SyncDue(c1)
       IN  IF ContDue(c)
           THEN /\ Set(p, c1)
                /\ recv_lock' = [recv_lock EXCEPT ![p] = t]
                /\ tpc' = [tpc EXCEPT ![t].at = "cont?"]
                /\ UNCHANGED queue
           ELSE /\ Set(p, [c1 EXCEPT !.sync_sent = @ \/ sync])
                /\ Pops(p, t, IF sync THEN "sync" ELSE Head(recv_q[p]), FALSE)
                /\ UNCHANGED recv_lock
    /\ UNCHANGED <<fc_lock, paused, recv, xpc, group, core, msgs, donor, asked>>

\* fc_lock is there: stop_sent goes down before the message is sent
ContBegin(p, t) ==
    /\ ThreadAt(p, t, "cont?") /\ fc_lock[p] = NoOne
    /\ LET sync == SyncDue(conn[p])
       IN  /\ Set(p, [conn[p] EXCEPT !.stop_sent = @ - 1, !.sync_sent = @ \/ sync])
           /\ Pops(p, t, "cont", sync)
    /\ fc_lock' = [fc_lock EXCEPT ![p] = t]
    /\ recv_lock' = [recv_lock EXCEPT ![p] = NoOne]
    /\ UNCHANGED <<paused, recv, xpc, group, core, msgs, donor, asked>>

\* where gcs_recv() leads: the application handles the action
Returns(t) == tpc' = [tpc EXCEPT ![t] = [Idle EXCEPT !.at = tpc[t].next]]

ContSent(p, t) ==
    /\ ThreadAt(p, t, "cont")
    /\ ContEnd(p)
    /\ fc_lock' = [fc_lock EXCEPT ![p] = NoOne]
    /\ IF tpc[t].sync THEN tpc' = [tpc EXCEPT ![t].at = "sync", ![t].sync = FALSE] ELSE Returns(t)
    /\ UNCHANGED <<recv_lock, queue, paused, recv, xpc, group, core, donor, asked>>

SyncSent(p, t) ==
    /\ ThreadAt(p, t, "sync")
    /\ SyncEnd(p)
    /\ Returns(t)
    /\ UNCHANGED <<locks, queue, paused, recv, xpc, group, core, donor, asked>>

\* gcs_resume_recv(), at the end of the processing of a configuration that
\* shows no gap, or one that a transfer has closed by now
Resume(p, t) ==
    /\ ThreadAt(p, t, "conf") \/ (ThreadAt(p, t, "gap") /\ conn[p].state < PRIMARY)
    /\ canceled' = [canceled EXCEPT ![p] = FALSE]
    /\ tpc' = [tpc EXCEPT ![t] = Idle]
    /\ UNCHANGED <<conn, locks, recv_q, paused, recv, xpc, group, core, msgs, donor, asked>>

----------------------------------------------------------------------------
(* State transfer: what the application does with the connection *)

\* gcs_request_state_transfer(), as gcs_group_handle_state_request() takes it;
\* it is repeated until there is a donor
Request(p, t) ==
    /\ ThreadAt(p, t, "gap") /\ ~ paused[p] /\ Sends(p) /\ ~ exchange
    /\ conn[p].state \in {PRIMARY, OPEN} /\ status[p] = PRIMARY
    /\ \E d \in view :
        /\ Up(d) /\ status[d] = SYNCED
        /\ status' = [status EXCEPT ![p] = JOINER, ![d] = DONOR]
        /\ donor' = [donor EXCEPT ![p] = d]
        /\ asked' = [asked EXCEPT ![p] = FALSE, ![d] = FALSE]
        /\ inbox' = [inbox EXCEPT
               ![p] = Append(@, [t |-> "REQ", role |-> JOINER, from |-> p]),
               ![d] = Append(@, [t |-> "REQ", role |-> DONOR, from |-> p])]
    /\ tpc' = [tpc EXCEPT ![t].at = "sst"]
    /\ UNCHANGED <<conn, locks, queue, paused, recv, xpc, group, core, stopped>>

\* the donor starts its transfer
Donate(p, t) ==
    /\ ThreadAt(p, t, "donor")
    /\ xpc' = [xpc EXCEPT ![p] = "donor"]
    /\ tpc' = [tpc EXCEPT ![t] = Idle]
    /\ UNCHANGED <<conn, locks, queue, paused, recv, group, core, msgs, donor, asked>>

\* gcs_desync()
Desync(p) ==
    /\ Up(p) /\ used.desync < MaxDesync /\ ~ paused[p] /\ Sends(p) /\ ~ exchange
    /\ status[p] = SYNCED /\ xpc[p] = "none"
    /\ used' = [used EXCEPT !.desync = @ + 1]
    /\ status' = [status EXCEPT ![p] = DONOR]
    /\ asked' = [asked EXCEPT ![p] = FALSE]
    /\ ToOne(p, [t |-> "REQ", role |-> DONOR, from |-> p])
    /\ UNCHANGED <<conn, locks, queue, paused, recv, tpc, xpc, up, view, exchange, conf, act_id,
                   core, stopped, donor>>

\* gcs_join(), when the transfer is over: by the thread of the donor, and by
\* the thread of the joiner that waits for the state
JoinBegin(p) ==
    /\ Up(p) /\ xpc[p] \in {"donor", "joiner"}
    /\ Set(p, [conn[p] EXCEPT !.need_to_join = TRUE])
    /\ asked' = [asked EXCEPT ![p] = TRUE]
    /\ xpc' = [xpc EXCEPT ![p] = IF @ = "donor" THEN "join" ELSE "sst_join"]
    /\ UNCHANGED <<locks, queue, paused, recv, tpc, group, core, msgs, donor>>

JoinEnd(p) ==
    /\ Up(p) /\ xpc[p] \in {"join", "sst_join"}
    /\ SendJoin(p) \/ (Fails(p) /\ UNCHANGED msgs)
    /\ xpc' = [xpc EXCEPT ![p] = "none"]
    /\ tpc' = [t \in AllThreads |->
                 IF xpc[p] = "sst_join" /\ t \in Threads[p] /\ tpc[t].at = "sst"
                 THEN [Idle EXCEPT !.at = "conf"] ELSE tpc[t]]
    /\ UNCHANGED <<conn, locks, queue, paused, recv, group, core, donor, asked>>

----------------------------------------------------------------------------
(* Replication, parameters, components *)

\* gcs_repl(): one more action in the total order
Replicate(p) ==
    /\ Up(p) /\ used.act < MaxAct /\ ~ paused[p] /\ Sends(p) /\ ~ exchange
    /\ UpperLimit >= conn[p].queue_len /\ status[p] <= DONOR
    /\ ToAll([t |-> "ACT", from |-> p])
    /\ act_id' = [q \in Procs |-> IF q \in view THEN act_id[q] + 1 ELSE act_id[q]]
    /\ used' = [used EXCEPT !.act = @ + 1]
    /\ UNCHANGED <<conn, locks, queue, paused, recv, tpc, xpc, up, view, exchange, conf, core,
                   status, stopped, donor, asked>>

\* _set_sync_donor()
SetSyncDonor(p) ==
    /\ Up(p) /\ conn[p].max_fc_state = MaxFc(SyncDonor)
    /\ Set(p, [conn[p] EXCEPT !.max_fc_state = MaxFc(~ SyncDonor)])
    /\ UNCHANGED <<locks, queue, paused, recv, tpc, xpc, group, core, msgs, donor, asked>>

NonPrimary == [t |-> "CONF", id |-> -1, my |-> OPEN]

\* a new primary component; the members that are left out become non-primary.
\* Processes that are not modelled make up the quorum
Form(S) ==
    /\ S # {} /\ \A p \in S : Up(p)
    /\ used.conf < MaxConf \/ ((\E p \in view : ~ Up(p)) /\ S = {p \in view : Up(p)})
    /\ used' = [used EXCEPT !.conf = @ + 1]
    /\ view' = S /\ exchange' = TRUE
    /\ inbox' = [p \in Procs |->
                   IF p \in S THEN Append(inbox[p], [t |-> "COMP"])
                   ELSE IF p \in view /\ Up(p) THEN Append(inbox[p], NonPrimary)
                   ELSE inbox[p]]
    /\ UNCHANGED <<conn, locks, queue, paused, recv, tpc, xpc, up, conf, act_id, core,
                   status, stopped, donor, asked>>

\* the state exchange ends: members that have missed an action lose their
\* status, a joiner without its donor aborts
Complete ==
    /\ exchange
    /\ \A p \in view : core[p] = "EXCHANGE" /\ inbox[p] = <<>> /\ Up(p) /\ rpc[p] = "recv"
    /\ LET last == Max({act_id[p] : p \in view})
           new  == [p \in Procs |-> IF p \in view /\ act_id[p] # last THEN PRIMARY ELSE status[p]]
           lost == {p \in view : new[p] = JOINER /\ donor[p] \notin view}
       IN  /\ status' = new
           /\ act_id' = [p \in Procs |-> IF p \in view THEN last ELSE act_id[p]]
           /\ up' = [p \in Procs |-> up[p] /\ p \notin lost]
           /\ inbox' = [p \in Procs |->
                  IF p \in view
                  THEN Append(inbox[p], [t |-> "CONF", id |-> conf + 1, my |-> new[p]])
                  ELSE inbox[p]]
    /\ conf' = conf + 1 /\ exchange' = FALSE
    /\ stopped' = [p \in Procs |-> 0]
    /\ UNCHANGED <<conn, locks, queue, paused, recv, tpc, xpc, view, used, core, donor, asked>>

\* a process crashes; nothing reads its memory any more
Crash(p) ==
    /\ \A q \in Procs : Up(q)
    /\ up' = [up EXCEPT ![p] = FALSE]
    /\ conn' = [conn EXCEPT ![p] = FirstConn(p)]
    /\ fc_lock' = [fc_lock EXCEPT ![p] = NoOne] /\ recv_lock' = [recv_lock EXCEPT ![p] = NoOne]
    /\ recv_q' = [recv_q EXCEPT ![p] = <<>>] /\ inbox' = [inbox EXCEPT ![p] = <<>>]
    /\ canceled' = [canceled EXCEPT ![p] = TRUE] /\ paused' = [paused EXCEPT ![p] = FALSE]
    /\ rpc' = [rpc EXCEPT ![p] = "exit"] /\ ract' = [ract EXCEPT ![p] = NoAct]
    /\ tpc' = [t \in AllThreads |-> IF t \in Threads[p] THEN Idle ELSE tpc[t]]
    /\ xpc' = [xpc EXCEPT ![p] = "none"]
    /\ UNCHANGED <<view, exchange, conf, act_id, used, core, status, stopped, donor, asked>>

----------------------------------------------------------------------------
\* a thread of the application, and the thread that runs a state transfer
Thread(p, t) ==
    \/ Get(p, t) \/ ContBegin(p, t) \/ ContSent(p, t) \/ SyncSent(p, t)
    \/ Resume(p, t) \/ Request(p, t) \/ Donate(p, t)

Transfer(p) == JoinBegin(p) \/ JoinEnd(p)

Next ==
    \/ \E p \in Procs :
          \/ Receive(p) \/ Transfer(p) \/ (\E t \in Threads[p] : Thread(p, t))
          \/ (p \in Desyncs /\ Desync(p)) \/ (p \in Writers /\ Replicate(p)) 
          \/ (p \in Tuned /\ SetSyncDonor(p))
    \/ \E S \in SUBSET Procs : Form(S)
    \/ \E p \in Crashes : Crash(p)
    \/ Complete

Spec == Init /\ [][Next]_vars

\* Threads go on; a state transfer ends; the backend drops a member that has
\* stopped and lets a state exchange end.  Nothing makes a partition heal
Fairness ==
    /\ \A p \in Procs :
          /\ WF_vars(Receive(p)) /\ WF_vars(Transfer(p))
          /\ \A t \in Threads[p] : WF_vars(Thread(p, t))
    /\ WF_vars(Complete)
    /\ WF_vars((\E p \in view : ~ Up(p)) /\ Form({p \in view : Up(p)}))

FairSpec == Spec /\ Fairness
============================================================================
