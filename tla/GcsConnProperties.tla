------------------------ MODULE GcsConnProperties --------------------------
(***************************************************************************)
(* What the connections of GcsConn promise: flow control that balances and *)
(* lets go, and a state that follows the group's.                          *)
(***************************************************************************)
EXTENDS GcsConn

----------------------------------------------------------------------------
(* Flow control *)

\* p is in the present configuration and knows it
Current(p) == Up(p) /\ p \in view /\ ~ exchange /\ conn[p].conf_id = conf

\* STOPs minus CONTs of this configuration that p has not received yet
Flows(p, stop) ==
    Cardinality({i \in DOMAIN inbox[p] :
        inbox[p][i].t = "FLOW" /\ inbox[p][i].id = conf /\ inbox[p][i].stop = stop})

\* stop_sent is what the rest of the group makes of the STOPs and CONTs of a
\* process, although the application's threads, the receiving thread and a
\* change of configuration all write it, before or after the message is sent
\* ("how many STOPs - CONTs were sent", gcs_conn.stop_sent)
StopSentCounts ==
    \A p \in Procs : Current(p) /\ fc_lock[p] = NoOne => conn[p].stop_sent = stopped[p]

\* and stop_count is the sum over the members, up to what is still in flight:
\* no event of an earlier configuration, swallowed or late, is counted
\* (gcs_handle_flow_control()).  The send monitor is paused while it is positive
StopCountAgrees ==
    \A p \in Procs :
        /\ Current(p) => conn[p].stop_count + Flows(p, TRUE) - Flows(p, FALSE)
                           = MapThenSumSet(LAMBDA q : stopped[q], view)
        /\ paused[p] <=> conn[p].stop_count > 0

----------------------------------------------------------------------------
(* The state of the connection *)

AtRest(p) == Current(p) /\ inbox[p] = <<>> /\ rpc[p] = "recv"

\* when everything has been received, the connection is in the state that the
\* group has recorded for its member: restored by a CONF, shifted by REQ, JOIN
\* and SYNC, some of which were sent on the strength of an earlier state
StateAgrees == \A p \in Procs : AtRest(p) => conn[p].state = status[p]

----------------------------------------------------------------------------
(* Liveness *)

Runs(p) == Up(p) /\ p \in view

\* a sender that was paused by flow control can send again: whoever stopped it
\* sends the CONT, gives way to a new configuration, or is gone
Resumes == \A p \in Procs : paused[p] ~> (~ paused[p] \/ ~ Runs(p))

\* a member that has its state catches up and is declared SYNCED, even when
\* its SYNC is swallowed by a state exchange
BecomesSynced ==
    \A p \in Procs : status[p] = JOINED ~> (status[p] # JOINED \/ ~ Runs(p))

----------------------------------------------------------------------------
(* The inductive invariant behind the safety properties                    *)

Msg ==
    [t : {"ACT"}, from : Procs] \cup [t : {"FLOW"}, id : Int, stop : BOOLEAN]
    \cup [t : {"COMP"}] \cup [t : {"CONF"}, id : Int, my : SYNCED..OPEN]
    \cup [t : {"REQ"}, role : {DONOR, JOINER}, from : Procs]
    \cup [t : {"JOIN"}, asked : BOOLEAN] \cup [t : {"SYNC"}]

Conn ==
    [state : SYNCED..OPEN, conf_id : Int, stop_sent : Int, stop_count : Int, queue_len : Int,
     fc_offset : Int, max_fc_state : {JOINED, DONOR}, need_to_join : BOOLEAN,
     sync_sent : BOOLEAN, timeout : BOOLEAN, size : Int]

\* what the application has to do with an action
Items == {"gap", "conf", "donor", "idle"}

RecvPc ==
    {"recv", "conf", "restore", "sync?", "join", "release", "cont", "sst_release", "joined",
     "offset", "test", "set", "sync", "push", "stop?", "stop", "growth", "sst_stop", "timeout",
     "exit"}

TypeOK ==
    /\ conn \in [Procs -> Conn] /\ paused \in [Procs -> BOOLEAN]
    /\ \A p \in Procs : fc_lock[p] \in {NoOne, Recv} \cup Threads[p]
    /\ fc_lock \in [Procs -> {NoOne, Recv} \cup AllThreads]
    /\ recv_q \in [Procs -> Seq(Items)]
    /\ rpc \in [Procs -> RecvPc] /\ ract \in [Procs -> Msg \cup {NoAct}]
    /\ tpc \in [AllThreads -> [at : Items \cup {"cont?", "cont", "sync", "sst"}, sync : BOOLEAN,
                               next : Items]]
    /\ up \in [Procs -> BOOLEAN] /\ view \subseteq Procs /\ exchange \in BOOLEAN
    /\ conf \in Nat \ {0}
    /\ core \in [Procs -> CoreStates] /\ inbox \in [Procs -> Seq(Msg)]
    /\ status \in [Procs -> SYNCED..PRIMARY] /\ stopped \in [Procs -> Int]
    /\ asked \in [Procs -> BOOLEAN]

\* fc_lock is held from the change of stop_sent to the end of the sending
LockOK(p) ==
    /\ fc_lock[p] = Recv <=> rpc[p] \in {"stop", "cont"}
    /\ \A t \in Threads[p] : fc_lock[p] = t <=> tpc[t].at = "cont"

\* no configuration is known before it exists
IdsOK(p) ==
    /\ conn[p].conf_id <= conf
    /\ \A i \in DOMAIN inbox[p] : inbox[p][i].t = "CONF" => inbox[p][i].id <= conf
    /\ rpc[p] \in {"conf", "restore"} => ract[p].t = "CONF" /\ ract[p].id <= conf

\* p is in the present configuration and will come to know it
Member(p) == Up(p) /\ p \in view /\ ~ exchange

\* A member that does not know the configuration yet has its CONF in hand, or
\* will receive it next
PhaseOK(p) ==
    /\ \A i \in DOMAIN inbox[p] : inbox[p][i].t \in {"COMP", "CONF"} =>
          i = 1 /\ inbox[p][i].t = "CONF" /\ inbox[p][i].id = conf
          /\ inbox[p][i].my \in SYNCED..PRIMARY
          /\ rpc[p] = "recv" /\ conn[p].conf_id # conf
    /\ rpc[p] \in {"conf", "restore"} => ract[p].my \in SYNCED..PRIMARY
    /\ rpc[p] = "conf" => conn[p].conf_id # conf /\ ract[p].id = conf
    /\ rpc[p] # "conf" /\ conn[p].conf_id # conf =>
          rpc[p] = "recv" /\ inbox[p] # <<>> /\ inbox[p][1].t = "CONF"
    /\ core[p] = IF rpc[p] # "conf" /\ conn[p].conf_id # conf THEN "EXCHANGE" ELSE "PRIMARY"

\* What stop_sent is ahead of the messages of p
Ahead(p) == IF rpc[p] = "stop" THEN 1 ELSE IF fc_lock[p] # NoOne THEN -1 ELSE 0

BalanceOK(p) ==
    IF conn[p].conf_id = conf THEN conn[p].stop_sent = stopped[p] + Ahead(p) ELSE stopped[p] = 0

FlowInv ==
    /\ TypeOK
    /\ \A p \in Procs : LockOK(p) /\ IdsOK(p) /\ (Member(p) => PhaseOK(p) /\ BalanceOK(p))

\* The lock of recv_q is held by whoever has found a message due and waits for
\* fc_lock; what a thread has found in the queue stays there meanwhile
HeldOK(p) ==
    /\ recv_lock[p] = Recv <=> rpc[p] = "stop?"
    /\ \A t \in Threads[p] : recv_lock[p] = t <=> tpc[t].at = "cont?"
    /\ recv_lock[p] \in Threads[p] => recv_q[p] # <<>>

HeldInv ==
    /\ recv_lock \in [Procs -> {NoOne, Recv} \cup AllThreads]
    /\ \A p \in Procs : HeldOK(p)

\* The state of the connection once the action in hand is processed
Start(p) ==
    CASE rpc[p] \in {"conf", "restore"} -> ract[p].my
      [] rpc[p] \in {"sst_release", "joined"} -> JOINED
      [] OTHER -> conn[p].state

\* m takes a member from the status s to s1
Shifts(m, s, s1) ==
    CASE m.t = "CONF" -> s1 = m.my
      [] m.t = "REQ"  -> s1 = m.role /\ s = IF m.role = DONOR THEN SYNCED ELSE PRIMARY
      [] m.t = "JOIN" -> s1 = JOINED /\ s \in {DONOR, JOINER}
      [] m.t = "SYNC" -> s1 = SYNCED /\ s = JOINED
      [] OTHER -> s1 = s

\* The messages in box lead from the state a to the state b: f[i] is the state
\* after the first i of them
Leads(box, a, b) ==
    \E f \in [0..Len(box) -> SYNCED..OPEN] :
        /\ f[0] = a /\ f[Len(box)] = b
        /\ \A i \in 1..Len(box) : Shifts(box[i], f[i - 1], f[i])

\* what p is to receive ends with what the group has recorded
StateOK(p) ==
    /\ rpc[p] \in {"sst_release", "joined"} => conn[p].state \in {DONOR, JOINER}
    /\ Leads(inbox[p], Start(p), status[p])

StateInv == \A p \in Procs : Member(p) => StateOK(p)

\* what p makes of the STOPs of this configuration so far
Counted(p) == IF conn[p].conf_id = conf THEN conn[p].stop_count ELSE 0

CountOK(p) ==
    Counted(p) + Flows(p, TRUE) - Flows(p, FALSE) = MapThenSumSet(LAMBDA q : stopped[q], view)

CountInv ==
    \A p \in Procs : /\ Member(p) => CountOK(p)
                     /\ paused[p] <=> conn[p].stop_count > 0
============================================================================
