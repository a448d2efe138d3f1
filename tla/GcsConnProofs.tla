--------------------------- MODULE GcsConnProofs ---------------------------
(***************************************************************************)
(* The safety of the GCS connections for every set of processes and        *)
(* threads, all limits and any number of configurations: stop_sent and     *)
(* stop_count balance, and the state of a connection follows the group's.  *)
(***************************************************************************)
EXTENDS GcsConnProperties, FiniteSetTheorems, WellFoundedInduction, TLAPS

USE DEF SYNCED, JOINED, DONOR, JOINER, PRIMARY, OPEN, CLOSED

----------------------------------------------------------------------------
(* Records: the fields of messages, and what the steps write to gcs_conn_t *)

\* The fields a message of each type has.
LEMMA MsgFields ==
    ASSUME NEW m \in Msg
    PROVE  /\ m.t \in {"ACT", "FLOW", "COMP", "CONF", "REQ", "JOIN", "SYNC"}
           /\ m.t = "FLOW" => m.id \in Int /\ m.stop \in BOOLEAN
           /\ m.t = "CONF" => m.id \in Int /\ m.my \in SYNCED..OPEN
           /\ m.t = "REQ" => m.role \in {DONOR, JOINER} /\ m.from \in Procs
BY DEF Msg

\* The messages that are sent.
LEMMA MsgType ==
    /\ \A p \in Procs : [t |-> "ACT", from |-> p] \in Msg
    /\ \A i \in Int, stop \in BOOLEAN : [t |-> "FLOW", id |-> i, stop |-> stop] \in Msg
    /\ [t |-> "COMP"] \in Msg /\ [t |-> "SYNC"] \in Msg
    /\ \A i \in Int, my \in SYNCED..OPEN : [t |-> "CONF", id |-> i, my |-> my] \in Msg
    /\ \A r \in {DONOR, JOINER}, p \in Procs : [t |-> "REQ", role |-> r, from |-> p] \in Msg
    /\ \A a \in BOOLEAN : [t |-> "JOIN", asked |-> a] \in Msg
BY DEF Msg

\* c1 differs from c in nothing that a message of the group depends on.
SameFlow(c, c1) ==
    /\ c1 \in Conn /\ c1.conf_id = c.conf_id
    /\ c1.stop_sent = c.stop_sent /\ c1.stop_count = c.stop_count

SameState(c, c1) == SameFlow(c, c1) /\ c1.state = c.state

\* Assignments to one or two fields.
LEMMA ConnEdits ==
    ASSUME NEW c \in Conn
    PROVE  /\ \A b \in BOOLEAN : SameState(c, [c EXCEPT !.sync_sent = b])
           /\ \A b \in BOOLEAN : SameState(c, [c EXCEPT !.timeout = b])
           /\ \A b \in BOOLEAN : SameState(c, [c EXCEPT !.need_to_join = b])
           /\ \A n \in Int : SameState(c, [c EXCEPT !.size = n])
           /\ \A n \in Int : SameState(c, [c EXCEPT !.queue_len = n])
           /\ \A n \in Int, b \in BOOLEAN :
                 SameState(c, [c EXCEPT !.fc_offset = n, !.need_to_join = b])
           /\ \A n \in Int, b \in BOOLEAN : SameState(c, [c EXCEPT !.size = n, !.timeout = b])
           /\ \A n \in Int, b \in BOOLEAN :
                 SameState(c, [c EXCEPT !.sync_sent = b, !.fc_offset = n])
           /\ \A n \in {JOINED, DONOR} : SameState(c, [c EXCEPT !.max_fc_state = n])
           /\ \A s \in SYNCED..OPEN : SameFlow(c, [c EXCEPT !.state = s])
           /\ SameState(c, Lowered(c))
BY DEF SameFlow, SameState, Conn, Lowered

\* Assignments to stop_sent.
LEMMA ConnStops ==
    ASSUME NEW c \in Conn, NEW v \in Int, NEW b \in BOOLEAN
    PROVE  \A c1 \in {[c EXCEPT !.stop_sent = v], [c EXCEPT !.stop_sent = v, !.timeout = b],
                      [c EXCEPT !.stop_sent = v, !.sync_sent = b]} :
               /\ c1 \in Conn /\ c1.state = c.state /\ c1.conf_id = c.conf_id
               /\ c1.stop_sent = v /\ c1.stop_count = c.stop_count
BY DEF Conn

\* gcs_shift_state().
LEMMA ShiftState ==
    ASSUME NEW c \in Conn, NEW s \in SYNCED..OPEN
    PROVE  /\ SameFlow(c, gcs_shift_state(c, s))
           /\ gcs_shift_state(c, s).state = IF <<c.state, s>> \in Allowed THEN s ELSE c.state
           /\ s = PRIMARY => <<c.state, s>> \in Allowed
           /\ s = JOINED /\ c.state \in {DONOR, JOINER} => <<c.state, s>> \in Allowed
           /\ s = SYNCED /\ c.state = JOINED => <<c.state, s>> \in Allowed
           /\ s = DONOR /\ c.state = SYNCED => <<c.state, s>> \in Allowed
           /\ s = JOINER /\ c.state = PRIMARY => <<c.state, s>> \in Allowed
<1>1. SameFlow(c, [c EXCEPT !.state = s]) /\ SameFlow(c, c)
  BY ConnEdits DEF SameFlow
<1>2. [c EXCEPT !.state = s].state = s /\ c.state \in SYNCED..OPEN
  BY DEF Conn
<1>. QED BY <1>1, <1>2 DEF gcs_shift_state, Allowed

----------------------------------------------------------------------------
(* The parts of a step                                                     *)

LEMMA SetType ==
    ASSUME TypeOK, NEW p \in Procs, NEW c \in Conn, Set(p, c)
    PROVE  /\ conn' \in [Procs -> Conn] /\ conn'[p] = c
           /\ \A q \in Procs \ {p} : conn'[q] = conn[q]
BY DEF TypeOK, Set

LEMMA GoToType ==
    ASSUME TypeOK, NEW p \in Procs, NEW at \in RecvPc, GoTo(p, at)
    PROVE  /\ rpc' \in [Procs -> RecvPc] /\ rpc'[p] = at
           /\ ract' \in [Procs -> Msg \cup {NoAct}]
           /\ ract'[p] = IF at \in {"recv", "stop", "growth"} THEN NoAct ELSE ract[p]
           /\ \A q \in Procs \ {p} : rpc'[q] = rpc[q] /\ ract'[q] = ract[q]
BY DEF TypeOK, GoTo

LEMMA HandsType ==
    ASSUME TypeOK, NEW p \in Procs, NEW at \in RecvPc, inbox[p] # <<>>, Hands(p, at)
    PROVE  /\ rpc' \in [Procs -> RecvPc] /\ rpc'[p] = at
           /\ ract' \in [Procs -> Msg \cup {NoAct}]
           /\ ract'[p] = IF at = "recv" THEN NoAct ELSE Head(inbox[p])
           /\ inbox' \in [Procs -> Seq(Msg)] /\ inbox'[p] = Tail(inbox[p])
           /\ Head(inbox[p]) \in Msg /\ Head(inbox[p]) = inbox[p][1]
           /\ \A q \in Procs \ {p} :
                 rpc'[q] = rpc[q] /\ ract'[q] = ract[q] /\ inbox'[q] = inbox[q]
<1>1. inbox[p] \in Seq(Msg)
  BY DEF TypeOK
<1>2. Head(inbox[p]) \in Msg /\ Head(inbox[p]) = inbox[p][1] /\ Tail(inbox[p]) \in Seq(Msg)
  BY <1>1
<1>. QED BY <1>2 DEF TypeOK, Hands

\* What a step of another process, or of p itself, may send to q: a message
\* that is no part of a configuration and takes the status of q along.
Sent(q) ==
    \/ inbox'[q] = inbox[q] /\ status'[q] = status[q]
    \/ \E m \in Msg : /\ m.t \notin {"COMP", "CONF"}
                      /\ inbox'[q] = Append(inbox[q], m)
                      /\ Shifts(m, status[q], status'[q])

\* Messages as their types say, with those that are sent.
Delivers ==
    /\ inbox' \in [Procs -> Seq(Msg)] /\ status' \in [Procs -> SYNCED..PRIMARY]
    /\ stopped' \in [Procs -> Int]
    /\ \A q \in Procs : Sent(q)

LEMMA NothingSent ==
    ASSUME TypeOK, UNCHANGED msgs
    PROVE  Delivers /\ UNCHANGED <<inbox, status, stopped>>
BY DEF TypeOK, Delivers, Sent, msgs

\* An append to the inbox of one process, with its new status.
LEMMA OneSent ==
    ASSUME TypeOK, NEW p \in Procs, NEW m \in Msg, NEW s \in SYNCED..PRIMARY,
           m.t \notin {"COMP", "CONF"}, ToOne(p, m), status' = [status EXCEPT ![p] = s],
           UNCHANGED stopped, Shifts(m, status[p], s)
    PROVE  Delivers
<1>1. ASSUME NEW q \in Procs PROVE inbox[q] \in Seq(Msg) /\ Append(inbox[q], m) \in Seq(Msg)
  <2>1. inbox[q] \in Seq(Msg)
    BY DEF TypeOK
  <2>. QED BY <2>1
<1>2. inbox' \in [Procs -> Seq(Msg)] /\ status' \in [Procs -> SYNCED..PRIMARY]
  BY <1>1 DEF TypeOK, ToOne
<1>3. ASSUME NEW q \in Procs PROVE Sent(q)
  <2>1. CASE q = p
    <3>1. inbox'[q] = Append(inbox[q], m) /\ status'[q] = s
      BY <2>1 DEF TypeOK, ToOne
    <3>. QED BY <2>1, <3>1 DEF Sent
  <2>2. CASE q # p
    BY <2>2 DEF TypeOK, ToOne, Sent
  <2>. QED BY <2>1, <2>2
<1>. QED BY <1>2, <1>3 DEF Delivers, TypeOK

\* A message to all that leaves every status as it is.
LEMMA AllSent ==
    ASSUME TypeOK, NEW m \in Msg, m.t \in {"ACT", "FLOW"}, ToAll(m), UNCHANGED status,
           stopped' \in [Procs -> Int]
    PROVE  Delivers
<1>1. ASSUME NEW q \in Procs PROVE inbox[q] \in Seq(Msg) /\ Append(inbox[q], m) \in Seq(Msg)
  <2>1. inbox[q] \in Seq(Msg)
    BY DEF TypeOK
  <2>. QED BY <2>1
<1>2. inbox' \in [Procs -> Seq(Msg)]
  BY <1>1 DEF TypeOK, ToAll
<1>3. ASSUME NEW q \in Procs PROVE Sent(q)
  <2>1. inbox'[q] = inbox[q] \/ inbox'[q] = Append(inbox[q], m)
    BY DEF ToAll
  <2>2. Shifts(m, status[q], status[q])
    BY DEF Shifts
  <2>. QED BY <2>1, <2>2 DEF Sent
<1>. QED BY <1>2, <1>3 DEF Delivers, TypeOK

\* gcs_core_send_sync() and gcs_core_send_join().
LEMMA SyncOrJoinSent ==
    ASSUME TypeOK, NEW p \in Procs, SendSync(p) \/ SendJoin(p) \/ UNCHANGED msgs
    PROVE  Delivers /\ UNCHANGED stopped
<1>1. CASE UNCHANGED msgs
  BY <1>1, NothingSent
<1>2. CASE SendSync(p) /\ ~ UNCHANGED msgs
  <2>1. /\ status[p] = JOINED /\ status' = [status EXCEPT ![p] = SYNCED]
        /\ ToOne(p, [t |-> "SYNC"]) /\ UNCHANGED stopped
    BY <1>2 DEF SendSync
  <2>2. Shifts([t |-> "SYNC"], status[p], SYNCED)
    BY <2>1 DEF Shifts
  <2>3. [t |-> "SYNC"] \in Msg /\ [t |-> "SYNC"].t \notin {"COMP", "CONF"} /\ SYNCED \in SYNCED..PRIMARY
    BY MsgType
  <2>. QED BY ONLY TypeOK, <2>1, <2>2, <2>3, OneSent, Zenon
<1>3. CASE SendJoin(p) /\ ~ UNCHANGED msgs
  <2>. DEFINE m == [t |-> "JOIN", asked |-> asked[p]]
  <2>1. /\ status[p] \in {DONOR, JOINER} /\ status' = [status EXCEPT ![p] = JOINED]
        /\ ToOne(p, m) /\ UNCHANGED stopped
    BY <1>3 DEF SendJoin
  <2>2. Shifts(m, status[p], JOINED)
    BY <2>1 DEF Shifts
  <2>3. m \in Msg /\ m.t \notin {"COMP", "CONF"} /\ JOINED \in SYNCED..PRIMARY
    BY MsgType DEF TypeOK
  <2>. HIDE DEF m
  <2>. QED BY ONLY TypeOK, <2>1, <2>2, <2>3, OneSent, Zenon
<1>. QED BY <1>1, <1>2, <1>3

\* gcs_send_fc_event(): stopped counts what is sent in the present configuration.
LEMMA FlowSent ==
    ASSUME TypeOK, NEW p \in Procs, NEW stop \in BOOLEAN, SendFlow(p, stop)
    PROVE  /\ Delivers
           /\ \A q \in Procs \ {p} : stopped'[q] = stopped[q]
           /\ stopped'[p] = IF exchange \/ conn[p].conf_id # conf THEN stopped[p]
                            ELSE IF stop THEN stopped[p] + 1 ELSE stopped[p] - 1
<1>1. CASE exchange
  BY <1>1, NothingSent DEF SendFlow
<1>2. CASE ~ exchange
  <2>. DEFINE m == [t |-> "FLOW", id |-> conn[p].conf_id, stop |-> stop]
  <2>1. conn[p].conf_id \in Int /\ stopped[p] \in Int
    BY DEF TypeOK, Conn
  <2>2. m \in Msg /\ m.t \in {"ACT", "FLOW"}
    BY <2>1, MsgType
  <2>3. /\ ToAll(m) /\ UNCHANGED status
        /\ stopped' = [stopped EXCEPT ![p] =
              IF conn[p].conf_id # conf THEN @ ELSE IF stop THEN @ + 1 ELSE @ - 1]
    BY <1>2 DEF SendFlow
  <2>. HIDE DEF m
  <2>4. stopped' \in [Procs -> Int]
    BY <2>1, <2>3 DEF TypeOK
  <2>5. Delivers
    BY <2>2, <2>3, <2>4, AllSent
  <2>. QED BY <1>2, <2>3, <2>5 DEF TypeOK
<1>. QED BY <1>1, <1>2

----------------------------------------------------------------------------
(* FlowInv: one process at a time                                          *)

ProcOK(q) == LockOK(q) /\ IdsOK(q) /\ (Member(q) => PhaseOK(q) /\ BalanceOK(q))

\* No step but a crash or the end of a state exchange changes these.
Kept == UNCHANGED <<up, view, exchange, conf>>

\* The receiving thread of q does not begin or end with a configuration.
Plain(q) ==
    /\ conn'[q].conf_id = conn[q].conf_id /\ core'[q] = core[q]
    /\ \/ rpc'[q] = rpc[q] /\ ract'[q] = ract[q]
       \/ /\ rpc[q] # "conf" /\ rpc'[q] \notin {"conf", "restore"}
          /\ rpc[q] = "recv" => inbox[q] = <<>>

\* stop_sent moves with the messages of q and with the lock.
Balanced(q) ==
    Member(q) => IF conn[q].conf_id = conf
                 THEN conn'[q].stop_sent + Ahead(q) + stopped[q]
                        = conn[q].stop_sent + Ahead(q)' + stopped'[q]
                 ELSE stopped'[q] = stopped[q]

\* Where configurations are in the inbox is not changed by what is sent.
LEMMA SentFacts ==
    ASSUME TypeOK, NEW q \in Procs, Sent(q)
    PROVE  /\ \A i \in DOMAIN inbox'[q] : inbox'[q][i].t \in {"COMP", "CONF"} =>
                 i \in DOMAIN inbox[q] /\ inbox'[q][i] = inbox[q][i]
           /\ inbox[q] # <<>> => inbox'[q] # <<>> /\ inbox'[q][1] = inbox[q][1]
<1>1. inbox[q] \in Seq(Msg)
  BY DEF TypeOK
<1>2. CASE inbox'[q] = inbox[q]
  BY <1>2
<1>3. ASSUME NEW m \in Msg, m.t \notin {"COMP", "CONF"}, inbox'[q] = Append(inbox[q], m)
      PROVE  /\ \A i \in DOMAIN inbox'[q] : inbox'[q][i].t \in {"COMP", "CONF"} =>
                   i \in DOMAIN inbox[q] /\ inbox'[q][i] = inbox[q][i]
             /\ inbox[q] # <<>> => inbox'[q] # <<>> /\ inbox'[q][1] = inbox[q][1]
  <2>1. /\ DOMAIN inbox'[q] = 1..(Len(inbox[q]) + 1) /\ DOMAIN inbox[q] = 1..Len(inbox[q])
        /\ Len(inbox[q]) \in Nat /\ Len(inbox'[q]) = Len(inbox[q]) + 1
        /\ \A i \in 1..Len(inbox[q]) : inbox'[q][i] = inbox[q][i]
        /\ inbox'[q][Len(inbox[q]) + 1] = m
    BY <1>1, <1>3
  <2>2. inbox[q] # <<>> => 1 \in 1..Len(inbox[q])
    BY <1>1
  <2>. QED BY <1>3, <2>1, <2>2
<1>. QED BY <1>2, <1>3 DEF Sent

LEMMA PlainStep ==
    ASSUME FlowInv, TypeOK', Kept, NEW q \in Procs, Plain(q), Sent(q), LockOK(q)', Balanced(q)
    PROVE  ProcOK(q)'
<1>1. TypeOK /\ LockOK(q) /\ IdsOK(q) /\ (Member(q) => PhaseOK(q) /\ BalanceOK(q))
  BY DEF FlowInv
<1>2. /\ \A i \in DOMAIN inbox'[q] : inbox'[q][i].t \in {"COMP", "CONF"} =>
            i \in DOMAIN inbox[q] /\ inbox'[q][i] = inbox[q][i]
      /\ inbox[q] # <<>> => inbox'[q] # <<>> /\ inbox'[q][1] = inbox[q][1]
  BY <1>1, SentFacts
<1>3. IdsOK(q)'
  BY <1>1, <1>2 DEF IdsOK, Plain, Kept
<1>4. Member(q)' <=> Member(q)
  BY DEF Member, Kept, Up
<1>5. ASSUME Member(q) PROVE PhaseOK(q)'
  <2>1. PhaseOK(q)
    BY <1>1, <1>5
  <2>2. CASE rpc'[q] = rpc[q] /\ ract'[q] = ract[q]
    BY <1>2, <2>1, <2>2 DEF PhaseOK, Plain, Kept
  <2>3. CASE /\ rpc[q] # "conf" /\ rpc'[q] \notin {"conf", "restore"}
             /\ rpc[q] = "recv" => inbox[q] = <<>>
    <3>1. conn[q].conf_id = conf
      BY <2>1, <2>3 DEF PhaseOK
    <3>2. \A i \in DOMAIN inbox[q] : inbox[q][i].t \notin {"COMP", "CONF"}
      BY <2>1, <3>1 DEF PhaseOK
    <3>3. \A i \in DOMAIN inbox'[q] : inbox'[q][i].t \notin {"COMP", "CONF"}
      BY <1>2, <3>2
    <3>4. conn'[q].conf_id = conf' /\ core'[q] = "PRIMARY"
      BY <2>1, <3>1 DEF PhaseOK, Plain, Kept
    <3>. QED BY <2>3, <3>3, <3>4 DEF PhaseOK
  <2>. QED BY <2>2, <2>3 DEF Plain
<1>6. ASSUME Member(q) PROVE BalanceOK(q)'
  <2>1. BalanceOK(q) /\ conn'[q].conf_id = conn[q].conf_id /\ conf' = conf
    BY <1>1, <1>6 DEF Plain, Kept
  <2>2. CASE conn[q].conf_id # conf
    BY <1>6, <2>1, <2>2 DEF BalanceOK, Balanced
  <2>3. CASE conn[q].conf_id = conf
    <3>1. /\ conn[q].stop_sent = stopped[q] + Ahead(q)
          /\ conn'[q].stop_sent + Ahead(q) + stopped[q] = conn[q].stop_sent + Ahead(q)' + stopped'[q]
      BY <1>6, <2>1, <2>3 DEF BalanceOK, Balanced
    <3>2. /\ conn[q].stop_sent \in Int /\ stopped[q] \in Int
          /\ conn'[q].stop_sent \in Int /\ stopped'[q] \in Int
      BY <1>1 DEF TypeOK, Conn
    <3>3. conn'[q].stop_sent = stopped'[q] + Ahead(q)'
      BY <3>1, <3>2 DEF Ahead
    <3>. QED BY <2>1, <2>3, <3>3 DEF BalanceOK
  <2>. QED BY <2>2, <2>3
<1>. QED BY <1>3, <1>4, <1>5, <1>6 DEF ProcOK

\* A process that a step only sends to.
Untouched(q) ==
    /\ conn'[q] = conn[q] /\ fc_lock'[q] = fc_lock[q] /\ core'[q] = core[q] /\ paused'[q] = paused[q]
    /\ rpc'[q] = rpc[q] /\ ract'[q] = ract[q] /\ stopped'[q] = stopped[q]
    /\ \A t \in Threads[q] : tpc'[t] = tpc[t]

LEMMA UntouchedOK ==
    ASSUME FlowInv, TypeOK', Kept, NEW q \in Procs, Untouched(q), Sent(q)
    PROVE  ProcOK(q)'
<1>1. Plain(q) /\ LockOK(q)'
  BY DEF FlowInv, Plain, LockOK, Untouched
<1>2. Ahead(q)' = Ahead(q)
  BY DEF Ahead, Untouched
<1>3. Balanced(q)
  BY <1>2 DEF Balanced, Untouched
<1>. QED BY <1>1, <1>3, PlainStep

\* A step of p.
LEMMA OwnStep ==
    ASSUME FlowInv, TypeOK', Kept, NEW p \in Procs,
           \A q \in Procs \ {p} : Untouched(q) /\ Sent(q), ProcOK(p)'
    PROVE  FlowInv'
<1>1. ASSUME NEW q \in Procs PROVE ProcOK(q)'
  <2>1. CASE q = p
    BY <2>1
  <2>2. CASE q # p
    BY <2>2, UntouchedOK
  <2>. QED BY <2>1, <2>2
<1>. QED BY <1>1 DEF FlowInv, ProcOK

\* A message that is no part of a configuration is received.
LEMMA TakeStep ==
    ASSUME FlowInv, TypeOK', Kept, NEW p \in Procs, inbox[p] # <<>>, rpc[p] = "recv",
           inbox[p][1].t \notin {"COMP", "CONF"}, inbox'[p] = Tail(inbox[p]),
           conn'[p].conf_id = conn[p].conf_id, conn'[p].stop_sent = conn[p].stop_sent,
           core'[p] = core[p], stopped'[p] = stopped[p], fc_lock'[p] = fc_lock[p],
           rpc'[p] \notin {"conf", "restore", "stop", "cont"}, UNCHANGED tpc
    PROVE  ProcOK(p)'
<1>1. TypeOK /\ LockOK(p) /\ IdsOK(p) /\ (Member(p) => PhaseOK(p) /\ BalanceOK(p))
  BY DEF FlowInv
<1>2. inbox[p] \in Seq(Msg)
  BY <1>1 DEF TypeOK
<1>3. \A i \in DOMAIN inbox'[p] :
         i + 1 \in DOMAIN inbox[p] /\ inbox'[p][i] = inbox[p][i + 1] /\ i + 1 # 1
  BY <1>2
<1>4. LockOK(p)' /\ IdsOK(p)'
  BY <1>1, <1>3 DEF LockOK, IdsOK, Kept
<1>5. Member(p)' <=> Member(p)
  BY DEF Member, Kept, Up
<1>6. ASSUME Member(p) PROVE PhaseOK(p)' /\ BalanceOK(p)'
  <2>1. PhaseOK(p) /\ BalanceOK(p)
    BY <1>1, <1>6
  <2>2. conn[p].conf_id = conf
    BY <2>1 DEF PhaseOK
  <2>3. \A i \in DOMAIN inbox'[p] : inbox'[p][i].t \notin {"COMP", "CONF"}
    BY <1>3, <2>1 DEF PhaseOK
  <2>4. PhaseOK(p)'
    BY <2>1, <2>2, <2>3 DEF PhaseOK, Kept
  <2>5. Ahead(p)' = Ahead(p)
    BY DEF Ahead
  <2>. QED BY <2>1, <2>4, <2>5 DEF BalanceOK, Kept
<1>. QED BY <1>4, <1>5, <1>6 DEF ProcOK

----------------------------------------------------------------------------
(* Ordinary steps: all but the receipt of a message, the end of a          *)
(* configuration in gcs_handle_act_conf() and the changes of the group     *)

\* The state that p is on its way to does not change.
StateKept(p) ==
    Member(p) /\ StateOK(p) =>
        /\ Start(p)' = Start(p)
        /\ rpc'[p] \in {"sst_release", "joined"} => conn'[p].state \in {DONOR, JOINER}

Ordinary(p) ==
    /\ TypeOK' /\ Kept /\ Delivers
    /\ \A q \in Procs \ {p} : Untouched(q)
    /\ Plain(p) /\ LockOK(p)' /\ Balanced(p) /\ StateKept(p)
    /\ conn'[p].stop_count = conn[p].stop_count /\ paused'[p] = paused[p]

LEMMA OrdinaryFlow ==
    ASSUME FlowInv, NEW p \in Procs, Ordinary(p)
    PROVE  FlowInv'
<1>1. /\ TypeOK' /\ Kept /\ \A q \in Procs : Sent(q)
      /\ \A q \in Procs \ {p} : Untouched(q)
      /\ Plain(p) /\ LockOK(p)' /\ Balanced(p)
  BY DEF Ordinary, Delivers
<1>2. ProcOK(p)'
  BY <1>1, PlainStep
<1>. QED BY <1>1, <1>2, OwnStep

\* Where the state of the connection is not the one it is on its way to.
Shifting == {"conf", "restore", "sst_release", "joined"}

LEMMA StateStays ==
    ASSUME NEW p \in Procs, conn'[p].state = conn[p].state, rpc[p] \notin Shifting,
           rpc'[p] \notin Shifting
    PROVE  StateKept(p)
BY DEF StateKept, Start, Shifting

\* What a step of the receiving thread that is neither conf nor a receipt leaves.
RecvLeaves(p) ==
    /\ UNCHANGED <<paused, tpc, up, view, exchange, conf, core, asked>>
    /\ recv_q' \in [Procs -> Seq(Items)] /\ Delivers
    /\ \A q \in Procs \ {p} : stopped'[q] = stopped[q]

\* The receiving thread of p goes on to at, with the connection c and the lock l.
LEMMA RecvOrdinary ==
    ASSUME FlowInv, NEW p \in Procs, NEW c \in Conn, NEW at \in RecvPc, NEW l \in {NoOne, Recv} \cup Threads[p],
           Set(p, c), GoTo(p, at), fc_lock' = [fc_lock EXCEPT ![p] = l], RecvLeaves(p),
           c.conf_id = conn[p].conf_id, c.stop_count = conn[p].stop_count,
           rpc[p] # "conf", at \notin {"conf", "restore"}, rpc[p] = "recv" => inbox[p] = <<>>,
           l = Recv <=> at \in {"stop", "cont"},
           \A t \in Threads[p] : l = t <=> fc_lock[p] = t,
           Balanced(p), StateKept(p)
    PROVE  Ordinary(p)
<1>. USE DEF RecvLeaves
<1>1. TypeOK /\ LockOK(p)
  BY DEF FlowInv
<1>2. /\ conn' \in [Procs -> Conn] /\ conn'[p] = c
      /\ \A q \in Procs \ {p} : conn'[q] = conn[q]
  BY <1>1, SetType
<1>3. /\ rpc' \in [Procs -> RecvPc] /\ rpc'[p] = at
      /\ ract' \in [Procs -> Msg \cup {NoAct}]
      /\ \A q \in Procs \ {p} : rpc'[q] = rpc[q] /\ ract'[q] = ract[q]
  BY <1>1, GoToType
<1>4. l \in {NoOne, Recv} \cup AllThreads
  BY DEF AllThreads
<1>5. /\ fc_lock' \in [Procs -> {NoOne, Recv} \cup AllThreads] /\ fc_lock'[p] = l
      /\ \A q \in Procs : fc_lock'[q] \in {NoOne, Recv} \cup Threads[q]
      /\ \A q \in Procs \ {p} : fc_lock'[q] = fc_lock[q]
  BY <1>1, <1>4 DEF TypeOK
<1>6. TypeOK'
  BY <1>1, <1>2, <1>3, <1>5 DEF TypeOK, Delivers
<1>7. Kept /\ \A q \in Procs \ {p} : Untouched(q)
  BY <1>2, <1>3, <1>5 DEF Kept, Untouched
<1>8. Plain(p) /\ LockOK(p)'
  BY <1>1, <1>2, <1>3, <1>5 DEF Plain, LockOK
<1>. QED BY <1>2, <1>6, <1>7, <1>8 DEF Ordinary

\* The same when the lock and stop_sent stay: nothing to do with flow control.
LEMMA RecvQuiet ==
    ASSUME FlowInv, NEW p \in Procs, NEW c \in Conn, NEW at \in RecvPc,
           Set(p, c), GoTo(p, at), UNCHANGED <<fc_lock, stopped>>, RecvLeaves(p),
           SameFlow(conn[p], c),
           rpc[p] \notin {"conf", "stop", "cont"}, at \notin {"conf", "restore", "stop", "cont"},
           rpc[p] = "recv" => inbox[p] = <<>>, StateKept(p)
    PROVE  Ordinary(p)
<1>1. TypeOK /\ LockOK(p)
  BY DEF FlowInv
<1>2. /\ fc_lock' = [fc_lock EXCEPT ![p] = fc_lock[p]] /\ fc_lock[p] # Recv
      /\ fc_lock[p] \in {NoOne, Recv} \cup Threads[p]
  BY <1>1 DEF TypeOK, LockOK
<1>3. conn'[p] = c /\ rpc'[p] = at
  BY <1>1, SetType, GoToType
<1>4. Ahead(p)' = Ahead(p)
  BY <1>3 DEF Ahead
<1>5. Balanced(p)
  BY <1>3, <1>4 DEF Balanced, SameFlow
<1>. QED BY <1>2, <1>5, RecvOrdinary DEF SameFlow

\* The steps of gcs_handle_act_conf() after its locks.
LEMMA ConfRestoreOrdinary ==
    ASSUME FlowInv, NEW p \in Procs, ConfRestore(p)
    PROVE  Ordinary(p)
<1>. DEFINE my == ract[p].my
            c == IF my >= PRIMARY THEN gcs_shift_state(conn[p], my) ELSE [conn[p] EXCEPT !.state = my]
            at == CASE my = PRIMARY -> "release"
                    [] my = JOINED -> "sync?"
                    [] my \in {JOINER, DONOR} /\ conn[p].need_to_join -> "join"
                    [] OTHER -> "push"
<1>1. TypeOK /\ IdsOK(p) /\ (Member(p) => PhaseOK(p)) /\ conn[p] \in Conn
  BY DEF FlowInv, TypeOK
<1>2. rpc[p] = "restore" /\ Set(p, c) /\ GoTo(p, at)
  BY DEF ConfRestore, RecvAt
<1>3. my \in SYNCED..OPEN
  <2>1. ract[p].t = "CONF" /\ ract[p] \in Msg \cup {NoAct}
    BY <1>1, <1>2 DEF IdsOK, TypeOK
  <2>2. ract[p] \in Msg
    BY <2>1 DEF NoAct
  <2>. QED BY <2>1, <2>2, MsgFields
<1>4. at \in {"release", "sync?", "join", "push"}
  OBVIOUS
<1>5. SameFlow(conn[p], c) /\ (my \in SYNCED..PRIMARY => c.state = my)
  <2>1. CASE my >= PRIMARY
    <3>1. c = gcs_shift_state(conn[p], my) /\ (my = PRIMARY \/ my = OPEN)
      BY <1>3, <2>1
    <3>2. /\ SameFlow(conn[p], gcs_shift_state(conn[p], my))
          /\ my = PRIMARY => gcs_shift_state(conn[p], my).state = my
      BY <1>1, <1>3, ShiftState
    <3>. QED BY <3>1, <3>2
  <2>2. CASE ~ (my >= PRIMARY)
    <3>1. SameFlow(conn[p], c)
      BY <1>1, <1>3, <2>2, ConnEdits
    <3>2. c.state = my
      BY <1>1, <2>2 DEF Conn
    <3>. QED BY <3>1, <3>2
  <2>. QED BY <2>1, <2>2
<1>. HIDE DEF c, at
<1>6. c \in Conn /\ at \in RecvPc
  BY <1>4, <1>5 DEF SameFlow, RecvPc
<1>7. conn'[p] = c /\ rpc'[p] = at
  BY <1>1, <1>2, <1>6, SetType, GoToType
<1>8. StateKept(p)
  <2>1. SUFFICES ASSUME Member(p) PROVE Start(p)' = Start(p) /\ rpc'[p] \notin {"sst_release", "joined"}
    BY DEF StateKept
  <2>2. my \in SYNCED..PRIMARY
    BY <1>1, <1>2, <2>1 DEF PhaseOK
  <2>. QED BY <1>2, <1>4, <1>5, <1>7, <2>2 DEF Start
<1>9. UNCHANGED <<fc_lock, stopped>> /\ RecvLeaves(p)
  BY <1>1, NothingSent DEF ConfRestore, locks, queue, group, RecvLeaves, TypeOK
<1>. QED BY <1>2, <1>4, <1>5, <1>6, <1>8, <1>9, RecvQuiet

\* Steps of the receiving thread that have to do with neither the flow control
\* nor the state of the connection.
LEMMA RecvPlainOrdinary ==
    ASSUME FlowInv, NEW p \in Procs, NEW c \in Conn, NEW at \in RecvPc \ (Shifting \cup {"stop", "cont"}),
           Set(p, c), GoTo(p, at), UNCHANGED <<fc_lock, stopped>>, RecvLeaves(p),
           SameState(conn[p], c), rpc[p] \notin Shifting \cup {"stop", "cont"},
           rpc[p] = "recv" => inbox[p] = <<>>
    PROVE  Ordinary(p)
<1>1. TypeOK
  BY DEF FlowInv
<1>2. conn'[p] = c /\ rpc'[p] = at
  BY <1>1, SetType, GoToType
<1>3. StateKept(p)
  BY <1>2, StateStays DEF SameState
<1>. QED BY <1>3, RecvQuiet DEF SameState, Shifting

LEMMA RecvPlainActions ==
    ASSUME FlowInv, NEW p \in Procs,
           \/ ConfSync(p) \/ ConfJoin(p) \/ JoinedOffset(p) \/ JoinedTest(p) \/ JoinedSet(p)
           \/ RecvSyncEnd(p) \/ Push(p) \/ Growth(p)
    PROVE  Ordinary(p)
<1>. USE DEF locks, queue, group, recv
<1>1. TypeOK /\ conn[p] \in Conn /\ conn = [conn EXCEPT ![p] = conn[p]]
  BY DEF FlowInv, TypeOK
<1>2. SameState(conn[p], conn[p]) /\ (UNCHANGED conn => Set(p, conn[p]))
  BY <1>1 DEF SameState, SameFlow, Set
<1>3. ASSUME UNCHANGED <<paused, tpc, up, view, exchange, conf, core, asked, recv_q, stopped>>, Delivers
      PROVE  RecvLeaves(p)
  BY <1>1, <1>3 DEF RecvLeaves, TypeOK
<1>4. CASE ConfSync(p)
  <2>1. \E c \in {conn[p], [conn[p] EXCEPT !.sync_sent = TRUE]}, at \in {"sync", "push"} :
           Set(p, c) /\ GoTo(p, at)
    BY <1>2, <1>4 DEF ConfSync
  <2>2. PICK c \in {conn[p], [conn[p] EXCEPT !.sync_sent = TRUE]}, at \in {"sync", "push"} :
           Set(p, c) /\ GoTo(p, at)
    BY <2>1
  <2>3. SameState(conn[p], c) /\ c \in Conn
    <3>1. SameState(conn[p], [conn[p] EXCEPT !.sync_sent = TRUE])
      BY <1>1, ConnEdits
    <3>2. SameState(conn[p], c)
      BY <1>2, <2>2, <3>1
    <3>. QED BY <3>2 DEF SameState, SameFlow
  <2>4. /\ UNCHANGED <<fc_lock, stopped>> /\ RecvLeaves(p)
        /\ rpc[p] \notin Shifting \cup {"stop", "cont", "recv"}
        /\ at \in RecvPc \ (Shifting \cup {"stop", "cont"})
    BY <1>1, <1>3, <1>4, NothingSent DEF ConfSync, RecvAt, Shifting, RecvPc, msgs
  <2>. QED BY <2>2, <2>3, <2>4, RecvPlainOrdinary
<1>5. CASE ConfJoin(p) \/ JoinedTest(p)
  <2>1. /\ Set(p, conn[p]) /\ \E at \in {"push", "set"} : GoTo(p, at)
        /\ rpc[p] \notin Shifting \cup {"stop", "cont", "recv"}
    BY <1>2, <1>5 DEF ConfJoin, JoinedTest, RecvAt, Shifting
  <2>2. UNCHANGED <<fc_lock, stopped>> /\ RecvLeaves(p)
    BY <1>1, <1>3, <1>5, SyncOrJoinSent, NothingSent DEF ConfJoin, JoinedTest
  <2>3. {"push", "set"} \subseteq RecvPc \ (Shifting \cup {"stop", "cont"})
    BY DEF RecvPc, Shifting
  <2>. QED BY <1>1, <1>2, <2>1, <2>2, <2>3, RecvPlainOrdinary
<1>6. CASE JoinedOffset(p)
  <2>. DEFINE c == [conn[p] EXCEPT !.fc_offset = conn[p].queue_len, !.need_to_join = FALSE]
  <2>1. /\ Set(p, c) /\ GoTo(p, "test") /\ UNCHANGED <<fc_lock, stopped>> /\ RecvLeaves(p)
        /\ rpc[p] \notin Shifting \cup {"stop", "cont", "recv"}
        /\ "test" \in RecvPc \ (Shifting \cup {"stop", "cont"})
    BY <1>1, <1>3, <1>6, NothingSent DEF JoinedOffset, RecvAt, Shifting, RecvPc, msgs
  <2>2. conn[p].queue_len \in Int
    BY <1>1 DEF Conn
  <2>3. SameState(conn[p], c) /\ c \in Conn
    BY <1>1, <2>2, ConnEdits DEF SameState, SameFlow
  <2>. HIDE DEF c
  <2>. QED BY <2>1, <2>3, RecvPlainOrdinary
<1>7. CASE JoinedSet(p)
  <2>. DEFINE c == [conn[p] EXCEPT !.sync_sent = TRUE]
  <2>1. /\ Set(p, c) /\ GoTo(p, "sync") /\ UNCHANGED <<fc_lock, stopped>> /\ RecvLeaves(p)
        /\ rpc[p] \notin Shifting \cup {"stop", "cont", "recv"}
        /\ "sync" \in RecvPc \ (Shifting \cup {"stop", "cont"})
    BY <1>1, <1>3, <1>7, NothingSent DEF JoinedSet, RecvAt, Shifting, RecvPc, msgs
  <2>2. SameState(conn[p], c) /\ c \in Conn
    BY <1>1, ConnEdits DEF SameState, SameFlow
  <2>. HIDE DEF c
  <2>. QED BY <2>1, <2>2, RecvPlainOrdinary
<1>8. CASE RecvSyncEnd(p)
  <2>1. /\ \E c \in {conn[p], [conn[p] EXCEPT !.sync_sent = FALSE]} : Set(p, c)
        /\ SendSync(p) \/ UNCHANGED msgs
        /\ GoTo(p, "push")
    BY <1>2, <1>8 DEF RecvSyncEnd, SyncEnd
  <2>2. PICK c \in {conn[p], [conn[p] EXCEPT !.sync_sent = FALSE]} : Set(p, c)
    BY <2>1
  <2>3. SameState(conn[p], c) /\ c \in Conn
    <3>1. SameState(conn[p], [conn[p] EXCEPT !.sync_sent = FALSE])
      BY <1>1, ConnEdits
    <3>2. SameState(conn[p], c)
      BY <1>2, <2>2, <3>1
    <3>. QED BY <3>2 DEF SameState, SameFlow
  <2>4. /\ UNCHANGED <<fc_lock, stopped>> /\ RecvLeaves(p)
        /\ rpc[p] \notin Shifting \cup {"stop", "cont", "recv"}
        /\ "push" \in RecvPc \ (Shifting \cup {"stop", "cont"})
    BY <1>1, <1>3, <1>8, <2>1, SyncOrJoinSent DEF RecvSyncEnd, RecvAt, Shifting, RecvPc
  <2>. QED BY <2>1, <2>2, <2>3, <2>4, RecvPlainOrdinary
<1>9. CASE Push(p)
  <2>1. Len(recv_q[p]) + 1 \in Int /\ Item(p) \in Items /\ recv_q[p] \in Seq(Items)
    BY <1>1 DEF TypeOK, Item, Items
  <2>2. SameState(conn[p], Queued(p)) /\ Queued(p) \in Conn
    BY <1>1, <2>1, ConnEdits DEF SameState, SameFlow, Queued
  <2>3. Append(recv_q[p], Item(p)) \in Seq(Items)
    BY <2>1
  <2>4. recv_q' \in [Procs -> Seq(Items)]
    <3>1. recv_q' = recv_q \/ recv_q' = [recv_q EXCEPT ![p] = Append(@, Item(p))]
      BY <1>9 DEF Push
    <3>. QED BY <1>1, <2>3, <3>1 DEF TypeOK
  <2>5. /\ Set(p, Queued(p)) /\ \E at \in {"stop?", "growth", "recv"} : GoTo(p, at)
        /\ UNCHANGED <<fc_lock, stopped>>
        /\ rpc[p] \notin Shifting \cup {"stop", "cont", "recv"}
    BY <1>9 DEF Push, RecvAt, Shifting, msgs
  <2>6. RecvLeaves(p)
    BY <1>1, <1>9, <2>4, <2>5, NothingSent DEF Push, RecvLeaves
  <2>7. {"stop?", "growth", "recv"} \subseteq RecvPc \ (Shifting \cup {"stop", "cont"})
    BY DEF RecvPc, Shifting
  <2>. QED BY <2>2, <2>5, <2>6, <2>7, RecvPlainOrdinary
<1>10. CASE Growth(p)
  <2>1. PICK n \in ActSizes : \E at \in {"recv", "sst_stop", "exit"}, b \in {TRUE, FALSE, conn[p].timeout} :
           Set(p, [conn[p] EXCEPT !.size = conn[p].size + n, !.timeout = b]) /\ GoTo(p, at)
    BY <1>10 DEF Growth
  <2>2. PICK at \in {"recv", "sst_stop", "exit"}, b \in {TRUE, FALSE, conn[p].timeout} :
           Set(p, [conn[p] EXCEPT !.size = conn[p].size + n, !.timeout = b]) /\ GoTo(p, at)
    BY <2>1
  <2>3. conn[p].size + n \in Int /\ b \in BOOLEAN
    <3>1. conn[p].size \in Int /\ n \in Int
      BY <1>1, ConnAssumption DEF Conn
    <3>2. conn[p].timeout \in BOOLEAN
      BY <1>1 DEF Conn
    <3>3. conn[p].size + n \in Int
      BY <3>1
    <3>4. b \in BOOLEAN
      BY <2>2, <3>2
    <3>. QED BY <3>3, <3>4
  <2>. DEFINE c == [conn[p] EXCEPT !.size = conn[p].size + n, !.timeout = b]
  <2>4. SameState(conn[p], c) /\ c \in Conn
    <3>1. SameState(conn[p], c)
      BY <1>1, <2>3, ConnEdits, Zenon
    <3>. QED BY <3>1 DEF SameState, SameFlow
  <2>5. /\ UNCHANGED <<fc_lock, stopped>> /\ RecvLeaves(p)
        /\ rpc[p] \notin Shifting \cup {"stop", "cont", "recv"}
        /\ at \in RecvPc \ (Shifting \cup {"stop", "cont"})
    BY <1>1, <1>3, <1>10, NothingSent DEF Growth, RecvAt, Shifting, RecvPc, msgs
  <2>6. Set(p, c) /\ GoTo(p, at)
    BY <2>2
  <2>. HIDE DEF c
  <2>7. rpc[p] \notin Shifting \cup {"stop", "cont"} /\ (rpc[p] = "recv" => inbox[p] = <<>>)
    BY <2>5
  <2>. QED BY ONLY FlowInv, p \in Procs, <2>4, <2>5, <2>6, <2>7, RecvPlainOrdinary, Zenon
<1>. QED BY <1>4, <1>5, <1>6, <1>7, <1>8, <1>9, <1>10

\* core_msg_send_retry() gives up only outside the primary component.
LEMMA MembersSend ==
    ASSUME FlowInv, NEW p \in Procs, Fails(p)
    PROVE  ~ Member(p)
BY DEF FlowInv, PhaseOK, Fails

\* A STOP or a CONT of p is sent, or cannot be: d is by how much the group
\* counts more STOPs of p, as far as that matters.
LEMMA FlowOrFail ==
    ASSUME FlowInv, NEW p \in Procs, NEW stop \in BOOLEAN,
           SendFlow(p, stop) \/ (Fails(p) /\ UNCHANGED msgs)
    PROVE  /\ Delivers
           /\ \A q \in Procs \ {p} : stopped'[q] = stopped[q]
           /\ Member(p) => /\ SendFlow(p, stop)
                           /\ stopped'[p] = IF conn[p].conf_id # conf THEN stopped[p]
                                            ELSE IF stop THEN stopped[p] + 1 ELSE stopped[p] - 1
<1>1. TypeOK
  BY DEF FlowInv
<1>2. CASE SendFlow(p, stop)
  BY <1>1, <1>2, FlowSent DEF Member
<1>3. CASE Fails(p) /\ UNCHANGED msgs
  BY <1>1, <1>3, MembersSend, NothingSent
<1>. QED BY <1>2, <1>3

\* _release_flow_control(), gcs_fc_stop_begin(), gcs_fc_stop_end(): the steps of
\* the receiving thread that take or release fc_lock.
LEMMA RecvLockActions ==
    ASSUME FlowInv, NEW p \in Procs,
           ReleaseBegin(p) \/ ReleaseEnd(p) \/ StopBegin(p) \/ StopEnd(p)
    PROVE  Ordinary(p)
<1>. USE DEF locks, queue, group, recv
<1>1. /\ TypeOK /\ conn[p] \in Conn /\ conn = [conn EXCEPT ![p] = conn[p]] /\ LockOK(p)
      /\ fc_lock[p] \in {NoOne, Recv} \cup Threads[p] /\ stopped[p] \in Int
  BY DEF FlowInv, TypeOK
<1>2. /\ UNCHANGED conn => Set(p, conn[p])
      /\ conn[p].stop_sent \in Int /\ SameState(conn[p], conn[p])
  BY <1>1 DEF SameState, SameFlow, Set, Conn
<1>3. \A t \in Threads[p] : t # NoOne /\ t # Recv
  BY ConnAssumption DEF AllThreads
<1>4. NoOne # Recv
  BY DEF NoOne, Recv
<1>5. After(p, ract[p]) \in {"recv", "push"} /\ {"recv", "push", "cont", "stop"} \subseteq RecvPc
  BY DEF After, RecvPc
<1>6. CASE ReleaseBegin(p) /\ conn[p].stop_sent = 0
  <2>1. /\ Set(p, conn[p]) /\ GoTo(p, After(p, ract[p])) /\ UNCHANGED <<fc_lock, stopped>>
        /\ rpc[p] = "release"
    BY <1>2, <1>6 DEF ReleaseBegin, RecvAt, msgs
  <2>2. RecvLeaves(p)
    BY <1>1, <1>6, NothingSent DEF ReleaseBegin, RecvLeaves, TypeOK
  <2>3. /\ rpc[p] \notin Shifting \cup {"stop", "cont"} /\ rpc[p] # "recv"
        /\ After(p, ract[p]) \in RecvPc \ (Shifting \cup {"stop", "cont"})
    BY <1>5, <2>1 DEF Shifting
  <2>. QED BY <1>1, <1>2, <2>1, <2>2, <2>3, RecvPlainOrdinary
<1>7. CASE \/ ReleaseBegin(p) /\ conn[p].stop_sent # 0
           \/ StopBegin(p)
  <2>. DEFINE at == IF StopBegin(p) THEN "stop" ELSE "cont"
              v == IF at = "stop" THEN conn[p].stop_sent + 1 ELSE conn[p].stop_sent - 1
  <2>1. /\ Set(p, [conn[p] EXCEPT !.stop_sent = v]) /\ GoTo(p, at)
        /\ at \in {"cont", "stop"} /\ v \in Int
        /\ v = IF at = "stop" THEN conn[p].stop_sent + 1 ELSE conn[p].stop_sent - 1
    <3>1. CASE StopBegin(p)
      BY <1>2, <3>1 DEF StopBegin
    <3>2. CASE ~ StopBegin(p)
      BY <1>2, <1>7, <3>2 DEF ReleaseBegin
    <3>. QED BY <3>1, <3>2
  <2>. HIDE DEF at, v
  <2>. DEFINE c == [conn[p] EXCEPT !.stop_sent = v]
  <2>2. /\ c \in Conn /\ c.state = conn[p].state /\ c.conf_id = conn[p].conf_id
        /\ c.stop_sent = v /\ c.stop_count = conn[p].stop_count
    BY <1>1, <2>1, ConnStops
  <2>3. Set(p, c)
    BY <2>1
  <2>. HIDE DEF c
  <2>4. /\ fc_lock[p] = NoOne /\ fc_lock' = [fc_lock EXCEPT ![p] = Recv]
        /\ rpc[p] \in {"release", "stop?"} /\ UNCHANGED msgs
        /\ UNCHANGED <<paused, tpc, up, view, exchange, conf, core, asked>>
        /\ recv_q' = recv_q \/ recv_q' = [recv_q EXCEPT ![p] = Append(@, Item(p))]
    BY <1>7 DEF ReleaseBegin, StopBegin, RecvAt
  <2>5. RecvLeaves(p)
    <3>1. Item(p) \in Items /\ recv_q[p] \in Seq(Items)
      BY <1>1 DEF TypeOK, Item, Items
    <3>2. Append(recv_q[p], Item(p)) \in Seq(Items)
      BY <3>1
    <3>3. recv_q' \in [Procs -> Seq(Items)]
      BY <1>1, <2>4, <3>2 DEF TypeOK
    <3>. QED BY <1>1, <2>4, <3>3, NothingSent DEF RecvLeaves
  <2>6. conn'[p] = c /\ rpc'[p] = at /\ fc_lock'[p] = Recv
    BY <1>1, <1>5, <2>1, <2>2, <2>3, <2>4, SetType, GoToType DEF TypeOK
  <2>7. StateKept(p)
    BY <2>1, <2>2, <2>4, <2>6, StateStays DEF Shifting
  <2>8. stopped' = stopped
    BY <2>4 DEF msgs
  <2>9. Balanced(p)
    BY <1>1, <1>2, <1>4, <2>1, <2>2, <2>4, <2>6, <2>8 DEF Balanced, Ahead
  <2>10. /\ rpc[p] # "conf" /\ at \notin {"conf", "restore"} /\ (rpc[p] = "recv" => inbox[p] = <<>>)
         /\ at \in RecvPc /\ Recv \in {NoOne, Recv} \cup Threads[p]
    BY <1>5, <2>1, <2>4
  <2>11. Recv = Recv <=> at \in {"stop", "cont"}
    BY <2>1
  <2>12. \A t \in Threads[p] : Recv = t <=> fc_lock[p] = t
    BY <1>3, <2>4
  <2>. QED BY ONLY FlowInv, p \in Procs, <2>1, <2>2, <2>3, <2>4, <2>5, <2>7, <2>9, <2>10, <2>11, <2>12,
                   RecvOrdinary, Zenon
<1>8. CASE ReleaseEnd(p) \/ StopEnd(p)
  <2>. DEFINE stop == rpc[p] = "stop"
  <2>1. /\ rpc[p] = "cont" /\ GoTo(p, After(p, ract[p])) /\ ContEnd(p)
        \/ /\ rpc[p] = "stop" /\ GoTo(p, "recv")
           /\ \/ SendFlow(p, TRUE) /\ UNCHANGED conn
              \/ Fails(p) /\ UNCHANGED msgs /\ Set(p, [conn[p] EXCEPT !.stop_sent = @ - 1])
    BY <1>8 DEF ReleaseEnd, StopEnd, RecvAt
  <2>2. PICK at \in {"recv", "push"} : GoTo(p, at)
    BY <1>5, <2>1
  <2>3. \/ SendFlow(p, stop) /\ UNCHANGED conn
        \/ /\ Fails(p) /\ UNCHANGED msgs
           /\ \E v \in Int : Set(p, [conn[p] EXCEPT !.stop_sent = v])
    <3>1. conn[p].stop_sent - 1 \in Int /\ conn[p].stop_sent + 1 \in Int
      BY <1>2
    <3>2. CASE rpc[p] = "cont"
      <4>1. stop = FALSE /\ ContEnd(p)
        BY <2>1, <3>2
      <4>. QED BY <3>1, <4>1 DEF ContEnd
    <3>3. CASE rpc[p] = "stop"
      <4>1. stop = TRUE
        BY <3>3
      <4>. QED BY <2>1, <3>1, <3>3, <4>1
    <3>. QED BY <2>1, <3>2, <3>3
  <2>4. stop \in BOOLEAN /\ (stop <=> rpc[p] = "stop")
    OBVIOUS
  <2>. HIDE DEF stop
  <2>5. /\ Delivers
        /\ \A q \in Procs \ {p} : stopped'[q] = stopped[q]
        /\ Member(p) => /\ SendFlow(p, stop)
                        /\ stopped'[p] = IF conn[p].conf_id # conf THEN stopped[p]
                                         ELSE IF stop THEN stopped[p] + 1 ELSE stopped[p] - 1
    BY <2>3, <2>4, FlowOrFail
  <2>6. PICK c \in Conn :
           /\ Set(p, c) /\ c.state = conn[p].state /\ c.conf_id = conn[p].conf_id
           /\ c.stop_count = conn[p].stop_count /\ (Member(p) => c = conn[p])
    <3>1. CASE SendFlow(p, stop) /\ UNCHANGED conn
      BY <1>1, <1>2, <3>1
    <3>2. CASE /\ Fails(p) /\ UNCHANGED msgs
               /\ \E v \in Int : Set(p, [conn[p] EXCEPT !.stop_sent = v])
      <4>1. PICK v \in Int : Set(p, [conn[p] EXCEPT !.stop_sent = v])
        BY <3>2
      <4>. DEFINE c == [conn[p] EXCEPT !.stop_sent = v]
      <4>2. /\ c \in Conn /\ c.state = conn[p].state /\ c.conf_id = conn[p].conf_id
            /\ c.stop_count = conn[p].stop_count
        BY <1>1, ConnStops
      <4>3. Set(p, c)
        BY <4>1
      <4>. HIDE DEF c
      <4>. QED BY <3>2, <4>2, <4>3, MembersSend
    <3>. QED BY <2>3, <3>1, <3>2
  <2>7. /\ rpc[p] \in {"stop", "cont"} /\ fc_lock[p] = Recv
        /\ fc_lock' = [fc_lock EXCEPT ![p] = NoOne]
    BY <1>1, <1>8, <2>1 DEF ReleaseEnd, StopEnd, LockOK
  <2>8. RecvLeaves(p)
    BY <1>1, <1>8, <2>5 DEF ReleaseEnd, StopEnd, RecvLeaves, TypeOK
  <2>9. conn'[p] = c /\ rpc'[p] = at /\ fc_lock'[p] = NoOne
    BY <1>1, <1>5, <2>2, <2>6, <2>7, SetType, GoToType DEF TypeOK
  <2>10. StateKept(p)
    BY <2>2, <2>6, <2>7, <2>9, StateStays DEF Shifting
  <2>11. Balanced(p)
    <3>1. SUFFICES ASSUME Member(p)
                   PROVE  IF conn[p].conf_id = conf
                          THEN conn'[p].stop_sent + Ahead(p) + stopped[p]
                                 = conn[p].stop_sent + Ahead(p)' + stopped'[p]
                          ELSE stopped'[p] = stopped[p]
      BY DEF Balanced
    <3>2. /\ conn'[p] = conn[p] /\ Ahead(p)' = 0
          /\ Ahead(p) = IF rpc[p] = "stop" THEN 1 ELSE -1
      BY <1>4, <2>2, <2>6, <2>7, <2>9, <3>1 DEF Ahead
    <3>. QED BY <1>1, <1>2, <2>4, <2>5, <3>1, <3>2
  <2>. QED BY <1>1, <1>3, <1>4, <1>5, <2>2, <2>6, <2>7, <2>8, <2>10, <2>11, RecvOrdinary
<1>. QED BY <1>6, <1>7, <1>8

\* The receiving thread sends a STOP or a CONT without fc_lock.
LEMMA RecvSend ==
    ASSUME FlowInv, NEW p \in Procs, NEW c \in Conn, NEW at \in RecvPc,
           Set(p, c), GoTo(p, at), UNCHANGED fc_lock, RecvLeaves(p),
           c.conf_id = conn[p].conf_id, c.stop_count = conn[p].stop_count,
           rpc[p] \notin {"recv", "conf", "stop", "cont"}, at \notin {"conf", "restore", "stop", "cont"},
           Member(p) => IF conn[p].conf_id = conf
                        THEN c.stop_sent + stopped[p] = conn[p].stop_sent + stopped'[p]
                        ELSE stopped'[p] = stopped[p],
           StateKept(p)
    PROVE  Ordinary(p)
<1>1. TypeOK /\ LockOK(p)
  BY DEF FlowInv
<1>2. /\ fc_lock' = [fc_lock EXCEPT ![p] = fc_lock[p]] /\ fc_lock[p] # Recv
      /\ fc_lock[p] \in {NoOne, Recv} \cup Threads[p]
      /\ conn[p].stop_sent \in Int /\ c.stop_sent \in Int /\ stopped[p] \in Int /\ stopped'[p] \in Int
  <2>1. /\ fc_lock' = [fc_lock EXCEPT ![p] = fc_lock[p]] /\ fc_lock[p] # Recv
        /\ fc_lock[p] \in {NoOne, Recv} \cup Threads[p]
    BY <1>1 DEF TypeOK, LockOK
  <2>2. conn[p].stop_sent \in Int /\ c.stop_sent \in Int
    BY <1>1 DEF TypeOK, Conn
  <2>3. stopped[p] \in Int /\ stopped'[p] \in Int
    BY <1>1 DEF TypeOK, RecvLeaves, Delivers
  <2>. QED BY <2>1, <2>2, <2>3
<1>3. conn'[p] = c /\ rpc'[p] = at
  BY <1>1, SetType, GoToType
<1>4. Balanced(p)
  BY <1>2, <1>3 DEF Balanced, Ahead
<1>. QED BY <1>2, <1>4, RecvOrdinary

\* gcs_fc_process() and _release_sst_flow_control(): flow control of a joiner.
LEMMA SstActions ==
    ASSUME FlowInv, NEW p \in Procs, SstStop(p) \/ SstRelease(p)
    PROVE  Ordinary(p)
<1>. USE DEF locks, queue, group, recv
<1>1. /\ TypeOK /\ conn[p] \in Conn /\ stopped[p] \in Int /\ conn[p].stop_sent \in Int
      /\ conn = [conn EXCEPT ![p] = conn[p]]
  BY DEF FlowInv, TypeOK, Conn
<1>2. CASE SstStop(p)
  <2>1. /\ rpc[p] = "sst_stop" /\ GoTo(p, "recv") /\ UNCHANGED fc_lock
        /\ SendFlow(p, TRUE) \/ (Fails(p) /\ UNCHANGED msgs)
    BY <1>2 DEF SstStop, RecvAt
  <2>2. /\ Delivers
        /\ \A q \in Procs \ {p} : stopped'[q] = stopped[q]
        /\ Member(p) => stopped'[p] = IF conn[p].conf_id # conf THEN stopped[p] ELSE stopped[p] + 1
    <3>1. TRUE \in BOOLEAN
      OBVIOUS
    <3>. QED BY <2>1, <3>1, FlowOrFail
  <2>3. PICK c \in Conn :
           /\ Set(p, c) /\ c.state = conn[p].state /\ c.conf_id = conn[p].conf_id
           /\ c.stop_count = conn[p].stop_count
           /\ Member(p) => c.stop_sent = conn[p].stop_sent + 1
    <3>1. CASE SendFlow(p, TRUE) /\ Set(p, [conn[p] EXCEPT !.stop_sent = @ + 1])
      <4>. DEFINE v == conn[p].stop_sent + 1
                  c == [conn[p] EXCEPT !.stop_sent = v]
      <4>1. Set(p, c) /\ v \in Int
        BY <1>1, <3>1
      <4>. HIDE DEF v
      <4>2. /\ c \in Conn /\ c.state = conn[p].state /\ c.conf_id = conn[p].conf_id
            /\ c.stop_count = conn[p].stop_count /\ c.stop_sent = v
        BY <1>1, <4>1, ConnStops
      <4>. HIDE DEF c
      <4>. QED BY <4>1, <4>2 DEF v
    <3>2. CASE Fails(p) /\ UNCHANGED <<msgs, conn>>
      BY <1>1, <3>2, MembersSend DEF Set
    <3>. QED BY <1>2, <3>1, <3>2 DEF SstStop
  <2>4. RecvLeaves(p)
    BY <1>1, <1>2, <2>2 DEF SstStop, RecvLeaves, TypeOK
  <2>5. "recv" \in RecvPc
    BY DEF RecvPc
  <2>6. conn'[p] = c /\ rpc'[p] = "recv"
    BY <1>1, <2>1, <2>3, <2>5, SetType, GoToType
  <2>7. StateKept(p)
    BY <2>1, <2>3, <2>6, StateStays DEF Shifting
  <2>8. Member(p) => IF conn[p].conf_id = conf
                     THEN c.stop_sent + stopped[p] = conn[p].stop_sent + stopped'[p]
                     ELSE stopped'[p] = stopped[p]
    BY <1>1, <2>2, <2>3
  <2>. QED BY <2>1, <2>3, <2>4, <2>5, <2>7, <2>8, RecvSend
<1>3. CASE SstRelease(p)
  <2>. DEFINE at == IF rpc[p] = "timeout" THEN "recv" ELSE "joined"
  <2>1. /\ rpc[p] \in {"sst_release", "timeout"} /\ GoTo(p, at) /\ UNCHANGED fc_lock
        /\ at \in RecvPc /\ at \notin {"conf", "restore", "stop", "cont"}
    BY <1>3 DEF SstRelease, RecvAt, RecvPc
  <2>2. PICK c \in Conn :
           /\ Set(p, c) /\ c.state = conn[p].state /\ c.conf_id = conn[p].conf_id
           /\ c.stop_count = conn[p].stop_count
           /\ Delivers /\ \A q \in Procs \ {p} : stopped'[q] = stopped[q]
           /\ Member(p) => IF conn[p].conf_id = conf
                           THEN c.stop_sent + stopped[p] = conn[p].stop_sent + stopped'[p]
                           ELSE stopped'[p] = stopped[p]
    <3>1. CASE /\ SendFlow(p, FALSE)
               /\ Set(p, [conn[p] EXCEPT !.stop_sent = @ - 1, !.timeout = FALSE])
      <4>. DEFINE v == conn[p].stop_sent - 1
                  c == [conn[p] EXCEPT !.stop_sent = v, !.timeout = FALSE]
      <4>1. Set(p, c) /\ v \in Int
        BY <1>1, <3>1
      <4>. HIDE DEF v
      <4>2. /\ c \in Conn /\ c.state = conn[p].state /\ c.conf_id = conn[p].conf_id
            /\ c.stop_count = conn[p].stop_count /\ c.stop_sent = v
        BY <1>1, <4>1, ConnStops
      <4>. HIDE DEF c
      <4>3. FALSE \in BOOLEAN
        OBVIOUS
      <4>4. /\ Delivers
            /\ \A q \in Procs \ {p} : stopped'[q] = stopped[q]
            /\ Member(p) => stopped'[p] = IF conn[p].conf_id # conf THEN stopped[p] ELSE stopped[p] - 1
        BY <3>1, <4>3, FlowOrFail
      <4>. QED BY <1>1, <4>1, <4>2, <4>4 DEF v
    <3>2. CASE UNCHANGED msgs /\ Set(p, [conn[p] EXCEPT !.timeout = FALSE])
      <4>. DEFINE c == [conn[p] EXCEPT !.timeout = FALSE]
      <4>1. SameState(conn[p], c)
        BY <1>1, ConnEdits
      <4>2. Set(p, c) /\ Delivers /\ UNCHANGED stopped
        BY <1>1, <3>2, NothingSent
      <4>. HIDE DEF c
      <4>. QED BY <4>1, <4>2 DEF SameState, SameFlow
    <3>. QED BY <1>3, <3>1, <3>2 DEF SstRelease
  <2>3. RecvLeaves(p)
    BY <1>1, <1>3, <2>2 DEF SstRelease, RecvLeaves, TypeOK
  <2>4. conn'[p] = c /\ rpc'[p] = at
    BY <1>1, <2>1, <2>2, SetType, GoToType
  <2>5. StateKept(p)
    <3>1. CASE rpc[p] = "timeout"
      BY <2>2, <2>4, <3>1, StateStays DEF Shifting
    <3>2. CASE rpc[p] = "sst_release"
      BY <2>2, <2>4, <3>2 DEF StateKept, Start, StateOK
    <3>. QED BY <2>1, <3>1, <3>2
  <2>. QED BY <2>1, <2>2, <2>3, <2>5, RecvSend
<1>. QED BY <1>2, <1>3

\* gcs_become_joined(): the state is shifted.
LEMMA JoinedStateOrdinary ==
    ASSUME FlowInv, NEW p \in Procs, JoinedState(p)
    PROVE  Ordinary(p)
<1>. DEFINE c == gcs_shift_state(conn[p], JOINED)
            at == IF conn[p].state \in {DONOR, JOINER} THEN "offset" ELSE "push"
<1>1. TypeOK /\ conn[p] \in Conn
  BY DEF FlowInv, TypeOK
<1>2. JOINED \in SYNCED..OPEN
  OBVIOUS
<1>3. /\ SameFlow(conn[p], c) /\ c \in Conn
      /\ conn[p].state \in {DONOR, JOINER} => c.state = JOINED
  <2>1. /\ SameFlow(conn[p], c)
        /\ conn[p].state \in {DONOR, JOINER} => c.state = JOINED
    BY <1>1, <1>2, ShiftState
  <2>. HIDE DEF c
  <2>. QED BY <2>1 DEF SameFlow
<1>. HIDE DEF c
<1>4. /\ rpc[p] = "joined" /\ Set(p, c) /\ GoTo(p, at) /\ UNCHANGED <<fc_lock, stopped>>
      /\ at \in {"offset", "push"} /\ at \in RecvPc
  BY DEF JoinedState, RecvAt, c, locks, msgs, RecvPc
<1>5. RecvLeaves(p)
  BY <1>1, NothingSent DEF JoinedState, RecvLeaves, TypeOK, locks, queue, group
<1>6. conn'[p] = c /\ rpc'[p] = at
  BY <1>1, <1>3, <1>4, SetType, GoToType
<1>7. StateKept(p)
  BY <1>3, <1>4, <1>6 DEF StateKept, StateOK, Start
<1>. QED BY <1>3, <1>4, <1>5, <1>7, RecvQuiet

\* The type of a thread of the application.
ThreadPc == [at : Items \cup {"cont?", "cont", "sync", "sst"}, sync : BOOLEAN, next : Items]

\* What a step of the application leaves to the receiving thread and to others.
AppLeaves(p) ==
    /\ UNCHANGED <<rpc, ract, paused, up, view, exchange, conf, core>>
    /\ recv_q' \in [Procs -> Seq(Items)] /\ tpc' \in [AllThreads -> ThreadPc]
    /\ asked' \in [Procs -> BOOLEAN] /\ Delivers
    /\ \A q \in Procs \ {p} : stopped'[q] = stopped[q] /\ \A t \in Threads[q] : tpc'[t] = tpc[t]

\* A step of the application at p, with the connection c and the lock l.
LEMMA AppOrdinary ==
    ASSUME FlowInv, NEW p \in Procs, NEW c \in Conn, NEW l \in {NoOne, Recv} \cup Threads[p],
           Set(p, c), fc_lock' = [fc_lock EXCEPT ![p] = l], AppLeaves(p),
           c.conf_id = conn[p].conf_id, c.stop_count = conn[p].stop_count, c.state = conn[p].state,
           l = Recv <=> fc_lock[p] = Recv,
           \A t \in Threads[p] : l = t <=> tpc'[t].at = "cont",
           Balanced(p)
    PROVE  Ordinary(p)
<1>. USE DEF AppLeaves
<1>1. TypeOK /\ LockOK(p)
  BY DEF FlowInv
<1>2. /\ conn' \in [Procs -> Conn] /\ conn'[p] = c
      /\ \A q \in Procs \ {p} : conn'[q] = conn[q]
  BY <1>1, SetType
<1>3. l \in {NoOne, Recv} \cup AllThreads
  BY DEF AllThreads
<1>4. /\ fc_lock' \in [Procs -> {NoOne, Recv} \cup AllThreads] /\ fc_lock'[p] = l
      /\ \A q \in Procs : fc_lock'[q] \in {NoOne, Recv} \cup Threads[q]
      /\ \A q \in Procs \ {p} : fc_lock'[q] = fc_lock[q]
  BY <1>1, <1>3 DEF TypeOK
<1>5. TypeOK'
  BY <1>1, <1>2, <1>4 DEF TypeOK, Delivers, ThreadPc
<1>6. Kept /\ \A q \in Procs \ {p} : Untouched(q)
  BY <1>2, <1>4 DEF Kept, Untouched
<1>7. Plain(p) /\ LockOK(p)'
  BY <1>1, <1>2, <1>4 DEF Plain, LockOK
<1>8. StateKept(p)
  BY <1>2 DEF StateKept, StateOK, Start
<1>. QED BY <1>2, <1>5, <1>6, <1>7, <1>8 DEF Ordinary

\* The same when it has nothing to do with flow control.
LEMMA AppQuiet ==
    ASSUME FlowInv, NEW p \in Procs, NEW c, SameState(conn[p], c),
           Set(p, c), UNCHANGED <<fc_lock, stopped>>, AppLeaves(p),
           \A t \in Threads[p] : tpc[t].at = "cont" <=> tpc'[t].at = "cont"
    PROVE  Ordinary(p)
<1>1. TypeOK /\ LockOK(p)
  BY DEF FlowInv
<1>2. /\ fc_lock' = [fc_lock EXCEPT ![p] = fc_lock[p]]
      /\ fc_lock[p] \in {NoOne, Recv} \cup Threads[p]
      /\ \A t \in Threads[p] : fc_lock[p] = t <=> tpc'[t].at = "cont"
  BY <1>1 DEF TypeOK, LockOK
<1>3. /\ c \in Conn /\ c.conf_id = conn[p].conf_id /\ c.stop_count = conn[p].stop_count
      /\ c.state = conn[p].state /\ c.stop_sent = conn[p].stop_sent
  BY DEF SameState, SameFlow
<1>4. conn'[p] = c
  BY <1>1, <1>3, SetType
<1>5. Ahead(p)' = Ahead(p)
  BY DEF Ahead, AppLeaves
<1>6. Balanced(p)
  BY <1>3, <1>4, <1>5 DEF Balanced
<1>. QED BY <1>2, <1>3, <1>6, AppOrdinary

\* Steps in which no thread moves: the state transfer, the parameters, and
\* _handle_timeout() when there is nothing to do.
LEMMA AppStill ==
    ASSUME FlowInv, NEW p \in Procs, NEW c, SameState(conn[p], c), Set(p, c),
           UNCHANGED <<fc_lock, stopped, rpc, ract, paused, up, view, exchange, conf, core, recv_q, tpc>>,
           asked' \in [Procs -> BOOLEAN], Delivers
    PROVE  Ordinary(p)
<1>1. AppLeaves(p)
  BY DEF FlowInv, TypeOK, AppLeaves, ThreadPc
<1>. QED BY <1>1, AppQuiet

LEMMA StillActions ==
    ASSUME FlowInv, NEW p \in Procs, JoinBegin(p) \/ SetSyncDonor(p) \/ Timeout(p)
    PROVE  Ordinary(p)
<1>. USE DEF locks, queue, group, recv, msgs
<1>1. /\ TypeOK /\ conn[p] \in Conn /\ conn = [conn EXCEPT ![p] = conn[p]]
      /\ asked \in [Procs -> BOOLEAN] /\ SameState(conn[p], conn[p])
  BY DEF FlowInv, TypeOK, SameState, SameFlow
<1>2. UNCHANGED msgs /\ Delivers
  BY <1>1, NothingSent DEF JoinBegin, SetSyncDonor, Timeout
<1>3. CASE JoinBegin(p)
  <2>. DEFINE c == [conn[p] EXCEPT !.need_to_join = TRUE]
  <2>1. SameState(conn[p], c)
    BY <1>1, ConnEdits
  <2>2. /\ Set(p, c) /\ asked' \in [Procs -> BOOLEAN]
        /\ UNCHANGED <<fc_lock, stopped, rpc, ract, paused, up, view, exchange, conf, core, recv_q, tpc>>
    BY <1>1, <1>3 DEF JoinBegin
  <2>. HIDE DEF c
  <2>. QED BY <1>2, <2>1, <2>2, AppStill
<1>4. CASE SetSyncDonor(p)
  <2>. DEFINE c == [conn[p] EXCEPT !.max_fc_state = MaxFc(~ SyncDonor)]
  <2>1. MaxFc(~ SyncDonor) \in {JOINED, DONOR}
    BY DEF MaxFc
  <2>2. SameState(conn[p], c)
    BY <1>1, <2>1, ConnEdits
  <2>3. /\ Set(p, c) /\ asked' \in [Procs -> BOOLEAN]
        /\ UNCHANGED <<fc_lock, stopped, rpc, ract, paused, up, view, exchange, conf, core, recv_q, tpc>>
    BY <1>1, <1>4 DEF SetSyncDonor
  <2>. HIDE DEF c
  <2>. QED BY <1>2, <2>2, <2>3, AppStill
<1>5. CASE Timeout(p) /\ conn[p].state # JOINER
  <2>. DEFINE c == [conn[p] EXCEPT !.timeout = FALSE]
  <2>1. SameState(conn[p], c)
    BY <1>1, ConnEdits
  <2>2. /\ Set(p, c) /\ asked' \in [Procs -> BOOLEAN]
        /\ UNCHANGED <<fc_lock, stopped, rpc, ract, paused, up, view, exchange, conf, core, recv_q, tpc>>
    BY <1>1, <1>5 DEF Timeout
  <2>. HIDE DEF c
  <2>. QED BY <1>2, <2>1, <2>2, AppStill
<1>6. CASE Timeout(p) /\ conn[p].state = JOINER
  <2>1. /\ Set(p, conn[p]) /\ GoTo(p, "timeout") /\ UNCHANGED <<fc_lock, stopped>>
        /\ rpc[p] = "recv" /\ inbox[p] = <<>>
    BY <1>1, <1>6 DEF Timeout, RecvAt, Set
  <2>2. RecvLeaves(p)
    BY <1>1, <1>2, <1>6 DEF Timeout, RecvLeaves, TypeOK
  <2>3. "timeout" \in RecvPc \ (Shifting \cup {"stop", "cont"}) /\ "recv" \notin Shifting \cup {"stop", "cont"}
    BY DEF Shifting, RecvPc
  <2>. QED BY <1>1, <2>1, <2>2, <2>3, RecvPlainOrdinary
<1>. QED BY <1>3, <1>4, <1>5, <1>6

----------------------------------------------------------------------------
(* The threads of the application                                          *)

LEMMA SameStateTrans ==
    ASSUME NEW a, NEW b, NEW c, SameState(a, b), SameState(b, c)
    PROVE  SameState(a, c)
BY DEF SameState, SameFlow

\* The thread t of p moves.
LEMMA ThreadMoves ==
    ASSUME TypeOK, NEW p \in Procs, NEW t \in Threads[p], NEW r \in ThreadPc,
           tpc' = [tpc EXCEPT ![t] = r]
    PROVE  /\ tpc' \in [AllThreads -> ThreadPc] /\ tpc'[t] = r
           /\ \A u \in Threads[p] \ {t} : tpc'[u] = tpc[u]
           /\ \A q \in Procs \ {p} : \A u \in Threads[q] : tpc'[u] = tpc[u]
<1>1. tpc \in [AllThreads -> ThreadPc]
  BY DEF TypeOK, ThreadPc
<1>2. \A q \in Procs : Threads[q] \subseteq AllThreads
  BY DEF AllThreads
<1>3. \A q \in Procs \ {p} : t \notin Threads[q]
  BY ConnAssumption
<1>. QED BY <1>1, <1>2, <1>3

\* The record of a thread.
LEMMA ThreadFields ==
    ASSUME TypeOK, NEW p \in Procs, NEW t \in Threads[p]
    PROVE  tpc[t] \in ThreadPc /\ tpc[t].next \in Items /\ tpc[t].sync \in BOOLEAN
<1>1. tpc[t] \in ThreadPc
  BY DEF TypeOK, ThreadPc, AllThreads
<1>. QED BY <1>1 DEF ThreadPc

\* Steps of t that have nothing to do with flow control.
LEMMA ThreadQuiet ==
    ASSUME FlowInv, NEW p \in Procs, NEW t \in Threads[p], NEW r \in ThreadPc, NEW c,
           SameState(conn[p], c), Set(p, c), tpc' = [tpc EXCEPT ![t] = r],
           tpc[t].at # "cont", r.at # "cont",
           UNCHANGED <<fc_lock, stopped, rpc, ract, paused, up, view, exchange, conf, core>>,
           recv_q' \in [Procs -> Seq(Items)], asked' \in [Procs -> BOOLEAN], Delivers
    PROVE  Ordinary(p)
<1>1. TypeOK
  BY DEF FlowInv
<1>2. /\ tpc' \in [AllThreads -> ThreadPc] /\ tpc'[t] = r
      /\ \A u \in Threads[p] \ {t} : tpc'[u] = tpc[u]
      /\ \A q \in Procs \ {p} : \A u \in Threads[q] : tpc'[u] = tpc[u]
  BY <1>1, ThreadMoves
<1>3. AppLeaves(p)
  BY <1>2 DEF AppLeaves
<1>4. \A u \in Threads[p] : tpc[u].at = "cont" <=> tpc'[u].at = "cont"
  BY <1>2
<1>. QED BY <1>3, <1>4, AppQuiet

\* gcs_resume_recv(), the start of a transfer, the SYNC message.
LEMMA ThreadPlainActions ==
    ASSUME FlowInv, NEW p \in Procs, NEW t \in Threads[p],
           SyncSent(p, t) \/ Resume(p, t) \/ Donate(p, t)
    PROVE  Ordinary(p)
<1>. USE DEF locks, queue, group, recv, ThreadAt
<1>1. /\ TypeOK /\ conn[p] \in Conn /\ conn = [conn EXCEPT ![p] = conn[p]]
      /\ asked \in [Procs -> BOOLEAN] /\ recv_q \in [Procs -> Seq(Items)]
      /\ SameState(conn[p], conn[p])
  BY DEF FlowInv, TypeOK, SameState, SameFlow
<1>2. tpc[t] \in ThreadPc /\ tpc[t].next \in Items /\ tpc[t].sync \in BOOLEAN
  BY <1>1, ThreadFields
<1>3. Idle \in ThreadPc /\ Idle.at # "cont"
  BY DEF Idle, ThreadPc, Items
<1>4. [Idle EXCEPT !.at = tpc[t].next] \in ThreadPc /\ [Idle EXCEPT !.at = tpc[t].next].at # "cont"
  BY <1>2 DEF Idle, ThreadPc, Items
<1>5. CASE SyncSent(p, t)
  <2>1. \/ SendSync(p) /\ UNCHANGED conn
        \/ UNCHANGED msgs /\ Set(p, [conn[p] EXCEPT !.sync_sent = FALSE])
    BY <1>5 DEF SyncSent, SyncEnd
  <2>2. SameState(conn[p], [conn[p] EXCEPT !.sync_sent = FALSE])
    BY <1>1, ConnEdits
  <2>3. PICK c : SameState(conn[p], c) /\ Set(p, c)
    BY <1>1, <2>1, <2>2 DEF Set
  <2>4. Delivers /\ UNCHANGED stopped
    BY <1>1, <2>1, SyncOrJoinSent
  <2>5. /\ tpc' = [tpc EXCEPT ![t] = [Idle EXCEPT !.at = tpc[t].next]] /\ tpc[t].at # "cont"
        /\ UNCHANGED <<fc_lock, rpc, ract, paused, up, view, exchange, conf, core, recv_q, asked>>
    BY <1>5 DEF SyncSent, Returns
  <2>. QED BY <1>1, <1>4, <2>3, <2>4, <2>5, ThreadQuiet
<1>6. CASE Resume(p, t) \/ Donate(p, t)
  <2>1. /\ tpc' = [tpc EXCEPT ![t] = Idle] /\ tpc[t].at # "cont" /\ Set(p, conn[p])
        /\ UNCHANGED <<fc_lock, rpc, ract, paused, up, view, exchange, conf, core, recv_q, asked, msgs>>
    BY <1>1, <1>6 DEF Resume, Donate, Set
  <2>2. Delivers /\ UNCHANGED stopped
    BY <1>1, <2>1, NothingSent
  <2>. QED BY <1>1, <1>3, <2>1, <2>2, ThreadQuiet
<1>. QED BY <1>5, <1>6

\* gcs_recv(), up to the lock it has to wait for.
LEMMA GetOrdinary ==
    ASSUME FlowInv, NEW p \in Procs, NEW t \in Threads[p], Get(p, t)
    PROVE  Ordinary(p)
<1>. USE DEF locks, queue, group, recv, ThreadAt
<1>. DEFINE c  == [conn[p] EXCEPT !.queue_len = Len(recv_q[p]) - 1]
            c1 == Lowered(c)
            sync == SyncDue(c1)
            c2 == [c1 EXCEPT !.sync_sent = @ \/ sync]
<1>1. /\ TypeOK /\ conn[p] \in Conn /\ asked \in [Procs -> BOOLEAN]
      /\ recv_q \in [Procs -> Seq(Items)] /\ recv_q[p] \in Seq(Items) /\ Len(recv_q[p]) - 1 \in Int
  BY DEF FlowInv, TypeOK
<1>2. tpc[t] \in ThreadPc /\ tpc[t].next \in Items /\ tpc[t].sync \in BOOLEAN
  BY <1>1, ThreadFields
<1>3. SameState(conn[p], c1) /\ c1 \in Conn
  <2>1. SameState(conn[p], c)
    BY <1>1, ConnEdits
  <2>2. c \in Conn
    BY <2>1 DEF SameState, SameFlow
  <2>3. SameState(c, c1)
    BY <2>2, ConnEdits
  <2>. HIDE DEF c, c1
  <2>4. SameState(conn[p], c1)
    BY <2>1, <2>3, SameStateTrans
  <2>. QED BY <2>4 DEF SameState, SameFlow
<1>4. SameState(conn[p], c2)
  <2>1. (c1.sync_sent \/ sync) \in BOOLEAN
    <3>. HIDE DEF c1, sync
    <3>. QED OBVIOUS
  <2>2. SameState(c1, [c1 EXCEPT !.sync_sent = (c1.sync_sent \/ sync)])
    <3>. HIDE DEF c1, sync
    <3>. QED BY <1>3, <2>1, ConnEdits
  <2>. HIDE DEF c, c1, sync
  <2>. QED BY <1>3, <2>2, SameStateTrans
<1>5. /\ tpc[t].at = "idle" /\ recv_q[p] # <<>>
      /\ UNCHANGED <<fc_lock, rpc, ract, paused, up, view, exchange, conf, core, asked, msgs>>
  BY DEF Get
<1>6. Delivers /\ UNCHANGED stopped
  BY <1>1, <1>5, NothingSent
<1>7. CASE ContDue(c)
  <2>1. /\ Set(p, c1) /\ UNCHANGED recv_q
        /\ tpc' = [tpc EXCEPT ![t].at = "cont?"]
    BY <1>7 DEF Get
  <2>2. [tpc[t] EXCEPT !.at = "cont?"] \in ThreadPc /\ [tpc[t] EXCEPT !.at = "cont?"].at # "cont"
    BY <1>2 DEF ThreadPc
  <2>3. tpc' = [tpc EXCEPT ![t] = [tpc[t] EXCEPT !.at = "cont?"]]
    BY <2>1
  <2>. HIDE DEF c1
  <2>. QED BY <1>1, <1>3, <1>5, <1>6, <2>1, <2>2, <2>3, ThreadQuiet
<1>8. CASE ~ ContDue(c)
  <2>. DEFINE r == [at |-> IF sync THEN "sync" ELSE Head(recv_q[p]), sync |-> FALSE, next |-> Head(recv_q[p])]
  <2>1. /\ Set(p, c2)
        /\ recv_q' = [recv_q EXCEPT ![p] = Tail(@)]
        /\ tpc' = [tpc EXCEPT ![t] = r]
    BY <1>8 DEF Get, Pops
  <2>2. Head(recv_q[p]) \in Items /\ Tail(recv_q[p]) \in Seq(Items)
    BY <1>1, <1>5
  <2>3. r \in ThreadPc /\ r.at # "cont"
    <3>. HIDE DEF sync
    <3>. QED BY <2>2 DEF ThreadPc, Items
  <2>4. recv_q' \in [Procs -> Seq(Items)]
    BY <1>1, <2>1, <2>2
  <2>. HIDE DEF c2, r
  <2>. QED BY <1>1, <1>4, <1>5, <1>6, <2>1, <2>3, <2>4, ThreadQuiet
<1>. QED BY <1>7, <1>8

\* gcs_fc_cont_begin() and gcs_fc_cont_end() in gcs_recv().
LEMMA ContBeginOrdinary ==
    ASSUME FlowInv, HeldInv, NEW p \in Procs, NEW t \in Threads[p], ContBegin(p, t)
    PROVE  Ordinary(p)
<1>. USE DEF locks, queue, group, recv, ThreadAt
<1>. DEFINE sync == SyncDue(conn[p])
            v == conn[p].stop_sent - 1
            b == conn[p].sync_sent \/ sync
            c == [conn[p] EXCEPT !.stop_sent = v, !.sync_sent = b]
            r == [at |-> "cont", sync |-> sync, next |-> Head(recv_q[p])]
<1>1. /\ TypeOK /\ conn[p] \in Conn /\ LockOK(p) /\ asked \in [Procs -> BOOLEAN] /\ stopped[p] \in Int
      /\ recv_q \in [Procs -> Seq(Items)] /\ recv_q[p] \in Seq(Items)
  BY DEF FlowInv, TypeOK
<1>2. conn[p].stop_sent \in Int /\ v \in Int
  BY <1>1 DEF Conn
<1>3. /\ Set(p, c) /\ fc_lock[p] = NoOne /\ fc_lock' = [fc_lock EXCEPT ![p] = t]
      /\ tpc' = [tpc EXCEPT ![t] = r] /\ recv_q' = [recv_q EXCEPT ![p] = Tail(@)]
      /\ UNCHANGED <<rpc, ract, paused, up, view, exchange, conf, core, asked, msgs>>
  BY DEF ContBegin, Pops
<1>4. b \in BOOLEAN /\ sync \in BOOLEAN
  BY DEF SyncDue
<1>5. /\ c \in Conn /\ c.state = conn[p].state /\ c.conf_id = conn[p].conf_id
      /\ c.stop_sent = v /\ c.stop_count = conn[p].stop_count
  <2>. HIDE DEF v, b
  <2>. QED BY <1>1, <1>2, <1>4 DEF Conn
<1>6. Delivers /\ UNCHANGED stopped
  BY <1>1, <1>3, NothingSent
<1>7. recv_q[p] # <<>>
  BY DEF ContBegin, HeldInv, HeldOK
<1>8. Head(recv_q[p]) \in Items /\ Tail(recv_q[p]) \in Seq(Items)
  BY <1>1, <1>7
<1>9. r \in ThreadPc /\ r.at = "cont"
  <2>. HIDE DEF sync
  <2>. QED BY <1>4, <1>8 DEF ThreadPc
<1>10. recv_q' \in [Procs -> Seq(Items)]
  BY <1>1, <1>3, <1>8
<1>. HIDE DEF c, r
<1>11. /\ tpc' \in [AllThreads -> ThreadPc] /\ tpc'[t] = r
       /\ \A u \in Threads[p] \ {t} : tpc'[u] = tpc[u]
       /\ \A q \in Procs \ {p} : \A u \in Threads[q] : tpc'[u] = tpc[u]
  BY <1>1, <1>3, <1>9, ThreadMoves
<1>12. AppLeaves(p)
  BY <1>1, <1>3, <1>6, <1>10, <1>11 DEF AppLeaves
<1>13. /\ t # Recv /\ t # NoOne /\ NoOne # Recv
       /\ \A u \in Threads[p] : u # Recv /\ u # NoOne
  BY ConnAssumption DEF AllThreads, NoOne, Recv
<1>14. \A u \in Threads[p] : t = u <=> tpc'[u].at = "cont"
  BY <1>1, <1>3, <1>9, <1>11, <1>13 DEF LockOK
<1>15. conn'[p] = c /\ fc_lock'[p] = t
  BY <1>1, <1>3, <1>5, SetType DEF TypeOK
<1>16. rpc[p] # "stop"
  BY <1>1, <1>3, <1>13 DEF LockOK
<1>17. Ahead(p) = 0 /\ Ahead(p)' = -1
  BY <1>3, <1>13, <1>15, <1>16 DEF Ahead
<1>18. Balanced(p)
  BY <1>1, <1>2, <1>5, <1>6, <1>15, <1>17 DEF Balanced
<1>. QED BY <1>3, <1>5, <1>12, <1>13, <1>14, <1>18, AppOrdinary

LEMMA ContSentOrdinary ==
    ASSUME FlowInv, NEW p \in Procs, NEW t \in Threads[p], ContSent(p, t)
    PROVE  Ordinary(p)
<1>. USE DEF locks, queue, group, recv, ThreadAt
<1>1. /\ TypeOK /\ conn[p] \in Conn /\ LockOK(p) /\ asked \in [Procs -> BOOLEAN] /\ stopped[p] \in Int
      /\ recv_q \in [Procs -> Seq(Items)] /\ conn = [conn EXCEPT ![p] = conn[p]]
      /\ conn[p].stop_sent \in Int
  BY DEF FlowInv, TypeOK, Conn
<1>2. tpc[t] \in ThreadPc /\ tpc[t].next \in Items /\ tpc[t].sync \in BOOLEAN
  BY <1>1, ThreadFields
<1>3. /\ tpc[t].at = "cont" /\ ContEnd(p) /\ fc_lock' = [fc_lock EXCEPT ![p] = NoOne]
      /\ UNCHANGED <<rpc, ract, paused, up, view, exchange, conf, core, asked, recv_q>>
  BY DEF ContSent
<1>4. SendFlow(p, FALSE) \/ (Fails(p) /\ UNCHANGED msgs)
  BY <1>3 DEF ContEnd
<1>5. /\ Delivers
      /\ \A q \in Procs \ {p} : stopped'[q] = stopped[q]
      /\ Member(p) => stopped'[p] = IF conn[p].conf_id # conf THEN stopped[p] ELSE stopped[p] - 1
  <2>1. FALSE \in BOOLEAN
    OBVIOUS
  <2>. QED BY <1>4, <2>1, FlowOrFail
<1>6. PICK c \in Conn :
         /\ Set(p, c) /\ c.state = conn[p].state /\ c.conf_id = conn[p].conf_id
         /\ c.stop_count = conn[p].stop_count /\ (Member(p) => c = conn[p])
  <2>1. CASE SendFlow(p, FALSE) /\ UNCHANGED conn
    BY <1>1, <2>1 DEF Set
  <2>2. CASE Fails(p) /\ UNCHANGED msgs /\ Set(p, [conn[p] EXCEPT !.stop_sent = @ + 1])
    <3>. DEFINE v == conn[p].stop_sent + 1
                c == [conn[p] EXCEPT !.stop_sent = v]
    <3>1. Set(p, c) /\ v \in Int
      BY <1>1, <2>2
    <3>. HIDE DEF v
    <3>2. /\ c \in Conn /\ c.state = conn[p].state /\ c.conf_id = conn[p].conf_id
          /\ c.stop_count = conn[p].stop_count
      BY <1>1, <3>1, ConnStops
    <3>. HIDE DEF c
    <3>. QED BY <2>2, <3>1, <3>2, MembersSend
  <2>. QED BY <1>3, <2>1, <2>2 DEF ContEnd
<1>7. PICK r \in ThreadPc : tpc' = [tpc EXCEPT ![t] = r] /\ r.at # "cont"
  <2>1. CASE tpc[t].sync
    <3>1. tpc' = [tpc EXCEPT ![t] = [tpc[t] EXCEPT !.at = "sync", !.sync = FALSE]]
      BY <2>1 DEF ContSent
    <3>2. /\ [tpc[t] EXCEPT !.at = "sync", !.sync = FALSE] \in ThreadPc
          /\ [tpc[t] EXCEPT !.at = "sync", !.sync = FALSE].at # "cont"
      BY <1>2 DEF ThreadPc
    <3>. QED BY <3>1, <3>2
  <2>2. CASE ~ tpc[t].sync
    <3>1. tpc' = [tpc EXCEPT ![t] = [Idle EXCEPT !.at = tpc[t].next]]
      BY <2>2 DEF ContSent, Returns
    <3>2. /\ [Idle EXCEPT !.at = tpc[t].next] \in ThreadPc
          /\ [Idle EXCEPT !.at = tpc[t].next].at # "cont"
      BY <1>2 DEF Idle, ThreadPc, Items
    <3>. QED BY <3>1, <3>2
  <2>. QED BY <2>1, <2>2
<1>8. /\ tpc' \in [AllThreads -> ThreadPc] /\ tpc'[t] = r
      /\ \A u \in Threads[p] \ {t} : tpc'[u] = tpc[u]
      /\ \A q \in Procs \ {p} : \A u \in Threads[q] : tpc'[u] = tpc[u]
  BY <1>1, <1>7, ThreadMoves
<1>9. AppLeaves(p)
  BY <1>1, <1>3, <1>5, <1>8 DEF AppLeaves
<1>10. /\ t # Recv /\ t # NoOne /\ NoOne # Recv /\ fc_lock[p] = t
       /\ \A u \in Threads[p] : u # Recv /\ u # NoOne
  BY <1>1, <1>3, ConnAssumption DEF AllThreads, NoOne, Recv, LockOK
<1>11. \A u \in Threads[p] : NoOne = u <=> tpc'[u].at = "cont"
  BY <1>1, <1>7, <1>8, <1>10 DEF LockOK
<1>12. conn'[p] = c /\ fc_lock'[p] = NoOne
  BY <1>1, <1>3, <1>6, SetType DEF TypeOK
<1>13. rpc[p] # "stop"
  BY <1>1, <1>10 DEF LockOK
<1>14. Ahead(p) = -1 /\ Ahead(p)' = 0
  BY <1>3, <1>10, <1>12, <1>13 DEF Ahead
<1>15. Balanced(p)
  BY <1>1, <1>5, <1>6, <1>12, <1>14 DEF Balanced
<1>. QED BY <1>3, <1>6, <1>9, <1>10, <1>11, <1>15, AppOrdinary

----------------------------------------------------------------------------
(* Requests, transfers, actions                                            *)

\* gcs_request_state_transfer(): the joiner and its donor.
LEMMA RequestOrdinary ==
    ASSUME FlowInv, NEW p \in Procs, NEW t \in Threads[p], Request(p, t)
    PROVE  Ordinary(p)
<1>. USE DEF locks, queue, group, recv, ThreadAt
<1>1. /\ TypeOK /\ conn[p] \in Conn /\ conn = [conn EXCEPT ![p] = conn[p]]
      /\ recv_q \in [Procs -> Seq(Items)] /\ asked \in [Procs -> BOOLEAN]
      /\ SameState(conn[p], conn[p])
  BY DEF FlowInv, TypeOK, SameState, SameFlow
<1>2. tpc[t] \in ThreadPc
  BY <1>1, ThreadFields
<1>. DEFINE toJoiner == [t |-> "REQ", role |-> JOINER, from |-> p]
            toDonor == [t |-> "REQ", role |-> DONOR, from |-> p]
<1>3. PICK d \in view :
         /\ status[d] = SYNCED /\ status' = [status EXCEPT ![p] = JOINER, ![d] = DONOR]
         /\ asked' = [asked EXCEPT ![p] = FALSE, ![d] = FALSE]
         /\ inbox' = [inbox EXCEPT ![p] = Append(@, toJoiner), ![d] = Append(@, toDonor)]
  BY DEF Request
<1>4. /\ status[p] = PRIMARY /\ tpc[t].at = "gap" /\ tpc' = [tpc EXCEPT ![t].at = "sst"]
      /\ UNCHANGED <<conn, fc_lock, rpc, ract, paused, up, view, exchange, conf, core, recv_q, stopped>>
  BY DEF Request
<1>5. d \in Procs /\ d # p /\ Set(p, conn[p])
  BY <1>1, <1>3, <1>4 DEF TypeOK, Set
<1>6. /\ toJoiner \in Msg /\ toDonor \in Msg
      /\ toJoiner.t \notin {"COMP", "CONF"} /\ toDonor.t \notin {"COMP", "CONF"}
      /\ Shifts(toJoiner, PRIMARY, JOINER) /\ Shifts(toDonor, SYNCED, DONOR)
  BY MsgType DEF Shifts
<1>. HIDE DEF toJoiner, toDonor
<1>7. /\ \A q \in Procs : inbox'[q] = IF q = p THEN Append(inbox[q], toJoiner)
                                      ELSE IF q = d THEN Append(inbox[q], toDonor) ELSE inbox[q]
      /\ \A q \in Procs : status'[q] = IF q = p THEN JOINER ELSE IF q = d THEN DONOR ELSE status[q]
      /\ DOMAIN inbox' = Procs
  BY <1>1, <1>3, <1>5 DEF TypeOK
<1>8. inbox' \in [Procs -> Seq(Msg)]
  <2>1. \A q \in Procs : inbox[q] \in Seq(Msg)
    BY <1>1 DEF TypeOK
  <2>2. \A q \in Procs : Append(inbox[q], toJoiner) \in Seq(Msg) /\ Append(inbox[q], toDonor) \in Seq(Msg)
    BY <1>6, <2>1
  <2>3. \A q \in Procs : inbox'[q] \in Seq(Msg)
    BY <1>7, <2>1, <2>2
  <2>. QED BY <1>1, <1>3, <1>5, <2>2 DEF TypeOK
<1>9. status' \in [Procs -> SYNCED..PRIMARY] /\ stopped' \in [Procs -> Int]
  <2>1. status \in [Procs -> SYNCED..PRIMARY] /\ stopped \in [Procs -> Int]
    BY <1>1 DEF TypeOK
  <2>2. JOINER \in SYNCED..PRIMARY /\ DONOR \in SYNCED..PRIMARY
    OBVIOUS
  <2>3. status' \in [Procs -> SYNCED..PRIMARY]
    BY <1>3, <2>1, <2>2
  <2>. QED BY <1>4, <2>1, <2>3
<1>10. ASSUME NEW q \in Procs PROVE Sent(q)
  <2>1. CASE q = p
    BY <1>4, <1>6, <1>7, <2>1 DEF Sent
  <2>2. CASE q = d
    BY <1>3, <1>5, <1>6, <1>7, <2>2 DEF Sent
  <2>3. CASE q # p /\ q # d
    BY <1>7, <2>3 DEF Sent
  <2>. QED BY <2>1, <2>2, <2>3
<1>11. Delivers
  BY <1>8, <1>9, <1>10 DEF Delivers
<1>12. /\ [tpc[t] EXCEPT !.at = "sst"] \in ThreadPc /\ [tpc[t] EXCEPT !.at = "sst"].at # "cont"
       /\ tpc' = [tpc EXCEPT ![t] = [tpc[t] EXCEPT !.at = "sst"]]
  BY <1>2, <1>4 DEF ThreadPc
<1>13. asked' \in [Procs -> BOOLEAN]
  BY <1>1, <1>3
<1>. QED BY <1>1, <1>4, <1>5, <1>11, <1>12, <1>13, ThreadQuiet

\* gcs_desync(), gcs_repl(), and the end of gcs_join().
LEMMA SenderActions ==
    ASSUME FlowInv, NEW p \in Procs, Desync(p) \/ Replicate(p) \/ JoinEnd(p)
    PROVE  Ordinary(p)
<1>. USE DEF locks, queue, group, recv
<1>1. /\ TypeOK /\ conn[p] \in Conn /\ conn = [conn EXCEPT ![p] = conn[p]]
      /\ recv_q \in [Procs -> Seq(Items)] /\ asked \in [Procs -> BOOLEAN]
      /\ SameState(conn[p], conn[p]) /\ stopped \in [Procs -> Int]
      /\ tpc \in [AllThreads -> ThreadPc]
  BY DEF FlowInv, TypeOK, SameState, SameFlow, ThreadPc
<1>2. UNCHANGED conn => Set(p, conn[p])
  BY <1>1 DEF Set
<1>3. CASE Desync(p)
  <2>. DEFINE m == [t |-> "REQ", role |-> DONOR, from |-> p]
  <2>1. /\ status[p] = SYNCED /\ status' = [status EXCEPT ![p] = DONOR] /\ ToOne(p, m)
        /\ asked' = [asked EXCEPT ![p] = FALSE]
        /\ UNCHANGED <<conn, fc_lock, rpc, ract, paused, up, view, exchange, conf, core, recv_q, tpc, stopped>>
    BY <1>3 DEF Desync
  <2>2. m \in Msg /\ m.t \notin {"COMP", "CONF"} /\ DONOR \in SYNCED..PRIMARY
    BY MsgType
  <2>3. Shifts(m, status[p], DONOR)
    BY <2>1 DEF Shifts
  <2>. HIDE DEF m
  <2>4. Delivers
    BY ONLY <1>1, <2>1, <2>2, <2>3, OneSent, Zenon
  <2>5. asked' \in [Procs -> BOOLEAN]
    BY <1>1, <2>1
  <2>. QED BY <1>1, <1>2, <2>1, <2>4, <2>5, AppStill
<1>4. CASE Replicate(p)
  <2>. DEFINE m == [t |-> "ACT", from |-> p]
  <2>1. /\ ToAll(m)
        /\ UNCHANGED <<conn, fc_lock, rpc, ract, paused, up, view, exchange, conf, core, recv_q, tpc,
                       status, stopped, asked>>
    BY <1>4 DEF Replicate
  <2>2. m \in Msg /\ m.t \in {"ACT", "FLOW"}
    BY MsgType
  <2>. HIDE DEF m
  <2>3. Delivers
    BY <1>1, <2>1, <2>2, AllSent
  <2>. QED BY <1>1, <1>2, <2>1, <2>3, AppStill
<1>5. CASE JoinEnd(p)
  <2>1. /\ SendJoin(p) \/ UNCHANGED msgs
        /\ UNCHANGED <<conn, fc_lock, rpc, ract, paused, up, view, exchange, conf, core, recv_q, asked>>
        /\ tpc' = [t \in AllThreads |->
                 IF xpc[p] = "sst_join" /\ t \in Threads[p] /\ tpc[t].at = "sst"
                 THEN [Idle EXCEPT !.at = "conf"] ELSE tpc[t]]
    BY <1>5 DEF JoinEnd
  <2>2. [Idle EXCEPT !.at = "conf"] \in ThreadPc /\ [Idle EXCEPT !.at = "conf"].at = "conf"
    BY DEF Idle, ThreadPc, Items
  <2>3. Delivers /\ UNCHANGED stopped
    BY <1>1, <2>1, SyncOrJoinSent
  <2>4. \A q \in Procs : Threads[q] \subseteq AllThreads
    BY DEF AllThreads
  <2>5. tpc' \in [AllThreads -> ThreadPc]
    BY <1>1, <2>1, <2>2
  <2>6. \A q \in Procs \ {p} : \A t \in Threads[q] : tpc'[t] = tpc[t]
    BY <2>1, <2>4, ConnAssumption
  <2>7. \A t \in Threads[p] : tpc[t].at = "cont" <=> tpc'[t].at = "cont"
    BY <2>1, <2>2, <2>4
  <2>8. AppLeaves(p)
    BY <1>1, <2>1, <2>3, <2>5, <2>6 DEF AppLeaves
  <2>. QED BY <1>1, <1>2, <2>1, <2>3, <2>7, <2>8, AppQuiet
<1>. QED BY <1>3, <1>4, <1>5

----------------------------------------------------------------------------
(* Receipts: gcs_recv_thread() takes the next message                      *)

\* The connection follows the message that p receives, m, in its state and in
\* what it counts.
Follows(p, m) ==
    \A s : Shifts(m, conn[p].state, s) =>
        /\ Start(p)' = s
        /\ rpc'[p] \in {"sst_release", "joined"} => conn'[p].state \in {DONOR, JOINER}

Counts(p, m) ==
    /\ conn'[p].stop_count = IF m.t = "FLOW" /\ m.id = conn[p].conf_id
                             THEN IF m.stop THEN conn[p].stop_count + 1 ELSE conn[p].stop_count - 1
                             ELSE conn[p].stop_count
    /\ (paused[p] <=> conn[p].stop_count > 0) => (paused'[p] <=> conn'[p].stop_count > 0)

\* What all receipts have in common.
Received(p) ==
    /\ TypeOK' /\ Kept /\ rpc[p] = "recv" /\ inbox[p] # <<>> /\ inbox'[p] = Tail(inbox[p])
    /\ UNCHANGED <<fc_lock, tpc, status, stopped>>
    /\ \A q \in Procs \ {p} : Untouched(q) /\ inbox'[q] = inbox[q]

Receipt(p, m) ==
    /\ Received(p) /\ m \in Msg /\ m = inbox[p][1]
    /\ conn'[p].conf_id = conn[p].conf_id /\ conn'[p].stop_sent = conn[p].stop_sent
    /\ IF m.t = "CONF"
       THEN /\ rpc'[p] = "conf" /\ ract'[p] = m
            /\ core'[p] = IF m.my = OPEN THEN "NON_PRIMARY" ELSE "PRIMARY"
       ELSE rpc'[p] \notin {"conf", "restore", "stop", "cont"}
    /\ m.t \notin {"COMP", "CONF"} => core'[p] = core[p]
    /\ Follows(p, m) /\ Counts(p, m)

LEMMA ReceivedHolds ==
    ASSUME TypeOK, NEW p \in Procs, NEW c \in Conn, NEW at \in RecvPc,
           rpc[p] = "recv", inbox[p] # <<>>, Hands(p, at), Set(p, c),
           UNCHANGED <<fc_lock, tpc, recv_q, up, view, exchange, conf, status, stopped, asked>>,
           core' \in [Procs -> CoreStates], paused' \in [Procs -> BOOLEAN],
           \A q \in Procs \ {p} : core'[q] = core[q] /\ paused'[q] = paused[q]
    PROVE  /\ Received(p) /\ conn'[p] = c /\ rpc'[p] = at
           /\ ract'[p] = IF at = "recv" THEN NoAct ELSE Head(inbox[p])
           /\ Head(inbox[p]) \in Msg /\ Head(inbox[p]) = inbox[p][1]
<1>1. /\ conn' \in [Procs -> Conn] /\ conn'[p] = c
      /\ \A q \in Procs \ {p} : conn'[q] = conn[q]
  BY SetType
<1>2. /\ rpc' \in [Procs -> RecvPc] /\ rpc'[p] = at
      /\ ract' \in [Procs -> Msg \cup {NoAct}]
      /\ ract'[p] = IF at = "recv" THEN NoAct ELSE Head(inbox[p])
      /\ inbox' \in [Procs -> Seq(Msg)] /\ inbox'[p] = Tail(inbox[p])
      /\ Head(inbox[p]) \in Msg /\ Head(inbox[p]) = inbox[p][1]
      /\ \A q \in Procs \ {p} :
            rpc'[q] = rpc[q] /\ ract'[q] = ract[q] /\ inbox'[q] = inbox[q]
  BY HandsType
<1>3. TypeOK'
  BY <1>1, <1>2 DEF TypeOK
<1>4. \A q \in Procs \ {p} : Untouched(q) /\ inbox'[q] = inbox[q]
  BY <1>1, <1>2 DEF Untouched
<1>. QED BY <1>1, <1>2, <1>3, <1>4 DEF Received, Kept

\* FlowInv is preserved by every receipt.
LEMMA ReceiptFlow ==
    ASSUME FlowInv, NEW p \in Procs, NEW m, Receipt(p, m)
    PROVE  FlowInv'
<1>1. /\ TypeOK' /\ Kept /\ rpc[p] = "recv" /\ inbox[p] # <<>> /\ inbox'[p] = Tail(inbox[p])
      /\ UNCHANGED <<fc_lock, tpc, status, stopped>> /\ m \in Msg /\ m = inbox[p][1]
      /\ conn'[p].conf_id = conn[p].conf_id /\ conn'[p].stop_sent = conn[p].stop_sent
  BY DEF Receipt, Received
<1>2. \A q \in Procs \ {p} : Untouched(q) /\ Sent(q)
  BY DEF Receipt, Received, Sent
<1>3. TypeOK /\ LockOK(p) /\ IdsOK(p) /\ (Member(p) => PhaseOK(p) /\ BalanceOK(p))
  BY DEF FlowInv
<1>4. ProcOK(p)'
  <2>1. CASE m.t \notin {"COMP", "CONF"}
    <3>1. core'[p] = core[p] /\ rpc'[p] \notin {"conf", "restore", "stop", "cont"}
      BY <2>1 DEF Receipt
    <3>. QED BY <1>1, <2>1, <3>1, TakeStep
  <2>2. CASE m.t \in {"COMP", "CONF"}
    <3>1. inbox[p] \in Seq(Msg)
      BY <1>3 DEF TypeOK
    <3>2. /\ 1 \in DOMAIN inbox[p]
          /\ \A i \in DOMAIN inbox'[p] :
                i + 1 \in DOMAIN inbox[p] /\ inbox'[p][i] = inbox[p][i + 1] /\ i + 1 # 1
      BY <1>1, <3>1
    <3>3. LockOK(p)'
      BY <1>1, <1>3 DEF LockOK, Receipt
    <3>4. IdsOK(p)'
      <4>1. CASE m.t = "CONF"
        <5>1. m.id <= conf /\ rpc'[p] = "conf" /\ ract'[p] = m
          BY <1>1, <1>3, <3>2, <4>1 DEF IdsOK, Receipt
        <5>. QED BY <1>1, <1>3, <3>2, <4>1, <5>1 DEF IdsOK, Kept
      <4>2. CASE m.t # "CONF"
        BY <1>1, <1>3, <3>2, <4>2 DEF IdsOK, Receipt, Kept
      <4>. QED BY <4>1, <4>2
    <3>5. Member(p)' <=> Member(p)
      BY <1>1 DEF Member, Kept, Up
    <3>6. ASSUME Member(p) PROVE PhaseOK(p)' /\ BalanceOK(p)'
      <4>1. PhaseOK(p) /\ BalanceOK(p)
        BY <1>3, <3>6
      <4>2. /\ m.t = "CONF" /\ m.id = conf /\ m.my \in SYNCED..PRIMARY /\ conn[p].conf_id # conf
        BY <1>1, <2>2, <3>2, <4>1 DEF PhaseOK
      <4>3. rpc'[p] = "conf" /\ ract'[p] = m /\ core'[p] = "PRIMARY"
        BY <4>2 DEF Receipt
      <4>4. \A i \in DOMAIN inbox'[p] : inbox'[p][i].t \notin {"COMP", "CONF"}
        BY <3>2, <4>1 DEF PhaseOK
      <4>5. PhaseOK(p)'
        BY <1>1, <4>2, <4>3, <4>4 DEF PhaseOK, Kept
      <4>6. BalanceOK(p)'
        BY <1>1, <4>1, <4>2 DEF BalanceOK, Kept
      <4>. QED BY <4>5, <4>6
    <3>. QED BY <3>3, <3>4, <3>5, <3>6 DEF ProcOK
  <2>. QED BY <2>1, <2>2
<1>. QED BY <1>1, <1>2, <1>4, OwnStep

\* Receipts that leave the connection as it is.
LEMMA RecvKeepsConn ==
    ASSUME FlowInv, NEW p \in Procs, RecvAct(p) \/ RecvComp(p) \/ RecvConf(p) \/ RecvJoin(p)
    PROVE  Receipt(p, Head(inbox[p]))
<1>. USE DEF locks, queue, group
<1>. DEFINE m == Head(inbox[p])
<1>1. /\ TypeOK /\ conn[p] \in Conn /\ Set(p, conn[p]) /\ core \in [Procs -> CoreStates]
      /\ paused \in [Procs -> BOOLEAN] /\ conn[p].stop_count \in Int
  <2>1. TypeOK /\ conn[p] \in Conn /\ core \in [Procs -> CoreStates] /\ paused \in [Procs -> BOOLEAN]
    BY DEF FlowInv, TypeOK
  <2>2. UNCHANGED conn
    BY DEF RecvAct, RecvComp, RecvConf, RecvJoin
  <2>. QED BY <2>1, <2>2 DEF Set, TypeOK, Conn
<1>2. /\ rpc[p] = "recv" /\ inbox[p] # <<>>
      /\ UNCHANGED <<fc_lock, tpc, recv_q, up, view, exchange, conf, status, stopped, asked, paused>>
  BY DEF RecvAct, RecvComp, RecvConf, RecvJoin, Takes, RecvAt
<1>3. /\ core' \in [Procs -> CoreStates]
      /\ \A q \in Procs \ {p} : core'[q] = core[q] /\ paused'[q] = paused[q]
  <2>1. PICK s \in CoreStates : core' = [core EXCEPT ![p] = s] \/ core' = core
    BY DEF RecvAct, RecvComp, RecvConf, RecvJoin, CoreStates
  <2>. QED BY <1>1, <1>2, <2>1
<1>4. CASE RecvAct(p)
  <2>. DEFINE at == After(p, m)
  <2>1. m.t = "ACT" /\ Hands(p, at) /\ at \in {"recv", "push"} /\ UNCHANGED core
    BY <1>4 DEF RecvAct, Takes, After
  <2>. HIDE DEF m, at
  <2>2. at \in RecvPc
    BY <2>1 DEF RecvPc
  <2>3. /\ Received(p) /\ conn'[p] = conn[p] /\ rpc'[p] = at
        /\ Head(inbox[p]) \in Msg /\ Head(inbox[p]) = inbox[p][1]
    BY <1>1, <1>2, <1>3, <2>1, <2>2, ReceivedHolds
  <2>4. Follows(p, m)
    BY <2>1, <2>3 DEF Follows, Shifts, Start
  <2>5. Counts(p, m)
    BY <1>2, <2>1, <2>3 DEF Counts
  <2>. QED BY <2>1, <2>3, <2>4, <2>5 DEF Receipt, m
<1>5. CASE RecvComp(p)
  <2>1. m.t = "COMP" /\ Hands(p, "recv") /\ "recv" \in RecvPc
    BY <1>5 DEF RecvComp, Takes, RecvPc
  <2>. HIDE DEF m
  <2>2. /\ Received(p) /\ conn'[p] = conn[p] /\ rpc'[p] = "recv"
        /\ Head(inbox[p]) \in Msg /\ Head(inbox[p]) = inbox[p][1]
    BY <1>1, <1>2, <1>3, <2>1, ReceivedHolds
  <2>3. Follows(p, m)
    BY <2>1, <2>2 DEF Follows, Shifts, Start
  <2>4. Counts(p, m)
    BY <1>2, <2>1, <2>2 DEF Counts
  <2>. QED BY <2>1, <2>2, <2>3, <2>4 DEF Receipt, m
<1>6. CASE RecvConf(p)
  <2>1. /\ m.t = "CONF" /\ Hands(p, "conf") /\ "conf" \in RecvPc
        /\ core' = [core EXCEPT ![p] = IF m.my = OPEN THEN "NON_PRIMARY" ELSE "PRIMARY"]
    BY <1>6 DEF RecvConf, Takes, RecvPc
  <2>. HIDE DEF m
  <2>2. /\ Received(p) /\ conn'[p] = conn[p] /\ rpc'[p] = "conf" /\ ract'[p] = Head(inbox[p])
        /\ Head(inbox[p]) \in Msg /\ Head(inbox[p]) = inbox[p][1]
    <3>1. "conf" # "recv"
      OBVIOUS
    <3>. QED BY <1>1, <1>2, <1>3, <2>1, <3>1, ReceivedHolds
  <2>3. Follows(p, m)
    BY <2>1, <2>2 DEF Follows, Shifts, Start, m
  <2>4. Counts(p, m)
    BY <1>2, <2>1, <2>2 DEF Counts
  <2>5. core'[p] = IF m.my = OPEN THEN "NON_PRIMARY" ELSE "PRIMARY"
    BY <1>1, <2>1
  <2>. QED BY <2>1, <2>2, <2>3, <2>4, <2>5 DEF Receipt, m
<1>7. CASE RecvJoin(p)
  <2>. DEFINE at == IF conn[p].state = JOINER THEN "sst_release" ELSE "joined"
  <2>1. m.t = "JOIN" /\ Hands(p, at) /\ at \in {"sst_release", "joined"} /\ UNCHANGED core
    BY <1>7 DEF RecvJoin, Takes
  <2>. HIDE DEF m, at
  <2>2. at \in RecvPc
    BY <2>1 DEF RecvPc
  <2>3. /\ Received(p) /\ conn'[p] = conn[p] /\ rpc'[p] = at
        /\ Head(inbox[p]) \in Msg /\ Head(inbox[p]) = inbox[p][1]
    BY <1>1, <1>2, <1>3, <2>1, <2>2, ReceivedHolds
  <2>4. Follows(p, m)
    BY <2>1, <2>3 DEF Follows, Shifts, Start
  <2>5. Counts(p, m)
    BY <1>2, <2>1, <2>3 DEF Counts
  <2>. QED BY <2>1, <2>3, <2>4, <2>5 DEF Receipt, m
<1>. QED BY <1>4, <1>5, <1>6, <1>7

\* gcs_handle_flow_control().
LEMMA RecvFlowReceipt ==
    ASSUME FlowInv, NEW p \in Procs, RecvFlow(p)
    PROVE  Receipt(p, Head(inbox[p]))
<1>. USE DEF locks, queue, group
<1>. DEFINE m == Head(inbox[p])
            c == gcs_handle_flow_control(conn[p], m)
<1>1. /\ TypeOK /\ conn[p] \in Conn /\ core \in [Procs -> CoreStates]
      /\ paused \in [Procs -> BOOLEAN] /\ inbox[p] \in Seq(Msg)
  BY DEF FlowInv, TypeOK
<1>2. /\ rpc[p] = "recv" /\ inbox[p] # <<>> /\ m.t = "FLOW" /\ Set(p, c) /\ Hands(p, "recv")
      /\ paused' = [paused EXCEPT ![p] = Pause(conn[p], c, paused[p])]
      /\ UNCHANGED <<fc_lock, tpc, recv_q, up, view, exchange, conf, status, stopped, asked, core>>
  BY DEF RecvFlow, Takes, RecvAt
<1>3. m \in Msg
  BY <1>1, <1>2
<1>4. m.id \in Int /\ m.stop \in BOOLEAN
  BY <1>2, <1>3, MsgFields
<1>5. conn[p].stop_count \in Int
  BY <1>1 DEF Conn
<1>. HIDE DEF m
<1>6. /\ c \in Conn /\ c.state = conn[p].state /\ c.conf_id = conn[p].conf_id
      /\ c.stop_sent = conn[p].stop_sent
      /\ c.stop_count = IF m.id = conn[p].conf_id
                        THEN IF m.stop THEN conn[p].stop_count + 1 ELSE conn[p].stop_count - 1
                        ELSE conn[p].stop_count
  <2>. DEFINE v == IF m.stop THEN conn[p].stop_count + 1 ELSE conn[p].stop_count - 1
  <2>1. v \in Int
    BY <1>5
  <2>2. CASE m.id = conn[p].conf_id
    <3>1. c = [conn[p] EXCEPT !.stop_count = v]
      BY <2>2 DEF gcs_handle_flow_control
    <3>2. v = IF m.stop THEN conn[p].stop_count + 1 ELSE conn[p].stop_count - 1
      OBVIOUS
    <3>. HIDE DEF c, v
    <3>3. /\ c \in Conn /\ c.state = conn[p].state /\ c.conf_id = conn[p].conf_id
          /\ c.stop_sent = conn[p].stop_sent /\ c.stop_count = v
      BY <1>1, <2>1, <3>1 DEF Conn
    <3>. QED BY <2>2, <3>2, <3>3
  <2>3. CASE m.id # conn[p].conf_id
    BY <1>1, <2>3 DEF gcs_handle_flow_control
  <2>. QED BY <2>2, <2>3
<1>. HIDE DEF c
<1>7. /\ Pause(conn[p], c, paused[p]) \in BOOLEAN
      /\ (paused[p] <=> conn[p].stop_count > 0) => (Pause(conn[p], c, paused[p]) <=> c.stop_count > 0)
  <2>1. paused[p] \in BOOLEAN
    BY <1>1
  <2>2. CASE c.stop_count # conn[p].stop_count /\ c.stop_count \in {0, 1}
    <3>1. Pause(conn[p], c, paused[p]) = (c.stop_count = 1)
      BY <2>2 DEF Pause
    <3>2. c.stop_count > 0 <=> c.stop_count = 1
      BY <2>2
    <3>. QED BY <3>1, <3>2, Zenon
  <2>3. CASE ~ (c.stop_count # conn[p].stop_count /\ c.stop_count \in {0, 1})
    <3>1. Pause(conn[p], c, paused[p]) = paused[p]
      BY <2>3, Zenon DEF Pause
    <3>2. c.stop_count > 0 <=> conn[p].stop_count > 0
      BY <1>5, <1>6, <2>3
    <3>. QED BY <2>1, <3>1, <3>2, Zenon
  <2>. QED BY <2>2, <2>3
<1>8. /\ paused' \in [Procs -> BOOLEAN] /\ paused'[p] = Pause(conn[p], c, paused[p])
      /\ \A q \in Procs \ {p} : core'[q] = core[q] /\ paused'[q] = paused[q]
      /\ core' \in [Procs -> CoreStates] /\ "recv" \in RecvPc
  BY <1>1, <1>2, <1>7 DEF RecvPc
<1>9. /\ Received(p) /\ conn'[p] = c /\ rpc'[p] = "recv"
      /\ Head(inbox[p]) \in Msg /\ Head(inbox[p]) = inbox[p][1]
  BY <1>1, <1>2, <1>6, <1>8, ReceivedHolds
<1>10. Follows(p, m)
  BY <1>2, <1>6, <1>9 DEF Follows, Shifts, Start
<1>11. Counts(p, m)
  BY <1>2, <1>6, <1>7, <1>8, <1>9 DEF Counts
<1>. QED BY <1>2, <1>6, <1>9, <1>10, <1>11 DEF Receipt, m

\* gcs_handle_act_state_req() and gcs_become_synced().
LEMMA RecvShifts ==
    ASSUME FlowInv, NEW p \in Procs, RecvReq(p) \/ RecvSync(p)
    PROVE  Receipt(p, Head(inbox[p]))
<1>. USE DEF locks, queue, group
<1>. DEFINE m == Head(inbox[p])
<1>1. /\ TypeOK /\ conn[p] \in Conn /\ core \in [Procs -> CoreStates]
      /\ paused \in [Procs -> BOOLEAN] /\ inbox[p] \in Seq(Msg) /\ recv_q[p] \in Seq(Items)
  BY DEF FlowInv, TypeOK
<1>2. /\ rpc[p] = "recv" /\ inbox[p] # <<>> /\ m.t \in {"REQ", "SYNC"}
      /\ UNCHANGED <<fc_lock, tpc, recv_q, up, view, exchange, conf, status, stopped, asked, core, paused>>
  BY DEF RecvReq, RecvSync, Takes, RecvAt
<1>3. m \in Msg
  BY <1>1, <1>2
<1>4. /\ core' \in [Procs -> CoreStates] /\ paused' \in [Procs -> BOOLEAN]
      /\ \A q \in Procs \ {p} : core'[q] = core[q] /\ paused'[q] = paused[q]
  BY <1>1, <1>2
<1>5. ASSUME NEW c \in Conn, NEW at \in {"recv", "push", "release"}, Set(p, c), Hands(p, at),
             SameFlow(conn[p], c), \A s : Shifts(m, conn[p].state, s) => c.state = s
      PROVE  Receipt(p, m)
  <2>1. at \in RecvPc
    BY DEF RecvPc
  <2>2. /\ Received(p) /\ conn'[p] = c /\ rpc'[p] = at
        /\ Head(inbox[p]) \in Msg /\ Head(inbox[p]) = inbox[p][1]
    BY <1>1, <1>2, <1>4, <1>5, <2>1, ReceivedHolds
  <2>3. Follows(p, m)
    BY <1>5, <2>2 DEF Follows, Start
  <2>4. Counts(p, m)
    BY <1>2, <1>5, <2>2 DEF Counts, SameFlow
  <2>. HIDE DEF m
  <2>. QED BY <1>2, <1>5, <2>2, <2>3, <2>4 DEF Receipt, m, SameFlow
<1>6. CASE RecvReq(p)
  <2>. DEFINE c1 == gcs_shift_state(conn[p], m.role)
              c == IF m.role = JOINER THEN [c1 EXCEPT !.size = Len(recv_q[p])] ELSE c1
              at == IF m.role = DONOR /\ c1.max_fc_state < DONOR THEN "release" ELSE After(p, m)
  <2>1. m.t = "REQ" /\ Set(p, c) /\ Hands(p, at)
    BY <1>6 DEF RecvReq, Takes
  <2>2. at \in {"recv", "push", "release"}
    BY DEF After
  <2>3. m.role \in {DONOR, JOINER} /\ m.role \in SYNCED..OPEN
    BY <1>3, <2>1, MsgFields
  <2>4. /\ SameFlow(conn[p], c1) /\ c1 \in Conn
        /\ \A s : Shifts(m, conn[p].state, s) => c1.state = s
    <3>1. /\ SameFlow(conn[p], c1)
          /\ c1.state = IF <<conn[p].state, m.role>> \in Allowed THEN m.role ELSE conn[p].state
          /\ m.role = DONOR /\ conn[p].state = SYNCED => <<conn[p].state, m.role>> \in Allowed
          /\ m.role = JOINER /\ conn[p].state = PRIMARY => <<conn[p].state, m.role>> \in Allowed
      BY <1>1, <2>3, ShiftState
    <3>. HIDE DEF c1, m
    <3>2. c1 \in Conn
      BY <3>1 DEF SameFlow
    <3>. QED BY <2>1, <2>3, <3>1, <3>2 DEF Shifts
  <2>. HIDE DEF c1
  <2>5. SameState(c1, c)
    <3>1. Len(recv_q[p]) \in Int
      BY <1>1
    <3>. QED BY <2>4, <3>1, ConnEdits DEF SameState, SameFlow
  <2>. HIDE DEF c, at, m
  <2>6. /\ SameFlow(conn[p], c) /\ c \in Conn
        /\ \A s : Shifts(m, conn[p].state, s) => c.state = s
    BY <2>4, <2>5 DEF SameState, SameFlow
  <2>. QED BY <1>5, <2>1, <2>2, <2>6 DEF m
<1>7. CASE RecvSync(p)
  <2>. DEFINE c1 == gcs_shift_state(conn[p], SYNCED)
              c == [c1 EXCEPT !.sync_sent = FALSE, !.fc_offset = 0]
  <2>1. m.t = "SYNC" /\ Set(p, c) /\ Hands(p, "push")
    BY <1>7 DEF RecvSync, Takes
  <2>2. /\ SameFlow(conn[p], c1) /\ c1 \in Conn
        /\ \A s : Shifts(m, conn[p].state, s) => c1.state = s
    <3>1. SYNCED \in SYNCED..OPEN
      OBVIOUS
    <3>2. /\ SameFlow(conn[p], c1)
          /\ conn[p].state = JOINED => c1.state = SYNCED
      BY <1>1, <3>1, ShiftState
    <3>. HIDE DEF c1, m
    <3>3. c1 \in Conn
      BY <3>2 DEF SameFlow
    <3>. QED BY <2>1, <3>2, <3>3 DEF Shifts
  <2>. HIDE DEF c1
  <2>3. SameState(c1, c)
    <3>1. 0 \in Int /\ FALSE \in BOOLEAN
      OBVIOUS
    <3>. QED BY <2>2, <3>1, ConnEdits, Zenon
  <2>. HIDE DEF c, m
  <2>4. /\ SameFlow(conn[p], c) /\ c \in Conn
        /\ \A s : Shifts(m, conn[p].state, s) => c.state = s
    BY <2>2, <2>3 DEF SameState, SameFlow
  <2>. QED BY <1>5, <2>1, <2>4 DEF m
<1>. QED BY <1>6, <1>7

----------------------------------------------------------------------------
(* Configurations                                                          *)

\* gcs_handle_act_conf() under its locks: the configuration of p is now the
\* one of the group, if p is a member.
Configured(p) ==
    /\ TypeOK' /\ Kept /\ UNCHANGED msgs /\ rpc[p] = "conf" /\ rpc'[p] = "restore"
    /\ ract'[p] = ract[p] /\ core'[p] = core[p]
    /\ UNCHANGED <<fc_lock, tpc>> /\ fc_lock[p] = NoOne
    /\ \A q \in Procs \ {p} : Untouched(q)
    /\ conn'[p].stop_sent = 0 /\ conn'[p].stop_count = 0 /\ conn'[p].conf_id = ract[p].id
    /\ paused'[p] = FALSE

LEMMA ConfResetConfigured ==
    ASSUME FlowInv, NEW p \in Procs, ConfReset(p)
    PROVE  Configured(p)
<1>. USE DEF locks, queue, group
<1>. DEFINE c == [conn[p] EXCEPT !.stop_sent = 0, !.stop_count = 0, !.sync_sent = FALSE,
                                 !.conf_id = ract[p].id]
<1>1. TypeOK /\ conn[p] \in Conn /\ IdsOK(p) /\ ract[p] \in Msg \cup {NoAct} /\ paused \in [Procs -> BOOLEAN]
  BY DEF FlowInv, TypeOK
<1>2. /\ rpc[p] = "conf" /\ fc_lock[p] = NoOne /\ Set(p, c) /\ GoTo(p, "restore")
      /\ paused' = [paused EXCEPT ![p] = FALSE]
      /\ UNCHANGED <<fc_lock, recv_q, tpc, up, view, exchange, conf, core, msgs, asked>>
  BY DEF ConfReset, RecvAt
<1>3. ract[p].id \in Int
  <2>1. ract[p].t = "CONF"
    BY <1>1, <1>2 DEF IdsOK
  <2>2. ract[p] \in Msg
    BY <1>1, <2>1 DEF NoAct
  <2>. QED BY <2>1, <2>2, MsgFields
<1>4. /\ c \in Conn /\ c.stop_sent = 0 /\ c.stop_count = 0 /\ c.conf_id = ract[p].id
  <2>1. ASSUME NEW k \in Conn, NEW i \in Int
        PROVE  LET k1 == [k EXCEPT !.stop_sent = 0, !.stop_count = 0, !.sync_sent = FALSE,
                                   !.conf_id = i]
               IN  k1 \in Conn /\ k1.stop_sent = 0 /\ k1.stop_count = 0 /\ k1.conf_id = i
    <3>. DEFINE a == [k EXCEPT !.stop_sent = 0]
                b == [a EXCEPT !.stop_count = 0]
                d == [b EXCEPT !.sync_sent = FALSE]
                e == [d EXCEPT !.conf_id = i]
    <3>1. a \in Conn /\ a.stop_sent = 0
      BY DEF Conn
    <3>. HIDE DEF a
    <3>2. b \in Conn /\ b.stop_sent = 0 /\ b.stop_count = 0
      BY <3>1 DEF Conn
    <3>. HIDE DEF b
    <3>3. d \in Conn /\ d.stop_sent = 0 /\ d.stop_count = 0
      BY <3>2 DEF Conn
    <3>. HIDE DEF d
    <3>4. e \in Conn /\ e.stop_sent = 0 /\ e.stop_count = 0 /\ e.conf_id = i
      BY <3>3 DEF Conn
    <3>5. e = [k EXCEPT !.stop_sent = 0, !.stop_count = 0, !.sync_sent = FALSE, !.conf_id = i]
      BY DEF a, b, d
    <3>. HIDE DEF e
    <3>. QED BY <3>4, <3>5, Zenon
  <2>. QED BY <1>1, <1>3, <2>1, Zenon
<1>. HIDE DEF c
<1>5. /\ conn' \in [Procs -> Conn] /\ conn'[p] = c
      /\ \A q \in Procs \ {p} : conn'[q] = conn[q]
  BY <1>1, <1>2, <1>4, SetType
<1>6. "restore" \in RecvPc /\ "restore" \notin {"recv", "stop", "growth"}
  BY DEF RecvPc
<1>7. /\ rpc' \in [Procs -> RecvPc] /\ rpc'[p] = "restore"
      /\ ract' \in [Procs -> Msg \cup {NoAct}] /\ ract'[p] = ract[p]
      /\ \A q \in Procs \ {p} : rpc'[q] = rpc[q] /\ ract'[q] = ract[q]
  BY <1>1, <1>2, <1>6, GoToType
<1>8. /\ paused' \in [Procs -> BOOLEAN] /\ paused'[p] = FALSE
      /\ \A q \in Procs \ {p} : paused'[q] = paused[q]
  BY <1>1, <1>2
<1>9. TypeOK'
  BY <1>1, <1>2, <1>5, <1>7, <1>8 DEF TypeOK, msgs
<1>10. \A q \in Procs \ {p} : Untouched(q)
  BY <1>2, <1>5, <1>7, <1>8 DEF Untouched, msgs
<1>. QED BY <1>2, <1>4, <1>5, <1>7, <1>8, <1>9, <1>10 DEF Configured, Kept

LEMMA ConfiguredFlow ==
    ASSUME FlowInv, NEW p \in Procs, Configured(p)
    PROVE  FlowInv'
<1>. USE DEF Configured
<1>1. TypeOK /\ LockOK(p) /\ IdsOK(p) /\ (Member(p) => PhaseOK(p) /\ BalanceOK(p))
  BY DEF FlowInv
<1>2. UNCHANGED <<inbox, status, stopped>>
  BY DEF msgs
<1>3. LockOK(p)' /\ IdsOK(p)'
  BY <1>1, <1>2 DEF LockOK, IdsOK, Kept
<1>4. Member(p)' <=> Member(p)
  BY DEF Member, Kept, Up
<1>5. ASSUME Member(p) PROVE PhaseOK(p)' /\ BalanceOK(p)'
  <2>1. /\ PhaseOK(p) /\ conn[p].conf_id # conf /\ ract[p].id = conf /\ stopped[p] = 0
        /\ core[p] = "PRIMARY" /\ ract[p].my \in SYNCED..PRIMARY
    BY <1>1, <1>5 DEF PhaseOK, BalanceOK
  <2>2. \A i \in DOMAIN inbox[p] : inbox[p][i].t \notin {"COMP", "CONF"}
    BY <2>1 DEF PhaseOK
  <2>3. PhaseOK(p)'
    BY <1>2, <2>1, <2>2 DEF PhaseOK, Kept
  <2>4. Ahead(p)' = 0
    BY DEF Ahead
  <2>. QED BY <1>2, <2>1, <2>3, <2>4 DEF BalanceOK, Kept
<1>6. ProcOK(p)'
  BY <1>3, <1>4, <1>5 DEF ProcOK
<1>7. \A q \in Procs \ {p} : Untouched(q) /\ Sent(q)
  BY <1>2 DEF Sent
<1>. QED BY <1>6, <1>7, OwnStep

\* A new component: nobody is a member until the state exchange has ended.
LEMMA FormFlow ==
    ASSUME FlowInv, NEW S \in SUBSET Procs, Form(S)
    PROVE  FlowInv' /\ exchange' /\ UNCHANGED <<conn, paused>>
<1>. USE DEF locks, queue, group, recv
<1>1. TypeOK /\ \A q \in Procs : inbox[q] \in Seq(Msg)
  BY DEF FlowInv, TypeOK
<1>2. /\ view' = S /\ exchange' = TRUE
      /\ inbox' = [p \in Procs |->
                     IF p \in S THEN Append(inbox[p], [t |-> "COMP"])
                     ELSE IF p \in view /\ Up(p) THEN Append(inbox[p], NonPrimary)
                     ELSE inbox[p]]
      /\ UNCHANGED <<conn, fc_lock, recv_q, paused, rpc, ract, tpc, up, conf, core, status, stopped, asked>>
  BY DEF Form
<1>3. [t |-> "COMP"] \in Msg /\ NonPrimary \in Msg /\ NonPrimary.id = -1
  <2>1. -1 \in Int /\ OPEN \in SYNCED..OPEN
    OBVIOUS
  <2>. QED BY <2>1, MsgType DEF NonPrimary
<1>4. \A q \in Procs : \E m \in Msg : /\ m.t = "COMP" \/ (m.t = "CONF" /\ m.id = -1)
                                      /\ inbox'[q] = inbox[q] \/ inbox'[q] = Append(inbox[q], m)
  BY <1>2, <1>3 DEF NonPrimary
<1>5. inbox' \in [Procs -> Seq(Msg)]
  <2>1. \A q \in Procs : inbox'[q] \in Seq(Msg)
    <3>1. \A q \in Procs, m \in Msg : Append(inbox[q], m) \in Seq(Msg)
      BY <1>1
    <3>. QED BY <1>1, <1>4, <3>1
  <2>. QED BY <1>2, <2>1
<1>6. TypeOK'
  BY <1>1, <1>2, <1>5 DEF TypeOK
<1>7. ASSUME NEW q \in Procs PROVE LockOK(q)' /\ IdsOK(q)' /\ ~ Member(q)'
  <2>1. LockOK(q) /\ IdsOK(q) /\ conf \in Nat
    BY <1>1 DEF FlowInv, TypeOK
  <2>2. PICK m \in Msg : /\ m.t = "COMP" \/ (m.t = "CONF" /\ m.id = -1)
                         /\ inbox'[q] = inbox[q] \/ inbox'[q] = Append(inbox[q], m)
    BY <1>4
  <2>3. inbox[q] \in Seq(Msg)
    BY <1>1
  <2>4. \A i \in DOMAIN inbox'[q] : inbox'[q][i] = m \/ (i \in DOMAIN inbox[q] /\ inbox'[q][i] = inbox[q][i])
    BY <2>2, <2>3
  <2>5. \A i \in DOMAIN inbox'[q] : inbox'[q][i].t = "CONF" => inbox'[q][i].id <= conf
    BY <2>1, <2>2, <2>4 DEF IdsOK
  <2>. QED BY <1>2, <2>1, <2>5 DEF LockOK, IdsOK, Member
<1>. QED BY <1>2, <1>6, <1>7 DEF FlowInv

\* The state exchange ends: every member is about to receive the CONF, which
\* names its status; what p was before the step is left alone.
Exchanged(p) ==
    p \in view => /\ inbox[p] = <<>> /\ rpc[p] = "recv" /\ core[p] = "EXCHANGE"
                  /\ inbox'[p] = << [t |-> "CONF", id |-> conf', my |-> status'[p]] >>

LEMMA CompleteSteps ==
    ASSUME FlowInv, Complete
    PROVE  /\ TypeOK' /\ conf' = conf + 1 /\ ~ exchange' /\ stopped' = [p \in Procs |-> 0]
           /\ UNCHANGED <<conn, fc_lock, paused, rpc, ract, tpc, view, core>>
           /\ \A p \in Procs : Exchanged(p) /\ (p \notin view => inbox'[p] = inbox[p])
<1>. USE DEF locks, queue, group, recv
<1>1. TypeOK /\ view \subseteq Procs /\ conf \in Nat /\ status \in [Procs -> SYNCED..PRIMARY]
  BY DEF FlowInv, TypeOK
<1>2. /\ \A p \in view : core[p] = "EXCHANGE" /\ inbox[p] = <<>> /\ Up(p) /\ rpc[p] = "recv"
      /\ conf' = conf + 1 /\ exchange' = FALSE /\ stopped' = [p \in Procs |-> 0]
      /\ UNCHANGED <<conn, fc_lock, recv_q, paused, rpc, ract, tpc, view, core, asked>>
  BY DEF Complete
<1>. DEFINE last == Max({act_id[p] : p \in view})
            new == [p \in Procs |-> IF p \in view /\ act_id[p] # last THEN PRIMARY ELSE status[p]]
            lost == {p \in view : new[p] = JOINER /\ donor[p] \notin view}
<1>3. /\ status' = new /\ up' = [p \in Procs |-> up[p] /\ p \notin lost]
      /\ inbox' = [p \in Procs |->
             IF p \in view THEN Append(inbox[p], [t |-> "CONF", id |-> conf + 1, my |-> new[p]])
             ELSE inbox[p]]
  BY DEF Complete
<1>. HIDE DEF last, lost
<1>4. status' \in [Procs -> SYNCED..PRIMARY]
  BY <1>1, <1>3
<1>5. up' \in [Procs -> BOOLEAN]
  BY <1>3, Zenon
<1>6. \A p \in Procs : Exchanged(p) /\ (p \notin view => inbox'[p] = inbox[p])
  <2>. SUFFICES ASSUME NEW p \in Procs
                PROVE  Exchanged(p) /\ (p \notin view => inbox'[p] = inbox[p])
    OBVIOUS
  <2>1. \A m : Append(<<>>, m) = <<m>>
    OBVIOUS
  <2>. HIDE DEF new
  <2>2. CASE p \in view
    <3>1. inbox'[p] = Append(inbox[p], [t |-> "CONF", id |-> conf', my |-> status'[p]])
      BY <1>2, <1>3, <2>2
    <3>. QED BY <1>2, <2>1, <2>2, <3>1 DEF Exchanged
  <2>3. CASE p \notin view
    BY <1>3, <2>3 DEF Exchanged
  <2>. QED BY <2>2, <2>3
<1>7. inbox' \in [Procs -> Seq(Msg)]
  <2>1. \A p \in Procs : inbox'[p] \in Seq(Msg)
    <3>1. SUFFICES ASSUME NEW p \in Procs PROVE inbox'[p] \in Seq(Msg)
      OBVIOUS
    <3>2. CASE p \notin view
      BY <1>1, <1>6, <3>2 DEF TypeOK
    <3>3. CASE p \in view
      <4>1. conf' \in Int /\ status'[p] \in SYNCED..OPEN
        BY <1>1, <1>2, <1>4
      <4>. DEFINE m == [t |-> "CONF", id |-> conf', my |-> status'[p]]
      <4>2. m \in Msg /\ inbox'[p] = <<m>>
        BY <1>6, <3>3, <4>1, MsgType DEF Exchanged
      <4>. HIDE DEF m
      <4>. QED BY <4>2
    <3>. QED BY <3>2, <3>3
  <2>. QED BY <1>3, <2>1
<1>8. TypeOK'
  <2>1. stopped' \in [Procs -> Int]
    BY <1>2
  <2>2. conf' \in Nat \ {0}
    BY <1>1, <1>2
  <2>3. exchange' \in BOOLEAN /\ view' \subseteq Procs
    BY <1>1, <1>2, Zenon
  <2>. QED BY <1>1, <1>2, <1>4, <1>5, <1>7, <2>1, <2>2, <2>3 DEF TypeOK
<1>. QED BY <1>2, <1>6, <1>8

LEMMA CompleteFlow ==
    ASSUME FlowInv, Complete
    PROVE  FlowInv'
<1>1. /\ TypeOK' /\ conf' = conf + 1 /\ ~ exchange' /\ stopped' = [p \in Procs |-> 0]
      /\ UNCHANGED <<conn, fc_lock, paused, rpc, ract, tpc, view, core>>
      /\ \A p \in Procs : Exchanged(p) /\ (p \notin view => inbox'[p] = inbox[p])
  BY CompleteSteps
<1>2. ASSUME NEW p \in Procs
      PROVE  LockOK(p)' /\ IdsOK(p)' /\ (Member(p)' => PhaseOK(p)' /\ BalanceOK(p)')
  <2>1. TypeOK /\ LockOK(p) /\ IdsOK(p) /\ conf \in Nat /\ conn[p].conf_id \in Int
    BY DEF FlowInv, TypeOK, Conn
  <2>2. conn'[p].conf_id < conf' /\ conn'[p].conf_id <= conf'
    BY <1>1, <2>1 DEF IdsOK
  <2>3. LockOK(p)'
    BY <1>1, <2>1 DEF LockOK
  <2>4. CASE p \in view
    <3>. DEFINE m == [t |-> "CONF", id |-> conf', my |-> status'[p]]
    <3>1. inbox'[p] = <<m>> /\ rpc'[p] = "recv" /\ core'[p] = "EXCHANGE" /\ stopped'[p] = 0
      BY <1>1, <2>4 DEF Exchanged
    <3>2. m.t = "CONF" /\ m.id = conf' /\ m.my \in SYNCED..PRIMARY
      BY <1>1 DEF TypeOK
    <3>. HIDE DEF m
    <3>3. /\ DOMAIN inbox'[p] = {1} /\ inbox'[p][1] = m /\ inbox'[p] # <<>>
      BY <3>1
    <3>4. conf' <= conf' /\ conn'[p].conf_id # conf'
      BY <1>1, <2>1, <2>2
    <3>5. IdsOK(p)'
      BY <2>2, <3>1, <3>2, <3>3, <3>4 DEF IdsOK
    <3>6. PhaseOK(p)'
      BY <3>1, <3>2, <3>3, <3>4 DEF PhaseOK
    <3>7. BalanceOK(p)'
      BY <3>1, <3>4 DEF BalanceOK
    <3>. QED BY <2>3, <3>5, <3>6, <3>7
  <2>5. CASE p \notin view
    <3>1. ~ Member(p)'
      BY <1>1, <2>5 DEF Member
    <3>2. inbox'[p] = inbox[p]
      BY <1>1, <2>5
    <3>3. \A i \in DOMAIN inbox[p] : inbox[p][i].t = "CONF" => inbox[p][i].id <= conf'
      <4>1. SUFFICES ASSUME NEW i \in DOMAIN inbox[p], inbox[p][i].t = "CONF" PROVE inbox[p][i].id <= conf'
        OBVIOUS
      <4>2. inbox[p][i] \in Msg
        BY <2>1 DEF TypeOK
      <4>3. inbox[p][i].id \in Int /\ inbox[p][i].id <= conf
        BY <2>1, <4>1, <4>2, MsgFields DEF IdsOK
      <4>. QED BY <1>1, <2>1, <4>3
    <3>4. rpc[p] \in {"conf", "restore"} => ract[p].t = "CONF" /\ ract[p].id <= conf'
      <4>1. SUFFICES ASSUME rpc[p] \in {"conf", "restore"} PROVE ract[p].t = "CONF" /\ ract[p].id <= conf'
        OBVIOUS
      <4>2. ract[p].t = "CONF" /\ ract[p].id <= conf /\ ract[p] \in Msg \cup {NoAct}
        BY <2>1, <4>1 DEF IdsOK, TypeOK
      <4>3. ract[p] \in Msg
        BY <4>2 DEF NoAct
      <4>4. ract[p].id \in Int
        BY <4>2, <4>3, MsgFields
      <4>. QED BY <1>1, <2>1, <4>2, <4>4
    <3>. QED BY <1>1, <2>2, <2>3, <3>1, <3>2, <3>3, <3>4 DEF IdsOK
  <2>. QED BY <2>4, <2>5
<1>. QED BY <1>1, <1>2 DEF FlowInv

\* A crash: nobody else notices.
Unmoved(q) == Untouched(q) /\ inbox'[q] = inbox[q] /\ status'[q] = status[q] /\ up'[q] = up[q]

LEMMA CrashSteps ==
    ASSUME FlowInv, NEW p \in Procs, Crash(p)
    PROVE  /\ TypeOK' /\ UNCHANGED <<view, exchange, conf, stopped>> /\ ~ Member(p)'
           /\ \A q \in Procs \ {p} : Unmoved(q)
           /\ conn'[p] = FirstConn(p) /\ fc_lock'[p] = NoOne /\ inbox'[p] = <<>>
           /\ rpc'[p] = "exit" /\ paused'[p] = FALSE
           /\ \A t \in Threads[p] : tpc'[t] = Idle
<1>1. TypeOK
  BY DEF FlowInv
<1>2. FirstConn(p) \in Conn
  <2>1. InitStatus[p] \in SYNCED..OPEN /\ MaxFc(SyncDonor) \in {JOINED, DONOR}
    BY ConnAssumption DEF MaxFc
  <2>. QED BY <2>1 DEF FirstConn, Conn
<1>3. /\ conn' \in [Procs -> Conn] /\ conn'[p] = FirstConn(p)
      /\ \A q \in Procs \ {p} : conn'[q] = conn[q]
  BY <1>1, <1>2 DEF Crash, TypeOK
<1>4. /\ fc_lock' \in [Procs -> {NoOne, Recv} \cup AllThreads] /\ fc_lock'[p] = NoOne
      /\ \A q \in Procs \ {p} : fc_lock'[q] = fc_lock[q]
      /\ \A q \in Procs : fc_lock'[q] \in {NoOne, Recv} \cup Threads[q]
  BY <1>1 DEF Crash, TypeOK
<1>5. /\ recv_q' \in [Procs -> Seq(Items)] /\ inbox' \in [Procs -> Seq(Msg)] /\ inbox'[p] = <<>>
      /\ \A q \in Procs \ {p} : inbox'[q] = inbox[q]
  <2>1. <<>> \in Seq(Items) /\ <<>> \in Seq(Msg)
    OBVIOUS
  <2>. QED BY <1>1, <2>1 DEF Crash, TypeOK
<1>6. /\ paused' \in [Procs -> BOOLEAN] /\ paused'[p] = FALSE /\ up' \in [Procs -> BOOLEAN] /\ up'[p] = FALSE
      /\ \A q \in Procs \ {p} : paused'[q] = paused[q] /\ up'[q] = up[q]
  BY <1>1 DEF Crash, TypeOK
<1>7. /\ rpc' \in [Procs -> RecvPc] /\ rpc'[p] = "exit" /\ ract' \in [Procs -> Msg \cup {NoAct}]
      /\ \A q \in Procs \ {p} : rpc'[q] = rpc[q] /\ ract'[q] = ract[q]
  BY <1>1 DEF Crash, TypeOK, RecvPc
<1>8. /\ tpc' \in [AllThreads -> ThreadPc] /\ \A t \in Threads[p] : tpc'[t] = Idle
      /\ \A q \in Procs \ {p} : \A t \in Threads[q] : tpc'[t] = tpc[t]
  <2>1. Idle \in ThreadPc
    BY DEF Idle, ThreadPc, Items
  <2>2. tpc \in [AllThreads -> ThreadPc] /\ \A q \in Procs : Threads[q] \subseteq AllThreads
    BY <1>1 DEF TypeOK, ThreadPc, AllThreads
  <2>3. tpc' = [t \in AllThreads |-> IF t \in Threads[p] THEN Idle ELSE tpc[t]]
    BY DEF Crash
  <2>4. tpc' \in [AllThreads -> ThreadPc] /\ \A t \in Threads[p] : tpc'[t] = Idle
    BY <2>1, <2>2, <2>3
  <2>5. \A q \in Procs \ {p} : \A t \in Threads[q] : tpc'[t] = tpc[t]
    BY <2>2, <2>3, ConnAssumption
  <2>. QED BY <2>4, <2>5
<1>9. UNCHANGED <<view, exchange, conf, core, status, stopped, asked>>
  BY DEF Crash
<1>10. TypeOK'
  BY <1>1, <1>3, <1>4, <1>5, <1>6, <1>7, <1>8, <1>9 DEF TypeOK, ThreadPc
<1>11. \A q \in Procs \ {p} : Unmoved(q)
  BY <1>3, <1>4, <1>5, <1>6, <1>7, <1>8, <1>9 DEF Unmoved, Untouched
<1>. QED BY <1>3, <1>4, <1>5, <1>6, <1>7, <1>8, <1>9, <1>10, <1>11 DEF Member, Up

LEMMA CrashFlow ==
    ASSUME FlowInv, NEW p \in Procs, Crash(p)
    PROVE  FlowInv'
<1>1. /\ TypeOK' /\ UNCHANGED <<view, exchange, conf, stopped>> /\ ~ Member(p)'
      /\ \A q \in Procs \ {p} : Unmoved(q)
      /\ conn'[p] = FirstConn(p) /\ fc_lock'[p] = NoOne /\ inbox'[p] = <<>>
      /\ rpc'[p] = "exit" /\ paused'[p] = FALSE
      /\ \A t \in Threads[p] : tpc'[t] = Idle
  BY CrashSteps
<1>2. LockOK(p)' /\ IdsOK(p)'
  <2>1. \A t \in Threads[p] : t # NoOne
    BY ConnAssumption DEF AllThreads
  <2>2. LockOK(p)'
    BY <1>1, <2>1 DEF LockOK, Idle, NoOne, Recv
  <2>3. conn'[p].conf_id <= conf'
    BY <1>1 DEF FirstConn, TypeOK
  <2>. QED BY <1>1, <2>2, <2>3 DEF IdsOK
<1>3. ASSUME NEW q \in Procs, q # p
      PROVE  LockOK(q)' /\ IdsOK(q)' /\ (Member(q)' => PhaseOK(q)' /\ BalanceOK(q)')
  <2>1. LockOK(q) /\ IdsOK(q) /\ (Member(q) => PhaseOK(q) /\ BalanceOK(q)) /\ Unmoved(q)
    BY <1>1, <1>3 DEF FlowInv
  <2>2. Member(q)' <=> Member(q)
    BY <1>1, <2>1 DEF Unmoved, Member, Up
  <2>3. LockOK(q)' /\ IdsOK(q)'
    BY <1>1, <2>1 DEF LockOK, IdsOK, Unmoved, Untouched
  <2>4. PhaseOK(q) => PhaseOK(q)'
    BY <1>1, <2>1 DEF PhaseOK, Unmoved, Untouched
  <2>5. Ahead(q)' = Ahead(q)
    BY <1>1, <2>1 DEF Ahead, Unmoved, Untouched
  <2>6. BalanceOK(q) => BalanceOK(q)'
    BY <1>1, <2>1, <2>5 DEF BalanceOK, Unmoved, Untouched
  <2>. QED BY <2>1, <2>2, <2>3, <2>4, <2>6
<1>. QED BY <1>1, <1>2, <1>3 DEF FlowInv

LEMMA InitFlow ==
    ASSUME Init
    PROVE  FlowInv
<1>1. \A p \in Procs : FirstConn(p) \in Conn /\ FirstConn(p).conf_id = 1 /\ FirstConn(p).stop_sent = 0
  <2>1. \A p \in Procs : InitStatus[p] \in SYNCED..OPEN /\ MaxFc(SyncDonor) \in {JOINED, DONOR}
    BY ConnAssumption DEF MaxFc
  <2>. QED BY <2>1 DEF FirstConn, Conn
<1>2. tpc \in [AllThreads -> ThreadPc] /\ \A t \in AllThreads : tpc[t].at \in {"gap", "idle"}
  <2>1. Idle \in ThreadPc /\ [Idle EXCEPT !.at = "gap"] \in ThreadPc
        /\ Idle.at = "idle" /\ [Idle EXCEPT !.at = "gap"].at = "gap"
    BY DEF Idle, ThreadPc, Items
  <2>2. \A t \in AllThreads : tpc[t] \in {Idle, [Idle EXCEPT !.at = "gap"]}
    BY DEF Init
  <2>3. DOMAIN tpc = AllThreads /\ tpc = [t \in AllThreads |-> tpc[t]]
    BY DEF Init
  <2>. QED BY <2>1, <2>2, <2>3
<1>3. TypeOK
  <2>1. <<>> \in Seq(Items) /\ <<>> \in Seq(Msg)
    OBVIOUS
  <2>2. conn \in [Procs -> Conn]
    BY <1>1 DEF Init
  <2>3. status \in [Procs -> SYNCED..PRIMARY]
    BY ConnAssumption DEF Init
  <2>4. /\ paused \in [Procs -> BOOLEAN] /\ up \in [Procs -> BOOLEAN] /\ asked \in [Procs -> BOOLEAN]
    BY DEF Init
  <2>5. /\ fc_lock \in [Procs -> {NoOne, Recv} \cup AllThreads]
        /\ \A p \in Procs : fc_lock[p] \in {NoOne, Recv} \cup Threads[p]
        /\ recv_q \in [Procs -> Seq(Items)] /\ inbox \in [Procs -> Seq(Msg)]
        /\ rpc \in [Procs -> RecvPc] /\ ract \in [Procs -> Msg \cup {NoAct}]
        /\ core \in [Procs -> CoreStates] /\ stopped \in [Procs -> Int]
    BY <2>1 DEF Init, RecvPc, CoreStates
  <2>6. view \subseteq Procs /\ exchange \in BOOLEAN /\ conf = 1
    BY Zenon DEF Init
  <2>. QED BY <1>2, <2>2, <2>3, <2>4, <2>5, <2>6 DEF TypeOK, ThreadPc
<1>4. ASSUME NEW p \in Procs
      PROVE  LockOK(p) /\ IdsOK(p) /\ PhaseOK(p) /\ BalanceOK(p)
  <2>1. /\ conn[p].conf_id = 1 /\ conf = 1 /\ conn[p].stop_sent = 0 /\ stopped[p] = 0
        /\ fc_lock[p] = NoOne /\ rpc[p] = "recv" /\ inbox[p] = <<>> /\ core[p] = "PRIMARY"
    BY <1>1 DEF Init
  <2>2. \A t \in Threads[p] : t # NoOne /\ tpc[t].at # "cont"
    BY <1>2, ConnAssumption DEF AllThreads
  <2>3. LockOK(p)
    BY <2>1, <2>2 DEF LockOK, NoOne, Recv
  <2>4. IdsOK(p) /\ PhaseOK(p)
    BY <2>1 DEF IdsOK, PhaseOK
  <2>5. Ahead(p) = 0
    BY <2>1 DEF Ahead
  <2>. QED BY <2>1, <2>3, <2>4, <2>5 DEF BalanceOK
<1>. QED BY <1>3, <1>4 DEF FlowInv

----------------------------------------------------------------------------
(* HeldInv: the lock of recv_q                                             *)

HeldSame(q) ==
    /\ recv_lock'[q] = recv_lock[q] /\ (rpc'[q] = "stop?" <=> rpc[q] = "stop?")
    /\ \A t \in Threads[q] : tpc'[t].at = "cont?" <=> tpc[t].at = "cont?"
    /\ recv_lock[q] \in Threads[q] /\ recv_q[q] # <<>> => recv_q'[q] # <<>>

LEMMA HeldStays ==
    ASSUME HeldInv, UNCHANGED recv_lock, \A q \in Procs : HeldSame(q)
    PROVE  HeldInv'
<1>1. ASSUME NEW q \in Procs PROVE HeldOK(q)'
  BY DEF HeldInv, HeldOK, HeldSame
<1>. QED BY <1>1 DEF HeldInv

\* The receiving thread moves, and has nothing to do with the lock.
LEMMA HeldRecv ==
    ASSUME HeldInv, TypeOK, NEW p \in Procs, NEW at, at # "stop?", rpc[p] # "stop?",
           rpc' = [rpc EXCEPT ![p] = at], UNCHANGED <<recv_lock, tpc>>,
           recv_q' = recv_q \/ \E x \in Items : recv_q' = [recv_q EXCEPT ![p] = Append(@, x)]
    PROVE  HeldInv'
<1>1. ASSUME NEW q \in Procs PROVE HeldSame(q)
  <2>1. recv_q[q] \in Seq(Items) /\ recv_q \in [Procs -> Seq(Items)]
    BY DEF TypeOK
  <2>2. \A x \in Items : Append(recv_q[q], x) # <<>>
    <3>1. ASSUME NEW s \in Seq(Items), NEW x \in Items PROVE Append(s, x) # <<>>
      <4>1. Len(Append(s, x)) = Len(s) + 1 /\ Len(s) \in Nat
        OBVIOUS
      <4>. QED BY <4>1
    <3>. QED BY <2>1, <3>1
  <2>3. recv_q[q] # <<>> => recv_q'[q] # <<>>
    BY <2>1, <2>2
  <2>4. rpc'[q] = "stop?" <=> rpc[q] = "stop?"
    BY DEF TypeOK
  <2>. QED BY <2>3, <2>4 DEF HeldSame
<1>. QED BY <1>1, HeldStays

\* A thread moves, and has nothing to do with the lock.
LEMMA HeldThread ==
    ASSUME HeldInv, TypeOK, NEW p \in Procs, NEW t \in Threads[p], NEW r,
           tpc' = [tpc EXCEPT ![t] = r], tpc[t].at # "cont?", r.at # "cont?",
           UNCHANGED <<recv_lock, rpc>>,
           \/ recv_q' = recv_q
           \/ recv_lock[p] = NoOne /\ recv_q' = [recv_q EXCEPT ![p] = Tail(@)]
    PROVE  HeldInv'
<1>1. \A u \in AllThreads : tpc'[u].at = "cont?" <=> tpc[u].at = "cont?"
  BY DEF TypeOK
<1>2. NoOne \notin Threads[p]
  BY ConnAssumption DEF AllThreads
<1>3. ASSUME NEW q \in Procs PROVE HeldSame(q)
  <2>1. recv_lock[q] \in Threads[q] => recv_q'[q] = recv_q[q]
    BY <1>2 DEF TypeOK
  <2>2. Threads[q] \subseteq AllThreads
    BY DEF AllThreads
  <2>. QED BY <1>1, <2>1, <2>2 DEF HeldSame
<1>. QED BY <1>3, HeldStays

\* The steps that take or release it.
LEMMA HeldTakes ==
    ASSUME HeldInv, NEW p \in Procs, NEW l \in {NoOne, Recv} \cup Threads[p],
           recv_lock' = [recv_lock EXCEPT ![p] = l],
           l = Recv <=> rpc'[p] = "stop?",
           \A t \in Threads[p] : l = t <=> tpc'[t].at = "cont?",
           l \in Threads[p] => recv_q'[p] # <<>>,
           \A q \in Procs \ {p} : /\ rpc'[q] = rpc[q] /\ recv_q'[q] = recv_q[q]
                                  /\ \A t \in Threads[q] : tpc'[t] = tpc[t]
    PROVE  HeldInv'
<1>1. /\ recv_lock' \in [Procs -> {NoOne, Recv} \cup AllThreads] /\ recv_lock'[p] = l
      /\ \A q \in Procs \ {p} : recv_lock'[q] = recv_lock[q]
  BY DEF HeldInv, AllThreads
<1>2. ASSUME NEW q \in Procs PROVE HeldOK(q)'
  <2>1. CASE q = p
    BY <1>1, <2>1 DEF HeldOK
  <2>2. CASE q # p
    BY <1>1, <2>2 DEF HeldInv, HeldOK
  <2>. QED BY <2>1, <2>2
<1>. QED BY <1>1, <1>2 DEF HeldInv

LEMMA HeldReceive ==
    ASSUME FlowInv, HeldInv, NEW p \in Procs, Receive(p)
    PROVE  HeldInv'
<1>. USE DEF locks, queue, group, recv, RecvAt, GoTo, Takes, Hands
<1>1. TypeOK /\ HeldOK(p) /\ \A t \in Threads[p] : t # NoOne /\ t # Recv
  BY ConnAssumption DEF FlowInv, HeldInv, AllThreads
<1>2. NoOne # Recv /\ Item(p) \in Items
  BY DEF NoOne, Recv, Item, Items
<1>3. \A m : After(p, m) # "stop?"
  BY DEF After
<1>4. ASSUME NEW at, at # "stop?", rpc[p] # "stop?", rpc' = [rpc EXCEPT ![p] = at],
             UNCHANGED <<recv_lock, tpc, recv_q>>
      PROVE  HeldInv'
  BY <1>1, <1>4, HeldRecv
<1>5. CASE RecvAct(p) \/ RecvFlow(p) \/ RecvComp(p) \/ RecvConf(p) \/ RecvReq(p) \/ RecvJoin(p) \/ RecvSync(p)
  <2>1. PICK at : /\ at # "stop?" /\ rpc' = [rpc EXCEPT ![p] = at]
                  /\ UNCHANGED <<recv_lock, tpc, recv_q>> /\ rpc[p] = "recv"
    BY <1>3, <1>5 DEF RecvAct, RecvFlow, RecvComp, RecvConf, RecvReq, RecvJoin, RecvSync
  <2>. QED BY <1>4, <2>1
<1>6. CASE ConfReset(p) \/ ConfRestore(p) \/ ConfSync(p) \/ ConfJoin(p) \/ ReleaseBegin(p) \/ ReleaseEnd(p)
  <2>1. PICK at : /\ at # "stop?" /\ rpc' = [rpc EXCEPT ![p] = at]
                  /\ UNCHANGED <<recv_lock, tpc, recv_q>> /\ rpc[p] # "stop?"
    BY <1>3, <1>6 DEF ConfReset, ConfRestore, ConfSync, ConfJoin, ReleaseBegin, ReleaseEnd
  <2>. QED BY <1>4, <2>1
<1>7. CASE SstRelease(p) \/ JoinedState(p) \/ JoinedOffset(p) \/ JoinedTest(p) \/ JoinedSet(p)
           \/ RecvSyncEnd(p) \/ StopEnd(p) \/ SstStop(p)
  <2>1. PICK at : /\ at # "stop?" /\ rpc' = [rpc EXCEPT ![p] = at]
                  /\ UNCHANGED <<recv_lock, tpc, recv_q>> /\ rpc[p] # "stop?"
    BY <1>7 DEF SstRelease, JoinedState, JoinedOffset, JoinedTest, JoinedSet, RecvSyncEnd, StopEnd, SstStop
  <2>. QED BY <1>4, <2>1
<1>8. CASE Growth(p)
  <2>1. PICK at : /\ at # "stop?" /\ rpc' = [rpc EXCEPT ![p] = at]
                  /\ UNCHANGED <<recv_lock, tpc, recv_q>> /\ rpc[p] # "stop?"
    BY <1>8 DEF Growth
  <2>. QED BY <1>4, <2>1
<1>9. CASE Timeout(p)
  <2>1. rpc = [rpc EXCEPT ![p] = rpc[p]]
    BY <1>1 DEF TypeOK
  <2>2. PICK at : /\ at # "stop?" /\ rpc' = [rpc EXCEPT ![p] = at]
                  /\ UNCHANGED <<recv_lock, tpc, recv_q>> /\ rpc[p] # "stop?"
    BY <1>9, <2>1 DEF Timeout
  <2>. QED BY <1>4, <2>2
<1>10. CASE Push(p) /\ ~ StopDue(Queued(p))
  <2>1. PICK at : /\ at # "stop?" /\ rpc' = [rpc EXCEPT ![p] = at]
                  /\ UNCHANGED <<recv_lock, tpc>> /\ rpc[p] # "stop?"
                  /\ recv_q' = [recv_q EXCEPT ![p] = Append(@, Item(p))]
    BY <1>10 DEF Push
  <2>. QED BY <1>1, <1>2, <2>1, HeldRecv
<1>11. CASE Push(p) /\ StopDue(Queued(p))
  <2>1. /\ recv_lock[p] = NoOne /\ recv_lock' = [recv_lock EXCEPT ![p] = Recv]
        /\ rpc' = [rpc EXCEPT ![p] = "stop?"] /\ UNCHANGED <<recv_q, tpc>>
    BY <1>11 DEF Push
  <2>2. \A t \in Threads[p] : tpc[t].at # "cont?"
    BY <1>1, <2>1 DEF HeldOK
  <2>3. rpc'[p] = "stop?" /\ \A q \in Procs \ {p} : rpc'[q] = rpc[q]
    BY <1>1, <2>1 DEF TypeOK
  <2>. QED BY <1>1, <2>1, <2>2, <2>3, HeldTakes
<1>12. CASE StopBegin(p)
  <2>1. /\ rpc[p] = "stop?" /\ recv_lock' = [recv_lock EXCEPT ![p] = NoOne]
        /\ rpc' = [rpc EXCEPT ![p] = "stop"] /\ UNCHANGED tpc
        /\ recv_q' = [recv_q EXCEPT ![p] = Append(@, Item(p))]
    BY <1>12 DEF StopBegin
  <2>2. \A t \in Threads[p] : tpc[t].at # "cont?"
    BY <1>1, <2>1 DEF HeldOK
  <2>3. rpc'[p] = "stop" /\ \A q \in Procs \ {p} : rpc'[q] = rpc[q] /\ recv_q'[q] = recv_q[q]
    BY <1>1, <2>1 DEF TypeOK
  <2>4. NoOne \notin Threads[p]
    BY <1>1
  <2>. QED BY <1>1, <1>2, <2>1, <2>2, <2>3, <2>4, HeldTakes
<1>. QED BY <1>5, <1>6, <1>7, <1>8, <1>9, <1>10, <1>11, <1>12 DEF Receive

LEMMA HeldThreads ==
    ASSUME FlowInv, HeldInv, NEW p \in Procs, NEW t \in Threads[p], Thread(p, t)
    PROVE  HeldInv'
<1>. USE DEF locks, queue, group, recv, ThreadAt
<1>1. TypeOK /\ HeldOK(p) /\ \A u \in Threads[p] : u # NoOne /\ u # Recv
  BY ConnAssumption DEF FlowInv, HeldInv, AllThreads
<1>2. NoOne # Recv /\ recv_q[p] \in Seq(Items)
  BY <1>1 DEF NoOne, Recv, TypeOK
<1>3. tpc[t] \in ThreadPc /\ tpc[t].next \in Items
  BY <1>1, ThreadFields
<1>4. /\ \A x : [Idle EXCEPT !.at = x].at = x /\ Idle.at = "idle"
      /\ [tpc[t] EXCEPT !.at = "sync", !.sync = FALSE].at = "sync"
      /\ [tpc[t] EXCEPT !.at = "sst"].at = "sst" /\ [tpc[t] EXCEPT !.at = "cont?"].at = "cont?"
  BY <1>3 DEF Idle, ThreadPc
<1>5. tpc[t].next # "cont?"
  BY <1>3 DEF Items
<1>6. ASSUME NEW r, NEW at, r.at # "cont?", tpc' = [tpc EXCEPT ![t] = r], tpc[t].at # "cont?",
             UNCHANGED <<recv_lock, rpc, recv_q>>
      PROVE  HeldInv'
  BY <1>1, <1>6, HeldThread
<1>7. CASE SyncSent(p, t) \/ Resume(p, t) \/ Donate(p, t) \/ Request(p, t) \/ ContSent(p, t)
  <2>1. UNCHANGED <<recv_lock, rpc, recv_q>> /\ tpc[t].at # "cont?"
    BY <1>7 DEF SyncSent, Resume, Donate, Request, ContSent
  <2>2. PICK r \in {[Idle EXCEPT !.at = tpc[t].next], Idle, [tpc[t] EXCEPT !.at = "sst"],
                    [tpc[t] EXCEPT !.at = "sync", !.sync = FALSE]} : tpc' = [tpc EXCEPT ![t] = r]
    <3>1. CASE SyncSent(p, t)
      BY <3>1, Zenon DEF SyncSent, Returns
    <3>2. CASE Resume(p, t) \/ Donate(p, t)
      BY <3>2, Zenon DEF Resume, Donate
    <3>3. CASE Request(p, t)
      BY <3>3 DEF Request
    <3>4. CASE ContSent(p, t)
      BY <3>4 DEF ContSent, Returns
    <3>. QED BY <1>7, <3>1, <3>2, <3>3, <3>4
  <2>3. r.at # "cont?"
    BY <1>4, <1>5, <2>2
  <2>. QED BY <1>6, <2>1, <2>2, <2>3
<1>. DEFINE c == [conn[p] EXCEPT !.queue_len = Len(recv_q[p]) - 1]
            sync == SyncDue(Lowered(c))
<1>8. CASE Get(p, t) /\ ~ ContDue(c)
  <2>. DEFINE r == [at |-> IF sync THEN "sync" ELSE Head(recv_q[p]), sync |-> FALSE, next |-> Head(recv_q[p])]
  <2>1. /\ recv_lock[p] = NoOne /\ recv_q[p] # <<>> /\ tpc[t].at # "cont?"
        /\ recv_q' = [recv_q EXCEPT ![p] = Tail(@)] /\ UNCHANGED <<recv_lock, rpc>>
        /\ tpc' = [tpc EXCEPT ![t] = r]
    BY <1>8 DEF Get, Pops
  <2>2. Head(recv_q[p]) \in Items
    BY <1>2, <2>1
  <2>3. r.at # "cont?"
    <3>. HIDE DEF sync
    <3>. QED BY <2>2 DEF Items
  <2>. HIDE DEF r
  <2>. QED BY <1>1, <2>1, <2>3, HeldThread
<1>9. CASE Get(p, t) /\ ContDue(c)
  <2>1. /\ recv_lock[p] = NoOne /\ recv_q[p] # <<>> /\ recv_lock' = [recv_lock EXCEPT ![p] = t]
        /\ tpc' = [tpc EXCEPT ![t].at = "cont?"] /\ UNCHANGED <<recv_q, rpc>>
    BY <1>9 DEF Get
  <2>2. rpc[p] # "stop?" /\ \A u \in Threads[p] : tpc[u].at # "cont?"
    BY <1>1, <1>2, <2>1 DEF HeldOK
  <2>3. tpc' = [tpc EXCEPT ![t] = [tpc[t] EXCEPT !.at = "cont?"]] /\ [tpc[t] EXCEPT !.at = "cont?"] \in ThreadPc
    BY <1>3, <2>1 DEF ThreadPc
  <2>4. /\ tpc' \in [AllThreads -> ThreadPc] /\ tpc'[t] = [tpc[t] EXCEPT !.at = "cont?"]
        /\ \A u \in Threads[p] \ {t} : tpc'[u] = tpc[u]
        /\ \A q \in Procs \ {p} : \A u \in Threads[q] : tpc'[u] = tpc[u]
    BY <1>1, <2>3, ThreadMoves
  <2>5. \A u \in Threads[p] : t = u <=> tpc'[u].at = "cont?"
    BY <1>4, <2>2, <2>4
  <2>6. /\ t \in {NoOne, Recv} \cup Threads[p] /\ (t = Recv <=> rpc'[p] = "stop?")
        /\ t \in Threads[p] => recv_q'[p] # <<>>
        /\ \A q \in Procs \ {p} : /\ rpc'[q] = rpc[q] /\ recv_q'[q] = recv_q[q]
                                  /\ \A u \in Threads[q] : tpc'[u] = tpc[u]
    BY <1>1, <2>1, <2>2, <2>4
  <2>. QED BY ONLY HeldInv, <2>1, <2>5, <2>6, HeldTakes
<1>10. CASE ContBegin(p, t)
  <2>. DEFINE r == [at |-> "cont", sync |-> SyncDue(conn[p]), next |-> Head(recv_q[p])]
  <2>1. /\ tpc[t].at = "cont?" /\ recv_lock' = [recv_lock EXCEPT ![p] = NoOne]
        /\ recv_q' = [recv_q EXCEPT ![p] = Tail(@)]
        /\ tpc' = [tpc EXCEPT ![t] = r] /\ UNCHANGED rpc
    BY <1>10 DEF ContBegin, Pops
  <2>2. recv_lock[p] = t /\ recv_q[p] # <<>> /\ rpc[p] # "stop?"
    BY <1>1, <2>1 DEF HeldOK
  <2>3. r \in ThreadPc /\ r.at = "cont"
    <3>1. SyncDue(conn[p]) \in BOOLEAN
      BY DEF SyncDue
    <3>2. Head(recv_q[p]) \in Items
      BY <1>2, <2>2
    <3>. QED BY <3>1, <3>2 DEF ThreadPc
  <2>. HIDE DEF r
  <2>4. /\ tpc' \in [AllThreads -> ThreadPc] /\ tpc'[t] = r
        /\ \A u \in Threads[p] \ {t} : tpc'[u] = tpc[u]
        /\ \A q \in Procs \ {p} : \A u \in Threads[q] : tpc'[u] = tpc[u]
    BY <1>1, <2>1, <2>3, ThreadMoves
  <2>5. \A u \in Threads[p] : tpc'[u].at # "cont?" /\ u # NoOne
    BY <1>1, <2>2, <2>3, <2>4 DEF HeldOK
  <2>6. \A q \in Procs \ {p} : recv_q'[q] = recv_q[q]
    BY <1>1, <2>1 DEF TypeOK
  <2>7. /\ NoOne \in {NoOne, Recv} \cup Threads[p] /\ (NoOne = Recv <=> rpc'[p] = "stop?")
        /\ \A u \in Threads[p] : NoOne = u <=> tpc'[u].at = "cont?"
        /\ NoOne \in Threads[p] => recv_q'[p] # <<>>
        /\ \A q \in Procs \ {p} : /\ rpc'[q] = rpc[q] /\ recv_q'[q] = recv_q[q]
                                  /\ \A u \in Threads[q] : tpc'[u] = tpc[u]
    BY <1>2, <2>1, <2>2, <2>4, <2>5, <2>6
  <2>. QED BY ONLY HeldInv, <2>1, <2>7, HeldTakes
<1>. QED BY <1>7, <1>8, <1>9, <1>10 DEF Thread

LEMMA HeldNext ==
    ASSUME FlowInv, HeldInv, Next
    PROVE  HeldInv'
<1>. USE DEF locks, queue, group, recv
<1>1. TypeOK /\ HeldInv /\ \A q \in Procs : HeldOK(q)
  BY DEF FlowInv, HeldInv
<1>2. ASSUME UNCHANGED <<recv_lock, recv_q, rpc, tpc>> PROVE HeldInv'
  BY <1>2 DEF HeldInv, HeldOK
<1>3. ASSUME NEW p \in Procs, JoinBegin(p) \/ Desync(p) \/ Replicate(p) \/ SetSyncDonor(p) PROVE HeldInv'
  BY <1>2, <1>3 DEF JoinBegin, Desync, Replicate, SetSyncDonor
<1>4. ASSUME NEW p \in Procs, JoinEnd(p) PROVE HeldInv'
  <2>1. \A t \in AllThreads : tpc'[t].at = "cont?" <=> tpc[t].at = "cont?"
    <3>1. [Idle EXCEPT !.at = "conf"].at = "conf"
      BY DEF Idle
    <3>. QED BY <1>4, <3>1 DEF JoinEnd
  <2>2. UNCHANGED <<recv_lock, recv_q, rpc>>
    BY <1>4 DEF JoinEnd
  <2>3. \A q \in Procs : HeldSame(q)
    BY <2>1, <2>2 DEF HeldSame, AllThreads
  <2>. QED BY <2>2, <2>3, HeldStays
<1>5. ASSUME NEW S, Form(S) PROVE HeldInv'
  BY <1>2, <1>5 DEF Form
<1>6. ASSUME Complete PROVE HeldInv'
  BY <1>2, <1>6 DEF Complete
<1>7. ASSUME NEW p \in Procs, Crash(p) PROVE HeldInv'
  <2>1. /\ \A t \in Threads[p] : tpc'[t] = Idle
        /\ \A q \in Procs \ {p} : Unmoved(q)
    BY <1>7, CrashSteps
  <2>2. /\ recv_lock' = [recv_lock EXCEPT ![p] = NoOne] /\ rpc' = [rpc EXCEPT ![p] = "exit"]
        /\ \A q \in Procs \ {p} : recv_q'[q] = recv_q[q]
    BY <1>1, <1>7 DEF Crash, TypeOK
  <2>3. /\ \A q \in Procs \ {p} : rpc'[q] = rpc[q] /\ \A t \in Threads[q] : tpc'[t] = tpc[t]
        /\ rpc'[p] = "exit" /\ Idle.at = "idle" /\ NoOne # Recv
    BY <1>1, <2>1, <2>2 DEF Unmoved, Untouched, TypeOK, Idle, NoOne, Recv
  <2>4. \A t \in Threads[p] : t # NoOne
    BY ConnAssumption DEF AllThreads
  <2>5. /\ NoOne \in {NoOne, Recv} \cup Threads[p] /\ (NoOne = Recv <=> rpc'[p] = "stop?")
        /\ \A u \in Threads[p] : NoOne = u <=> tpc'[u].at = "cont?"
        /\ NoOne \in Threads[p] => recv_q'[p] # <<>>
        /\ \A q \in Procs \ {p} : /\ rpc'[q] = rpc[q] /\ recv_q'[q] = recv_q[q]
                                  /\ \A u \in Threads[q] : tpc'[u] = tpc[u]
    BY <2>1, <2>2, <2>3, <2>4
  <2>. QED BY ONLY <1>1, <2>2, <2>5, <1>7, HeldTakes
<1>8. ASSUME NEW p \in Procs, Receive(p) PROVE HeldInv'
  BY <1>8, HeldReceive
<1>9. ASSUME NEW p \in Procs, NEW t \in Threads[p], Thread(p, t) PROVE HeldInv'
  BY <1>9, HeldThreads
<1>10. Crashes \subseteq Procs
  BY ConnAssumption
<1>. QED BY <1>3, <1>4, <1>5, <1>6, <1>7, <1>8, <1>9, <1>10 DEF Next, Transfer

----------------------------------------------------------------------------
(* What an ordinary step sends of flow control                             *)

\* Nothing: no STOP or CONT, and none is counted.
NoFlow ==
    /\ UNCHANGED stopped
    /\ \A q \in Procs : \/ inbox'[q] = inbox[q]
                        \/ \E m \in Msg : m.t # "FLOW" /\ inbox'[q] = Append(inbox[q], m)

FlowKind(p) == NoFlow \/ \E stop \in BOOLEAN : SendFlow(p, stop)

LEMMA FlowQuiet ==
    ASSUME UNCHANGED msgs
    PROVE  NoFlow
BY DEF NoFlow, msgs

LEMMA FlowOne ==
    ASSUME TypeOK, NEW p \in Procs, NEW m \in Msg, m.t # "FLOW", ToOne(p, m), UNCHANGED stopped
    PROVE  NoFlow
<1>1. \A q \in Procs : inbox'[q] = inbox[q] \/ inbox'[q] = Append(inbox[q], m)
  BY DEF TypeOK, ToOne
<1>. QED BY <1>1 DEF NoFlow

\* A STOP, a CONT, or a failure to send one.
LEMMA FlowTrue ==
    ASSUME NEW p, SendFlow(p, TRUE) \/ SendFlow(p, FALSE) \/ UNCHANGED msgs
    PROVE  FlowKind(p)
<1>1. TRUE \in BOOLEAN /\ FALSE \in BOOLEAN
  BY Zenon
<1>2. ASSUME NEW b \in BOOLEAN, SendFlow(p, b) PROVE FlowKind(p)
  BY <1>2, Zenon DEF FlowKind
<1>3. ASSUME UNCHANGED msgs PROVE FlowKind(p)
  BY <1>3, FlowQuiet DEF FlowKind
<1>. QED BY <1>1, <1>2, <1>3, Zenon

LEMMA FlowSyncJoin ==
    ASSUME TypeOK, NEW p \in Procs, SendSync(p) \/ SendJoin(p) \/ UNCHANGED msgs
    PROVE  NoFlow
<1>1. CASE UNCHANGED msgs
  BY <1>1, FlowQuiet
<1>2. CASE SendSync(p) /\ ~ UNCHANGED msgs
  <2>1. ToOne(p, [t |-> "SYNC"]) /\ UNCHANGED stopped
    BY <1>2 DEF SendSync
  <2>2. [t |-> "SYNC"] \in Msg /\ [t |-> "SYNC"].t # "FLOW"
    BY MsgType
  <2>. QED BY ONLY TypeOK, <2>1, <2>2, FlowOne, Zenon
<1>3. CASE SendJoin(p) /\ ~ UNCHANGED msgs
  <2>. DEFINE m == [t |-> "JOIN", asked |-> asked[p]]
  <2>1. ToOne(p, m) /\ UNCHANGED stopped
    BY <1>3 DEF SendJoin
  <2>2. m \in Msg /\ m.t # "FLOW"
    BY MsgType DEF TypeOK
  <2>. HIDE DEF m
  <2>. QED BY ONLY TypeOK, <2>1, <2>2, FlowOne, Zenon
<1>. QED BY <1>1, <1>2, <1>3

LEMMA ReceiveSends ==
    ASSUME TypeOK, NEW p \in Procs,
           \/ Timeout(p) \/ ConfRestore(p) \/ ConfSync(p) \/ ConfJoin(p)
           \/ ReleaseBegin(p) \/ ReleaseEnd(p) \/ SstRelease(p)
           \/ JoinedState(p) \/ JoinedOffset(p) \/ JoinedTest(p) \/ JoinedSet(p) \/ RecvSyncEnd(p)
           \/ Push(p) \/ StopBegin(p) \/ StopEnd(p) \/ Growth(p) \/ SstStop(p)
    PROVE  FlowKind(p)
<1>1. ASSUME \/ Timeout(p) \/ ConfRestore(p) \/ ConfSync(p) \/ ReleaseBegin(p) \/ JoinedState(p)
             \/ JoinedOffset(p) \/ JoinedTest(p) \/ JoinedSet(p) \/ Push(p) \/ StopBegin(p) \/ Growth(p)
      PROVE  FlowKind(p)
  <2>1. UNCHANGED msgs
    BY <1>1, Zenon DEF Timeout, ConfRestore, ConfSync, ReleaseBegin, JoinedState, JoinedOffset, JoinedTest,
          JoinedSet, Push, StopBegin, Growth
  <2>. QED BY <2>1, FlowTrue
<1>2. ASSUME ConfJoin(p) \/ RecvSyncEnd(p) PROVE FlowKind(p)
  <2>1. SendSync(p) \/ SendJoin(p) \/ UNCHANGED msgs
    BY <1>2, Zenon DEF ConfJoin, RecvSyncEnd, SyncEnd
  <2>. QED BY <2>1, FlowSyncJoin DEF FlowKind
<1>3. ASSUME ReleaseEnd(p) \/ SstRelease(p) \/ StopEnd(p) \/ SstStop(p) PROVE FlowKind(p)
  <2>1. SendFlow(p, TRUE) \/ SendFlow(p, FALSE) \/ UNCHANGED msgs
    BY <1>3 DEF ReleaseEnd, SstRelease, StopEnd, SstStop, ContEnd, msgs
  <2>. QED BY <2>1, FlowTrue
<1>. QED BY <1>1, <1>2, <1>3

LEMMA ThreadSends ==
    ASSUME TypeOK, NEW p \in Procs, NEW t \in Threads[p], Thread(p, t)
    PROVE  FlowKind(p)
<1>1. ASSUME Get(p, t) \/ ContBegin(p, t) \/ Resume(p, t) \/ Donate(p, t) PROVE FlowKind(p)
  <2>1. UNCHANGED msgs
    BY <1>1, Zenon DEF Get, ContBegin, Resume, Donate
  <2>. QED BY <2>1, FlowTrue
<1>2. ASSUME SyncSent(p, t) PROVE FlowKind(p)
  <2>1. SendSync(p) \/ SendJoin(p) \/ UNCHANGED msgs
    BY <1>2, Zenon DEF SyncSent, SyncEnd
  <2>. QED BY <2>1, FlowSyncJoin DEF FlowKind
<1>3. ASSUME ContSent(p, t) PROVE FlowKind(p)
  <2>1. SendFlow(p, TRUE) \/ SendFlow(p, FALSE) \/ UNCHANGED msgs
    BY <1>3, Zenon DEF ContSent, ContEnd
  <2>. QED BY <2>1, FlowTrue
<1>4. ASSUME Request(p, t) PROVE FlowKind(p)
  <2>. DEFINE j == [t |-> "REQ", role |-> JOINER, from |-> p]
              m == [t |-> "REQ", role |-> DONOR, from |-> p]
  <2>1. PICK d \in view : inbox' = [inbox EXCEPT ![p] = Append(@, j), ![d] = Append(@, m)] /\ status[d] = SYNCED
    BY <1>4 DEF Request
  <2>2. UNCHANGED stopped /\ d \in Procs /\ d # p
    BY <1>4, <2>1 DEF Request, TypeOK
  <2>3. j \in Msg /\ m \in Msg /\ j.t # "FLOW" /\ m.t # "FLOW"
    BY MsgType
  <2>. HIDE DEF j, m
  <2>4. \A q \in Procs : inbox'[q] = IF q = p THEN Append(inbox[q], j)
                                     ELSE IF q = d THEN Append(inbox[q], m) ELSE inbox[q]
    BY <2>1, <2>2 DEF TypeOK
  <2>5. NoFlow
    BY <2>2, <2>3, <2>4 DEF NoFlow
  <2>. QED BY <2>5 DEF FlowKind
<1>. QED BY <1>1, <1>2, <1>3, <1>4 DEF Thread

LEMMA OtherSends ==
    ASSUME TypeOK, NEW p \in Procs, Transfer(p) \/ Desync(p) \/ Replicate(p) \/ SetSyncDonor(p)
    PROVE  FlowKind(p)
<1>1. ASSUME JoinBegin(p) \/ SetSyncDonor(p) PROVE FlowKind(p)
  <2>1. UNCHANGED msgs
    BY <1>1, Zenon DEF JoinBegin, SetSyncDonor
  <2>. QED BY <2>1, FlowTrue
<1>2. ASSUME JoinEnd(p) PROVE FlowKind(p)
  <2>1. SendSync(p) \/ SendJoin(p) \/ UNCHANGED msgs
    BY <1>2, Zenon DEF JoinEnd
  <2>. QED BY <2>1, FlowSyncJoin DEF FlowKind
<1>3. ASSUME Desync(p) PROVE FlowKind(p)
  <2>. DEFINE m == [t |-> "REQ", role |-> DONOR, from |-> p]
  <2>1. ToOne(p, m) /\ UNCHANGED stopped
    BY <1>3 DEF Desync
  <2>2. m \in Msg /\ m.t # "FLOW"
    BY MsgType
  <2>. HIDE DEF m
  <2>3. NoFlow
    BY ONLY TypeOK, <2>1, <2>2, FlowOne, Zenon
  <2>. QED BY <2>3 DEF FlowKind
<1>4. ASSUME Replicate(p) PROVE FlowKind(p)
  <2>. DEFINE m == [t |-> "ACT", from |-> p]
  <2>1. ToAll(m) /\ UNCHANGED stopped
    BY <1>4 DEF Replicate
  <2>2. m \in Msg /\ m.t # "FLOW"
    BY MsgType
  <2>. HIDE DEF m
  <2>3. NoFlow
    BY <2>1, <2>2 DEF NoFlow, ToAll
  <2>. QED BY <2>3 DEF FlowKind
<1>. QED BY <1>1, <1>2, <1>3, <1>4 DEF Transfer

----------------------------------------------------------------------------
(* Every step is one of these                                              *)

LEMMA ReceiveKinds ==
    ASSUME FlowInv, NEW p \in Procs, Receive(p)
    PROVE  (Ordinary(p) /\ FlowKind(p)) \/ (\E m : Receipt(p, m)) \/ Configured(p)
<1>1. ASSUME RecvAct(p) \/ RecvFlow(p) \/ RecvComp(p) \/ RecvConf(p) \/ RecvReq(p) \/ RecvJoin(p) \/ RecvSync(p)
      PROVE  \E m : Receipt(p, m)
  BY <1>1, RecvKeepsConn, RecvFlowReceipt, RecvShifts
<1>2. ASSUME ConfReset(p) PROVE Configured(p)
  BY <1>2, ConfResetConfigured
<1>3. ASSUME Timeout(p) PROVE Ordinary(p)
  BY <1>3, StillActions
<1>4. ASSUME ConfRestore(p) PROVE Ordinary(p)
  BY <1>4, ConfRestoreOrdinary
<1>5. ASSUME \/ ConfSync(p) \/ ConfJoin(p) \/ JoinedOffset(p) \/ JoinedTest(p) \/ JoinedSet(p)
             \/ RecvSyncEnd(p) \/ Push(p) \/ Growth(p)
      PROVE  Ordinary(p)
  BY <1>5, RecvPlainActions
<1>6. ASSUME ReleaseBegin(p) \/ ReleaseEnd(p) \/ StopBegin(p) \/ StopEnd(p) PROVE Ordinary(p)
  BY <1>6, RecvLockActions
<1>7. ASSUME SstStop(p) \/ SstRelease(p) PROVE Ordinary(p)
  BY <1>7, SstActions
<1>8. ASSUME JoinedState(p) PROVE Ordinary(p)
  BY <1>8, JoinedStateOrdinary
<1>9. TypeOK
  BY DEF FlowInv
<1>. QED BY <1>1, <1>2, <1>3, <1>4, <1>5, <1>6, <1>7, <1>8, <1>9, ReceiveSends DEF Receive

LEMMA ThreadKinds ==
    ASSUME FlowInv, HeldInv, NEW p \in Procs, NEW t \in Threads[p], Thread(p, t)
    PROVE  Ordinary(p) /\ FlowKind(p)
<1>1. ASSUME SyncSent(p, t) \/ Resume(p, t) \/ Donate(p, t) PROVE Ordinary(p)
  BY <1>1, ThreadPlainActions
<1>2. ASSUME Get(p, t) PROVE Ordinary(p)
  BY <1>2, GetOrdinary
<1>3. ASSUME ContBegin(p, t) PROVE Ordinary(p)
  BY <1>3, ContBeginOrdinary
<1>4. ASSUME ContSent(p, t) PROVE Ordinary(p)
  BY <1>4, ContSentOrdinary
<1>5. ASSUME Request(p, t) PROVE Ordinary(p)
  BY <1>5, RequestOrdinary
<1>6. FlowKind(p)
  BY ThreadSends DEF FlowInv
<1>. QED BY <1>1, <1>2, <1>3, <1>4, <1>5, <1>6 DEF Thread

LEMMA StepKinds ==
    ASSUME FlowInv, HeldInv, Next
    PROVE  \/ \E p \in Procs : \/ Ordinary(p) /\ FlowKind(p)
                              \/ (\E m : Receipt(p, m)) \/ Configured(p) \/ Crash(p)
           \/ \E S \in SUBSET Procs : Form(S)
           \/ Complete
<1>1. ASSUME NEW p \in Procs, Transfer(p) \/ Desync(p) \/ Replicate(p) \/ SetSyncDonor(p)
      PROVE  Ordinary(p) /\ FlowKind(p)
  BY <1>1, StillActions, SenderActions, OtherSends DEF Transfer, FlowInv
<1>2. ASSUME NEW p \in Procs, NEW t \in Threads[p], Thread(p, t) PROVE Ordinary(p) /\ FlowKind(p)
  BY <1>2, ThreadKinds
<1>3. ASSUME NEW p \in Procs, Receive(p)
      PROVE  (Ordinary(p) /\ FlowKind(p)) \/ (\E m : Receipt(p, m)) \/ Configured(p)
  BY <1>3, ReceiveKinds
<1>4. Crashes \subseteq Procs
  BY ConnAssumption
<1>. QED BY <1>1, <1>2, <1>3, <1>4 DEF Next

LEMMA FlowNext ==
    ASSUME FlowInv, HeldInv, Next
    PROVE  FlowInv'
<1>1. ASSUME NEW p \in Procs, Ordinary(p) PROVE FlowInv'
  BY <1>1, OrdinaryFlow
<1>2. ASSUME NEW p \in Procs, NEW m, Receipt(p, m) PROVE FlowInv'
  BY <1>2, ReceiptFlow
<1>3. ASSUME NEW p \in Procs, Configured(p) PROVE FlowInv'
  BY <1>3, ConfiguredFlow
<1>4. ASSUME NEW p \in Procs, Crash(p) PROVE FlowInv'
  BY <1>4, CrashFlow
<1>5. ASSUME NEW S \in SUBSET Procs, Form(S) PROVE FlowInv'
  BY <1>5, FormFlow
<1>6. ASSUME Complete PROVE FlowInv'
  BY <1>6, CompleteFlow
<1>. QED BY <1>1, <1>2, <1>3, <1>4, <1>5, <1>6, StepKinds

LEMMA InitHeld ==
    ASSUME Init
    PROVE  HeldInv
<1>1. recv_lock \in [Procs -> {NoOne, Recv} \cup AllThreads]
  BY DEF Init
<1>2. \A t \in AllThreads : tpc[t].at # "cont?" /\ t # NoOne
  <2>1. Idle.at = "idle" /\ [Idle EXCEPT !.at = "gap"].at = "gap"
    BY DEF Idle
  <2>2. \A t \in AllThreads : tpc[t] \in {Idle, [Idle EXCEPT !.at = "gap"]}
    BY DEF Init
  <2>. QED BY <2>1, <2>2, ConnAssumption
<1>3. ASSUME NEW p \in Procs PROVE HeldOK(p)
  <2>1. recv_lock[p] = NoOne /\ rpc[p] = "recv" /\ NoOne # Recv
    BY DEF Init, NoOne, Recv
  <2>. QED BY <1>2, <2>1 DEF HeldOK, AllThreads
<1>. QED BY <1>1, <1>3 DEF HeldInv

\* The inductive invariant of flow control: types, who holds fc_lock and the
\* lock of recv_q, where the CONF of a member is, and how far stop_sent is ahead
\* of the messages (gcs_fc_stop_begin() .. gcs_fc_stop_end(), gcs_fc_cont_begin()
\* .. gcs_fc_cont_end(), gcs_handle_act_conf()).
THEOREM FlowInvariantHolds == Spec => [](FlowInv /\ HeldInv)
<1>1. Init => FlowInv /\ HeldInv
  BY InitFlow, InitHeld
<1>2. FlowInv /\ HeldInv /\ [Next]_vars => (FlowInv /\ HeldInv)'
  <2>1. SUFFICES ASSUME FlowInv, HeldInv, [Next]_vars PROVE FlowInv' /\ HeldInv'
    OBVIOUS
  <2>2. CASE Next
    BY <2>1, <2>2, FlowNext, HeldNext
  <2>3. CASE UNCHANGED vars
    <3>. USE <2>1, <2>3 DEF vars, locks, queue, recv, group, msgs
    <3>1. HeldInv'
      BY DEF HeldInv, HeldOK
    <3>2. TypeOK'
      BY DEF FlowInv, TypeOK
    <3>3. ASSUME NEW p \in Procs PROVE ProcOK(p)'
      <4>1. Kept /\ Untouched(p) /\ Sent(p)
        BY DEF Kept, Untouched, Sent
      <4>. QED BY <3>2, <4>1, UntouchedOK
    <3>. QED BY <3>1, <3>2, <3>3 DEF FlowInv, ProcOK
  <2>. QED BY <2>1, <2>2, <2>3
<1>. QED BY <1>1, <1>2, PTL DEF Spec

\* stop_sent is what the rest of the group makes of the STOPs and CONTs of a
\* process whenever fc_lock is free (gcs_conn.stop_sent).
THEOREM StopSentCountsHolds == Spec => []StopSentCounts
<1>1. FlowInv => StopSentCounts
  <2>1. SUFFICES ASSUME FlowInv, NEW p \in Procs, Current(p), fc_lock[p] = NoOne
                 PROVE  conn[p].stop_sent = stopped[p]
    BY DEF StopSentCounts
  <2>2. BalanceOK(p) /\ LockOK(p) /\ conn[p].conf_id = conf /\ stopped[p] \in Int
    BY <2>1 DEF FlowInv, Current, Member, TypeOK
  <2>3. Ahead(p) = 0
    BY <2>1, <2>2 DEF LockOK, Ahead, NoOne, Recv
  <2>. QED BY <2>2, <2>3 DEF BalanceOK
<1>. QED BY <1>1, FlowInvariantHolds, PTL

----------------------------------------------------------------------------
(* StateInv: the state of a connection follows the group's                 *)

LEMMA LeadsNowhere ==
    /\ \A a \in SYNCED..OPEN : Leads(<<>>, a, a)
    /\ \A a, b : Leads(<<>>, a, b) => a = b
<1>1. ASSUME NEW a \in SYNCED..OPEN PROVE Leads(<<>>, a, a)
  <2>. DEFINE f == [i \in 0..0 |-> a]
  <2>1. f \in [0..Len(<<>>) -> SYNCED..OPEN] /\ f[0] = a /\ f[Len(<<>>)] = a
    OBVIOUS
  <2>. HIDE DEF f
  <2>. QED BY <2>1 DEF Leads
<1>. QED BY <1>1 DEF Leads

LEMMA LeadsOn ==
    ASSUME NEW box \in Seq(Msg), NEW m \in Msg, NEW a, NEW b, NEW c \in SYNCED..OPEN,
           Leads(box, a, b), Shifts(m, b, c)
    PROVE  Leads(Append(box, m), a, c)
<1>. DEFINE n == Len(box)
<1>1. PICK f \in [0..n -> SYNCED..OPEN] :
         f[0] = a /\ f[n] = b /\ \A i \in 1..n : Shifts(box[i], f[i - 1], f[i])
  BY DEF Leads
<1>. DEFINE g == [i \in 0..(n + 1) |-> IF i = n + 1 THEN c ELSE f[i]]
<1>2. /\ n \in Nat /\ Len(Append(box, m)) = n + 1 /\ Append(box, m)[n + 1] = m
      /\ \A i \in 1..n : Append(box, m)[i] = box[i]
  OBVIOUS
<1>. HIDE DEF n
<1>3. g \in [0..(n + 1) -> SYNCED..OPEN] /\ g[0] = a /\ g[n + 1] = c /\ g[n] = b
  BY <1>1, <1>2
<1>4. ASSUME NEW i \in 1..(n + 1) PROVE Shifts(Append(box, m)[i], g[i - 1], g[i])
  <2>1. CASE i = n + 1
    <3>1. i - 1 = n
      BY <1>2, <2>1
    <3>. QED BY <1>2, <1>3, <2>1, <3>1
  <2>2. CASE i # n + 1
    <3>1. i \in 1..n /\ i - 1 \in 0..(n + 1) /\ i - 1 # n + 1 /\ i \in 0..(n + 1)
      BY <1>2, <2>2
    <3>2. g[i - 1] = f[i - 1] /\ g[i] = f[i] /\ Append(box, m)[i] = box[i]
      BY <1>2, <2>2, <3>1
    <3>. QED BY <1>1, <3>1, <3>2
  <2>. QED BY <2>1, <2>2
<1>. HIDE DEF g
<1>. QED BY <1>2, <1>3, <1>4 DEF Leads

LEMMA LeadsFrom ==
    ASSUME NEW box \in Seq(Msg), box # <<>>, NEW a, NEW b, Leads(box, a, b)
    PROVE  \E s \in SYNCED..OPEN : Shifts(box[1], a, s) /\ Leads(Tail(box), s, b)
<1>. DEFINE n == Len(box)
<1>1. PICK f \in [0..n -> SYNCED..OPEN] :
         f[0] = a /\ f[n] = b /\ \A i \in 1..n : Shifts(box[i], f[i - 1], f[i])
  BY DEF Leads
<1>2. /\ n \in Nat /\ n >= 1 /\ Len(Tail(box)) = n - 1
      /\ \A i \in 1..(n - 1) : Tail(box)[i] = box[i + 1]
  OBVIOUS
<1>. HIDE DEF n
<1>. DEFINE g == [i \in 0..(n - 1) |-> f[i + 1]]
<1>3. g \in [0..(n - 1) -> SYNCED..OPEN] /\ g[0] = f[1] /\ g[n - 1] = b /\ f[1] \in SYNCED..OPEN
  BY <1>1, <1>2
<1>4. ASSUME NEW i \in 1..(n - 1) PROVE Shifts(Tail(box)[i], g[i - 1], g[i])
  <2>1. i + 1 \in 1..n /\ i - 1 \in 0..(n - 1) /\ i \in 0..(n - 1) /\ (i - 1) + 1 = (i + 1) - 1
    BY <1>2
  <2>2. g[i - 1] = f[(i + 1) - 1] /\ g[i] = f[i + 1] /\ Tail(box)[i] = box[i + 1]
    BY <1>2, <2>1
  <2>3. Shifts(box[i + 1], f[(i + 1) - 1], f[i + 1])
    BY <1>1, <2>1
  <2>. QED BY <2>2, <2>3
<1>5. Shifts(box[1], a, f[1])
  <2>1. 1 \in 1..n /\ 1 - 1 = 0
    BY <1>2
  <2>2. Shifts(box[1], f[1 - 1], f[1])
    BY <1>1, <2>1
  <2>. QED BY <1>1, <2>1, <2>2
<1>6. Leads(Tail(box), f[1], b)
  <2>. HIDE DEF g
  <2>. QED BY <1>2, <1>3, <1>4 DEF Leads
<1>. QED BY <1>3, <1>5, <1>6

\* A process on its way to the same state, with what is sent to it.
LEMMA StateSent ==
    ASSUME TypeOK, NEW q \in Procs, Sent(q), status'[q] \in SYNCED..PRIMARY, StateOK(q),
           Start(q)' = Start(q),
           rpc'[q] \in {"sst_release", "joined"} => conn'[q].state \in {DONOR, JOINER}
    PROVE  StateOK(q)'
<1>1. Leads(inbox[q], Start(q), status[q]) /\ inbox[q] \in Seq(Msg) /\ status'[q] \in SYNCED..OPEN
  BY DEF StateOK, TypeOK
<1>2. Leads(inbox'[q], Start(q), status'[q])
  <2>1. CASE inbox'[q] = inbox[q] /\ status'[q] = status[q]
    BY <1>1, <2>1
  <2>2. ASSUME NEW m \in Msg, inbox'[q] = Append(inbox[q], m), Shifts(m, status[q], status'[q])
        PROVE  Leads(inbox'[q], Start(q), status'[q])
    BY <1>1, <2>2, LeadsOn
  <2>. QED BY <2>1, <2>2 DEF Sent
<1>. QED BY <1>2 DEF StateOK

LEMMA StateNext ==
    ASSUME FlowInv, HeldInv, StateInv, Next
    PROVE  StateInv'
<1>1. TypeOK /\ TypeOK' /\ status' \in [Procs -> SYNCED..PRIMARY]
  BY FlowNext DEF FlowInv, TypeOK
<1>2. ASSUME Kept, NEW q \in Procs, Member(q)' PROVE Member(q) /\ StateOK(q)
  BY <1>2 DEF StateInv, Member, Kept, Up
<1>3. ASSUME NEW q \in Procs, Untouched(q)
      PROVE  /\ Start(q)' = Start(q)
             /\ StateOK(q) /\ rpc'[q] \in {"sst_release", "joined"} => conn'[q].state \in {DONOR, JOINER}
  BY <1>3 DEF Untouched, Start, StateOK
<1>4. ASSUME NEW q \in Procs, Untouched(q), Sent(q), StateOK(q) PROVE StateOK(q)'
  BY <1>1, <1>3, <1>4, StateSent
<1>5. ASSUME NEW p \in Procs, Ordinary(p) PROVE StateInv'
  <2>1. /\ Kept /\ \A q \in Procs : Sent(q)
        /\ \A q \in Procs \ {p} : Untouched(q)
        /\ StateKept(p)
    BY <1>5 DEF Ordinary, Delivers
  <2>2. ASSUME NEW q \in Procs, Member(q)' PROVE StateOK(q)'
    <3>1. Member(q) /\ StateOK(q)
      BY <1>2, <2>1, <2>2
    <3>2. CASE q = p
      BY <1>1, <2>1, <3>1, <3>2, StateSent DEF StateKept
    <3>3. CASE q # p
      BY <1>4, <2>1, <3>1, <3>3
    <3>. QED BY <3>2, <3>3
  <2>. QED BY <2>2 DEF StateInv
<1>6. ASSUME NEW p \in Procs, NEW m, Receipt(p, m) PROVE StateInv'
  <2>1. /\ Kept /\ rpc[p] = "recv" /\ inbox[p] # <<>> /\ inbox'[p] = Tail(inbox[p])
        /\ UNCHANGED <<status, stopped>> /\ m = inbox[p][1] /\ Follows(p, m)
    BY <1>6 DEF Receipt, Received
  <2>2. \A q \in Procs \ {p} : Untouched(q) /\ Sent(q)
    BY <1>6 DEF Receipt, Received, Sent
  <2>3. ASSUME NEW q \in Procs, Member(q)' PROVE StateOK(q)'
    <3>1. Member(q) /\ StateOK(q)
      BY <1>2, <2>1, <2>3
    <3>2. CASE q = p
      <4>1. Leads(inbox[p], conn[p].state, status[p]) /\ inbox[p] \in Seq(Msg)
        BY <1>1, <2>1, <3>1, <3>2 DEF StateOK, Start, TypeOK
      <4>2. PICK s \in SYNCED..OPEN : Shifts(m, conn[p].state, s) /\ Leads(Tail(inbox[p]), s, status[p])
        BY <2>1, <4>1, LeadsFrom
      <4>3. /\ Start(p)' = s
            /\ rpc'[p] \in {"sst_release", "joined"} => conn'[p].state \in {DONOR, JOINER}
        BY <2>1, <4>2 DEF Follows
      <4>4. Leads(inbox'[p], Start(p)', status'[p])
        BY <2>1, <4>2, <4>3
      <4>. QED BY <3>2, <4>3, <4>4 DEF StateOK
    <3>3. CASE q # p
      BY <1>4, <2>2, <3>1, <3>3
    <3>. QED BY <3>2, <3>3
  <2>. QED BY <2>3 DEF StateInv
<1>7. ASSUME NEW p \in Procs, Configured(p) PROVE StateInv'
  <2>1. /\ Kept /\ UNCHANGED <<inbox, status>> /\ rpc[p] = "conf" /\ rpc'[p] = "restore" /\ ract'[p] = ract[p]
        /\ \A q \in Procs \ {p} : Untouched(q) /\ Sent(q)
    BY <1>7 DEF Configured, Sent, msgs
  <2>2. ASSUME NEW q \in Procs, Member(q)' PROVE StateOK(q)'
    <3>1. Member(q) /\ StateOK(q)
      BY <1>2, <2>1, <2>2
    <3>2. CASE q = p
      <4>1. Start(p)' = Start(p)
        BY <2>1 DEF Start
      <4>. QED BY <2>1, <3>1, <3>2, <4>1 DEF StateOK
    <3>3. CASE q # p
      BY <1>4, <2>1, <3>1, <3>3
    <3>. QED BY <3>2, <3>3
  <2>. QED BY <2>2 DEF StateInv
<1>8. ASSUME NEW p \in Procs, Crash(p) PROVE StateInv'
  <2>1. /\ UNCHANGED <<view, exchange>> /\ ~ Member(p)'
        /\ \A q \in Procs \ {p} : Unmoved(q)
    BY <1>8, CrashSteps
  <2>2. ASSUME NEW q \in Procs, Member(q)' PROVE StateOK(q)'
    <3>1. q # p /\ Unmoved(q)
      BY <2>1, <2>2
    <3>2. Member(q)
      BY <2>1, <2>2, <3>1 DEF Member, Up, Unmoved
    <3>3. StateOK(q) /\ Untouched(q) /\ Sent(q)
      BY <3>1, <3>2 DEF StateInv, Unmoved, Sent
    <3>. QED BY <1>4, <3>3
  <2>. QED BY <2>2 DEF StateInv
<1>9. ASSUME NEW S \in SUBSET Procs, Form(S) PROVE StateInv'
  BY <1>9, FormFlow DEF StateInv, Member
<1>10. ASSUME Complete PROVE StateInv'
  <2>1. /\ UNCHANGED <<conn, rpc, ract, view>>
        /\ \A p \in Procs : Exchanged(p)
    BY <1>10, CompleteSteps
  <2>2. ASSUME NEW q \in Procs, Member(q)' PROVE StateOK(q)'
    <3>. DEFINE m == [t |-> "CONF", id |-> conf', my |-> status'[q]]
    <3>1. q \in view /\ rpc'[q] = "recv" /\ inbox'[q] = <<m>>
      BY <2>1, <2>2 DEF Member, Exchanged
    <3>2. m \in Msg /\ \A s : Shifts(m, s, status'[q])
      <4>1. conf' \in Int /\ status'[q] \in SYNCED..OPEN
        BY <1>1 DEF TypeOK
      <4>. QED BY <4>1, MsgType DEF Shifts
    <3>. HIDE DEF m
    <3>3. Start(q)' = conn'[q].state /\ conn'[q].state \in SYNCED..OPEN /\ status'[q] \in SYNCED..OPEN
      <4>1. Start(q)' = conn'[q].state
        BY <3>1 DEF Start
      <4>2. conn'[q].state \in SYNCED..OPEN
        BY <1>1 DEF TypeOK, Conn
      <4>. QED BY <1>1, <4>1, <4>2
    <3>4. Leads(<<>>, Start(q)', Start(q)') /\ <<>> \in Seq(Msg)
      BY <3>3, LeadsNowhere
    <3>5. Shifts(m, Start(q)', status'[q])
      BY <3>2, Zenon
    <3>6. Leads(Append(<<>>, m), Start(q)', status'[q])
      BY ONLY <3>2, <3>3, <3>4, <3>5, LeadsOn, Zenon
    <3>7. Append(<<>>, m) = <<m>>
      OBVIOUS
    <3>. QED BY <3>1, <3>6, <3>7 DEF StateOK
  <2>. QED BY <2>2 DEF StateInv
<1>. QED BY <1>5, <1>6, <1>7, <1>8, <1>9, <1>10, StepKinds

\* What a member is still to receive leads its connection to the status the group
\* has recorded: the CONF restores it, REQ, JOIN and SYNC shift it
\* (gcs_handle_act_conf(), gcs_shift_state(), gcs_become_joined(),
\* gcs_become_synced()).
THEOREM StateInvariantHolds == Spec => []StateInv
<1>1. Init => StateInv
  <2>1. SUFFICES ASSUME Init, NEW p \in Procs PROVE StateOK(p)
    BY DEF StateInv
  <2>2. inbox[p] = <<>> /\ rpc[p] = "recv" /\ Start(p) = InitStatus[p] /\ status[p] = InitStatus[p]
    BY <2>1 DEF Init, Start, FirstConn
  <2>3. InitStatus[p] \in SYNCED..OPEN
    BY ConnAssumption
  <2>. QED BY <2>2, <2>3, LeadsNowhere DEF StateOK
<1>2. FlowInv /\ HeldInv /\ StateInv /\ [Next]_vars => StateInv'
  <2>1. CASE UNCHANGED vars
    BY <2>1 DEF StateInv, Member, Up, StateOK, Start, vars, recv, group, msgs
  <2>. QED BY <2>1, StateNext
<1>. QED BY <1>1, <1>2, FlowInvariantHolds, PTL DEF Spec

\* When everything has been received, the connection is in the state that the
\* group has recorded for its member (gcs_shift_state(), gcs_handle_act_conf()).
THEOREM StateAgreesHolds == Spec => []StateAgrees
<1>1. StateInv => StateAgrees
  <2>1. SUFFICES ASSUME StateInv, NEW p \in Procs, AtRest(p) PROVE conn[p].state = status[p]
    BY DEF StateAgrees
  <2>2. StateOK(p) /\ inbox[p] = <<>> /\ rpc[p] = "recv"
    BY <2>1 DEF StateInv, AtRest, Current, Member
  <2>3. Leads(<<>>, conn[p].state, status[p])
    BY <2>2 DEF StateOK, Start
  <2>. QED BY <2>3, LeadsNowhere
<1>. QED BY <1>1, StateInvariantHolds, PTL

----------------------------------------------------------------------------
(* Sums over sets of processes                                             *)

First(s) == CHOOSE x \in s : TRUE

\* The value of the sum of f over s, where it has the values for smaller sets.
Adds(f, it, s) == IF s = {} THEN 0 ELSE f[First(s)] + it[s \ {First(s)}]

Sums(f, S) == CHOOSE it : it = [s \in SUBSET S |-> Adds(f, it, s)]

Sum(f, S) == Sums(f, S)[S]

LEMMA CountIs ==
    ASSUME NEW p \in Procs
    PROVE  /\ CountOK(p) <=> Counted(p) + Flows(p, TRUE) - Flows(p, FALSE) = Sum(stopped, view)
           /\ CountOK(p)' <=> Counted(p)' + Flows(p, TRUE)' - Flows(p, FALSE)' = Sum(stopped', view')
BY DEF CountOK, MapThenSumSet, MapThenFoldSet, Sum, Sums, Adds, First

\* A set of natural numbers has a least member.
LEMMA Least ==
    ASSUME NEW T, T \subseteq Nat, T # {}
    PROVE  \E n \in T : \A k \in T : n <= k
<1>1. \E n \in T : \A k \in T : ~ (<<k, n>> \in OpToRel(<, Nat))
  BY WFMin, NatLessThanWellFounded, Zenon
<1>2. PICK n \in T : \A k \in T : ~ (<<k, n>> \in OpToRel(<, Nat))
  BY <1>1
<1>3. \A k \in T : ~ (k < n)
  BY <1>2, Zenon DEF OpToRel
<1>. QED BY <1>3

\* A set of subsets of a finite set has a smallest member.
LEMMA Smallest ==
    ASSUME NEW S, IsFiniteSet(S), NEW B \in SUBSET SUBSET S, B # {}
    PROVE  \E s \in B : \A r \in B : Cardinality(s) <= Cardinality(r)
<1>. DEFINE T == {Cardinality(s) : s \in B}
<1>1. \A s \in B : IsFiniteSet(s) /\ Cardinality(s) \in Nat
  BY FS_Subset, FS_CardinalityType
<1>2. T \subseteq Nat /\ T # {}
  BY <1>1
<1>3. PICK n \in T : \A k \in T : n <= k
  BY <1>2, Least, Zenon
<1>. QED BY <1>3

\* Removing the first element makes a finite set smaller.
LEMMA FirstOut ==
    ASSUME NEW S, IsFiniteSet(S), NEW s \in SUBSET S, s # {}
    PROVE  /\ First(s) \in s /\ s \ {First(s)} \in SUBSET S
           /\ Cardinality(s) \in Nat /\ Cardinality(s \ {First(s)}) \in Nat
           /\ Cardinality(s \ {First(s)}) = Cardinality(s) - 1
<1>1. First(s) \in s
  BY DEF First
<1>2. IsFiniteSet(s)
  BY FS_Subset
<1>. QED BY <1>1, <1>2, FS_RemoveElement, FS_CardinalityType

\* The recursion has a solution.
LEMMA SumsExist ==
    ASSUME NEW S, IsFiniteSet(S), NEW f
    PROVE  Sums(f, S) = [s \in SUBSET S |-> Adds(f, Sums(f, S), s)]
<1>. DEFINE Upto(n) == {s \in SUBSET S : Cardinality(s) <= n}
            Good(n) == \E it : it = [s \in Upto(n) |-> Adds(f, it, s)]
            Bad == {n \in Nat : ~ Good(n)}
<1>1. \A s \in SUBSET S : IsFiniteSet(s) /\ Cardinality(s) \in Nat /\ Cardinality(s) <= Cardinality(S)
  BY FS_Subset, FS_CardinalityType
<1>2. Good(0)
  <2>. DEFINE it == [s \in Upto(0) |-> 0]
  <2>1. \A s \in Upto(0) : s = {}
    BY <1>1, FS_EmptySet
  <2>2. it = [s \in Upto(0) |-> Adds(f, it, s)]
    BY <2>1 DEF Adds
  <2>. QED BY <2>2
<1>3. ASSUME NEW n \in Nat, Good(n) PROVE Good(n + 1)
  <2>1. PICK it : it = [s \in Upto(n) |-> Adds(f, it, s)]
    BY <1>3
  <2>. DEFINE it1 == [s \in Upto(n + 1) |-> Adds(f, it, s)]
  <2>2. ASSUME NEW s \in Upto(n + 1) PROVE Adds(f, it, s) = Adds(f, it1, s)
    <3>1. CASE s = {}
      BY <3>1 DEF Adds
    <3>2. CASE s # {}
      <4>. DEFINE r == s \ {First(s)}
      <4>1. r \in SUBSET S /\ Cardinality(r) \in Nat /\ Cardinality(r) = Cardinality(s) - 1 /\ Cardinality(s) \in Nat
        BY <3>2, FirstOut
      <4>2. r \in Upto(n) /\ r \in Upto(n + 1)
        BY <4>1
      <4>3. it[r] = Adds(f, it, r) /\ it1[r] = Adds(f, it, r)
        <5>. HIDE DEF r, Upto
        <5>. QED BY <2>1, <4>2
      <4>4. it[r] = it1[r]
        BY <4>3
      <4>. HIDE DEF it1
      <4>. QED BY <3>2, <4>4 DEF Adds
    <3>. QED BY <3>1, <3>2
  <2>3. it1 = [s \in Upto(n + 1) |-> Adds(f, it1, s)]
    BY <2>2
  <2>. QED BY <2>3
<1>. HIDE DEF Good
<1>4. Bad = {}
  <2>1. SUFFICES ASSUME Bad # {} PROVE FALSE
    OBVIOUS
  <2>2. PICK n \in Bad : \A k \in Bad : n <= k
    <3>1. Bad \subseteq Nat
      OBVIOUS
    <3>. QED BY <2>1, <3>1, Least, Zenon
  <2>3. n # 0 /\ n - 1 \in Nat /\ n - 1 \notin Bad
    BY <1>2, <2>2
  <2>4. Good((n - 1) + 1)
    BY <1>3, <2>3
  <2>5. (n - 1) + 1 = n
    OBVIOUS
  <2>. QED BY <2>4, <2>5
<1>5. Good(Cardinality(S))
  BY <1>1, <1>4
<1>6. Upto(Cardinality(S)) = SUBSET S
  BY <1>1
<1>7. \E it : it = [s \in SUBSET S |-> Adds(f, it, s)]
  BY <1>5, <1>6 DEF Good
<1>. QED BY <1>7 DEF Sums

\* One term changes by d.
Moves(f, g, p, d, S) == \A x \in S : f[x] \in Int /\ g[x] = IF x = p THEN f[x] + d ELSE f[x]

LEMMA SumStep ==
    ASSUME NEW S, IsFiniteSet(S), NEW f, NEW g, NEW p, NEW d \in Int, Moves(f, g, p, d, S)
    PROVE  /\ Sum(f, S) \in Int
           /\ Sum(g, S) = IF p \in S THEN Sum(f, S) + d ELSE Sum(f, S)
<1>. DEFINE F == Sums(f, S)
            G == Sums(g, S)
            Holds(s) == F[s] \in Int /\ G[s] = IF p \in s THEN F[s] + d ELSE F[s]
            Bad == {s \in SUBSET S : ~ Holds(s)}
<1>1. \A s \in SUBSET S : F[s] = Adds(f, F, s) /\ G[s] = Adds(g, G, s)
  <2>1. F = [s \in SUBSET S |-> Adds(f, F, s)] /\ G = [s \in SUBSET S |-> Adds(g, G, s)]
    BY SumsExist
  <2>. HIDE DEF F, G
  <2>. QED BY <2>1
<1>. HIDE DEF F, G
<1>2. Bad = {}
  <2>1. SUFFICES ASSUME Bad # {} PROVE FALSE
    OBVIOUS
  <2>2. PICK s \in Bad : \A r \in Bad : Cardinality(s) <= Cardinality(r)
    <3>1. Bad \in SUBSET SUBSET S
      OBVIOUS
    <3>. HIDE DEF Bad
    <3>. QED BY <2>1, <3>1, Smallest, Zenon
  <2>3. CASE s = {}
    <3>1. F[s] = 0 /\ G[s] = 0
      BY <1>1, <2>3 DEF Adds
    <3>. QED BY <2>2, <2>3, <3>1
  <2>4. CASE s # {}
    <3>. DEFINE x == First(s)
                r == s \ {x}
    <3>1. /\ x \in s /\ r \in SUBSET S /\ Cardinality(s) \in Nat
          /\ Cardinality(r) \in Nat /\ Cardinality(r) = Cardinality(s) - 1
      BY <2>4, FirstOut
    <3>2. F[s] = f[x] + F[r] /\ G[s] = g[x] + G[r]
      BY <1>1, <2>4 DEF Adds
    <3>3. p \in s <=> p = x \/ p \in r
      BY <3>1
    <3>4. x \in S /\ x \notin r
      BY <3>1
    <3>5. ~ (Cardinality(s) <= Cardinality(r))
      BY <3>1
    <3>. HIDE DEF x, r
    <3>6. Holds(r)
      BY <2>2, <3>1, <3>5
    <3>7. f[x] \in Int /\ g[x] = IF x = p THEN f[x] + d ELSE f[x]
      BY <3>4 DEF Moves
    <3>8. Holds(s)
      BY <3>2, <3>3, <3>4, <3>6, <3>7
    <3>. QED BY <2>2, <3>8
  <2>. QED BY <2>3, <2>4
<1>3. Holds(S)
  BY <1>2
<1>. QED BY <1>3 DEF Sum, F, G

\* All terms are zero.
LEMMA SumZero ==
    ASSUME NEW S, IsFiniteSet(S), NEW f, \A x \in S : f[x] = 0
    PROVE  Sum(f, S) = 0
<1>. DEFINE F == Sums(f, S)
            Bad == {s \in SUBSET S : F[s] # 0}
<1>1. \A s \in SUBSET S : F[s] = Adds(f, F, s)
  <2>1. F = [s \in SUBSET S |-> Adds(f, F, s)]
    BY SumsExist
  <2>. HIDE DEF F
  <2>. QED BY <2>1
<1>. HIDE DEF F
<1>2. Bad = {}
  <2>1. SUFFICES ASSUME Bad # {} PROVE FALSE
    OBVIOUS
  <2>2. PICK s \in Bad : \A r \in Bad : Cardinality(s) <= Cardinality(r)
    <3>1. Bad \in SUBSET SUBSET S
      OBVIOUS
    <3>. HIDE DEF Bad
    <3>. QED BY <2>1, <3>1, Smallest, Zenon
  <2>3. s # {}
    BY <1>1, <2>2 DEF Adds
  <2>. DEFINE x == First(s)
              r == s \ {x}
  <2>4. /\ x \in s /\ r \in SUBSET S /\ Cardinality(s) \in Nat
        /\ Cardinality(r) \in Nat /\ Cardinality(r) = Cardinality(s) - 1
    BY <2>3, FirstOut
  <2>5. F[s] = f[x] + F[r] /\ x \in S
    BY <1>1, <2>3, <2>4 DEF Adds
  <2>6. ~ (Cardinality(s) <= Cardinality(r))
    BY <2>4
  <2>. HIDE DEF x, r
  <2>7. F[r] = 0
    BY <2>2, <2>4, <2>6
  <2>8. F[s] = 0
    BY <2>5, <2>7
  <2>. QED BY <2>2, <2>8
<1>. QED BY <1>2 DEF Sum, F

----------------------------------------------------------------------------
(* STOPs and CONTs in flight                                               *)

Is(m, id, stop) == m.t = "FLOW" /\ m.id = id /\ m.stop = stop

Events(box, id, stop) == {i \in DOMAIN box : Is(box[i], id, stop)}

InFlight(box, id, stop) == Cardinality(Events(box, id, stop))

LEMMA InFlightType ==
    ASSUME NEW box \in Seq(Msg), NEW id, NEW stop
    PROVE  IsFiniteSet(Events(box, id, stop)) /\ InFlight(box, id, stop) \in Nat
<1>1. DOMAIN box = 1..Len(box) /\ Len(box) \in Int /\ 1 \in Int
  OBVIOUS
<1>2. IsFiniteSet(1..Len(box))
  BY <1>1, FS_Interval
<1>3. Events(box, id, stop) \in SUBSET (1..Len(box))
  BY <1>1 DEF Events
<1>4. IsFiniteSet(Events(box, id, stop))
  BY <1>2, <1>3, FS_Subset
<1>. QED BY <1>4, FS_CardinalityType DEF InFlight

LEMMA InFlightNone ==
    ASSUME NEW id, NEW stop
    PROVE  InFlight(<<>>, id, stop) = 0
<1>1. Events(<<>>, id, stop) = {}
  BY DEF Events
<1>. QED BY <1>1, FS_EmptySet DEF InFlight

LEMMA InFlightSent ==
    ASSUME NEW box \in Seq(Msg), NEW m \in Msg, NEW id, NEW stop
    PROVE  InFlight(Append(box, m), id, stop)
             = IF Is(m, id, stop) THEN InFlight(box, id, stop) + 1 ELSE InFlight(box, id, stop)
<1>. DEFINE n == Len(box)
            E == Events(box, id, stop)
            E1 == Events(Append(box, m), id, stop)
<1>1. /\ n \in Nat /\ DOMAIN box = 1..n /\ DOMAIN Append(box, m) = 1..(n + 1)
      /\ \A i \in 1..n : Append(box, m)[i] = box[i]
      /\ Append(box, m)[n + 1] = m
  OBVIOUS
<1>. HIDE DEF n
<1>2. n + 1 \notin E /\ \A i \in 1..(n + 1) : i \in 1..n \/ i = n + 1
  BY <1>1 DEF Events
<1>3. E1 = IF Is(m, id, stop) THEN E \cup {n + 1} ELSE E
  <2>1. \A i \in 1..n : i \in E1 <=> i \in E
    BY <1>1, <1>2 DEF Events
  <2>2. n + 1 \in E1 <=> Is(m, id, stop)
    BY <1>1 DEF Events
  <2>3. E \subseteq 1..n /\ E1 \subseteq 1..(n + 1)
    BY <1>1 DEF Events
  <2>. HIDE DEF E, E1
  <2>4. n + 1 \in 1..(n + 1) /\ n + 1 \notin 1..n /\ \A i \in 1..n : i \in 1..(n + 1)
    BY <1>1
  <2>5. CASE Is(m, id, stop)
    <3>1. \A i : i \in E1 <=> i \in E \/ i = n + 1
      BY <1>2, <2>1, <2>2, <2>3, <2>4, <2>5, Zenon
    <3>2. E1 = E \cup {n + 1}
      BY <3>1, Zenon
    <3>. QED BY <2>5, <3>2
  <2>6. CASE ~ Is(m, id, stop)
    <3>1. \A i : i \in E1 <=> i \in E
      BY <1>2, <2>1, <2>2, <2>3, <2>4, <2>6, Zenon
    <3>2. E1 = E
      BY <3>1, Zenon
    <3>. QED BY <2>6, <3>2
  <2>. QED BY <2>5, <2>6
<1>4. IsFiniteSet(E)
  BY InFlightType
<1>5. Cardinality(E \cup {n + 1}) = Cardinality(E) + 1
  BY <1>2, <1>4, FS_AddElement
<1>. QED BY <1>3, <1>5 DEF InFlight

LEMMA InFlightTaken ==
    ASSUME NEW box \in Seq(Msg), box # <<>>, NEW id, NEW stop
    PROVE  InFlight(box, id, stop)
             = IF Is(box[1], id, stop) THEN InFlight(Tail(box), id, stop) + 1
               ELSE InFlight(Tail(box), id, stop)
<1>. DEFINE n == Len(box)
            E == Events(box, id, stop)
            T == Events(Tail(box), id, stop)
            U == {i + 1 : i \in T}
<1>1. /\ n \in Nat /\ n >= 1 /\ DOMAIN box = 1..n /\ DOMAIN Tail(box) = 1..(n - 1)
      /\ \A i \in 1..(n - 1) : Tail(box)[i] = box[i + 1]
      /\ Tail(box) \in Seq(Msg)
  OBVIOUS
<1>. HIDE DEF n
<1>2. T \subseteq 1..(n - 1) /\ T \subseteq Int
  BY <1>1 DEF Events
<1>3. Cardinality(U) = Cardinality(T) /\ IsFiniteSet(U)
  <2>. DEFINE f == [i \in T |-> i + 1]
  <2>. HIDE DEF T
  <2>1. f \in Bijection(T, U)
    <3>1. f \in [T -> U]
      OBVIOUS
    <3>2. \A a, b \in T : f[a] = f[b] => a = b
      BY <1>2
    <3>3. \A u \in U : \E a \in T : f[a] = u
      OBVIOUS
    <3>. HIDE DEF f, U
    <3>4. DOMAIN f = T
      BY <3>1
    <3>. QED BY <3>1, <3>2, <3>3, <3>4, Zenon DEF Bijection, Injection, Surjection, IsInjective
  <2>2. ExistsBijection(T, U)
    BY <2>1 DEF ExistsBijection
  <2>3. IsFiniteSet(T)
    BY <1>1, InFlightType DEF T
  <2>. QED BY <2>2, <2>3, FS_Bijection
<1>4. 1 \notin U
  BY <1>2
<1>5. E = IF Is(box[1], id, stop) THEN U \cup {1} ELSE U
  <2>1. \A j \in 2..n : j \in E <=> j \in U
    <3>1. SUFFICES ASSUME NEW j \in 2..n PROVE j \in E <=> j \in U
      OBVIOUS
    <3>2. j - 1 \in 1..(n - 1) /\ (j - 1) + 1 = j /\ j \in 1..n
      BY <1>1
    <3>3. j - 1 \in T <=> Is(box[j], id, stop)
      BY <1>1, <3>2 DEF Events
    <3>4. j \in U <=> j - 1 \in T
      <4>. HIDE DEF T
      <4>. QED BY <1>2, <3>2
    <3>5. j \in E <=> Is(box[j], id, stop)
      BY <1>1, <3>2 DEF Events
    <3>. QED BY <3>3, <3>4, <3>5
  <2>2. 1 \in E <=> Is(box[1], id, stop)
    BY <1>1 DEF Events
  <2>3. E \subseteq 1..n /\ U \subseteq 2..n /\ \A j \in 1..n : j = 1 \/ j \in 2..n
    <3>1. E \subseteq 1..n
      BY <1>1 DEF Events
    <3>2. U \subseteq 2..n
      <4>. HIDE DEF T
      <4>. QED BY <1>1, <1>2
    <3>. QED BY <1>1, <3>1, <3>2
  <2>. HIDE DEF E, U
  <2>4. 1 \in 1..n /\ \A j \in 2..n : j \in 1..n
    BY <1>1
  <2>5. CASE Is(box[1], id, stop)
    <3>1. \A i : i \in E <=> i \in U \/ i = 1
      BY <1>4, <2>1, <2>2, <2>3, <2>4, <2>5, Zenon
    <3>2. E = U \cup {1}
      BY <3>1, Zenon
    <3>. QED BY <2>5, <3>2
  <2>6. CASE ~ Is(box[1], id, stop)
    <3>1. \A i : i \in E <=> i \in U
      BY <1>4, <2>1, <2>2, <2>3, <2>4, <2>6, Zenon
    <3>2. E = U
      BY <3>1, Zenon
    <3>. QED BY <2>6, <3>2
  <2>. QED BY <2>5, <2>6
<1>6. Cardinality(U \cup {1}) = Cardinality(U) + 1
  <2>. HIDE DEF U
  <2>. QED BY <1>3, <1>4, FS_AddElement
<1>. HIDE DEF U
<1>. QED BY <1>3, <1>5, <1>6 DEF InFlight

\* What the messages in box, or the message m, add to stop_count.
Net(box, id) == InFlight(box, id, TRUE) - InFlight(box, id, FALSE)

Effect(m, id) == IF m.t = "FLOW" /\ m.id = id THEN IF m.stop THEN 1 ELSE -1 ELSE 0

\* In arithmetic alone: of s STOPs and c CONTs, with m one more.
LEMMA NetChange ==
    ASSUME NEW s \in Nat, NEW c \in Nat, NEW m \in Msg, NEW id
    PROVE  (IF Is(m, id, TRUE) THEN s + 1 ELSE s) - (IF Is(m, id, FALSE) THEN c + 1 ELSE c)
             = s - c + Effect(m, id)
<1>. DEFINE s1 == IF Is(m, id, TRUE) THEN s + 1 ELSE s
            c1 == IF Is(m, id, FALSE) THEN c + 1 ELSE c
<1>1. m.t = "FLOW" => m.stop \in BOOLEAN
  BY MsgFields
<1>2. CASE m.t = "FLOW" /\ m.id = id /\ m.stop
  <2>1. Is(m, id, TRUE) /\ ~ Is(m, id, FALSE)
    BY <1>1, <1>2 DEF Is
  <2>2. Effect(m, id) = 1
    BY <1>2 DEF Effect
  <2>3. s1 = s + 1 /\ c1 = c
    BY <2>1, Zenon
  <2>. HIDE DEF s1, c1
  <2>4. s1 - c1 = s - c + Effect(m, id)
    BY <2>2, <2>3
  <2>. QED BY <2>4, Zenon DEF s1, c1
<1>3. CASE m.t = "FLOW" /\ m.id = id /\ ~ m.stop
  <2>1. ~ Is(m, id, TRUE) /\ Is(m, id, FALSE)
    BY <1>1, <1>3 DEF Is
  <2>2. Effect(m, id) = -1
    BY <1>3 DEF Effect
  <2>3. s1 = s /\ c1 = c + 1
    BY <2>1, Zenon
  <2>. HIDE DEF s1, c1
  <2>4. s1 - c1 = s - c + Effect(m, id)
    BY <2>2, <2>3
  <2>. QED BY <2>4, Zenon DEF s1, c1
<1>4. CASE ~ (m.t = "FLOW" /\ m.id = id)
  <2>1. ~ Is(m, id, TRUE) /\ ~ Is(m, id, FALSE)
    BY <1>4 DEF Is
  <2>2. Effect(m, id) = 0
    BY <1>4 DEF Effect
  <2>3. s1 = s /\ c1 = c
    BY <2>1, Zenon
  <2>. HIDE DEF s1, c1
  <2>4. s1 - c1 = s - c + Effect(m, id)
    BY <2>2, <2>3
  <2>. QED BY <2>4, Zenon DEF s1, c1
<1>. QED BY <1>2, <1>3, <1>4

LEMMA NetType ==
    ASSUME NEW box \in Seq(Msg), NEW id
    PROVE  Net(box, id) \in Int
<1>. DEFINE s == InFlight(box, id, TRUE)
            c == InFlight(box, id, FALSE)
<1>1. s \in Nat
  BY InFlightType, Zenon
<1>2. c \in Nat
  BY InFlightType, Zenon
<1>3. Net(box, id) = s - c
  BY Zenon DEF Net
<1>. HIDE DEF s, c
<1>. QED BY <1>1, <1>2, <1>3

LEMMA NetSent ==
    ASSUME NEW box \in Seq(Msg), NEW m \in Msg, NEW id
    PROVE  Net(Append(box, m), id) = Net(box, id) + Effect(m, id)
<1>. DEFINE s == InFlight(box, id, TRUE)
            c == InFlight(box, id, FALSE)
            s1 == InFlight(Append(box, m), id, TRUE)
            c1 == InFlight(Append(box, m), id, FALSE)
<1>1. s \in Nat
  BY InFlightType, Zenon
<1>2. c \in Nat
  BY InFlightType, Zenon
<1>3. s1 = IF Is(m, id, TRUE) THEN s + 1 ELSE s
  BY InFlightSent, Zenon
<1>4. c1 = IF Is(m, id, FALSE) THEN c + 1 ELSE c
  BY InFlightSent, Zenon
<1>5. Net(box, id) = s - c /\ Net(Append(box, m), id) = s1 - c1
  BY Zenon DEF Net
<1>. HIDE DEF s, c, s1, c1
<1>6. s1 - c1 = s - c + Effect(m, id)
  BY <1>1, <1>2, <1>3, <1>4, NetChange, Zenon
<1>. QED BY <1>5, <1>6

LEMMA NetTaken ==
    ASSUME NEW box \in Seq(Msg), box # <<>>, NEW id
    PROVE  Net(box, id) = Net(Tail(box), id) + Effect(box[1], id)
<1>. DEFINE s == InFlight(Tail(box), id, TRUE)
            c == InFlight(Tail(box), id, FALSE)
            s1 == InFlight(box, id, TRUE)
            c1 == InFlight(box, id, FALSE)
            m == box[1]
<1>1. Tail(box) \in Seq(Msg) /\ m \in Msg
  OBVIOUS
<1>2. s \in Nat
  BY <1>1, InFlightType, Zenon
<1>3. c \in Nat
  BY <1>1, InFlightType, Zenon
<1>4. s1 = IF Is(m, id, TRUE) THEN s + 1 ELSE s
  BY InFlightTaken, Zenon
<1>5. c1 = IF Is(m, id, FALSE) THEN c + 1 ELSE c
  BY InFlightTaken, Zenon
<1>6. Net(Tail(box), id) = s - c /\ Net(box, id) = s1 - c1
  BY Zenon DEF Net
<1>7. m = box[1]
  OBVIOUS
<1>. HIDE DEF s, c, s1, c1, m
<1>8. s1 - c1 = s - c + Effect(m, id)
  BY <1>1, <1>2, <1>3, <1>4, <1>5, NetChange, Zenon
<1>. QED BY <1>6, <1>7, <1>8

LEMMA NetNone ==
    ASSUME NEW id
    PROVE  Net(<<>>, id) = 0
<1>. DEFINE s == InFlight(<<>>, id, TRUE)
            c == InFlight(<<>>, id, FALSE)
<1>1. s = 0
  BY InFlightNone, Zenon
<1>2. c = 0
  BY InFlightNone, Zenon
<1>3. Net(<<>>, id) = s - c
  BY Zenon DEF Net
<1>. HIDE DEF s, c
<1>. QED BY <1>1, <1>2, <1>3

----------------------------------------------------------------------------
(* CountInv: stop_count is the sum of what the members have sent           *)

LEMMA FlowsAre ==
    ASSUME NEW p \in Procs, NEW stop
    PROVE  /\ Flows(p, stop) = InFlight(inbox[p], conf, stop)
           /\ Flows(p, stop)' = InFlight(inbox'[p], conf', stop)
BY DEF Flows, InFlight, Events, Is

LEMMA CountOKIs ==
    ASSUME TypeOK, TypeOK', NEW p \in Procs
    PROVE  /\ CountOK(p) <=> Counted(p) + Net(inbox[p], conf) = Sum(stopped, view)
           /\ CountOK(p)' <=> Counted(p)' + Net(inbox'[p], conf') = Sum(stopped', view')
<1>. DEFINE s == InFlight(inbox[p], conf, TRUE)
            c == InFlight(inbox[p], conf, FALSE)
            s1 == InFlight(inbox'[p], conf', TRUE)
            c1 == InFlight(inbox'[p], conf', FALSE)
            k == Counted(p)
            k1 == Counted(p)'
<1>1. inbox[p] \in Seq(Msg) /\ inbox'[p] \in Seq(Msg)
  BY DEF TypeOK
<1>2. k \in Int /\ k1 \in Int
  BY DEF TypeOK, Conn, Counted
<1>3. s \in Nat /\ s1 \in Nat
  BY <1>1, InFlightType, Zenon
<1>4. c \in Nat /\ c1 \in Nat
  BY <1>1, InFlightType, Zenon
<1>5. Flows(p, TRUE) = s /\ Flows(p, FALSE) = c
  BY FlowsAre, Zenon
<1>6. Flows(p, TRUE)' = s1 /\ Flows(p, FALSE)' = c1
  BY FlowsAre, Zenon
<1>7. Net(inbox[p], conf) = s - c /\ Net(inbox'[p], conf') = s1 - c1
  BY Zenon DEF Net
<1>8. /\ CountOK(p) <=> k + s - c = Sum(stopped, view)
      /\ CountOK(p)' <=> k1 + s1 - c1 = Sum(stopped', view')
  BY <1>5, <1>6, CountIs, Zenon
<1>. HIDE DEF s, c, s1, c1, k, k1
<1>9. k + (s - c) = k + s - c /\ k1 + (s1 - c1) = k1 + s1 - c1
  BY <1>2, <1>3, <1>4
<1>10. /\ CountOK(p) <=> k + (s - c) = Sum(stopped, view)
       /\ CountOK(p)' <=> k1 + (s1 - c1) = Sum(stopped', view')
  BY <1>8, <1>9
<1>11. k = Counted(p) /\ k1 = Counted(p)'
  BY DEF k, k1
<1>. QED BY <1>7, <1>10, <1>11, Zenon

LEMMA CountTypes ==
    ASSUME TypeOK, NEW p \in Procs
    PROVE  /\ Counted(p) \in Int /\ inbox[p] \in Seq(Msg) /\ Net(inbox[p], conf) \in Int
           /\ conn[p].stop_count \in Int /\ IsFiniteSet(view)
<1>1. inbox[p] \in Seq(Msg) /\ conn[p].stop_count \in Int
  BY DEF TypeOK, Conn
<1>2. IsFiniteSet(view)
  BY ConnAssumption, FS_Subset DEF TypeOK
<1>. QED BY <1>1, <1>2, NetType DEF Counted

\* An ordinary step that sends no STOP or CONT.
LEMMA NoFlowCount ==
    ASSUME TypeOK, TypeOK', NoFlow, Kept, NEW q \in Procs, Counted(q)' = Counted(q), CountOK(q)
    PROVE  CountOK(q)'
<1>1. inbox[q] \in Seq(Msg) /\ Net(inbox[q], conf) \in Int
  BY CountTypes
<1>2. Net(inbox'[q], conf) = Net(inbox[q], conf)
  <2>1. CASE inbox'[q] = inbox[q]
    BY <2>1
  <2>2. ASSUME NEW m \in Msg, m.t # "FLOW", inbox'[q] = Append(inbox[q], m)
        PROVE  Net(inbox'[q], conf) = Net(inbox[q], conf)
    <3>1. Effect(m, conf) = 0
      BY <2>2 DEF Effect
    <3>2. Net(inbox'[q], conf) = Net(inbox[q], conf) + Effect(m, conf)
      BY <1>1, <2>2, NetSent
    <3>. QED BY <1>1, <3>1, <3>2
  <2>. QED BY <2>1, <2>2 DEF NoFlow
<1>3. stopped' = stopped /\ view' = view /\ conf' = conf
  BY DEF NoFlow, Kept
<1>. QED BY <1>2, <1>3, CountOKIs

\* A STOP or CONT is sent: every member has one more to receive.
LEMMA FlowCount ==
    ASSUME TypeOK, TypeOK', NEW p \in Procs, NEW stop \in BOOLEAN, SendFlow(p, stop), Kept,
           NEW q \in Procs, Member(q), Counted(q)' = Counted(q), CountOK(q)
    PROVE  CountOK(q)'
<1>. DEFINE m == [t |-> "FLOW", id |-> conn[p].conf_id, stop |-> stop]
            d == IF conn[p].conf_id # conf THEN 0 ELSE IF stop THEN 1 ELSE -1
<1>1. conn[p].conf_id \in Int /\ \A x \in Procs : stopped[x] \in Int
  BY DEF TypeOK, Conn
<1>2. m \in Msg /\ Effect(m, conf) = d
  BY <1>1, MsgType DEF Effect
<1>3. /\ p \in view /\ ToAll(m)
      /\ stopped' = [stopped EXCEPT ![p] =
            IF conn[p].conf_id # conf THEN @ ELSE IF stop THEN @ + 1 ELSE @ - 1]
  BY DEF SendFlow, Sends, Member
<1>4. view' = view /\ conf' = conf
  BY DEF Kept
<1>5. /\ inbox[q] \in Seq(Msg) /\ Counted(q) \in Int /\ Net(inbox[q], conf) \in Int
      /\ IsFiniteSet(view) /\ view \subseteq Procs
  BY CountTypes DEF TypeOK
<1>6. inbox'[q] = Append(inbox[q], m)
  BY <1>3 DEF ToAll, Member
<1>7. d \in Int
  OBVIOUS
<1>8. \A x \in view : stopped[x] \in Int /\ stopped'[x] = IF x = p THEN stopped[x] + d ELSE stopped[x]
  <2>1. SUFFICES ASSUME NEW x \in view
                 PROVE  stopped[x] \in Int /\ stopped'[x] = IF x = p THEN stopped[x] + d ELSE stopped[x]
    OBVIOUS
  <2>2. /\ stopped[x] \in Int /\ (x # p => stopped'[x] = stopped[x])
        /\ conn[p].conf_id # conf => stopped'[p] = stopped[p]
        /\ conn[p].conf_id = conf /\ stop => stopped'[p] = stopped[p] + 1
        /\ conn[p].conf_id = conf /\ ~ stop => stopped'[p] = stopped[p] - 1
    BY <1>1, <1>3, <1>5 DEF TypeOK
  <2>3. CASE conn[p].conf_id # conf
    <3>1. d = 0
      BY <2>3
    <3>. HIDE DEF d
    <3>. QED BY ONLY <2>2, <2>3, <3>1
  <2>4. CASE conn[p].conf_id = conf /\ stop
    <3>1. d = 1
      BY <2>4
    <3>. HIDE DEF d
    <3>. QED BY ONLY <2>2, <2>4, <3>1
  <2>5. CASE conn[p].conf_id = conf /\ ~ stop
    <3>1. d = -1
      BY <2>5
    <3>. HIDE DEF d
    <3>. QED BY ONLY <2>2, <2>5, <3>1
  <2>. QED BY <2>3, <2>4, <2>5
<1>. HIDE DEF d, m
<1>9. Net(inbox'[q], conf) = Net(inbox[q], conf) + d
  BY <1>2, <1>5, <1>6, NetSent
<1>10. /\ Sum(stopped, view) \in Int
       /\ Sum(stopped', view) = IF p \in view THEN Sum(stopped, view) + d ELSE Sum(stopped, view)
  <2>1. Moves(stopped, stopped', p, d, view)
    BY <1>8 DEF Moves
  <2>. QED BY ONLY <1>5, <1>7, <2>1, SumStep, Zenon
<1>11. Sum(stopped', view') = Sum(stopped, view) + d
  BY <1>3, <1>4, <1>10
<1>12. Counted(q) + Net(inbox[q], conf) = Sum(stopped, view)
  BY CountOKIs
<1>13. Counted(q) + (Net(inbox[q], conf) + d) = Sum(stopped, view) + d
  BY <1>5, <1>7, <1>12
<1>14. Counted(q)' + Net(inbox'[q], conf') = Sum(stopped', view')
  BY <1>4, <1>9, <1>11, <1>13
<1>. QED BY <1>14, CountOKIs

\* p receives m: what was in flight is counted now, if it is of this
\* configuration.
LEMMA ReceiptCount ==
    ASSUME FlowInv, TypeOK', NEW p \in Procs, NEW m, Receipt(p, m), Member(p), CountOK(p)
    PROVE  CountOK(p)'
<1>1. /\ TypeOK /\ Kept /\ rpc[p] = "recv" /\ inbox[p] # <<>> /\ inbox'[p] = Tail(inbox[p])
      /\ stopped' = stopped /\ m \in Msg /\ m = inbox[p][1]
      /\ conn'[p].conf_id = conn[p].conf_id /\ Counts(p, m)
  BY DEF Receipt, Received, FlowInv
<1>2. view' = view /\ conf' = conf
  BY <1>1 DEF Kept
<1>3. /\ inbox[p] \in Seq(Msg) /\ conn[p].stop_count \in Int
      /\ Net(inbox[p], conf) \in Int /\ Net(inbox'[p], conf) \in Int
  <2>1. inbox[p] \in Seq(Msg) /\ inbox'[p] \in Seq(Msg) /\ conn[p].stop_count \in Int
    BY <1>1 DEF TypeOK, Conn
  <2>. QED BY <2>1, NetType
<1>4. Net(inbox[p], conf) = Net(inbox'[p], conf) + Effect(m, conf)
  BY <1>1, <1>3, NetTaken
<1>5. Counted(p)' = Counted(p) + Effect(m, conf) /\ Counted(p) \in Int /\ Effect(m, conf) \in Int
  <2>1. CASE conn[p].conf_id = conf
    <3>1. /\ Counted(p) = conn[p].stop_count /\ Counted(p)' = conn'[p].stop_count
      BY <1>1, <1>2, <2>1 DEF Counted
    <3>2. CASE m.t = "FLOW" /\ m.id = conf
      BY <1>1, <1>3, <2>1, <3>1, <3>2 DEF Counts, Effect
    <3>3. CASE ~ (m.t = "FLOW" /\ m.id = conf)
      BY <1>1, <1>3, <2>1, <3>1, <3>3 DEF Counts, Effect
    <3>. QED BY <3>2, <3>3
  <2>2. CASE conn[p].conf_id # conf
    <3>1. PhaseOK(p)
      BY DEF FlowInv
    <3>2. m.t = "CONF"
      BY <1>1, <2>2, <3>1 DEF PhaseOK
    <3>3. Counted(p) = 0 /\ Counted(p)' = 0
      BY <1>1, <1>2, <2>2 DEF Counted
    <3>4. Effect(m, conf) = 0
      BY <3>2 DEF Effect
    <3>. QED BY <3>3, <3>4
  <2>. QED BY <2>1, <2>2
<1>6. Counted(p) + Net(inbox[p], conf) = Sum(stopped, view)
  BY <1>1, CountOKIs
<1>7. Counted(p)' + Net(inbox'[p], conf) = Sum(stopped, view)
  BY <1>3, <1>4, <1>5, <1>6
<1>. QED BY <1>1, <1>2, <1>7, CountOKIs

PauseOK(p) == paused[p] <=> conn[p].stop_count > 0

LEMMA CountNext ==
    ASSUME FlowInv, HeldInv, CountInv, Next
    PROVE  CountInv'
<1>1. TypeOK /\ TypeOK'
  BY FlowNext DEF FlowInv
<1>2. ASSUME Kept, NEW q \in Procs, Member(q)' PROVE Member(q) /\ CountOK(q)
  BY <1>2 DEF CountInv, Member, Kept, Up
<1>3. ASSUME NEW q \in Procs, Untouched(q), conf' = conf
      PROVE  Counted(q)' = Counted(q) /\ PauseOK(q)'
  BY <1>3 DEF Untouched, Counted, CountInv, PauseOK
<1>4. SUFFICES ASSUME NEW q \in Procs PROVE (Member(q)' => CountOK(q)') /\ PauseOK(q)'
  BY DEF CountInv, PauseOK
<1>. DEFINE Goal == (Member(q)' => CountOK(q)') /\ PauseOK(q)'
<1>5. ASSUME NEW p \in Procs, Ordinary(p), FlowKind(p) PROVE Goal
  <2>1. /\ Kept /\ conf' = conf
        /\ \A r \in Procs \ {p} : Untouched(r)
        /\ conn'[p].conf_id = conn[p].conf_id
        /\ conn'[p].stop_count = conn[p].stop_count /\ paused'[p] = paused[p]
    BY <1>5 DEF Ordinary, Kept, Plain
  <2>2. Counted(q)' = Counted(q) /\ PauseOK(q)'
    <3>1. CASE q = p
      BY <2>1, <3>1 DEF Counted, CountInv, PauseOK
    <3>2. CASE q # p
      BY <1>3, <2>1, <3>2
    <3>. QED BY <3>1, <3>2
  <2>3. ASSUME Member(q)' PROVE CountOK(q)'
    <3>1. Member(q) /\ CountOK(q)
      BY <1>2, <2>1, <2>3
    <3>2. CASE NoFlow
      BY <1>1, <2>1, <2>2, <3>1, <3>2, NoFlowCount
    <3>3. ASSUME NEW stop \in BOOLEAN, SendFlow(p, stop) PROVE CountOK(q)'
      BY <1>1, <2>1, <2>2, <3>1, <3>3, FlowCount
    <3>. QED BY <1>5, <3>2, <3>3 DEF FlowKind
  <2>. QED BY <2>2, <2>3
<1>6. ASSUME NEW p \in Procs, NEW m, Receipt(p, m) PROVE Goal
  <2>1. /\ Kept /\ conf' = conf /\ stopped' = stopped /\ Counts(p, m)
        /\ \A r \in Procs \ {p} : Untouched(r) /\ inbox'[r] = inbox[r]
    BY <1>6 DEF Receipt, Received, Kept
  <2>2. CASE q = p
    <3>1. PauseOK(q)'
      BY <2>1, <2>2 DEF Counts, CountInv, PauseOK
    <3>2. ASSUME Member(q)' PROVE CountOK(q)'
      BY <1>1, <1>2, <1>6, <2>1, <2>2, <3>2, ReceiptCount
    <3>. QED BY <3>1, <3>2
  <2>3. CASE q # p
    <3>1. Counted(q)' = Counted(q) /\ PauseOK(q)' /\ inbox'[q] = inbox[q] /\ view' = view
      BY <1>3, <2>1, <2>3 DEF Kept
    <3>2. ASSUME Member(q)' PROVE CountOK(q)'
      <4>1. CountOK(q)
        BY <1>2, <2>1, <3>2
      <4>. QED BY <1>1, <2>1, <3>1, <4>1, CountOKIs
    <3>. QED BY <3>1, <3>2
  <2>. QED BY <2>2, <2>3
<1>7. ASSUME NEW p \in Procs, Configured(p) PROVE Goal
  <2>1. /\ Kept /\ conf' = conf /\ view' = view /\ stopped' = stopped /\ inbox' = inbox
        /\ \A r \in Procs \ {p} : Untouched(r)
        /\ conn'[p].stop_count = 0 /\ paused'[p] = FALSE /\ rpc[p] = "conf"
    BY <1>7 DEF Configured, Kept, msgs
  <2>2. PauseOK(q)'
    <3>1. CASE q = p
      <4>1. ~ (conn'[q].stop_count > 0)
        BY <2>1, <3>1
      <4>2. ~ paused'[q]
        BY <2>1, <3>1
      <4>. QED BY <4>1, <4>2 DEF PauseOK
    <3>2. CASE q # p
      BY <1>3, <2>1, <3>2
    <3>. QED BY <3>1, <3>2
  <2>3. ASSUME Member(q)' PROVE CountOK(q)'
    <3>1. Member(q) /\ CountOK(q)
      BY <1>2, <2>1, <2>3
    <3>2. Counted(q)' = Counted(q)
      <4>1. CASE q = p
        <5>1. conn[q].conf_id # conf
          BY <2>1, <3>1, <4>1 DEF FlowInv, PhaseOK
        <5>. QED BY <2>1, <4>1, <5>1 DEF Counted
      <4>2. CASE q # p
        BY <1>3, <2>1, <4>2
      <4>. QED BY <4>1, <4>2
    <3>. QED BY <1>1, <2>1, <3>1, <3>2, CountOKIs
  <2>. QED BY <2>2, <2>3
<1>8. ASSUME NEW p \in Procs, Crash(p) PROVE Goal
  <2>1. /\ UNCHANGED <<view, exchange, conf, stopped>> /\ ~ Member(p)'
        /\ \A r \in Procs \ {p} : Unmoved(r)
        /\ conn'[p] = FirstConn(p) /\ paused'[p] = FALSE
    BY <1>8, CrashSteps
  <2>2. CASE q = p
    <3>1. FirstConn(p).stop_count = 0
      BY DEF FirstConn
    <3>2. ~ (conn'[q].stop_count > 0)
      BY <2>1, <2>2, <3>1
    <3>3. ~ paused'[q]
      BY <2>1, <2>2
    <3>. QED BY <2>1, <2>2, <3>2, <3>3 DEF PauseOK
  <2>3. CASE q # p
    <3>1. Untouched(q) /\ inbox'[q] = inbox[q] /\ up'[q] = up[q]
      BY <2>1, <2>3 DEF Unmoved
    <3>2. Counted(q)' = Counted(q) /\ PauseOK(q)'
      BY <1>3, <2>1, <3>1
    <3>3. ASSUME Member(q)' PROVE CountOK(q)'
      <4>1. CountOK(q)
        BY <2>1, <3>1, <3>3 DEF CountInv, Member, Up
      <4>. QED BY <1>1, <2>1, <3>1, <3>2, <4>1, CountOKIs
    <3>. QED BY <3>2, <3>3
  <2>. QED BY <2>2, <2>3
<1>9. ASSUME NEW S \in SUBSET Procs, Form(S) PROVE Goal
  <2>1. exchange' /\ UNCHANGED <<conn, paused>>
    BY <1>9, FormFlow
  <2>. QED BY <2>1 DEF Member, CountInv, PauseOK
<1>10. ASSUME Complete PROVE Goal
  <2>1. /\ conf' = conf + 1 /\ stopped' = [p \in Procs |-> 0] /\ UNCHANGED <<conn, paused, view>>
        /\ Exchanged(q)
    BY <1>10, CompleteSteps
  <2>2. PauseOK(q)'
    BY <2>1 DEF CountInv, PauseOK
  <2>3. ASSUME Member(q)' PROVE CountOK(q)'
    <3>. DEFINE m == [t |-> "CONF", id |-> conf', my |-> status'[q]]
    <3>1. inbox'[q] = <<m>> /\ view' = view
      BY <2>1, <2>3 DEF Exchanged, Member
    <3>2. m \in Msg /\ Effect(m, conf') = 0
      <4>1. conf' \in Int /\ status'[q] \in SYNCED..OPEN
        BY <1>1 DEF TypeOK
      <4>. QED BY <4>1, MsgType DEF Effect
    <3>. HIDE DEF m
    <3>3. Net(inbox'[q], conf') = 0
      <4>1. Net(Append(<<>>, m), conf') = Net(<<>>, conf') + Effect(m, conf') /\ Append(<<>>, m) = <<m>>
        <5>1. <<>> \in Seq(Msg) /\ Append(<<>>, m) = <<m>>
          OBVIOUS
        <5>. QED BY <3>2, <5>1, NetSent, Zenon
      <4>. QED BY <3>1, <3>2, <4>1, NetNone
    <3>4. Counted(q)' = 0
      <4>1. conn[q].conf_id <= conf /\ conf \in Int /\ conn[q].conf_id \in Int
        BY <1>1 DEF FlowInv, IdsOK, TypeOK, Conn
      <4>2. conn'[q].conf_id # conf'
        BY <2>1, <4>1
      <4>. QED BY <4>2 DEF Counted
    <3>5. Sum(stopped', view') = 0
      <4>1. IsFiniteSet(view) /\ \A x \in view : stopped'[x] = 0
        BY <1>1, <2>1, CountTypes DEF TypeOK
      <4>. QED BY <3>1, <4>1, SumZero
    <3>6. Counted(q)' + Net(inbox'[q], conf') = Sum(stopped', view')
      BY <3>3, <3>4, <3>5
    <3>. QED BY <1>1, <3>6, CountOKIs
  <2>. QED BY <2>2, <2>3
<1>. HIDE DEF Goal
<1>11. Goal
  BY <1>5, <1>6, <1>7, <1>8, <1>9, <1>10, StepKinds
<1>. QED BY <1>11 DEF Goal

LEMMA CountOKNow ==
    ASSUME TypeOK, NEW p \in Procs, Counted(p) = 0, inbox[p] = <<>>, Sum(stopped, view) = 0
    PROVE  CountOK(p)
<1>. DEFINE s == Flows(p, TRUE)
            c == Flows(p, FALSE)
            k == Counted(p)
<1>1. \A stop : Flows(p, stop) = 0
  <2>1. \A stop : InFlight(<<>>, conf, stop) = 0
    BY InFlightNone, Zenon
  <2>. QED BY <2>1, FlowsAre, Zenon
<1>2. s = 0 /\ c = 0 /\ k = 0
  BY <1>1, Zenon
<1>3. CountOK(p) <=> k + s - c = Sum(stopped, view)
  BY CountIs, Zenon
<1>. HIDE DEF s, c, k
<1>4. k + s - c = Sum(stopped, view)
  BY <1>2
<1>. QED BY <1>3, <1>4

LEMMA InitCount ==
    ASSUME Init
    PROVE  CountInv
<1>1. TypeOK
  BY InitFlow DEF FlowInv
<1>2. SUFFICES ASSUME NEW q \in Procs PROVE CountOK(q) /\ PauseOK(q)
  BY DEF CountInv, PauseOK
<1>3. FirstConn(q).stop_count = 0
  BY DEF FirstConn
<1>4. conn[q].stop_count = 0 /\ inbox[q] = <<>> /\ ~ paused[q] /\ view = Procs
  BY <1>3 DEF Init
<1>5. Counted(q) = 0 /\ Net(inbox[q], conf) = 0
  BY <1>4, NetNone DEF Counted
<1>6. Sum(stopped, view) = 0
  <2>1. \A x \in view : stopped[x] = 0
    BY <1>4 DEF Init
  <2>. QED BY <1>4, <2>1, ConnAssumption, SumZero
<1>7. CountOK(q)
  BY <1>1, <1>4, <1>5, <1>6, CountOKNow
<1>8. ~ (conn[q].stop_count > 0)
  BY <1>4
<1>. QED BY <1>4, <1>7, <1>8 DEF PauseOK

\* What a member has counted of the present configuration, with the STOPs and
\* CONTs it is still to receive, is the sum over the members of what they have
\* sent, and the send monitor is paused just while the count is positive
\* (gcs_handle_flow_control()).
THEOREM CountInvariantHolds == Spec => []CountInv
<1>1. Init => CountInv
  BY InitCount
<1>2. FlowInv /\ HeldInv /\ CountInv /\ [Next]_vars => CountInv'
  <2>1. CASE UNCHANGED vars
    <3>1. SUFFICES ASSUME FlowInv, CountInv, NEW p \in Procs
                   PROVE  (Member(p)' => CountOK(p)') /\ PauseOK(p)'
      BY DEF CountInv, PauseOK
    <3>2. TypeOK /\ TypeOK'
      BY <2>1, <3>1 DEF FlowInv, TypeOK, vars, locks, queue, recv, group, msgs
    <3>3. /\ UNCHANGED <<conn, paused, up, view, exchange, conf, inbox, stopped>>
      BY <2>1 DEF vars, group, msgs
    <3>4. PauseOK(p)' /\ Counted(p)' = Counted(p) /\ (Member(p)' => CountOK(p))
      BY <3>1, <3>3 DEF CountInv, PauseOK, Counted, Member, Up
    <3>. QED BY <3>2, <3>3, <3>4, CountOKIs
  <2>. QED BY <2>1, CountNext
<1>. QED BY <1>1, <1>2, FlowInvariantHolds, PTL DEF Spec

\* stop_count is the sum over the members of STOPs minus CONTs, up to what is
\* in flight, and the send monitor is paused while it is positive
\* (gcs_handle_flow_control()).
THEOREM StopCountAgreesHolds == Spec => []StopCountAgrees
<1>1. CountInv => StopCountAgrees
  <2>1. SUFFICES ASSUME CountInv, NEW p \in Procs
                 PROVE  /\ Current(p) => conn[p].stop_count + Flows(p, TRUE) - Flows(p, FALSE)
                                           = MapThenSumSet(LAMBDA q : stopped[q], view)
                        /\ paused[p] <=> conn[p].stop_count > 0
    BY DEF StopCountAgrees
  <2>2. ASSUME Current(p) PROVE CountOK(p) /\ Counted(p) = conn[p].stop_count
    BY <2>1, <2>2 DEF CountInv, Current, Member, Counted
  <2>. QED BY <2>1, <2>2 DEF CountInv, CountOK
<1>. QED BY <1>1, CountInvariantHolds, PTL
============================================================================
