------------------------------ MODULE GcsCore -------------------------------
(***************************************************************************)
(* GCS processes on a group communication backend: the receiving thread    *)
(* (gcs_core_recv() in gcs/src/gcs_core.c), which hands every message to   *)
(* the group context of GcsGroup, and the sending threads (gcs_core_send() *)
(* and the service messages), over a backend that delivers views and       *)
(* totally ordered messages.                                               *)
(*                                                                         *)
(* The backend (gcomm) runs in a thread of its own and leaves what it      *)
(* delivers in a queue, inbox[p], so it may be views ahead of what the     *)
(* receiving thread has seen.  core->state is a function of group->state:  *)
(* every handler sets both, and a sender sees only core->state, under      *)
(* send_lock.                                                              *)
(***************************************************************************)
EXTENDS GcsGroup, SequencesExt

CONSTANTS
    Procs,       \* ids of the processes, positive integers in the order of their UUIDs
    History,     \* History[p]: the [uuid, seqno] p starts with
    Founder,     \* the process that is started to bootstrap the group
    DonorNames,  \* what a state request may name: ANY or a process
    MaxView,     \* number of views the backend delivers
    MaxLag,      \* messages a receiving thread may be behind when it forms one
    Writers,     \* processes that send actions
    MaxAct,      \* actions each of them tries to send
    MaxFrag,     \* fragments of an action
    MaxLast,     \* LAST messages each process sends
    MaxReq,      \* state requests each process sends
    Desyncers,   \* processes that are desynced, once each
    MaxSync,     \* SYNC messages each process sends
    MaxDown,     \* processes that stop
    Stops,       \* how they stop: "down", "left"
    MayBootstrap,\* the operator may bootstrap a non-primary component
    Calm         \* no action is begun between the delivery of a new component
                 \* and its processing by the receiving thread

ASSUME GcsAssumption ==
    /\ Procs \subseteq Nat \ {0} /\ IsFiniteSet(Procs) /\ Founder \in Procs
    /\ Writers \subseteq Procs /\ Desyncers \subseteq Procs
    /\ DonorNames \subseteq Procs \cup {ANY}
    \* what gcs_group_init_history() accepts
    /\ \A p \in Procs : /\ History[p].uuid \in Nat /\ History[p].seqno \in Int
                        /\ History[p].uuid = GU_UUID_NIL <=> History[p].seqno < 0
    /\ \A n \in {MaxView, MaxLag, MaxAct, MaxFrag, MaxLast, MaxReq, MaxSync, MaxDown} :
           n \in Nat
    /\ Stops \subseteq {"down", "left"}
    /\ MayBootstrap \in BOOLEAN /\ Calm \in BOOLEAN

VARIABLES
    up,          \* "new", "up", "left" or "down"
    views,       \* the views the backend has formed, [members, prim, bootstrap]
    bview,       \* bview[p]: the view of p's backend, 0 before the first
    inbox,       \* inbox[p]: delivered by the backend, not yet received
    group,       \* group[p]: gcs_group_t of p
    fifo,        \* fifo[p]: actions sent and not yet received back
    snd,         \* snd[p]: the action p is in the middle of sending
    send_act_no, \* send_act_no[p]
    used,        \* used[p]: how much of each bound p has used
    \* what the properties speak of, not in the code:
    seen,        \* seen[p]: view processed last and number of messages since
    data,        \* data[p]: the history p holds [uuid, seqno, have]
    ordered,     \* [uuid, seqno, from, act] of every action that got a seqno
    cut,         \* cut[p]: the commit cut p returned last
    fatal        \* fatal[p]: the failed assertions and unrecoverable errors of p

net     == <<up, views, bview>>
sender  == <<fifo, snd, send_act_no>>
ghosts  == <<data, ordered, cut, fatal>>
vars    == <<net, inbox, group, sender, used, seen, ghosts>>

Idle == [id |-> 0, act |-> 0, next |-> 0, of |-> 0]

Kinds == {"act", "last", "req", "desync", "sync"}

Init ==
    /\ up = [p \in Procs |-> "new"]
    /\ views = <<>>
    /\ bview = [p \in Procs |-> 0]
    /\ inbox = [p \in Procs |-> <<>>]
    /\ group = [p \in Procs |-> gcs_group_init(History[p].uuid, History[p].seqno)]
    /\ fifo = [p \in Procs |-> <<>>]
    /\ snd = [p \in Procs |-> Idle]
    /\ send_act_no = [p \in Procs |-> 1]
    /\ used = [p \in Procs |-> [k \in Kinds |-> 0]]
    /\ seen = [p \in Procs |-> [view |-> 0, pos |-> 0]]
    /\ data = [p \in Procs |-> [uuid |-> History[p].uuid, seqno |-> History[p].seqno,
                                have |-> History[p].uuid # GU_UUID_NIL]]
    /\ ordered = {}
    /\ cut = [p \in Procs |-> 0]
    /\ fatal = [p \in Procs |-> {}]

----------------------------------------------------------------------------
(* The backend *)

NextView == Len(views) + 1

\* processes whose backend is in view v
In(v) == {p \in Procs : up[p] = "up" /\ bview[p] = v}

IsPrim(v) == v # 0 /\ views[v].prim

\* the last primary view p was in, 0 for none
LastPrim(p) == Max({0} \cup {v \in DOMAIN views : views[v].prim /\ p \in views[v].members})

\* members of v that have left it in order
Left(v) == {p \in views[v].members : up[p] = "left" /\ bview[p] = v}

\* S, coming from the primary view v, outnumbers those it has lost
HasQuorum(S, v) == 2 * Cardinality(S) + Cardinality(Left(v)) > Cardinality(views[v].members)

Outside(p) == up[p] = "new" \/ (up[p] = "up" /\ ~ IsPrim(bview[p]))

\* the bounds of the instance
MayForm == NextView <= MaxView /\ \A p \in Procs : Len(inbox[p]) <= MaxLag

Install(S, prim, bootstrap) ==
    /\ views' = Append(views, [members |-> S, prim |-> prim, bootstrap |-> bootstrap])
    /\ bview' = [p \in Procs |-> IF p \in S THEN NextView ELSE bview[p]]
    /\ up' = [p \in Procs |-> IF p \in S THEN "up" ELSE up[p]]
    /\ UNCHANGED <<group, sender, used, seen, ghosts>>

Comp == [t |-> "COMP", view |-> NextView]

AppendComp(S) == inbox' = [p \in Procs |-> IF p \in S THEN Append(inbox[p], Comp) ELSE inbox[p]]

\* the group is started: a primary component of one
ViewFirst ==
    /\ MayForm /\ views = <<>>
    /\ AppendComp({Founder})
    /\ Install({Founder}, TRUE, FALSE)

\* the primary component goes on, without some and with some new members.
\* All messages of the old view are delivered before the new one
ViewPrim ==
    /\ MayForm
    /\ \E v \in DOMAIN views, S \in SUBSET Procs :
        /\ views[v].prim
        /\ S \cap In(v) # {} /\ HasQuorum(S \cap In(v), v)
        /\ \A p \in S \ In(v) : Outside(p)
        /\ S # views[v].members
        /\ AppendComp(S)
        /\ Install(S, TRUE, FALSE)

\* what p has to receive of the view its backend is in
Current(p) ==
    LET comps == {i \in DOMAIN inbox[p] : inbox[p][i].t = "COMP"}
    IN  Len(inbox[p]) - Max({0} \cup comps)

\* what the members of S have sent of s (SelectSeq() with its recursion
\* written out, which proofs can refer to)
SentBy(s, S) ==
    LET kept[i \in 0..Len(s)] ==
            IF i = 0 THEN <<>>
            ELSE IF s[i].from \in S THEN Append(kept[i - 1], s[i]) ELSE kept[i - 1]
    IN  kept[Len(s)]

\* a part of the primary component without quorum.  The last n messages of
\* the old view, of those who stay together, are delivered after the view
ViewNonPrim ==
    /\ MayForm
    /\ \E v \in DOMAIN views : \E S \in SUBSET In(v), n \in 0..Max({0} \cup {Current(p) : p \in In(v)}) :
        /\ views[v].prim
        /\ S # {} /\ ~ HasQuorum(S, v)
        /\ \E p \in views[v].members : p \notin In(v) \/ p \notin S
        /\ \A p \in S : n <= Current(p)
        /\ inbox' = [p \in Procs |->
               IF p \notin S THEN inbox[p]
               ELSE LET k == Len(inbox[p]) - n
                    IN  Append(SubSeq(inbox[p], 1, k), Comp)
                        \o SentBy(SubSeq(inbox[p], k + 1, k + n), S)]
        /\ Install(S, FALSE, FALSE)

\* all members of the last primary view are back together
ViewRemerge ==
    /\ MayForm
    /\ \E S \in SUBSET Procs :
        /\ \A p \in S : Outside(p)
        /\ \E p \in S : /\ LastPrim(p) # 0
                        /\ \A q \in S : LastPrim(q) <= LastPrim(p)
                        /\ views[LastPrim(p)].members \subseteq S
        /\ AppendComp(S)
        /\ Install(S, TRUE, FALSE)

\* the operator makes a non-primary component primary, knowing that there is
\* no other
ViewBootstrap ==
    /\ MayForm /\ MayBootstrap
    /\ \A p \in Procs : up[p] = "up" => ~ IsPrim(bview[p])
    /\ \E v \in DOMAIN views :
        /\ In(v) # {} /\ In(v) = views[v].members
        /\ AppendComp(In(v))
        /\ Install(In(v), TRUE, TRUE)

NumDown == Cardinality({p \in Procs : up[p] \in {"left", "down"}})

\* a process is killed, or closes its connection
Stop(p, how) ==
    /\ up[p] = "up" /\ NumDown < MaxDown
    /\ up' = [up EXCEPT ![p] = how]
    /\ inbox' = [inbox EXCEPT ![p] = <<>>]
    /\ UNCHANGED <<views, bview, group, sender, used, seen, ghosts>>

\* the backend of p takes a message: its view is primary and nobody has moved on
CanSend(p) ==
    /\ IsPrim(bview[p])
    /\ \A q \in views[bview[p]].members : up[q] = "up" => bview[q] = bview[p]

\* box after p has sent m
Broadcast(box, p, m) ==
    [q \in Procs |-> IF q \in In(bview[p]) THEN Append(box[q], m) ELSE box[q]]

----------------------------------------------------------------------------
(* The receiving thread *)

\* core->state
CoreState(g) ==
    CASE g.state = "PRIMARY"     -> "PRIMARY"
      [] g.state = "NON_PRIMARY" -> "NON_PRIMARY"
      [] OTHER                   -> "EXCHANGE"

Head1(p, t) == up[p] = "up" /\ inbox[p] # <<>> /\ Head(inbox[p]).t = t

Consumed(p) == [inbox EXCEPT ![p] = Tail(@)]

Counts(p) == seen' = [seen EXCEPT ![p].pos = @ + 1]

Become(p, g) == group' = [group EXCEPT ![p] = g]

\* core_handle_comp_msg(): the representative sends the UUID of the exchange,
\* unless the backend is changing views again
RecvComp(p) ==
    /\ Head1(p, "COMP")
    /\ LET v == Head(inbox[p]).view
           g == gcs_group_handle_comp_msg(group[p], p, views[v], v)
       IN  /\ Become(p, g)
           /\ inbox' = IF g.state = "WAIT_STATE_UUID" /\ Idx(g, p) = 0 /\ CanSend(p)
                       THEN Broadcast(Consumed(p), p, [t |-> "UUID", from |-> p, uuid |-> v])
                       ELSE Consumed(p)
           /\ seen' = [seen EXCEPT ![p] = [view |-> v, pos |-> 0]]
           /\ data' = [data EXCEPT ![p] =
                  IF g.group_uuid = group[p].group_uuid THEN @
                  ELSE [uuid |-> g.group_uuid, seqno |-> g.act_id, have |-> TRUE]]
    /\ UNCHANGED <<net, sender, used, ordered, cut, fatal>>

\* core_handle_uuid_msg(): the state message is sent before anything else is
\* received, however long the backend makes it wait
RecvUuid(p) ==
    /\ Head1(p, "UUID")
    /\ LET g == gcs_group_handle_uuid_msg(group[p], Head(inbox[p]))
       IN  /\ Become(p, g)
           /\ IF g = group[p] THEN inbox' = Consumed(p)
              ELSE /\ CanSend(p)
                   /\ inbox' = Broadcast(Consumed(p), p,
                        [t |-> "STATE", from |-> p, state |-> gcs_group_get_state(g)])
    /\ Counts(p)
    /\ UNCHANGED <<net, sender, used, ghosts>>

\* core_handle_state_msg(); a joiner that has lost its donor aborts
RecvState(p) ==
    /\ Head1(p, "STATE")
    /\ LET m == Head(inbox[p])
           g == gcs_group_handle_state_msg(group[p], m)
           complete == group[p].state = "WAIT_STATE_MSG" /\ g.state # "WAIT_STATE_MSG"
           dies == complete /\ DonorIsGone(g)
       IN  /\ Become(p, g)
           /\ inbox' = IF dies THEN [inbox EXCEPT ![p] = <<>>] ELSE Consumed(p)
           /\ up' = IF dies THEN [up EXCEPT ![p] = "down"] ELSE up
           /\ fatal' = [fatal EXCEPT ![p] = @ \cup
                  (IF complete /\ ~ CompareAsserts(States(g)) THEN {"compare"} ELSE {}) \cup
                  (IF complete /\ ~ RemergeAsserts(States(g)) THEN {"remerge"} ELSE {})]
    /\ Counts(p)
    /\ UNCHANGED <<views, bview, sender, used, data, ordered, cut>>

\* the history of p after it received an action with a seqno
Extended(d, g) ==
    IF /\ MyNode(g).status >= JOINER
       /\ d.uuid = g.group_uuid /\ d.seqno + 1 = g.act_id
    THEN [d EXCEPT !.seqno = @ + 1] ELSE d

\* own actions come back in the order they were sent
FifoError(p, m) == fifo[p] = <<>> \/ Head(fifo[p]) # m.id

\* core_handle_act_msg()
RecvAct(p) ==
    /\ Head1(p, "ACT")
    /\ inbox' = Consumed(p)
    /\ Counts(p)
    /\ LET m     == Head(inbox[p])
           local == m.from = p
           r     == gcs_group_handle_act_msg(group[p], p, m)
           whole == r.out \in {"ordered", "restart", "request"}
           g     == IF r.out = "request" THEN gcs_group_handle_state_request(r.g, m) ELSE r.g
           mixed == r.out = "ordered" /\ m.frag > 0 /\ group[p].nodes[m.from].app.act # m.act
       IN  IF CoreState(group[p]) # "PRIMARY" /\ ~ local
           THEN UNCHANGED <<group, fifo, data, ordered, fatal>>
           ELSE /\ Become(p, g)
                /\ fifo' = IF whole /\ local /\ fifo[p] # <<>>
                           THEN [fifo EXCEPT ![p] = Tail(@)] ELSE fifo
                /\ data' = [data EXCEPT ![p] =
                      CASE r.out = "ordered" -> Extended(@, g)
                        [] r.out = "request" /\ local /\ g # r.g /\ MyNode(g).status = JOINER ->
                              [uuid |-> g.group_uuid, seqno |-> g.act_id, have |-> FALSE]
                        [] OTHER -> @]
                /\ ordered' = IF r.out # "ordered" THEN ordered
                              ELSE ordered \cup {[uuid |-> g.group_uuid, seqno |-> g.act_id,
                                                  from |-> m.from, act |-> m.act]}
                /\ fatal' = IF r.out = "EPROTO" \/ mixed \/ (whole /\ local /\ FifoError(p, m))
                            THEN [fatal EXCEPT ![p] = @ \cup {"fragment"}] ELSE fatal
    /\ UNCHANGED <<net, snd, send_act_no, used, cut>>

\* core_handle_last_msg()
RecvLast(p) ==
    /\ Head1(p, "LAST")
    /\ inbox' = Consumed(p)
    /\ Counts(p)
    /\ IF group[p].state # "PRIMARY" THEN UNCHANGED <<group, cut>>
       ELSE LET g == gcs_group_handle_last_msg(group[p], Head(inbox[p]))
            IN  /\ Become(p, g)
                /\ cut' = IF CommitCut(group[p], g) = 0 THEN cut
                          ELSE [cut EXCEPT ![p] = CommitCut(group[p], g)]
    /\ UNCHANGED <<net, sender, used, data, ordered, fatal>>

\* core_msg_to_action(), a JOIN message; a joiner that will never receive the
\* state aborts
RecvJoin(p) ==
    /\ Head1(p, "JOIN")
    /\ LET m    == Head(inbox[p])
           prim == group[p].state = "PRIMARY"
           dies == prim /\ NeverReceives(group[p], m)
       IN  /\ group' = IF prim THEN [group EXCEPT ![p] = gcs_group_handle_join_msg(@, m)] ELSE group
           /\ inbox' = IF dies THEN [inbox EXCEPT ![p] = <<>>] ELSE Consumed(p)
           /\ up' = IF dies THEN [up EXCEPT ![p] = "down"] ELSE up
           /\ fatal' = IF /\ prim /\ group[p].nodes[m.from].status = DONOR
                          /\ ~ group[p].nodes[m.from].count_last_applied
                       THEN [fatal EXCEPT ![p] = @ \cup {"join"}] ELSE fatal
    /\ Counts(p)
    /\ UNCHANGED <<views, bview, sender, used, data, ordered, cut>>

\* core_msg_to_action(), a SYNC message
RecvSync(p) ==
    /\ Head1(p, "SYNC")
    /\ inbox' = Consumed(p)
    /\ Counts(p)
    /\ group' = IF group[p].state # "PRIMARY" THEN group
                ELSE [group EXCEPT ![p] = gcs_group_handle_sync_msg(@, Head(inbox[p]))]
    /\ UNCHANGED <<net, sender, used, ghosts>>

Receive(p) ==
    \/ RecvComp(p) \/ RecvUuid(p) \/ RecvState(p) \/ RecvAct(p)
    \/ RecvLast(p) \/ RecvJoin(p) \/ RecvSync(p)

----------------------------------------------------------------------------
(* The sending threads *)

MyStatus(p) == MyNode(group[p]).status

\* core_msg_send() lets a message through to the backend
CoreSends(p) == up[p] = "up" /\ CoreState(group[p]) = "PRIMARY" /\ CanSend(p)

Uses(p, k, max) ==
    /\ used[p][k] < max
    /\ used' = [used EXCEPT ![p][k] = @ + 1]

\* every component the backend has delivered has been processed
Settled(p) == bview[p] = seen[p].view

Fragment(p, id, act, frag, of) ==
    [t |-> "ACT", from |-> p, kind |-> "action", id |-> id, act |-> act, frag |-> frag, of |-> of]

\* gcs_core_send(): the action goes to the FIFO and its first fragment out
SendFirst(p) ==
    /\ CoreSends(p) /\ snd[p] = Idle
    /\ Calm => Settled(p)
    /\ p \in Writers /\ MyStatus(p) >= DONOR
    /\ Uses(p, "act", MaxAct)
    /\ fifo' = [fifo EXCEPT ![p] = Append(@, send_act_no[p])]
    /\ \E of \in 1..MaxFrag :
        LET act == used'[p]["act"]
        IN  /\ inbox' = Broadcast(inbox, p, Fragment(p, send_act_no[p], act, 0, of))
            /\ IF of = 1
               THEN /\ send_act_no' = [send_act_no EXCEPT ![p] = @ + 1]
                    /\ UNCHANGED snd
               ELSE /\ snd' = [snd EXCEPT ![p] =
                           [id |-> send_act_no[p], act |-> act, next |-> 1, of |-> of]]
                    /\ UNCHANGED send_act_no
    /\ UNCHANGED <<net, group, seen, ghosts>>

\* gcs_core_send(), the following fragments
SendNext(p) ==
    /\ CoreSends(p) /\ snd[p] # Idle
    /\ inbox' = Broadcast(inbox, p, Fragment(p, snd[p].id, snd[p].act, snd[p].next, snd[p].of))
    /\ IF snd[p].next + 1 = snd[p].of
       THEN /\ snd' = [snd EXCEPT ![p] = Idle]
            /\ send_act_no' = [send_act_no EXCEPT ![p] = @ + 1]
       ELSE /\ snd' = [snd EXCEPT ![p].next = @ + 1]
            /\ UNCHANGED send_act_no
    /\ UNCHANGED <<net, group, fifo, used, seen, ghosts>>

\* gcs_fifo_lite_remove()
Unsend(q) == Front(q)

\* gcs_core_send() fails: the primary component is lost
SendFails(p) ==
    /\ up[p] = "up" /\ snd[p] # Idle
    /\ CoreState(group[p]) = "NON_PRIMARY"
    /\ fifo' = [fifo EXCEPT ![p] = Unsend(@)]
    /\ snd' = [snd EXCEPT ![p] = Idle]
    /\ UNCHANGED <<net, inbox, group, send_act_no, used, seen, ghosts>>

\* gcs_core_set_last_applied()
SendLast(p) ==
    /\ CoreSends(p) /\ data[p].have
    /\ Uses(p, "last", MaxLast)
    /\ inbox' = Broadcast(inbox, p, [t |-> "LAST", from |-> p, seqno |-> data[p].seqno])
    /\ UNCHANGED <<net, group, sender, seen, ghosts>>

SendRequest(p, donor) ==
    /\ fifo' = [fifo EXCEPT ![p] = Append(@, send_act_no[p])]
    /\ send_act_no' = [send_act_no EXCEPT ![p] = @ + 1]
    /\ inbox' = Broadcast(inbox, p,
          [t |-> "ACT", from |-> p, kind |-> "request", donor |-> donor,
           id |-> send_act_no[p], act |-> 0, frag |-> 0, of |-> 1])
    /\ UNCHANGED <<net, group, snd, seen, ghosts>>

\* gcs_request_state_transfer(): this process is told that it needs the state
SendStateRequest(p) ==
    /\ CoreSends(p) /\ snd[p] = Idle
    /\ MyStatus(p) = PRIM
    /\ Uses(p, "req", MaxReq)
    /\ \E donor \in DonorNames : SendRequest(p, donor)

\* gcs_desync()
SendDesync(p) ==
    /\ CoreSends(p) /\ snd[p] = Idle
    /\ MyStatus(p) = SYNCED
    /\ p \in Desyncers /\ Uses(p, "desync", 1)
    /\ SendRequest(p, DESYNC)

\* the donor's state reaches the joiner
Transfer(p) ==
    /\ up[p] = "up" /\ MyStatus(p) = JOINER /\ ~ data[p].have
    /\ LET d == MyNode(group[p]).donor
       IN  /\ d \in Procs /\ up[d] = "up"
           /\ MyStatus(d) = DONOR /\ MyNode(group[d]).joiner = p
           /\ data' = [data EXCEPT ![p].have = data[d].have]
    /\ UNCHANGED <<net, inbox, group, sender, used, seen, ordered, cut, fatal>>

\* whether the transfer that p is part of has come to its end
Transferred(p) ==
    IF MyStatus(p) = JOINER THEN data[p].have
    ELSE LET j == MyNode(group[p]).joiner IN j = p \/ data[j].have

\* gcs_join(): the transfer is over, or has failed
SendJoin(p) ==
    /\ CoreSends(p)
    /\ MyStatus(p) \in {DONOR, JOINER}
    /\ ~ \E i \in DOMAIN inbox[p] : inbox[p][i].t = "JOIN" /\ inbox[p][i].from = p
    /\ inbox' = Broadcast(inbox, p, [t |-> "JOIN", from |-> p, ok |-> Transferred(p)])
    /\ UNCHANGED <<net, group, sender, used, seen, ghosts>>

\* gcs_send_sync()
SendSync(p) ==
    /\ CoreSends(p)
    /\ MyStatus(p) = JOINED
    /\ Uses(p, "sync", MaxSync)
    /\ inbox' = Broadcast(inbox, p, [t |-> "SYNC", from |-> p])
    /\ UNCHANGED <<net, group, sender, seen, ghosts>>

Send(p) ==
    \/ SendFirst(p) \/ SendNext(p) \/ SendFails(p) \/ SendLast(p) \/ SendStateRequest(p)
    \/ SendDesync(p) \/ Transfer(p) \/ SendJoin(p) \/ SendSync(p)

View == ViewFirst \/ ViewPrim \/ ViewNonPrim \/ ViewRemerge \/ ViewBootstrap

Next ==
    \/ View
    \/ \E p \in Procs : \/ Receive(p) \/ Send(p)
                        \/ \E how \in Stops : Stop(p, how)

Spec == Init /\ [][Next]_vars

\* Receive(p) can take place
CanReceive(p) ==
    /\ up[p] = "up" /\ inbox[p] # <<>>
    /\ Head(inbox[p]).t = "UUID" /\ gcs_group_handle_uuid_msg(group[p], Head(inbox[p])) # group[p]
       => CanSend(p)

\* the receiving threads run: WF_vars(Receive(p)), written out (seen[p] counts
\* what p receives)
FairSpec ==
    /\ Spec
    /\ \A p \in Procs : []<> ~ CanReceive(p) \/ []<><<seen'[p] # seen[p]>>_vars
============================================================================
