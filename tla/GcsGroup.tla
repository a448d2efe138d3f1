------------------------------ MODULE GcsGroup ------------------------------
(***************************************************************************)
(* The group context a GCS process keeps (gcs/src/gcs_group.c, gcs_node.c, *)
(* gcs_defrag.c): who the members of the component are, what each of them  *)
(* is good for, and the seqno of the last action.  Every process updates   *)
(* its own copy from the messages the backend delivers; each handler is an *)
(* operator from the context g and the message m to the new context.       *)
(*                                                                         *)
(* Nodes are kept by the id of the process; the position of a node in the  *)
(* array is the rank of its id.  Protocol versions are the current ones on *)
(* all processes; names, addresses and statistics are left out.            *)
(***************************************************************************)
EXTENDS GcsQuorum, Sequences, FiniteSetsExt

NODE_NO_ID    == 0
GCS_SEQNO_NIL == 0

\* gcs_defrag_init(): no action is being put together.  got counts the
\* fragments received; act names the action (it is not in the code, which
\* only knows the sender's counter)
gcs_defrag_init == [id |-> 0, act |-> 0, got |-> 0, reset |-> FALSE]

\* a node that has sent no state message
NoState == [uuid |-> GU_UUID_NIL]

gcs_node_init ==
    [status |-> NON_PRIM, last_applied |-> 0, count_last_applied |-> FALSE,
     bootstrap |-> FALSE, donor |-> NODE_NO_ID, joiner |-> NODE_NO_ID,
     state_msg |-> NoState, app |-> gcs_defrag_init]

\* gcs_group_init() and gcs_group_init_history()
gcs_group_init(uuid, seqno) ==
    [state |-> "NON_PRIMARY", act_id |-> seqno, conf_id |-> GCS_SEQNO_ILL,
     state_uuid |-> GU_UUID_NIL, group_uuid |-> uuid,
     prim_seqno |-> GCS_SEQNO_ILL, prim_num |-> 0, prim_state |-> NON_PRIM,
     last_applied |-> GCS_SEQNO_ILL, last_node |-> -1, frag_reset |-> TRUE,
     my_id |-> NODE_NO_ID, nodes |-> [i \in {NODE_NO_ID} |-> gcs_node_init]]

Members(g) == DOMAIN g.nodes

\* sender_idx, my_idx, last_node: the index of a member in nodes[]
Idx(g, i) == Cardinality({j \in Members(g) : j < i})

MyNode(g) == g.nodes[g.my_id]

----------------------------------------------------------------------------
(* Components *)

Counted(g) == {i \in Members(g) : g.nodes[i].count_last_applied}

\* mutant of group_redo_last_applied: the loop starts at the second member
RedoSkipsFirst(g) ==
    LET counted == {i \in Counted(g) : Idx(g, i) > 0}
        least   == Min({g.nodes[i].last_applied : i \in counted})
    IN  IF counted = {} THEN g
        ELSE [g EXCEPT !.last_applied = least,
                       !.last_node = Idx(g, Min({i \in counted :
                                                 g.nodes[i].last_applied = least}))]

\* group_redo_last_applied()
group_redo_last_applied(g) ==
    LET least == Min({g.nodes[i].last_applied : i \in Counted(g)})
    IN  IF Counted(g) = {} THEN g
        ELSE [g EXCEPT !.last_applied = least,
                       !.last_node = Idx(g, Min({i \in Counted(g) :
                                                 g.nodes[i].last_applied = least}))]

group_go_non_primary(g) ==
    [g EXCEPT !.nodes[g.my_id].status = NON_PRIM,
              !.state = "NON_PRIMARY", !.conf_id = GCS_SEQNO_ILL]

\* mutant of group_nodes_reset: own action is not marked
ResetNotOwn(g) ==
    [g EXCEPT !.nodes = [i \in Members(g) |->
                  IF i = g.my_id THEN g.nodes[i]
                  ELSE [g.nodes[i] EXCEPT !.app = [gcs_defrag_init EXCEPT !.reset = TRUE]]],
              !.frag_reset = TRUE]

\* group_nodes_reset(): what others have sent is dropped, own action is marked
group_nodes_reset(g) ==
    [g EXCEPT !.nodes = [i \in Members(g) |->
                  IF i = g.my_id THEN [g.nodes[i] EXCEPT !.app.reset = TRUE]
                  ELSE [g.nodes[i] EXCEPT !.app = [gcs_defrag_init EXCEPT !.reset = TRUE]]],
              !.frag_reset = TRUE]

\* mutant of SavePrimState: the status is saved in every configuration
SaveAnyState(g) == [g EXCEPT !.prim_state = MyNode(g).status]

\* what this node was in the primary configuration that now ends
SavePrimState(g) ==
    IF g.state = "PRIMARY" THEN [g EXCEPT !.prim_state = MyNode(g).status] ELSE g

IsFirstComponent(g, members) ==
    Cardinality(members) = 1 /\ Members(g) = {NODE_NO_ID}

\* the first component of all: a new history unless one was provided
FirstComponent(g, p, uuid) ==
    [g EXCEPT !.prim_seqno = 0, !.prim_num = 1, !.state = "PRIMARY",
              !.act_id = IF g.act_id < 0 THEN GCS_SEQNO_NIL ELSE g.act_id,
              !.group_uuid = IF g.act_id < 0 THEN uuid ELSE g.group_uuid,
              !.nodes = [i \in {p} |-> [g.nodes[NODE_NO_ID] EXCEPT !.status = JOINED]]]

\* before the members are remapped
LeaveOldComponent(g, p, comp, uuid) ==
    CASE ~ comp.prim                        -> group_go_non_primary(g)
      [] comp.prim /\ g.state = "PRIMARY"   -> g
      [] comp.prim /\ g.state # "PRIMARY" /\ comp.bootstrap
                                            -> [g EXCEPT !.nodes[g.my_id].bootstrap = TRUE]
      [] comp.prim /\ g.state # "PRIMARY" /\ ~ comp.bootstrap
                   /\ IsFirstComponent(g, comp.members)
                                            -> FirstComponent(g, p, uuid)
      [] OTHER                              -> g

\* nodes that stay keep their context
Remap(g, p, members) ==
    [g EXCEPT !.my_id = p,
              !.nodes = [i \in members |-> IF i \in Members(g) THEN g.nodes[i]
                                           ELSE gcs_node_init]]

\* gcs_group_handle_comp_msg(); p is this process, uuid the one that
\* gu_uuid_generate() would return
gcs_group_handle_comp_msg(g, p, comp, uuid) ==
    LET moved == Remap(LeaveOldComponent(SavePrimState(g), p, comp, uuid), p, comp.members)
    IN  IF ~ comp.prim THEN moved
        ELSE group_redo_last_applied(
                [group_nodes_reset(moved) EXCEPT !.state = "WAIT_STATE_UUID",
                                                 !.state_uuid = GU_UUID_NIL])

----------------------------------------------------------------------------
(* State exchange *)

\* mutant of gcs_group_handle_uuid_msg: own message is ignored
UuidOfOthers(g, m) ==
    IF g.state = "WAIT_STATE_UUID" /\ Idx(g, m.from) = 0 /\ m.from # g.my_id
    THEN [g EXCEPT !.state_uuid = m.uuid, !.state = "WAIT_STATE_MSG"]
    ELSE g

\* gcs_group_handle_uuid_msg(): only the first member's UUID counts
gcs_group_handle_uuid_msg(g, m) ==
    IF g.state = "WAIT_STATE_UUID" /\ Idx(g, m.from) = 0
    THEN [g EXCEPT !.state_uuid = m.uuid, !.state = "WAIT_STATE_MSG"]
    ELSE g

\* gcs_group_get_state(): what this process says of itself
gcs_group_get_state(g) ==
    [uuid |-> g.state_uuid, group_uuid |-> g.group_uuid, prim_seqno |-> g.prim_seqno,
     received |-> g.act_id, prim_joined |-> g.prim_num, prim_state |-> g.prim_state,
     current_state |-> MyNode(g).status, cla |-> MyNode(g).count_last_applied,
     bootstrap |-> MyNode(g).bootstrap]

gcs_node_record_state(g, m) ==
    [g EXCEPT !.nodes[m.from].state_msg = m.state,
              !.nodes[m.from].status = m.state.current_state]

\* all state messages of this exchange have come
ExchangeComplete(g) ==
    \A i \in Members(g) : g.nodes[i].state_msg.uuid = g.state_uuid

States(g) == [i \in Members(g) |-> g.nodes[i].state_msg]

\* group_post_state_exchange(), once the exchange is complete
group_post_state_exchange(g) ==
    LET quorum  == gcs_state_msg_get_quorum(States(g))
        updated == [i \in Members(g) |->
            LET s      == g.nodes[i].state_msg
                status == gcs_node_update_status(s, quorum)
            IN  [g.nodes[i] EXCEPT
                    !.status = status, !.bootstrap = FALSE,
                    !.count_last_applied = IF quorum.primary THEN CountLastApplied(s, status)
                                           ELSE @]]
    IN  IF quorum.primary
        THEN [g EXCEPT !.nodes = updated, !.state = "PRIMARY",
                       !.act_id = quorum.act_id, !.conf_id = quorum.conf_id + 1,
                       !.prim_seqno = quorum.conf_id + 1,
                       !.group_uuid = quorum.group_uuid, !.state_uuid = GU_UUID_NIL,
                       !.prim_num = Cardinality({i \in Members(g) :
                                        gcs_node_is_joined(updated[i].status)})]
        ELSE group_go_non_primary([g EXCEPT !.nodes = updated])

\* gcs_group_handle_state_msg()
gcs_group_handle_state_msg(g, m) ==
    IF g.state # "WAIT_STATE_MSG" \/ m.state.uuid # g.state_uuid THEN g
    ELSE LET r == gcs_node_record_state(g, m)
         IN  IF ExchangeComplete(r) THEN group_post_state_exchange(r) ELSE r

\* group_check_donor(): called when the exchange is complete; the process
\* aborts when the donor it waits for is gone
DonorIsGone(g) ==
    /\ MyNode(g).status = JOINER
    /\ MyNode(g).donor # NODE_NO_ID
    /\ MyNode(g).donor \notin Members(g) \ {g.my_id}

----------------------------------------------------------------------------
(* Actions *)

\* gcs_defrag_handle_frag(): the new state of the defragmenter, and whether
\* the action is "done", needs "more", or the fragment is out of order
gcs_defrag_handle_frag(df, m, local) ==
    LET first == [id |-> m.id, act |-> m.act, got |-> 1, reset |-> FALSE]
        Take(d) == IF d.got = m.of THEN [df |-> gcs_defrag_init, ret |-> "done"]
                                   ELSE [df |-> d, ret |-> "more"]
        expected == df.id = m.id /\ df.got = m.frag
    IN  CASE df.got > 0 /\ expected -> Take([df EXCEPT !.got = @ + 1])
          [] df.got > 0 /\ ~ expected /\ local /\ df.reset /\ df.id = m.id /\ m.frag = 0
                                    -> Take(first)
          [] df.got = 0 /\ m.frag = 0 -> Take(first)
          [] df.got = 0 /\ m.frag # 0 /\ ~ local /\ df.reset -> [df |-> df, ret |-> "more"]
          [] OTHER                  -> [df |-> df, ret |-> "EPROTO"]

\* mutant of Orderly: an action cut in two by a new component counts
OrderlyReset(g, m, local) ==
    g.state = "PRIMARY" /\ g.nodes[m.from].status >= DONOR

\* a complete action gets a seqno
Orderly(g, m, local) ==
    /\ g.state = "PRIMARY"
    /\ g.nodes[m.from].status >= DONOR
    /\ ~ (g.frag_reset /\ local)

\* gcs_group_handle_act_msg(): the new context, and the outcome: "none" (more
\* to come or ignored), "ordered", "restart" (-ERESTART), "request", "EPROTO"
gcs_group_handle_act_msg(g, p, m) ==
    LET local == m.from = p
        frag  == gcs_defrag_handle_frag(g.nodes[m.from].app, m, local)
        g1    == [g EXCEPT !.frag_reset = @ /\ (~ local \/ m.frag # 0),
                           !.nodes[m.from].app = frag.df]
    IN  CASE frag.ret = "more"   -> [g |-> g1, out |-> "none"]
          [] frag.ret = "EPROTO" -> [g |-> g1, out |-> "EPROTO"]
          [] frag.ret = "done" /\ m.kind = "request" -> [g |-> g1, out |-> "request"]
          [] frag.ret = "done" /\ m.kind = "action" /\ Orderly(g1, m, local)
                                 -> [g |-> [g1 EXCEPT !.act_id = @ + 1], out |-> "ordered"]
          [] OTHER               -> [g |-> g1, out |-> IF local THEN "restart" ELSE "none"]

\* gcs_group_handle_last_msg()
gcs_group_handle_last_msg(g, m) ==
    LET g1 == [g EXCEPT !.nodes[m.from].last_applied =
                   IF m.seqno < @ THEN @ ELSE m.seqno]
    IN  IF Idx(g, m.from) = g.last_node /\ m.seqno > g.last_applied
        THEN group_redo_last_applied(g1) ELSE g1

\* the commit cut it returns, 0 for none
CommitCut(g, g1) == IF g.last_applied < g1.last_applied THEN g1.last_applied ELSE 0

----------------------------------------------------------------------------
(* State transfer *)

ANY    == -1
DESYNC == -2

MayDonate(g, i) == g.nodes[i].status >= SYNCED

\* group_select_donor(): NODE_NO_ID when there is none
group_select_donor(g, joiner, donor) ==
    LET synced == {i \in Members(g) : MayDonate(g, i)}
    IN  CASE donor = DESYNC -> IF joiner \in synced THEN joiner ELSE NODE_NO_ID
          [] donor = ANY    -> IF synced = {} THEN NODE_NO_ID ELSE Min(synced)
          [] OTHER          -> IF donor \in synced \ {joiner} THEN donor ELSE NODE_NO_ID

\* the request of a member that needs no state
Refused(g, m) == g.nodes[m.from].status # PRIM /\ m.donor # DESYNC

\* gcs_group_handle_state_request()
gcs_group_handle_state_request(g, m) ==
    LET joiner == m.from
        donor  == group_select_donor(g, joiner, m.donor)
    IN  IF Refused(g, m) \/ donor = NODE_NO_ID THEN g
        ELSE LET g1 == [g EXCEPT !.nodes[joiner].status = JOINER,
                                 !.nodes[joiner].donor = donor]
             IN  [g1 EXCEPT !.nodes[donor].status = DONOR,
                            !.nodes[donor].joiner = joiner]

\* mutant of gcs_group_handle_join_msg: the error code is not looked at
JoinDespiteError(g, m) ==
    LET status == g.nodes[m.from].status
    IN  CASE status = DONOR  -> [g EXCEPT !.nodes[m.from].status = JOINED]
          [] status = JOINER -> [g EXCEPT !.nodes[m.from].status = JOINED, !.prim_num = @ + 1]
          [] OTHER           -> g

\* gcs_group_handle_join_msg(); m.ok: the seqno is not an error code
gcs_group_handle_join_msg(g, m) ==
    LET status == g.nodes[m.from].status
    IN  CASE status = DONOR          -> [g EXCEPT !.nodes[m.from].status = JOINED]
          [] status = JOINER /\ m.ok -> [g EXCEPT !.nodes[m.from].status = JOINED,
                                                  !.prim_num = @ + 1]
          [] status = JOINER /\ ~ m.ok -> [g EXCEPT !.nodes[m.from].status = PRIM]
          [] OTHER                   -> g

\* the donor could not send its state to this process, which has to abort
NeverReceives(g, m) ==
    /\ g.nodes[m.from].status = DONOR /\ ~ m.ok
    /\ g.nodes[m.from].joiner = g.my_id
    /\ MyNode(g).status = JOINER

\* gcs_group_handle_sync_msg()
gcs_group_handle_sync_msg(g, m) ==
    IF g.nodes[m.from].status # JOINED THEN g
    ELSE group_redo_last_applied([g EXCEPT !.nodes[m.from].status = SYNCED,
                                           !.nodes[m.from].count_last_applied = TRUE])
============================================================================
