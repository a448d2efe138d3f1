-------------------------- MODULE GcsCoreProperties --------------------------
(***************************************************************************)
(* What the processes of a group may rely on: the properties of GcsCore.   *)
(***************************************************************************)
EXTENDS GcsCore

InPrimary(p) == up[p] = "up" /\ group[p].state = "PRIMARY"

\* Processes that have received the same messages of the same primary
\* component have the same group context: position, configuration, history
\* and the status of every member (gcs_group.c computes it on each process
\* from the messages alone).
Agreement ==
    \A p, q \in Procs :
        InPrimary(p) /\ InPrimary(q) /\ seen[p] = seen[q] =>
            /\ group[p].act_id = group[q].act_id
            /\ group[p].conf_id = group[q].conf_id
            /\ group[p].group_uuid = group[q].group_uuid
            /\ group[p].prim_num = group[q].prim_num
            /\ \A i \in Members(group[p]) :
                /\ group[p].nodes[i].status = group[q].nodes[i].status
                /\ group[p].nodes[i].count_last_applied = group[q].nodes[i].count_last_applied

\* A seqno of a history names one action, on whatever process and in whatever
\* component it was assigned, and an action gets one seqno
\* (gcs_group_handle_act_msg()).
UniqueSeqno ==
    \A a, b \in ordered :
        a.uuid = b.uuid => (a.seqno = b.seqno <=> a.from = b.from /\ a.act = b.act)

\* A process that the group takes for a donor, joined or synced holds every
\* action of the group's history up to act_id (gcs_node_update_status(), the
\* state request and the JOIN handlers).
JoinedHasState ==
    \A p \in Procs :
        InPrimary(p) /\ MyNode(group[p]).status >= DONOR =>
            data[p] = [uuid |-> group[p].group_uuid, seqno |-> group[p].act_id, have |-> TRUE]

\* No fragment is out of order, no action is put together from two, own
\* actions come back in FIFO order, and the assertions of
\* state_nodes_compare() and on a donor's count_last_applied hold.  (That of
\* state_quorum_remerge() on prim_joined does not: README, "Observations".)
NoFatal == \A p \in Procs : fatal[p] \subseteq {"remerge"}

\* While it stays in one history, a process is never thrown back to a lower
\* seqno by a state exchange (state_nodes_compare(), state_rep_candidate()).
NeverThrownBack ==
    [][\A p \in Procs : group[p].group_uuid = group'[p].group_uuid
                            => group'[p].act_id >= group[p].act_id]_vars

\* The commit cut a process returns is not ahead of what a member that counts
\* holds (gcs_group_handle_last_msg(), group_redo_last_applied()).
CommitCutSafe ==
    [][\A p, q \in Procs :
        /\ cut'[p] # cut[p] /\ q \in Counted(group'[p])
        /\ data[q].uuid = group'[p].group_uuid
        => cut'[p] <= data[q].seqno]_vars

\* p and the other members of its primary view are all there
Intact(p) ==
    /\ up[p] = "up" /\ IsPrim(bview[p])
    /\ \A q \in views[bview[p]].members : up[q] = "up" /\ bview[q] = bview[p]

\* Once the membership stays the same, every state exchange comes to an end:
\* nobody waits for a UUID or for state messages for ever.
ExchangeEnds ==
    \A p \in Procs :
        <>[](Intact(p) => group[p].state \in {"PRIMARY", "NON_PRIMARY"})
=============================================================================
