----------------------------- MODULE GcsQuorum -----------------------------
(***************************************************************************)
(* The decision a new component takes from the state messages of all its   *)
(* members (gcs/src/gcs_state_msg.c) and what it makes of each member      *)
(* (gcs_node_update_status() in gcs_node.c): pure functions, computed by   *)
(* every member on its own from the same messages.                         *)
(*                                                                         *)
(* states maps the id of a member to its state message; members are        *)
(* indexed in the order of their ids.  All members run this version of the *)
(* code, so the negotiation of protocol versions is left out, and with it  *)
(* prim_uuid, which only version 0 of the exchange compares.               *)
(***************************************************************************)
EXTENDS Integers, FiniteSets

\* gcs_node_state_t, in its order
NON_PRIM == 0
PRIM     == 1
JOINER   == 2
DONOR    == 3
JOINED   == 4
SYNCED   == 5

NodeStates == NON_PRIM..SYNCED

GU_UUID_NIL   == 0
GCS_SEQNO_ILL == -1

gcs_node_is_joined(st) == st >= DONOR

GCS_QUORUM_NON_PRIMARY ==
    [primary |-> FALSE, act_id |-> GCS_SEQNO_ILL, conf_id |-> GCS_SEQNO_ILL,
     group_uuid |-> GU_UUID_NIL]

\* l is at least as representative as r
state_nodes_compare(l, r) ==
    \/ l.received > r.received
    \/ l.received = r.received /\ l.prim_seqno >= r.prim_seqno

\* the first of the members of S that none of the others beats
Representative(states, S) ==
    CHOOSE i \in S : \A j \in S \ {i} :
        IF i < j THEN state_nodes_compare(states[i], states[j])
                 ELSE ~ state_nodes_compare(states[j], states[i])

Inherited(s) ==
    [primary |-> TRUE, act_id |-> s.received, conf_id |-> s.prim_seqno,
     group_uuid |-> s.group_uuid]

\* the members that carry a primary configuration on
Joined(states) == {i \in DOMAIN states : gcs_node_is_joined(states[i].current_state)}

\* GCS_STATE_BAD_REP: joined members of different groups
BadRep(states) ==
    \E i, j \in Joined(states) : states[i].group_uuid # states[j].group_uuid

\* state_quorum_inherit()
state_quorum_inherit(states) ==
    IF Joined(states) = {} \/ BadRep(states)
    THEN GCS_QUORUM_NON_PRIMARY
    ELSE Inherited(states[Representative(states, Joined(states))])

----------------------------------------------------------------------------
(* state_quorum_remerge(): all members come from non-primary components *)

\* members that count for a re-merge, or for a bootstrap
Eligible(states, bootstrap) ==
    {i \in DOMAIN states :
        IF bootstrap THEN states[i].bootstrap
        ELSE gcs_node_is_joined(states[i].prim_state) /\ states[i].current_state # JOINER}

\* candidate: what state_match_candidate() compares
StateOf(s) == <<s.group_uuid, s.received>>

\* the first member of every candidate, which stands for it
Candidates(states, bootstrap) ==
    LET E == Eligible(states, bootstrap)
    IN  {i \in E : \A j \in E : StateOf(states[j]) = StateOf(states[i]) => i <= j}

First(S) == CHOOSE i \in S : \A j \in S : i <= j

\* candidates that state_rep_candidate() looks at after the first: those with
\* no history are skipped
Others(states, C) == {i \in C \ {First(C)} : states[i].group_uuid # GU_UUID_NIL}

\* candidates of different groups, as far as the first one can tell
Conflicting(states, C) ==
    LET first == states[First(C)].group_uuid
    IN  first # GU_UUID_NIL /\ \E i \in Others(states, C) : states[i].group_uuid # first

\* mutant of state_rep_candidate: the first candidate wins
RepCandidateFirst(states, C) == First(C)

\* state_rep_candidate(): the highest seqno, the earliest of equals
state_rep_candidate(states, C) ==
    LET D == {First(C)} \cup Others(states, C)
    IN  CHOOSE i \in D : \A j \in D \ {i} :
            \/ states[j].received < states[i].received
            \/ states[j].received = states[i].received /\ i < j

state_quorum_remerge(states, bootstrap) ==
    LET C == Candidates(states, bootstrap)
        c == state_rep_candidate(states, C)
        M == {i \in Eligible(states, bootstrap) : StateOf(states[i]) = StateOf(states[c])}
    IN  IF C = {} \/ Conflicting(states, C)
        THEN GCS_QUORUM_NON_PRIMARY
        ELSE Inherited(states[Representative(states, M)])

----------------------------------------------------------------------------
\* gcs_state_msg_get_quorum(): inherit, else re-merge, else bootstrap
gcs_state_msg_get_quorum(states) ==
    LET inherit == state_quorum_inherit(states)
        remerge == state_quorum_remerge(states, FALSE)
    IN  IF inherit.primary \/ BadRep(states) THEN inherit
        ELSE IF remerge.primary THEN remerge
        ELSE state_quorum_remerge(states, TRUE)

\* the assertions of state_nodes_compare(): of two joined members, the one that
\* has received more comes from a primary configuration that is not older
CompareAsserts(states) ==
    \A i, j \in Joined(states) : states[i].received < states[j].received
                                   => states[i].prim_seqno <= states[j].prim_seqno

\* the assertion of state_quorum_remerge(): members of one candidate know of
\* the same number of joined members
RemergeAsserts(states) ==
    Joined(states) = {} =>
        \A i, j \in Eligible(states, FALSE) :
            StateOf(states[i]) = StateOf(states[j])
            => states[i].prim_joined = states[j].prim_joined

\* the member needs no state transfer
UpToDate(s, quorum) ==
    s.group_uuid = quorum.group_uuid /\ s.received = quorum.act_id

\* gcs_node_update_status(): the status of the member that sent s
gcs_node_update_status(s, quorum) ==
    IF ~ quorum.primary THEN NON_PRIM
    ELSE IF ~ UpToDate(s, quorum) THEN PRIM
    ELSE IF s.prim_state = NON_PRIM THEN JOINED
    ELSE s.prim_state

\* whether its last_applied counts, in a primary configuration
CountLastApplied(s, status) ==
    status \in {DONOR, SYNCED} \/ (status = JOINED /\ s.cla)
============================================================================
