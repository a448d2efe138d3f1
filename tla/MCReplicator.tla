---------------------------- MODULE MCReplicator ----------------------------
(***************************************************************************)
(* Instances of Replicator for TLC, with two nodes.                        *)
(*                                                                         *)
(* a and c write the same row on n1, c and b (from n2) write another, and  *)
(* a has a gap lock where b writes.  d is a statement in total order       *)
(* isolation on the table, started with a or with b alone.                 *)
(*                                                                         *)
(* r, s, u and v come from n2, t from n1; t writes the row of r.           *)
(***************************************************************************)
EXTENDS ReplicatorProperties

RowKey(parts) == [parts |-> parts, shared |-> FALSE]

Rows(rows) == [keys |-> [i \in DOMAIN rows |-> RowKey(<<"t", rows[i]>>)],
               isolation |-> FALSE, pa_unsafe |-> FALSE]

Origin == [a |-> "n1", b |-> "n2", c |-> "n1", d |-> "n2",
           r |-> "n2", s |-> "n2", u |-> "n2", v |-> "n2", t |-> "n1"]

Work ==
    [a |-> Rows(<<"1">>), b |-> Rows(<<"2">>), c |-> Rows(<<"1", "2">>),
     d |-> [keys |-> <<RowKey(<<"t">>)>>, isolation |-> TRUE, pa_unsafe |-> FALSE],
     r |-> Rows(<<"1">>), s |-> Rows(<<"2">>), u |-> Rows(<<"3">>), v |-> Rows(<<"4">>), t |-> Rows(<<"1">>)]

\* What the theorem on WritesInOrder takes for granted holds of these
ASSUME WorkShortFirst == ShortKeysFirst

AbGap == {{"a", "b"}}

Together(x, begun, ended) ==
    \E xs \in {{"a", "b", "c"}, {"a", "d"}, {"b", "d"}} : begun \cup {x} \subseteq xs

\* One after the other, when the one before is committed everywhere; v with u
OneByOne(x, begun, ended) ==
    CASE x = "t" -> "r" \in ended
      [] x = "s" -> "t" \in begun
      [] x = "u" -> "s" \in ended
      [] x = "v" -> "u" \in begun
      [] OTHER   -> TRUE

\* What the run with t is about: it is replicated before its node has left the
\* monitor for r, and the cut is ordered before it
CutOvertakes ==
    /\ At("n1", "r", "done") => last_seen["t"] = 0
    /\ Ordered("t") => LastCut = MaxCut

=============================================================================
