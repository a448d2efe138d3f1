----------------------------- MODULE MCGcsCore ------------------------------
(***************************************************************************)
(* Instances of GcsCore for TLC.                                           *)
(***************************************************************************)
EXTENDS GcsCoreProperties

\* all processes were shut down in order with the same history
SameHistory == [p \in Procs |-> [uuid |-> 100, seqno |-> 0]]

\* nobody has a history
NoHistory == [p \in Procs |-> [uuid |-> GU_UUID_NIL, seqno |-> GCS_SEQNO_ILL]]

AnyDonor == {ANY}

=============================================================================
