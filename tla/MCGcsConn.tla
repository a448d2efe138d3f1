----------------------------- MODULE MCGcsConn ------------------------------
(* Constants of the runs of GcsConn *)
EXTENDS GcsConnProperties, TLC

OneReceiver == 1 :> {"a"} @@ 2 :> {"b"}

AllSynced == [p \in Procs |-> SYNCED]
OneJoins  == [p \in Procs |-> IF p = 2 THEN PRIMARY ELSE SYNCED]
============================================================================
