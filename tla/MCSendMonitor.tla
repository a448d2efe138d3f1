--------------------------- MODULE MCSendMonitor ---------------------------
(***************************************************************************)
(* Instances of SendMonitor for TLC; the constants are in the cfg files.   *)
(***************************************************************************)
EXTENDS SendMonitorProperties

============================================================================
