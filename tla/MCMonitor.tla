----------------------------- MODULE MCMonitor -----------------------------
(***************************************************************************)
(* Instances of Monitor for TLC; the constants are given in the cfg files. *)
(***************************************************************************)
EXTENDS MonitorProperties, TLC

\* threads that drain are interchangeable
Symmetric == Permutations(Drainers)
============================================================================
