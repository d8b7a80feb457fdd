---------------------------- MODULE MCGateSession -----------------------------
(* GateSession for TLC; its constants are numbers, given in the cfg.       *)
EXTENDS GateSession
===============================================================================
