------------------------------- MODULE MCRpcMgr -------------------------------
(* Two calls of RpcMgr, one of each kind. *)
EXTENDS RpcMgr

TheCalls == {"block", "handler"}
TheBlocking == {"block"}
==============================================================================
