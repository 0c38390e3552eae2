---------------------------- MODULE MCRpcSession ----------------------------
(* Small instances of RpcSession for TLC. *)
EXTENDS RpcSession

CONSTANTS u1, u2, s1
=============================================================================
