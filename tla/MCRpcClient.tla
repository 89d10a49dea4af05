---------------------------- MODULE MCRpcClient ----------------------------
(* Model values for the TLC runs of RpcClient.                             *)
EXTENDS RpcClient

CONSTANTS k1, k2, u1

TwoCalls  == {k1, k2}
OneCloser == {u1}
=============================================================================
