---------------------------- MODULE MCGatewayHub ----------------------------
(* Model values for the TLC runs of GatewayHub.                            *)
EXTENDS GatewayHub

CONSTANTS c1, c2, s1, s2

OneConn    == {c1}
TwoConns   == {c1, c2}
OneSender  == {s1}
TwoSenders == {s1, s2}
=============================================================================
