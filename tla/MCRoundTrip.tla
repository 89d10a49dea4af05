---------------------------- MODULE MCRoundTrip ----------------------------
(* Model values for the TLC runs of RoundTrip.                             *)
EXTENDS RoundTrip

CONSTANTS k1, k2, m1

TwoCalls == {k1, k2}
OneServerCall == {m1}
=============================================================================
