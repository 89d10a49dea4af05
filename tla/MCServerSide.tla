---------------------------- MODULE MCServerSide ----------------------------
(***************************************************************************)
(* ServerLifecycle, AuthGate, Keepalive and Sessions share no state: one   *)
(* run checks each of them alone, a component moving only while the others *)
(* rest in one of their initial states.  The states are those of the four  *)
(* models side by side, not their product.                                 *)
(***************************************************************************)
EXTENDS ServerLifecycle, AuthGate, Keepalive, Sessions

CONSTANTS i1, i2, c1

TwoIds == {i1, i2}
OneClient == {c1}

ServerRests    == ServerInit /\ ~slTaken
AuthRests      == AuthInit /\ agHooks = [handshake |-> "none", message |-> FALSE, timeout |-> FALSE]
KeepaliveRests == KeepaliveInit
SessionsRest   == SessionInit

MCInit == ServerInit /\ AuthInit /\ KeepaliveInit /\ SessionInit

MCNext ==
    \/ /\ AuthRests /\ KeepaliveRests /\ SessionsRest
       /\ ServerNext /\ UNCHANGED <<agVars, kaVars, smVars>>
    \/ /\ ServerRests /\ KeepaliveRests /\ SessionsRest
       /\ AuthNext /\ UNCHANGED <<slVars, kaVars, smVars>>
    \/ /\ ServerRests /\ AuthRests /\ SessionsRest
       /\ KeepaliveNext /\ UNCHANGED <<slVars, agVars, smVars>>
    \/ /\ ServerRests /\ AuthRests /\ KeepaliveRests
       /\ SessionNext /\ UNCHANGED <<slVars, agVars, kaVars>>

MCSpec == MCInit /\ [][MCNext]_<<slVars, agVars, kaVars, smVars>> /\ AuthFairness

(***************************************************************************)
(* Every variable of the four components keeps its type; the session table *)
(* never exceeds its limit.                                                *)
(***************************************************************************)
ServerSideTypeOK == ServerTypeOK /\ AuthTypeOK /\ KeepaliveTypeOK /\ SessionTypeOK
=============================================================================
