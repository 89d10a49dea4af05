----------------------------- MODULE MCChannels -----------------------------
(***************************************************************************)
(* The registry, the life cycles of the channels that keep one, and the    *)
(* adapters share no state: one run checks each of them alone, a component *)
(* moving only while the others rest in one of their initial states.  The  *)
(* states are those of the five models side by side, not their product.    *)
(***************************************************************************)
EXTENDS ChannelRegistry, TokenRefresh, TelegramPoll, IMessageLife, Adapters

CONSTANTS ch1, ch2, ch3

ThreeChans == {ch1, ch2, ch3}

\* ch3 has the name of ch2: only one of them can be in the table.
TwoNames == (ch1 :> "a") @@ (ch2 :> "b") @@ (ch3 :> "b")

FirstIsUnparsable == {1}

RegistryRests == RegistryInit
TokenRests    == TokenInit
TelegramRests == TelegramInit /\ tgHook = "unused"
IMessageRests == IMessageInit
AdapterRests  == AdapterInit /\ adChan = "feishu"

MCInit == RegistryInit /\ TokenInit /\ TelegramInit /\ IMessageInit /\ AdapterInit

MCNext ==
    \/ /\ TokenRests /\ TelegramRests /\ IMessageRests /\ AdapterRests
       /\ RegistryNext /\ UNCHANGED <<tokVars, tgVars, imVars, adVars>>
    \/ /\ RegistryRests /\ TelegramRests /\ IMessageRests /\ AdapterRests
       /\ TokenNext /\ UNCHANGED <<rgVars, tgVars, imVars, adVars>>
    \/ /\ RegistryRests /\ TokenRests /\ IMessageRests /\ AdapterRests
       /\ TelegramNext /\ UNCHANGED <<rgVars, tokVars, imVars, adVars>>
    \/ /\ RegistryRests /\ TokenRests /\ TelegramRests /\ AdapterRests
       /\ IMessageNext /\ UNCHANGED <<rgVars, tokVars, tgVars, adVars>>
    \/ /\ RegistryRests /\ TokenRests /\ TelegramRests /\ IMessageRests
       /\ AdapterNext /\ UNCHANGED <<rgVars, tokVars, tgVars, imVars>>

MCSpec ==
    /\ MCInit /\ [][MCNext]_<<rgVars, tokVars, tgVars, imVars, adVars>>
    /\ TelegramFairness

(***************************************************************************)
(* Every variable of the five components keeps its type; two channels of   *)
(* one name are never in the table together.                               *)
(***************************************************************************)
ChannelsTypeOK ==
    /\ RegistryTypeOK /\ TokenTypeOK /\ TelegramTypeOK /\ IMessageTypeOK
    /\ AdapterTypeOK
=============================================================================
