------------------------------ MODULE Adapters ------------------------------
(***************************************************************************)
(* One channel of some platform between its users and the program: a       *)
(* webhook brings a message, the program sends it back to the chat it came *)
(* from or sends one of its own, the platform answers.  The tables of what *)
(* each adapter does are in PlatformMessages.                              *)
(***************************************************************************)
EXTENDS PlatformMessages

VARIABLES
    adChan,    \* the platform
    adUp,      \* BaseChannel.status is running
    adHeld,    \* what HandleWebhook returned and the program has in hand
    adSource,  \* what the message in SendMessage was made of, if one is
    adOut,     \* what SendMessage makes of it
    adAnswer,  \* what the platform said to the request
    adResult   \* what SendMessage is about to return

adVars == <<adChan, adUp, adHeld, adSource, adOut, adAnswer, adResult>>

Nothing  == [kind |-> "none", msg |-> Msg("", "none", {})]
NoSource == [echo |-> "none", type |-> "", up |-> TRUE]
NoAnswer == [status |-> "none", body |-> "none"]

AdapterInit ==
    /\ adChan \in Platforms /\ adUp = FALSE
    /\ adHeld = Nothing /\ adSource = NoSource /\ adOut = Refused
    /\ adAnswer = NoAnswer /\ adResult = "none"

\* A request is under way.
Asked == adOut.res = "request" /\ adResult = "none"

\* The adapters that keep no connection: Start may check a token, and Stop
\* only sets the status.
AdapterStarts ==
    /\ ~adUp /\ adUp' = TRUE
    /\ UNCHANGED <<adChan, adHeld, adSource, adOut, adAnswer, adResult>>

AdapterStops ==
    /\ adUp /\ adUp' = FALSE
    /\ UNCHANGED <<adChan, adHeld, adSource, adOut, adAnswer, adResult>>

\* HandleWebhook does not ask whether the channel runs.
UserSends(k) ==
    /\ adHeld' = [kind |-> k, msg |-> Received(adChan)[k]]
    /\ UNCHANGED <<adChan, adUp, adSource, adOut, adAnswer, adResult>>

\* Messenger and WhatsApp do not ask for the status, iMessage leaves it to
\* its client as well.
AsksStatus(p) == p \notin {"messenger", "whatsapp"}

\* What is refused whatever the message says: there is no valid token (Feishu,
\* WeChat), or nobody to send it to.
MayRefuse(p) == p \notin {"dingtalk", "wecom"}

SendMessage(m, echo) ==
    /\ adSource = NoSource
    /\ adSource' = [echo |-> echo, type |-> m.type, up |-> adUp]
    /\ \/ adOut' = IF AsksStatus(adChan) /\ ~adUp THEN Refused ELSE Sends(adChan, m)
       \/ MayRefuse(adChan) /\ adOut' = Refused
    /\ adAnswer' = NoAnswer
    /\ adResult' = CASE adOut'.res = "refused" -> "error"
                     [] adOut'.res = "panic" -> "panic"
                     [] adOut'.res = "request" -> "none"

Echoes ==
    /\ adHeld # Nothing
    /\ SendMessage(adHeld.msg, adHeld.kind)
    /\ adHeld' = Nothing
    /\ UNCHANGED <<adChan, adUp>>

\* A message of the program's own, with one piece of metadata at most.
Keys == {"receive_id_type", "image_key", "file_key", "media_id", "caption", "parse_mode",
         "image_data", "image_path", "articles", "template_card", "image_url", "file_path"}

Composed ==
    UNION {[type : Types, content : {"none", "text", "long"}, good : {{}}, bad : {{}}],
           [type : Types, content : {"text"}, good : {{k} : k \in Keys}, bad : {{}}],
           [type : Types, content : {"text"}, good : {{}}, bad : {{k} : k \in Keys}]}

Composes ==
    /\ \E m \in Composed : SendMessage(m, "none")
    /\ UNCHANGED <<adChan, adUp, adHeld>>

Accepted == [status |-> "200", body |-> "ok"]
StatusOnly == {"discord", "messenger", "whatsapp"}

\* The platform accepts with a 200 and its JSON; it refuses in its JSON, with
\* an error status where that is all that is looked at; and something on the
\* way answers in its place, with any status.
MayAnswer(p) ==
    {a \in Answers :
       \/ a = Accepted
       \/ /\ a.body = "refusal"
          /\ IF p \in StatusOnly THEN ErrorStatus(a) ELSE a.status # "3xx"
       \/ a.body \in {"object", "page"}}

PlatformAnswers ==
    /\ Asked
    /\ \E a \in MayAnswer(adChan) :
         /\ adAnswer' = a
         /\ adResult' = IF Fails(adChan, a) THEN "error" ELSE "nil"
    /\ UNCHANGED <<adChan, adUp, adHeld, adSource, adOut>>

\* No answer: the request times out after 30 seconds.
RequestFails ==
    /\ Asked /\ adResult' = "error"
    /\ UNCHANGED <<adChan, adUp, adHeld, adSource, adOut, adAnswer>>

SendReturns ==
    /\ adResult \in {"nil", "error"}
    /\ adSource' = NoSource /\ adOut' = Refused
    /\ adAnswer' = NoAnswer /\ adResult' = "none"
    /\ UNCHANGED <<adChan, adUp, adHeld>>

\* Nothing recovers a panic of SendMessage.
AdapterNext ==
    /\ adResult # "panic"
    /\ \/ AdapterStarts \/ AdapterStops \/ Echoes \/ Composes
       \/ PlatformAnswers \/ RequestFails \/ SendReturns
       \/ adChan \notin {"wecom", "imessage"} /\ \E k \in DOMAIN Received(adChan) : UserSends(k)

AdapterSpec == AdapterInit /\ [][AdapterNext]_adVars

-----------------------------------------------------------------------------
AdapterTypeOK ==
    /\ adChan \in Platforms /\ adUp \in BOOLEAN
    /\ adHeld.msg.type \in Types \cup {""}
    /\ adOut.res \in {"refused", "panic", "request"}
    /\ adAnswer \in Answers \cup {NoAnswer}
    /\ adResult \in {"none", "nil", "error", "panic"}

\* What a platform takes as the media of a message.
Accepts(p) ==
    CASE p \in {"feishu", "wechat", "dingtalk"} -> {"id"}
      [] p = "telegram" -> {"id", "url"}
      [] p = "wecom" -> {"id", "bytes"}
      [] OTHER -> {"url"}

Same(p, kind, out) ==
    IF kind \in {"text", "rich"}
      THEN out.as \in {"text", "markdown"} /\ out.ref = "text"
      ELSE /\ out.as = IF kind = "captioned" THEN "image" ELSE kind
           /\ out.ref \in Accepts(p)

\* The kinds an adapter sends back as something else.
LossyEchoes(p) ==
    CASE p = "telegram" -> {"captioned", "voice", "place", "button", "other"}
      [] p = "whatsapp" -> {"image", "file", "audio", "video", "place", "other"}
      [] p \in {"slack", "discord"} -> {"file"}
      [] p = "feishu" -> {"other", "event"}
      [] p \in {"dingtalk", "messenger"} -> {"other"}
      [] OTHER -> {}

\* A user who is echoed gets back what was sent, or the program gets an error.
EchoFaithful ==
    adOut.res = "request" /\ adSource.echo # "none" =>
      Same(adChan, adSource.echo, adOut) \/ adSource.echo \in LossyEchoes(adChan)

\* The types of media an adapter sends as plain text.
Flattened(p) ==
    CASE p \in {"feishu", "telegram", "messenger", "whatsapp"} -> {"voice", "news", "template_card"}
      [] p = "dingtalk" -> {"video", "voice", "news", "template_card"}
      [] p = "wecom" -> {"audio", "video"}
      [] p = "wechat" -> {}
      [] OTHER -> Types

\* A message of a media type is not turned into text, those apart.
MediaStaysMedia ==
    adOut.res = "request" /\ adSource.echo = "none"
    /\ adSource.type \in {"image", "file", "audio", "video", "voice", "news", "template_card"} =>
      adOut.as \notin {"text", "markdown", "nothing"} \/ adSource.type \in Flattened(adChan)

\* A stopped channel sends nothing, Messenger and WhatsApp apart.
StoppedIsSilent ==
    adOut.res = "request" => adSource.up \/ adChan \in {"messenger", "whatsapp"}

\* The answers of others that an adapter takes for its platform's consent.
TakenForConsent(p) ==
    {a \in Answers :
       \/ p \in {"feishu", "wechat", "dingtalk"} /\ a.body = "object"
       \/ p = "wecom" /\ a.body = "object" /\ a.status = "200"
       \/ p \in StatusOnly /\ a.body \in {"object", "page"} /\ ~ErrorStatus(a)}

\* SendMessage never returns nil for a refusal, and for an answer that is not
\* the platform's only in those cases.
NilMeansAccepted ==
    adResult = "nil" => adAnswer \in {Accepted} \cup TakenForConsent(adChan)

(***************************************************************************)
(* SendMessage does what its caller meant or says that it did not: what    *)
(* goes out is what came in, and nil means consent.  Exceptions are the    *)
(* sets above, one entry for each adapter that falls short.                *)
(***************************************************************************)
SendMeansWhatItSays ==
    EchoFaithful /\ MediaStaysMedia /\ StoppedIsSilent /\ NilMeansAccepted
=============================================================================
