-------------------------- MODULE PlatformMessages --------------------------
(***************************************************************************)
(* How each platform adapter turns what a user sends into a Message and a  *)
(* Message into a request, as tables.  What a Content string or a metadata *)
(* value refers to is all that matters of it: words, a handle of the       *)
(* platform ("id"), a link, a path, bytes.                                 *)
(***************************************************************************)
EXTENDS FiniteSets

Platforms == {"feishu", "wechat", "telegram", "dingtalk", "wecom", "slack",
              "discord", "messenger", "whatsapp", "imessage"}

Types == {"text", "image", "file", "audio", "video", "event", "markdown",
          "news", "voice", "template_card"}

\* A message: its type, what its Content refers to, the metadata keys that
\* some sender reads, and those of them whose value has another type than the
\* sender expects.
Msg(type, content, keys) == [type |-> type, content |-> content, good |-> keys, bad |-> {}]

Refused == [res |-> "refused", as |-> "nothing", ref |-> "none"]
Panics  == [res |-> "panic", as |-> "nothing", ref |-> "none"]
Request(as, ref) == [res |-> "request", as |-> as, ref |-> ref]

\* The Content goes into the request.
Plain(m, as) == Request(as, m.content)

\* A metadata value goes into the request; without it the message is refused.
ByKey(m, key, as) == IF key \in m.good THEN Request(as, "id") ELSE Refused

-----------------------------------------------------------------------------
FeishuReceives ==
    [text  |-> Msg("text", "text", {}),
     image |-> Msg("image", "none", {"image_key"}),
     file  |-> Msg("file", "none", {"file_key"}),
     audio |-> Msg("audio", "none", {"file_key"}),
     video |-> Msg("video", "none", {"file_key"}),
     other |-> Msg("event", "none", {}),
     event |-> Msg("", "none", {})]

FeishuText(m)  == Plain(m, "text")
FeishuImage(m) == ByKey(m, "image_key", "image")
FeishuFile(m)  == ByKey(m, "file_key", m.type)

\* The type of receive_id_type is asserted without a test.
FeishuSends(m) ==
    IF "receive_id_type" \in m.bad THEN Panics
    ELSE CASE m.type = "image" -> FeishuImage(m)
           [] m.type \in {"file", "audio", "video"} -> FeishuFile(m)
           [] OTHER -> FeishuText(m)

WechatReceives ==
    [text  |-> Msg("text", "text", {}),
     image |-> Msg("image", "url", {"media_id"}),
     voice |-> Msg("audio", "none", {"media_id"}),
     video |-> Msg("video", "none", {"media_id"}),
     other |-> Msg("event", "none", {})]

WechatText(m)      == Plain(m, "text")
WechatMedia(m, as) == ByKey(m, "media_id", as)

WechatSends(m) ==
    CASE m.type = "text" -> WechatText(m)
      [] m.type \in {"image", "file", "video"} -> WechatMedia(m, m.type)
      [] m.type = "audio" -> WechatMedia(m, "voice")
      [] OTHER -> Refused

TelegramCallback == Msg("event", "none", {})

\* A caption takes the place of the photo's id in the Content.  What none of
\* the cases matches keeps the empty type.
TelegramReceives ==
    [text      |-> Msg("text", "text", {}),
     image     |-> Msg("image", "id", {}),
     captioned |-> Msg("image", "caption", {"caption"}),
     file      |-> Msg("file", "id", {"caption"}),
     audio     |-> Msg("audio", "id", {}),
     video     |-> Msg("video", "id", {}),
     voice     |-> Msg("audio", "id", {}),
     place     |-> Msg("event", "none", {}),
     button    |-> TelegramCallback,
     other     |-> Msg("", "none", {})]

\* caption and parse_mode are asserted to be strings; the map of an audio or
\* a video takes any value.
TelegramText(m)     == IF "parse_mode" \in m.bad THEN Panics ELSE Plain(m, "text")
TelegramDocument(m) == IF "caption" \in m.bad THEN Panics ELSE Plain(m, m.type)
TelegramAudio(m)    == Plain(m, m.type)

TelegramSends(m) ==
    CASE m.type \in {"image", "file"} -> TelegramDocument(m)
      [] m.type \in {"audio", "video"} -> TelegramAudio(m)
      [] OTHER -> TelegramText(m)

\* A picture brings a link and no media_id.
DingtalkReceives ==
    [text  |-> Msg("text", "text", {}),
     image |-> Msg("image", "url", {}),
     rich  |-> Msg("text", "text", {}),
     other |-> Msg("event", "none", {})]

DingtalkText(m)      == Plain(m, "text")
DingtalkMarkdown(m)  == Plain(m, "markdown")
DingtalkMedia(m, as) == ByKey(m, "media_id", as)

DingtalkSends(m) ==
    CASE m.type = "text" -> DingtalkText(m)
      [] m.type \in {"image", "file"} -> DingtalkMedia(m, m.type)
      [] m.type = "audio" -> DingtalkMedia(m, "voice")
      [] OTHER -> DingtalkMarkdown(m)

\* Each has a limit of its own.
WecomText(m)     == IF m.content = "long" THEN Refused ELSE Plain(m, "text")
WecomMarkdown(m) == IF m.content = "long" THEN Refused ELSE Plain(m, "markdown")

\* The path is looked at when there are no data, and asserted to be a string;
\* readImageFile always fails.
WecomImage(m) ==
    CASE "image_data" \in m.good -> Request("image", "bytes")
      [] "image_data" \notin m.good \cup m.bad /\ "image_path" \in m.bad -> Panics
      [] OTHER -> Refused

\* Articles of another type leave an empty list.
WecomNews(m) ==
    CASE "articles" \in m.good -> Request("news", "articles")
      [] "articles" \in m.bad -> Request("news", "none")
      [] OTHER -> Plain(m, "news")

WecomMedia(m) == ByKey(m, "media_id", m.type)
WecomCard(m)  == ByKey(m, "template_card", "template_card")

WecomSends(m) ==
    CASE m.type = "markdown" -> WecomMarkdown(m)
      [] m.type = "image" -> WecomImage(m)
      [] m.type = "news" -> WecomNews(m)
      [] m.type \in {"file", "voice"} -> WecomMedia(m)
      [] m.type = "template_card" -> WecomCard(m)
      [] OTHER -> WecomText(m)

\* Slack and Discord read the text of a message only; what is attached to it
\* is not looked at.
SlackReceives ==
    [text |-> Msg("text", "text", {}), file |-> Msg("text", "none", {})]

DiscordReceives ==
    [text |-> Msg("text", "text", {}), file |-> Msg("text", "none", {})]

\* image_url decides between a block and the Content; a value of another type
\* gives neither.
ImageBlock(m) ==
    IF "image_url" \in m.good THEN Request("image", "url")
    ELSE IF "image_url" \in m.bad THEN Request("nothing", "none")
    ELSE Plain(m, "text")

SlackSends(m) ==
    CASE m.type = "image" -> ImageBlock(m)
      [] m.type = "markdown" -> Plain(m, "markdown")
      [] OTHER -> Plain(m, "text")

DiscordSends(m) == IF m.type = "image" THEN ImageBlock(m) ELSE Plain(m, "text")

\* Of an attachment Messenger gives the link, WhatsApp the id; an attachment
\* of no known type is a text.
MessengerReceives ==
    [text  |-> Msg("text", "text", {}),
     image |-> Msg("image", "url", {}), file  |-> Msg("file", "url", {}),
     audio |-> Msg("audio", "url", {}), video |-> Msg("video", "url", {}),
     other |-> Msg("text", "url", {})]

WhatsappReceives ==
    [text  |-> Msg("text", "text", {}),
     image |-> Msg("image", "id", {}), file  |-> Msg("file", "id", {}),
     audio |-> Msg("audio", "id", {}), video |-> Msg("video", "id", {}),
     place |-> Msg("event", "place", {}), other |-> Msg("text", "none", {})]

Linked == {"image", "file", "audio", "video"}
MessengerSends(m) == Plain(m, IF m.type \in Linked THEN m.type ELSE "text")
WhatsappSends(m)  == Plain(m, IF m.type \in Linked THEN m.type ELSE "text")

\* A file goes out whatever the type of the message is.
ImessageSends(m) ==
    IF "file_path" \in m.good THEN Request("file", "path") ELSE Plain(m, "text")

-----------------------------------------------------------------------------
\* WeCom robots and the iMessage client receive nothing.
Received(p) ==
    CASE p = "feishu" -> FeishuReceives       [] p = "wechat" -> WechatReceives
      [] p = "telegram" -> TelegramReceives   [] p = "dingtalk" -> DingtalkReceives
      [] p = "slack" -> SlackReceives         [] p = "discord" -> DiscordReceives
      [] p = "messenger" -> MessengerReceives [] p = "whatsapp" -> WhatsappReceives

Sends(p, m) ==
    CASE p = "feishu" -> FeishuSends(m)       [] p = "wechat" -> WechatSends(m)
      [] p = "telegram" -> TelegramSends(m)   [] p = "dingtalk" -> DingtalkSends(m)
      [] p = "wecom" -> WecomSends(m)         [] p = "slack" -> SlackSends(m)
      [] p = "discord" -> DiscordSends(m)     [] p = "messenger" -> MessengerSends(m)
      [] p = "whatsapp" -> WhatsappSends(m)   [] p = "imessage" -> ImessageSends(m)

(***************************************************************************)
(* What a platform may answer, and what SendMessage makes of it.  Four     *)
(* adapters read the body only, two the status and the body, three the     *)
(* status only.  A body may come from the platform, or from something on   *)
(* the way: an "object" decodes and has none of the platform's fields, a   *)
(* "page" does not decode.                                                 *)
(***************************************************************************)
Answers == [status : {"200", "3xx", "4xx", "429", "5xx"},
            body : {"ok", "refusal", "object", "page"}]

\* An error code that is missing is 0, a missing ok is false.
CodeFails(a)   == a.body \notin {"ok", "object"}
OkFails(a)     == a.body # "ok"
StatusFails(a) == a.status # "200"
ErrorStatus(a) == a.status \in {"4xx", "429", "5xx"}

FeishuFails(a)    == CodeFails(a)
WechatFails(a)    == CodeFails(a)
TelegramFails(a)  == OkFails(a)
DingtalkFails(a)  == CodeFails(a)
WecomFails(a)     == StatusFails(a) \/ CodeFails(a)

\* Mutant: a request of Slack's that came back with a 200 was accepted.
SlackByStatus(a)  == StatusFails(a)

SlackFails(a)     == StatusFails(a) \/ OkFails(a)
DiscordFails(a)   == ErrorStatus(a)
MessengerFails(a) == ErrorStatus(a)
WhatsappFails(a)  == ErrorStatus(a)

\* osascript succeeds or not.
ImessageFails(a) == OkFails(a)

Fails(p, a) ==
    CASE p = "feishu" -> FeishuFails(a)       [] p = "wechat" -> WechatFails(a)
      [] p = "telegram" -> TelegramFails(a)   [] p = "dingtalk" -> DingtalkFails(a)
      [] p = "wecom" -> WecomFails(a)         [] p = "slack" -> SlackFails(a)
      [] p = "discord" -> DiscordFails(a)     [] p = "messenger" -> MessengerFails(a)
      [] p = "whatsapp" -> WhatsappFails(a)   [] p = "imessage" -> ImessageFails(a)
=============================================================================
