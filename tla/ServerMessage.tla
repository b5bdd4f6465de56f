---------------------------- MODULE ServerMessage ----------------------------
(***************************************************************************)
(* The typed server messages (message/commands/*.rs).  Each command is the *)
(* sequence of the fields it reads, in the order in which the code         *)
(* evaluates them: the first that fails is the error of the message.       *)
(***************************************************************************)
EXTENDS MessageFields

Text(m) == IF MessageText(m).is = "ok" THEN MessageText(m).value.text ELSE << >>

-----------------------------------------------------------------------------
(* The small commands *)

JoinReads(m) == << ChannelLogin(m), PrefixNickname(m) >>

PartReads(m) == << ChannelLogin(m), PrefixNickname(m) >>

NoticeReads(m) == << OptionalChannelLogin(m), Param(m, 2), OptionalNonempty(m, "msg-id") >>

ClearMsgReads(m) ==
    << MessageText(m), ChannelLogin(m), Nonempty(m, "login"), Nonempty(m, "target-msg-id"),
       Timestamp(m, "tmi-sent-ts") >>

GlobalUserStateReads(m) ==
    << Nonempty(m, "user-id"), Nonempty(m, "display-name"), Badges(m, "badge-info"),
       Badges(m, "badges"), EmoteSets(m, "emote-sets"), Color(m, "color") >>

UserStateReads(m) ==
    << ChannelLogin(m), Nonempty(m, "display-name"), Badges(m, "badge-info"), Badges(m, "badges"),
       EmoteSets(m, "emote-sets"), Color(m, "color") >>

WhisperReads(m) ==
    << Param(m, 2), IF Len(m.params) > 1 THEN Emotes(m, "emotes", m.params[2]) ELSE Param(m, 2),
       Param(m, 1), Nonempty(m, "user-id"), PrefixNickname(m), Nonempty(m, "display-name"),
       Color(m, "color"), Badges(m, "badges") >>

\* A ban has a user, a timeout a user and a length; neither when the chat is cleared.
ClearChatAction(m) ==
    IF Len(m.params) < 2 THEN Accepted(<< "ChatCleared" >>)
    ELSE All(<< Accepted(m.params[2]), Nonempty(m, "target-user-id"), OptionalNumber(m, "ban-duration") >>)

ClearChatReads(m) ==
    << ClearChatAction(m), ChannelLogin(m), Nonempty(m, "room-id"), Timestamp(m, "tmi-sent-ts") >>

\* A number of minutes from which on one may chat, or -1: kept in seconds, as
\* a product of i64.
FollowersOnlyMode(v) ==
    LET n       == I64(v)
        seconds == n.value * 60
    IN  IF n.is = "error" THEN n
        ELSE IF n.value < 0 THEN Accepted("Disabled")
        ELSE IF seconds > MaxI64 THEN Overflow(Accepted(Wrapped(seconds)))
        ELSE Accepted(seconds)

RoomStateReads(m) ==
    << ChannelLogin(m), Nonempty(m, "room-id"), OptionalBool(m, "emote-only"),
       Optional(m, "followers-only", FollowersOnlyMode(m.tags[<< "followers-only" >>])), OptionalBool(m, "r9k"),
       OptionalNumber(m, "slow"), OptionalBool(m, "subs-only") >>

PrivmsgReads(m) ==
    << MessageText(m), ChannelLogin(m), Nonempty(m, "room-id"), Nonempty(m, "user-id"),
       PrefixNickname(m), Nonempty(m, "display-name"), Badges(m, "badge-info"), Badges(m, "badges"),
       OptionalNumber(m, "bits"), Color(m, "color"), Emotes(m, "emotes", Text(m)),
       Timestamp(m, "tmi-sent-ts"), Nonempty(m, "id"), OptionalReplyParent(m) >>

-----------------------------------------------------------------------------
(* USERNOTICE *)

SenderIs(m, key, name) == TagValue(m, key) = Accepted(<< name >>)

\* The event that a notice with the given msg-id is read as: a gift wave of
\* the anonymous gifter is an anonymous one.
UserNoticeEvent(m, id) ==
    CASE id \in {"sub", "resub"} -> "SubOrResub"
      [] id \in {"subgift", "anonsubgift"} -> "SubGift"
      [] id = "anonsubmysterygift" -> "AnonSubMysteryGift"
      [] id = "submysterygift" -> IF SenderIs(m, "user-id", AnonymousGifter)
                                  THEN "AnonSubMysteryGift" ELSE "SubMysteryGift"
      [] id \in {"raid", "giftpaidupgrade", "anongiftpaidupgrade", "ritual", "bitsbadgetier",
                 "announcement"} -> id
      [] OTHER -> "Unknown"

\* A promotion is there when both of its tags are.
SubGiftPromo(m) ==
    LET reads == All(<< OptionalNumber(m, "msg-param-promo-gift-total"),
                        OptionalNonempty(m, "msg-param-promo-name") >>)
    IN  IF reads.is = "ok" /\ << >> \in ToSet(reads.value) THEN Accepted(<< >>) ELSE reads

\* How many gifts the sender has given in all: Twitch itself need not say.
SenderTotalGifts(m) ==
    LET total == Number(m, "msg-param-sender-count")
    IN  IF total.is = "ok" THEN Accepted(<< total.value >>)
        ELSE IF SenderIs(m, "login", "twitch") THEN Accepted(<< >>) ELSE total

\* The fields of the event.
EventReads(m, id, event) ==
    CASE event = "SubOrResub" ->
            << Number(m, "msg-param-cumulative-months"), Bool(m, "msg-param-should-share-streak"),
               IF Bool(m, "msg-param-should-share-streak") = Accepted(TRUE)
               THEN Number(m, "msg-param-streak-months") ELSE Accepted("None"),
               Nonempty(m, "msg-param-sub-plan"), Nonempty(m, "msg-param-sub-plan-name") >>
      [] event = "raid" ->
            << Number(m, "msg-param-viewerCount"), Nonempty(m, "msg-param-profileImageURL") >>
      [] event = "SubGift" ->
            << Accepted(id = "anonsubgift" \/ SenderIs(m, "user-id", AnonymousGifter)),
               Number(m, "msg-param-months"), Nonempty(m, "msg-param-recipient-id"),
               Nonempty(m, "msg-param-recipient-user-name"),
               Nonempty(m, "msg-param-recipient-display-name"), Nonempty(m, "msg-param-sub-plan"),
               Nonempty(m, "msg-param-sub-plan-name"), Number(m, "msg-param-gift-months") >>
      [] event = "AnonSubMysteryGift" ->
            << Number(m, "msg-param-mass-gift-count"), Nonempty(m, "msg-param-sub-plan") >>
      [] event = "SubMysteryGift" ->
            << Number(m, "msg-param-mass-gift-count"), SenderTotalGifts(m),
               Nonempty(m, "msg-param-sub-plan") >>
      [] event = "giftpaidupgrade" ->
            << Nonempty(m, "msg-param-sender-login"), Nonempty(m, "msg-param-sender-name"),
               SubGiftPromo(m) >>
      [] event = "anongiftpaidupgrade" -> << SubGiftPromo(m) >>
      [] event = "ritual" -> << Nonempty(m, "msg-param-ritual-name") >>
      [] event = "bitsbadgetier" -> << Number(m, "msg-param-threshold") >>
      [] event = "announcement" ->
            << IF HasTag(m, "msg-param-color") THEN TagValue(m, "msg-param-color")
               ELSE Accepted(<< >>) >>
      [] OTHER -> << >>

\* The text is optional; only with one are the emotes read.
UserNoticeReads(m) ==
    LET msgId == Nonempty(m, "msg-id")
        event == IF msgId.is = "ok" /\ Len(msgId.value) = 1
                 THEN EventReads(m, Head(msgId.value), UserNoticeEvent(m, Head(msgId.value))) ELSE << >>
    IN  << Nonempty(m, "user-id"), Nonempty(m, "login"), Nonempty(m, "display-name"), msgId >>
        \o event
        \o << IF Len(m.params) > 1 THEN Emotes(m, "emotes", m.params[2]) ELSE Accepted(<< >>),
              ChannelLogin(m), Nonempty(m, "room-id"), TagValue(m, "system-msg"),
              Badges(m, "badge-info"), Badges(m, "badges"), Color(m, "color"), Nonempty(m, "id"),
              Timestamp(m, "tmi-sent-ts") >>

-----------------------------------------------------------------------------
(* ServerMessage *)

Commands == {"CLEARCHAT", "CLEARMSG", "GLOBALUSERSTATE", "JOIN", "NOTICE", "PART", "PING", "PONG",
             "PRIVMSG", "RECONNECT", "ROOMSTATE", "USERNOTICE", "USERSTATE", "WHISPER"}

Reads(m) ==
    CASE m.command = << "CLEARCHAT" >>       -> ClearChatReads(m)
      [] m.command = << "CLEARMSG" >>        -> ClearMsgReads(m)
      [] m.command = << "GLOBALUSERSTATE" >> -> GlobalUserStateReads(m)
      [] m.command = << "JOIN" >>            -> JoinReads(m)
      [] m.command = << "NOTICE" >>          -> NoticeReads(m)
      [] m.command = << "PART" >>            -> PartReads(m)
      [] m.command = << "PRIVMSG" >>         -> PrivmsgReads(m)
      [] m.command = << "ROOMSTATE" >>       -> RoomStateReads(m)
      [] m.command = << "USERNOTICE" >>      -> UserNoticeReads(m)
      [] m.command = << "USERSTATE" >>       -> UserStateReads(m)
      [] m.command = << "WHISPER" >>         -> WhisperReads(m)
      [] OTHER -> << >>                      \* PING, PONG and RECONNECT read nothing

Typed(m, values) == [is |-> "typed", source |-> m, values |-> values]

\* What a message without a type of its own is delivered as.
Generic(m) == [is |-> "generic", source |-> m]

\* A panic, and the message that was being read.
Panicked(m) == [is |-> "panic", source |-> m]

Outcome(m, result) ==
    CASE result.is = "ok"    -> Typed(m, result.value)
      [] result.is = "error" -> [is |-> "error", error |-> result.error, source |-> m]
      [] OTHER               -> Panicked(m)

OrPanic(read, checked) == IF read.is = "overflow" /\ checked THEN Panic ELSE Unchecked(read)

\* ServerMessage::try_from, in a build that checks arithmetic or one that does
\* not.  The command says which type is tried, so that it never mismatches; an
\* error keeps the message.
TryFrom(m, checked) ==
    IF m.command \in { << c >> : c \in Commands } THEN Outcome(m, OrPanic(All(Reads(m)), checked))
    ELSE Generic(m)

=============================================================================
