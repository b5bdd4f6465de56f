---------------------------- MODULE MCMessageFlow ----------------------------
(* Messages as the repository's tests have them, with short values. *)
EXTENDS MessageFlow

MCCharacters == STRING
MCUpper == ("s" :> "S")
MCDigits == {"0", "1", "2", "3", "4", "5", "6", "7", "8", "9"}
MCDigitValue == [d \in MCDigits |-> CHOOSE n \in 0..9 : ToString(n) = d]
MCLetters == {"s", "S"} \cup Commands
MCHex == MCDigits \cup {"A", "F"}
MCLoginChars == {"a", "b", "1"}

\* Tags from pairs of key and value; a value of one character is given alone.
T(pairs) == [k \in { << p[1] >> : p \in pairs } |-> (CHOOSE p \in pairs : << p[1] >> = k)[2]]
W(word) == << word >>
Named(words) == { << w, << w >> >> : w \in words }

Red == << "#", "1", "9", "F", "A", "+", "6" >>
Badge1 == << "mod", "/", "1", ",", "sub", "/", "1", "2" >>
Smiles == << "e", ":", "2", "-", "4", ",", "0", "-", "0", "/", "f", ":", "4", "-", "9" >>
Chat == << "#", "a", "b" >>
Server == HostOnly(W("tmi"))
User == Full(W("bo"), << W("bo") >>, << W("bo.tmi") >>)
Speech == << "s", " ", ":", "s", "s", " ", "1" >>
Action == << "SOH", "ACTION", " " >> \o Speech \o W("SOH")
Reply == Named({"reply-parent-msg-id", "reply-parent-user-id", "reply-parent-user-login",
                "reply-parent-display-name"}) \cup {<< "reply-parent-msg-body", Speech >>}
Look == {<< "badge-info", << >> >>, << "badges", Badge1 >>, << "color", Red >>}
Time == {<< "tmi-sent-ts", << "5", "9" >> >>}
Sets == {<< "emote-sets", << "0", ",", "4", "2" >> >>}

Priv(tags, text) ==
    Message(T(tags \cup Look \cup Time \cup Named({"room-id", "user-id", "display-name", "id"})
              \cup {<< "emotes", Smiles >>}), User, W("PRIVMSG"), << Chat, text >>)
Notice(id, user, tags, params) ==
    Message(T(tags \cup Look \cup Time \cup Named({"room-id", "login", "display-name", "id"})
              \cup {<< "msg-id", W(id) >>, << "user-id", W(user) >>, << "emotes", Smiles >>,
                    << "system-msg", Speech >>}), Server, W("USERNOTICE"), << Chat >> \o params)
Plan == Named({"msg-param-sub-plan", "msg-param-sub-plan-name"})
Num(keys) == { << k, << "1", "2" >> >> : k \in keys }
Sub == Plan \cup Num({"msg-param-cumulative-months", "msg-param-should-share-streak", "msg-param-streak-months"})
Gift == Plan \cup Num({"msg-param-months", "msg-param-gift-months"})
        \cup Named({"msg-param-recipient-id", "msg-param-recipient-user-name", "msg-param-recipient-display-name"})
Wave == Named({"msg-param-sub-plan"}) \cup Num({"msg-param-mass-gift-count"})
Promo == Named({"msg-param-promo-name"}) \cup Num({"msg-param-promo-gift-total"})

MCCatalogue == {
    Priv({<< "bits", W("5") >>}, Speech), Priv(Reply, Action), Priv({}, << >>),
    Notice("resub", "7", Sub, << Speech >>), Notice("raid", "7", Num({"msg-param-viewerCount"})
        \cup Named({"msg-param-profileImageURL"}), << >>),
    Notice("subgift", AnonymousGifter, Gift, << >>), Notice("submysterygift", AnonymousGifter, Wave, << >>),
    Notice("submysterygift", "7", Wave \cup Num({"msg-param-sender-count"}), << >>),
    Notice("giftpaidupgrade", "7", Promo \cup Named({"msg-param-sender-login", "msg-param-sender-name"}), << >>),
    Notice("anongiftpaidupgrade", "7", Promo, << >>), Notice("ritual", "7", Named({"msg-param-ritual-name"}), << >>),
    Notice("bitsbadgetier", "7", Num({"msg-param-threshold"}), << >>),
    Notice("announcement", "7", Named({"msg-param-color"}), << Speech >>), Notice("other", "7", {}, << >>),
    Message(T(Time \cup Named({"room-id", "target-user-id"}) \cup Num({"ban-duration"})), Server,
            W("CLEARCHAT"), << Chat, W("a") >>),
    Message(T(Time \cup Named({"room-id"})), Server, W("CLEARCHAT"), << Chat >>),
    Message(T(Time \cup Named({"login", "target-msg-id"})), Server, W("CLEARMSG"), << Chat, Action >>),
    Message(T(Look \cup Sets \cup Named({"user-id", "display-name"})), Server, W("GLOBALUSERSTATE"), << >>),
    Message(T(Look \cup Sets \cup Named({"display-name"})), Server, W("USERSTATE"), << Chat >>),
    Message(T(Look \cup Named({"user-id", "display-name"}) \cup {<< "emotes", Smiles >>}), User,
            W("WHISPER"), << W("a"), Speech >>),
    Message(T(Named({"room-id"}) \cup { << k, W("1") >> : k \in {"emote-only", "followers-only", "r9k", "slow",
            "subs-only"} }), Server, W("ROOMSTATE"), << Chat >>),
    Message(T(Named({"msg-id"})), Server, W("NOTICE"), << W("*"), Speech >>),
    Message(<< >>, User, W("JOIN"), << Chat >>), Message(<< >>, User, W("PART"), << Chat >>),
    Simple(W("PING"), << >>), Message(<< >>, Server, W("PONG"), << W("tmi"), << >> >>), Simple(W("RECONNECT"), << >>) }

MCValues == {
    << >>, W("x"), << "-", "1" >>, << "1", "5", "0" >>, << "2" >>, << "LF", " ", ";", "\\", "=" >>,
    << "e", ":", "3", "-", "1" >>, << "e", ":", "0", "-", "1", "4", "1" >>, << "e", ":", "6", "-", "5" >>,
    << "e", ":", "1", "-", "x", "/", "e", ":", "3", "-", "1" >>, << "#", "A", "wide", "0", "0", "0" >>,
    << "wide", "0", "0", "0", "0", "0" >> }

MCFragments == {W("@"), W(":"), W(" "), W(";"), W("="), << "=", "\\" >>, W("\\"), W("s"), W("!"), W("LF"), << "s", " ", "s" >>}

MCChannels == {<< >>, W("a"), << "a", "1", "b" >>, << "a", "b", "a", "b" >>, << "a", " ", "b" >>, W("S")}

=============================================================================
