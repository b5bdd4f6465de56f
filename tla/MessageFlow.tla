----------------------------- MODULE MessageFlow -----------------------------
(***************************************************************************)
(* Messages on their way: the server, or another client, composes one and  *)
(* writes it to a transport; the client cuts what it reads into lines,     *)
(* parses them, reads them as typed messages and hands them to the user;   *)
(* the user may write a message again as raw IRC, for another client.      *)
(***************************************************************************)
EXTENDS ServerMessage

CONSTANTS Catalogue,    \* messages of the server, with every tag as it should be
          Values,       \* values a tag may have instead
          Fragments,    \* pieces of which texts are typed
          MaxPieces,    \* bound: pieces of a text
          MaxSaid,      \* bound: pieces of the text of a chat message
          MaxChanges,   \* bound: tags of a message that are not as they should be
          Channels,     \* names of channels users write to
          Nothing       \* no message

\* Texts that have none of the given characters.
Without(out) == {text \in Seq(Characters) : ToSet(text) \cap out = {}}

Words == Without({" ", "CR", "LF"})

\* A prefix that says which of its parts is which: without a host it has no user,
\* and a host alone is no "nick@host".
PrefixCanBeWritten(p) ==
    \/ p = NoPrefix
    \/ p = HostOnly(p.host) /\ p.host \in Words \ {<< >>} /\ "@" \notin ToSet(p.host)
    \/ /\ p = Full(p.nick, p.user, p.host)
       /\ p.nick \in Words /\ {"@", "!"} \cap ToSet(p.nick) = {}
       /\ p.user = << >> \/ (p.user = << p.user[1] >> /\ p.user[1] \in Words /\ "@" \notin ToSet(p.user[1]))
       /\ p.host = << p.host[1] >> /\ p.host[1] \in Words

\* A message that a line can carry, as a server composes it.
CanBeWritten(m) ==
    /\ m = Message(m.tags, m.prefix, m.command, m.params)
    /\ m.tags \in [DOMAIN m.tags -> Seq(Characters)] /\ IsFiniteSet(DOMAIN m.tags)
    /\ \A key \in DOMAIN m.tags : key \in Without({";", " ", "CR", "LF"}) \ {<< >>} /\ "=" \notin ToSet(key)
    /\ PrefixCanBeWritten(m.prefix)
    /\ m.command \in Without({"CR", "LF"}) \ {<< >>} /\ Uppercase(m.command) = m.command
    /\ ToSet(m.command) \subseteq Letters \/ ToSet(m.command) \subseteq Digits
    /\ m.params \in Seq(Without({"CR", "LF"}))
    /\ \A i \in 1..(Len(m.params) - 1) : ~NeedsColon(m.params[i])

ASSUME FlowAssumption ==
    /\ \A m \in Catalogue : CanBeWritten(m) /\ TryFrom(m, TRUE).is = "typed"
    /\ Values \cup Fragments \cup Channels \cup {<< "id" >>} \subseteq Seq(Characters)
    /\ Nothing \notin Seq(Characters)
    /\ MaxPieces \in Nat

VARIABLES meant,    \* the IRC message that is being sent, if it is known
          typed,    \* a text somebody types, in pieces: a raw line, or what to say
          changed,  \* the tags of the message that are not as they should be
          sender,   \* who has sent it: nobody yet, the server, a peer or a client
          wire,     \* what has been written to the transport and not been read
          received, \* what was handed to the user and not sent on
          before,   \* what a user has sent on
          checked   \* whether the build checks arithmetic

vars == << meant, typed, changed, sender, wire, received, before, checked >>

Init ==
    /\ meant \in Catalogue \cup {Nothing}
    /\ typed = << >> /\ changed = {}
    /\ sender = "nobody" /\ wire = Nothing /\ received = << >> /\ before = << >>
    /\ checked \in BOOLEAN

-----------------------------------------------------------------------------
(* The orders in which a HashMap may give the keys of tags *)

AnyOrder(keys) ==
    LET some == FoldSet(LAMBDA k, s : Append(s, k), << >>, keys)
    IN  IF Cardinality(keys) <= 3 THEN SetToSeqs(keys) ELSE {some, Reverse(some)}

Written(transport, line) == IF transport = "TCP" THEN WriteTCP(line) ELSE WriteWS(line)

SendAs(who, transport, line) ==
    /\ sender = "nobody" /\ sender' = who
    /\ wire' = Written(transport, line)

-----------------------------------------------------------------------------
(* Senders *)

\* The server leaves a tag out or gives it another value.
ChangeTag ==
    /\ sender = "nobody" /\ meant # Nothing /\ Cardinality(changed) < MaxChanges
    /\ \E key \in DOMAIN meant.tags \ changed :
         /\ changed' = changed \cup {key}
         /\ \/ meant' = [meant EXCEPT !.tags = Restrict(@, DOMAIN @ \ {key})]
            \/ \E value \in Values \ {meant.tags[key]} : meant' = [meant EXCEPT !.tags[key] = value]
    /\ UNCHANGED << typed, sender, wire, received, before, checked >>

ServerSends ==
    /\ meant # Nothing
    /\ \E order \in AnyOrder(DOMAIN meant.tags) : SendAs("server", "TCP", Format(meant, order))
    /\ UNCHANGED << meant, typed, changed, received, before, checked >>

\* Somebody types one more piece of a text.
Type ==
    /\ sender = "nobody" /\ meant = Nothing
    /\ Len(typed) < MaxPieces
    /\ \E piece \in Fragments : typed' = Append(typed, piece)
    /\ UNCHANGED << meant, changed, sender, wire, received, before, checked >>

\* The peer writes the text as it is.
SendLine ==
    /\ meant = Nothing
    /\ SendAs("peer", "WS", Concat(typed))
    /\ UNCHANGED << meant, typed, changed, received, before, checked >>

\* A user has the client send the text to a channel: privmsg(), say(), me(), or
\* the latter two in reply to a message.
Send ==
    /\ meant = Nothing /\ Len(typed) <= MaxSaid
    /\ \E channel \in Channels :
         LET text == Concat(typed)
             said == {Say(channel, text), Me(channel, text)}
         IN  meant' \in said \cup {Privmsg(channel, text)} \cup { InReplyTo(<< "id" >>, m) : m \in said }
    /\ \E order \in AnyOrder(DOMAIN meant'.tags), transport \in {"TCP", "WS"} :
         SendAs("client", transport, Format(meant', order))
    /\ UNCHANGED << typed, changed, received, before, checked >>

-----------------------------------------------------------------------------
(* The receiving client *)

Closed(error) == [is |-> "closed", error |-> error]

\* Mutant of OrGeneric: a message that fails to be read as its type closes the
\* connection.
OrClosed(result) == IF result.is = "error" THEN Closed(result.error) ELSE result

OrGeneric(result) == IF result.is = "error" THEN Generic(result.source) ELSE result

\* What the connection hands out for a line: an error of the transport closes
\* it, one of the typed message does not.
OnIncomingMessage(parsed) ==
    IF parsed.is = "error" THEN Closed(parsed.error) ELSE OrGeneric(TryFrom(parsed.value, checked))

\* What is handed out, up to what ends the connection.
UpToEnd(results) ==
    LET end == SelectInSeq(results, LAMBDA r : r.is \in {"closed", "panic"})
    IN  IF end = 0 THEN results ELSE SubSeq(results, 1, end)

\* Everything on the wire is read.
Receive ==
    /\ wire # Nothing
    /\ LET parsed == Read(wire)
       IN  received' = UpToEnd([i \in DOMAIN parsed |-> OnIncomingMessage(parsed[i])])
    /\ wire' = Nothing
    /\ UNCHANGED << meant, typed, changed, sender, before, checked >>

\* The user sends a message on that was received: ServerMessage::as_raw_irc.
SendOn ==
    /\ before = << >> /\ Len(received) = 1
    /\ received[1].is \in {"typed", "generic"}
    /\ before' = received /\ received' = << >>
    /\ LET m == received[1].source
       IN  \E order \in AnyOrder(DOMAIN m.tags) : wire' = WriteTCP(Format(m, order))
    /\ UNCHANGED << meant, typed, changed, sender, checked >>

Next == ChangeTag \/ ServerSends \/ Type \/ SendLine \/ Send \/ Receive \/ SendOn

Spec == Init /\ [][Next]_vars

-----------------------------------------------------------------------------
(* Properties *)

Received == ToSet(received)

AllRead == sender # "nobody" /\ wire = Nothing

\* Every variable holds what it should: a type has read all of its fields.
TypeOK ==
    /\ typed \in Seq(Fragments) /\ Len(typed) <= MaxPieces /\ checked \in BOOLEAN
    /\ sender \in {"nobody", "server", "peer", "client"}
    /\ wire \in Seq(Characters) \cup {Nothing}
    /\ \A r \in Received : r.is \in {"typed", "generic", "closed", "panic"}

\* Channels and texts of the client handle that a line can carry: a channel is a
\* login that validate_login() accepts, and a text has no line breaks.
Sound(m) ==
    /\ ValidateLogin(Tail(m.params[1])).is = "ok"
    /\ {"CR", "LF"} \cap ToSet(Concat(typed)) = {}

\* A range of an emote, from-to, as it was sent.
RangeSent(id, range) ==
    LET ends == Cut(range, "-")
    IN  [id |-> id, from |-> U64(ends[1]).value, to |-> U64(ends[2]).value]

\* The ranges in an emotes tag.
RangesSent(tag) ==
    LET parts == IF tag = << >> THEN << >> ELSE Split(tag, "/")
    IN  Concat([n \in DOMAIN parts |->
            LET cut    == Cut(parts[n], ":")
                ranges == IF Len(cut) = 1 THEN << >> ELSE Split(cut[2], ",")
            IN  [i \in DOMAIN ranges |-> RangeSent(cut[1], ranges[i])]])

\* Values that a field of the message cannot hold: a range of an emote that ends
\* before it starts or at the greatest number, a time of followers-only mode that is
\* too great in seconds, both in a build that checks arithmetic, and a colour with a
\* character of several bytes.
Disordered(m) ==
    \/ /\ checked /\ HasTag(m, "emotes")
       /\ \E r \in ToSet(RangesSent(m.tags[<< "emotes" >>])) : r.from > r.to + 1 \/ r.to = MaxU64
    \/ /\ checked /\ HasTag(m, "followers-only")
       /\ I64(m.tags[<< "followers-only" >>]).value > MaxI64 \div 60
    \/ HasTag(m, "color") /\ ToSet(m.tags[<< "color" >>]) \cap Wide # {}

\* A message is delivered once and exactly as its sender meant it, through the
\* formatter, the transport, the parser and back out of the typed message or of the
\* error that refused the type: a bad tag costs the user neither the message nor the
\* connection (the comment at connection/event_loop.rs:548-551), but for the values
\* above, for which the connection panics and nothing is delivered.  What a user says
\* is held to this when it is sound.
DeliveredAsMeant ==
    AllRead /\ (sender = "server" \/ (sender = "client" /\ Sound(meant))) =>
        /\ Len(received) = 1
        /\ IF received[1].is = "panic"
           THEN Disordered(meant)
           ELSE received[1].is \in {"typed", "generic"} /\ received[1].source = meant

\* Tags that a message need not have: those of its type's optional fields.
Optionals(command) ==
    CASE command = << "PRIVMSG" >> -> {<< "bits" >>, << "reply-parent-msg-id" >>}
      [] command = << "CLEARCHAT" >> -> {<< "ban-duration" >>}
      [] command = << "NOTICE" >> -> {<< "msg-id" >>}
      [] command = << "ROOMSTATE" >> -> {<< "emote-only" >>, << "followers-only" >>, << "r9k" >>,
                                         << "slow" >>, << "subs-only" >>}
      [] command = << "USERNOTICE" >> -> {<< "msg-param-promo-name" >>, << "msg-param-promo-gift-total" >>,
                                          << "msg-param-color" >>}
      [] OTHER -> {}

\* A message of the server has its type when only tags are missing that it need
\* not have.
TypedWithoutOptionals ==
    LET missing == changed \subseteq Optionals(meant.command) \ DOMAIN meant.tags
    IN  AllRead /\ sender = "server" /\ missing => received[1].is = "typed"

\* A message that was received and is sent on as raw IRC is received as the
\* same, whatever the order of its tags, unless its only tag has neither a key
\* nor a value.
SentOnUnchanged ==
    before # << >> /\ AllRead =>
        received = before \/ before[1].source.tags = [key \in {<< >>} |-> << >>]

\* Messages with a tag of emotes that is read, and what is read of it.
ReadsEmotes(m) ==
    m.command \in {<< "PRIVMSG" >>, << "WHISPER" >>} \/ (m.command = << "USERNOTICE" >> /\ Len(m.params) > 1)

EmotesOf(r) ==
    CASE r.source.command = << "PRIVMSG" >> -> r.values[11]
      [] r.source.command = << "WHISPER" >> -> r.values[2]
      [] OTHER -> r.values[Len(r.values) - 8]

\* The text they are in: of an action what is in its frame.
Spoken(m) ==
    LET text == m.params[2]
    IN  IF m.command = << "PRIVMSG" >> /\ Len(text) > 3 /\ SubSeq(text, 1, 3) = << "SOH", "ACTION", " " >>
             /\ Last(text) = "SOH"
        THEN SubSeq(text, 4, Len(text) - 1) ELSE text

\* The emotes of a typed message are those of its tag, one for each range, in the
\* order in which they start; and each that has a range covers the characters of
\* the text in that range as far as there are any, of an action those after its
\* frame.
EmotesCutTheText ==
    \A r \in Received : r.is = "typed" /\ ReadsEmotes(r.source) =>
        LET emotes == EmotesOf(r)
            sent   == RangesSent(r.source.tags[<< "emotes" >>])
            said   == Spoken(r.source)
        IN  /\ \A i, j \in DOMAIN emotes : i < j => emotes[i].start <= emotes[j].start
            /\ \E place \in Bijection(DOMAIN emotes, DOMAIN sent) : \A i \in DOMAIN emotes :
                 LET range == sent[place[i]]
                 IN  /\ emotes[i].id = range.id /\ emotes[i].start = range.from
                     /\ emotes[i].end = Wrapped(range.to + 1)
                     /\ range.from <= range.to /\ range.to < MaxU64 =>
                          emotes[i].code = SubSeq(said, range.from + 1,
                                                  IF range.to < Len(said) THEN range.to + 1 ELSE Len(said))

\* Only disordered values make the client panic, whoever sent them and whatever else
\* the message has: every other value is read or refused.
PanicsOnlyOnDisorder == \A r \in Received : r.is = "panic" => Disordered(r.source)

=============================================================================
