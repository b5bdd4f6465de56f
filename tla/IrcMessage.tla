----------------------------- MODULE IrcMessage -----------------------------
(***************************************************************************)
(* The IRC messages of the client: their parts, the parser and the         *)
(* formatter (message/mod.rs, tags.rs, prefix.rs), the messages the client *)
(* handle builds (client/mod.rs), the check of channel names (validate.rs) *)
(* and how the two transports cut a stream into messages.                  *)
(*                                                                         *)
(* A text is a sequence of characters, which are strings.  A word in which *)
(* nothing is ever cut (a tag's key, a command) stands as one character    *)
(* of its kind: "room-id", "PRIVMSG".                                      *)
(***************************************************************************)
EXTENDS Integers, SequencesExt

CONSTANTS Characters,   \* the characters of which texts consist
          Letters,      \* characters that are ASCII letters (and words of them)
          Digits,       \* characters that are digits
          Upper,        \* the upper-case letter of each lower-case one
          LoginChars,   \* characters allowed in a login name
          MaxLogin      \* how many characters a login name may have

ASSUME IrcMessageAssumption ==
    /\ MaxLogin \in Nat \ {0}
    /\ DOMAIN Upper \subseteq Letters /\ Range(Upper) \subseteq Letters \ DOMAIN Upper
    /\ Letters \cup Digits \cup {"s", "r", "n", "#", ".", "/", "me", "reply-parent-msg-id"} \subseteq Characters
    /\ "PRIVMSG" \in Letters \ DOMAIN Upper
    /\ {" ", "@", ":", ";", "=", "!", "\\", "CR", "LF"} \subseteq Characters
    /\ {" ", "@", ":", ";", "=", "!", "\\", "CR", "LF"}
         \cap (Letters \cup Digits \cup LoginChars) = {}

-----------------------------------------------------------------------------
(* Texts *)

\* s cut at the first c: two parts, or s alone when it has no c (splitn(2, c)).
Cut(s, c) ==
    LET at == SelectInSeq(s, LAMBDA x : x = c)
    IN  IF at = 0 THEN << s >>
        ELSE << SubSeq(s, 1, at - 1), SubSeq(s, at + 1, Len(s)) >>

\* s cut at every c.
Split(s, c) ==
    FoldRight(LAMBDA x, parts : IF x = c THEN << << >> >> \o parts
                                ELSE [parts EXCEPT ![1] = << x >> \o @],
              s, << << >> >>)

Concat(texts) == FoldRight(LAMBDA s, t : s \o t, texts, << >>)

StartsWith(s, c) == s # << >> /\ Head(s) = c

Accepted(m) == [is |-> "ok", value |-> m]
Refused(e)  == [is |-> "error", error |-> e]

-----------------------------------------------------------------------------
(* Tags: a function from keys to values *)

\* What a backslash and c stand for in a tag's value.
Unescaped(c) ==
    CASE c = ":" -> ";" [] c = "s" -> " " [] c = "r" -> "CR" [] c = "n" -> "LF" [] OTHER -> c

\* Mutant of DecodeTagValue: escapes are left as they are.
EscapesKept(raw) == raw

\* The text a tag's value stands for; a backslash at the end is dropped.
DecodeTagValue(raw) ==
    FoldLeft(LAMBDA d, c : IF d.escaped THEN [text |-> Append(d.text, Unescaped(c)), escaped |-> FALSE]
                           ELSE IF c = "\\" THEN [d EXCEPT !.escaped = TRUE]
                           ELSE [d EXCEPT !.text = Append(@, c)],
             [text |-> << >>, escaped |-> FALSE], raw).text

\* How c is written in a tag's value.
Escaped(c) ==
    CASE c = ";" -> << "\\", ":" >> [] c = " " -> << "\\", "s" >> [] c = "\\" -> << "\\", "\\" >>
      [] c = "CR" -> << "\\", "r" >> [] c = "LF" -> << "\\", "n" >> [] OTHER -> << c >>

EncodeTagValue(text) == Concat([i \in DOMAIN text |-> Escaped(text[i])])

\* The map of the tags in source: of equal keys the last counts, and a tag
\* without "=" is there with an empty value.
ParseTags(source) ==
    FoldRight(LAMBDA tag, later :
                LET cut == Cut(tag, "=")
                IN  [key \in DOMAIN later \cup {cut[1]} |->
                       IF key \in DOMAIN later THEN later[key]
                       ELSE IF Len(cut) = 1 THEN << >> ELSE DecodeTagValue(cut[2])],
              Split(source, ";"), << >>)

\* The tags written in the given order of their keys (a HashMap has any).
FormatTags(tags, order) ==
    Concat([i \in DOMAIN order |->
        LET value == tags[order[i]]
        IN  (IF i > 1 THEN << ";" >> ELSE << >>) \o order[i]
              \o (IF value = << >> THEN << >> ELSE << "=" >> \o EncodeTagValue(value))])

-----------------------------------------------------------------------------
(* Prefixes; an Option is a sequence of at most one text *)

NoPrefix == [kind |-> "none"]
HostOnly(host) == [kind |-> "host", host |-> host]
Full(nick, user, host) == [kind |-> "full", nick |-> nick, user |-> user, host |-> host]

\* Only with an "@" has a prefix a nick, and perhaps a user.
ParsePrefix(source) ==
    LET at  == Cut(source, "@")
        exc == Cut(at[1], "!")
    IN  IF Len(at) = 1 THEN HostOnly(source) ELSE Full(exc[1], Tail(exc), Tail(at))

\* A user without a host is not written.
FormatPrefix(p) ==
    IF p.kind = "host" THEN p.host
    ELSE IF p.host = << >> THEN p.nick
    ELSE p.nick \o (IF p.user = << >> THEN << >> ELSE << "!" >> \o p.user[1]) \o << "@" >> \o p.host[1]

-----------------------------------------------------------------------------
(* Messages *)

Message(tags, prefix, command, params) ==
    [tags |-> tags, prefix |-> prefix, command |-> command, params |-> params]

\* irc!["COMMAND", params...]
Simple(command, params) == Message(<< >>, NoPrefix, command, params)

Uppercase(s) == [i \in DOMAIN s |-> IF s[i] \in DOMAIN Upper THEN Upper[s[i]] ELSE s[i]]

\* The parameters in s: words between single spaces, then perhaps a trailing
\* one that starts with ":" and takes the rest.
ParseParams(s) ==
    LET colon  == SelectInSubSeq([i \in DOMAIN s |-> s[i] = ":" /\ (i = 1 \/ s[i - 1] = " ")],
                                 1, Len(s), LAMBDA starts : starts)
        middle == IF colon = 1 THEN << >>
                  ELSE Split(IF colon = 0 THEN s ELSE SubSeq(s, 1, colon - 2), " ")
    IN  IF << >> \in ToSet(middle) THEN Refused("TooManySpacesInMiddleParams")
        ELSE Accepted(IF colon = 0 THEN middle ELSE Append(middle, SubSeq(s, colon + 1, Len(s))))

\* The command and what follows it.
ParseCommand(tags, prefix, source) ==
    LET cut     == Cut(source, " ")
        command == Uppercase(cut[1])
        params  == IF Len(cut) = 1 THEN Accepted(<< >>) ELSE ParseParams(cut[2])
    IN  IF command = << >> \/ ~(ToSet(command) \subseteq Letters \/ ToSet(command) \subseteq Digits)
        THEN Refused("MalformedCommand")
        ELSE IF params.is = "error" THEN params
        ELSE Accepted(Message(tags, prefix, command, params.value))

ParsePrefixAndCommand(tags, source) ==
    LET cut == Cut(Tail(source), " ")
    IN  IF ~StartsWith(source, ":") THEN ParseCommand(tags, NoPrefix, source)
        ELSE IF Len(cut) = 1 THEN Refused("NoSpaceAfterPrefix")
        ELSE IF cut[1] = << >> THEN Refused("EmptyPrefixDeclaration")
        ELSE ParseCommand(tags, ParsePrefix(cut[1]), cut[2])

\* IRCMessage::parse
Parse(line) ==
    LET cut == Cut(Tail(line), " ")
    IN  IF {"CR", "LF"} \cap ToSet(line) # {} THEN Refused("NewlinesInMessage")
        ELSE IF ~StartsWith(line, "@") THEN ParsePrefixAndCommand(<< >>, line)
        ELSE IF Len(cut) = 1 THEN Refused("NoSpaceAfterTags")
        ELSE IF cut[1] = << >> THEN Refused("EmptyTagsDeclaration")
        ELSE ParsePrefixAndCommand(ParseTags(cut[1]), cut[2])

\* A parameter that can only be written as the trailing one.
NeedsColon(param) == param = << >> \/ Contains(param, " ") \/ StartsWith(param, ":")

\* The parameters as they are written: those after the first that needs a
\* colon are lost.
FormatParams(params) ==
    LET colon == SelectInSeq(params, NeedsColon)
        kept  == IF colon = 0 THEN params ELSE SubSeq(params, 1, colon)
    IN  Concat([i \in DOMAIN kept |-> (IF i = colon THEN << " ", ":" >> ELSE << " " >>) \o kept[i]])

\* IRCMessage::format_as_raw_irc, with the tags in the given order.
Format(m, order) ==
    (IF m.tags = << >> THEN << >> ELSE << "@" >> \o FormatTags(m.tags, order) \o << " " >>)
      \o (IF m.prefix.kind = "none" THEN << >> ELSE << ":" >> \o FormatPrefix(m.prefix) \o << " " >>)
      \o m.command \o FormatParams(m.params)

-----------------------------------------------------------------------------
(* Channel names and the messages of the client handle *)

\* validate_login: characters are looked at from the left, and the first that
\* is not allowed or is one too many is reported.
ValidateLogin(name) ==
    LET bad == SelectInSeq(name, LAMBDA c : c \notin LoginChars)
    IN  IF bad # 0 /\ bad <= MaxLogin + 1 THEN Refused("InvalidCharacter")
        ELSE IF Len(name) > MaxLogin THEN Refused("TooLong")
        ELSE IF name = << >> THEN Refused("TooShort")
        ELSE Accepted(name)

Privmsg(channel, text) == Simple(<< "PRIVMSG" >>, << << "#" >> \o channel, text >>)

Say(channel, text) == Privmsg(channel, << ".", " " >> \o text)

Me(channel, text) == Privmsg(channel, << "/", "me", " " >> \o text)

\* say_in_reply_to and me_in_reply_to
InReplyTo(id, said) ==
    [said EXCEPT !.tags = [key \in {<< "reply-parent-msg-id" >>} |-> id]]

-----------------------------------------------------------------------------
(* Transports *)

\* What a transport writes for a message: TCP ends it with CR LF, a WebSocket
\* sends it as one text frame.
WriteTCP(line) == line \o << "CR", "LF" >>
WriteWS(line) == line

\* The lines of a text, without the CR before the LF; one that ends the text
\* starts no further line.
Lines(text) ==
    LET all   == Split(text, "LF")
        whole == [i \in DOMAIN all |-> IF i < Len(all) /\ all[i] # << >> /\ Last(all[i]) = "CR"
                                       THEN Front(all[i]) ELSE all[i]]
    IN  IF Last(whole) = << >> THEN Front(whole) ELSE whole

\* What a transport reads from a text: every line that is not empty is parsed.
Read(text) ==
    LET lines == Lines(text)
    IN  Concat([i \in DOMAIN lines |-> IF lines[i] = << >> THEN << >> ELSE << Parse(lines[i]) >>])

=============================================================================
