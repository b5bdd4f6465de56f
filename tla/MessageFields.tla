---------------------------- MODULE MessageFields ----------------------------
(***************************************************************************)
(* What a typed server message reads from an IRC message                   *)
(* (message/commands/mod.rs, IRCMessageParseExt), and what reading a field *)
(* may give.  A read is accepted with a value, refused with an error,      *)
(* panics, or overflows: then a build that checks arithmetic panics, and   *)
(* one that does not goes on with the wrapped number.                      *)
(***************************************************************************)
EXTENDS IrcMessage

CONSTANTS DigitValue,   \* the value of each digit
          Hex,          \* characters that are hexadecimal digits
          Wide,         \* characters of two bytes
          MaxU8, MaxI64, MaxMillis,
          AnonymousGifter   \* the user id of AnAnonymousGifter

ASSUME FieldsAssumption ==
    /\ DigitValue \in [Digits -> 0..9]
    /\ Hex \cap Wide = {}
    /\ MaxU8 \in Nat /\ MaxI64 \in Nat /\ MaxMillis \in 0..MaxI64

MaxU64 == 2 * MaxI64 + 1        \* also of usize

Wrapped(n) == n % (MaxU64 + 1)

-----------------------------------------------------------------------------
(* Results *)

Overflow(result) == [is |-> "overflow", otherwise |-> result]

Panic == [is |-> "panic"]

Unchecked(r) == IF r.is = "overflow" THEN r.otherwise ELSE r

\* Reads made one after the other: the first that fails is what comes of them.
All(reads) ==
    LET results  == [i \in DOMAIN reads |-> Unchecked(reads[i])]
        failed   == SelectInSeq(results, LAMBDA r : r.is # "ok")
        overflow == SelectInSeq(reads, LAMBDA r : r.is = "overflow")
        result   == IF failed = 0 THEN Accepted([i \in DOMAIN results |-> results[i].value])
                    ELSE results[failed]
    IN  IF overflow # 0 /\ (failed = 0 \/ overflow <= failed) THEN Overflow(result) ELSE result

-----------------------------------------------------------------------------
(* Reads of parameters and of the prefix *)

Param(m, n) == IF n > Len(m.params) THEN Refused("MissingParameter") ELSE Accepted(m.params[n])

\* The text of the message without the frame of an action, and whether it has one.
MessageText(m) ==
    LET text   == Param(m, 2).value
        action == Len(text) > 3 /\ SubSeq(text, 1, 3) = << "SOH", "ACTION", " " >> /\ Last(text) = "SOH"
    IN  IF Param(m, 2).is = "error" THEN Param(m, 2)
        ELSE IF action THEN Accepted([text |-> SubSeq(text, 4, Len(text) - 1), action |-> TRUE])
        ELSE Accepted([text |-> text, action |-> FALSE])

ChannelLogin(m) ==
    IF m.params = << >> THEN Param(m, 1)
    ELSE IF ~StartsWith(m.params[1], "#") \/ Len(m.params[1]) < 2 THEN Refused("MalformedChannel")
    ELSE Accepted(Tail(m.params[1]))

OptionalChannelLogin(m) ==
    IF Param(m, 1) = Accepted(<< "*" >>) THEN Accepted(<< >>)
    ELSE LET channel == ChannelLogin(m)
         IN  IF channel.is = "ok" THEN Accepted(<< channel.value >>) ELSE channel

PrefixNickname(m) ==
    CASE m.prefix.kind = "none" -> Refused("MissingPrefix")
      [] m.prefix.kind = "host" -> Refused("MissingNickname")
      [] OTHER -> Accepted(m.prefix.nick)

-----------------------------------------------------------------------------
(* Reads of tags *)

HasTag(m, key) == << key >> \in DOMAIN m.tags

TagValue(m, key) == IF HasTag(m, key) THEN Accepted(m.tags[<< key >>]) ELSE Refused("MissingTag")

Nonempty(m, key) ==
    IF TagValue(m, key) = Accepted(<< >>) THEN Refused("MissingTagValue") ELSE TagValue(m, key)

OptionalNonempty(m, key) ==
    IF ~HasTag(m, key) THEN Accepted(<< >>)
    ELSE IF Nonempty(m, key).is = "ok" THEN Accepted(<< m.tags[<< key >>] >>) ELSE Nonempty(m, key)

\* str::parse for an integer: an optional sign, then digits, within the bounds.
FromStr(v, low, high) ==
    LET signs  == IF low < 0 THEN {"+", "-"} ELSE {"+"}
        digits == IF v # << >> /\ Head(v) \in signs THEN Tail(v) ELSE v
        size   == FoldLeft(LAMBDA n, c : 10 * n + DigitValue[c], 0, digits)
        number == IF StartsWith(v, "-") THEN -size ELSE size
    IN  IF digits = << >> \/ ~(ToSet(digits) \subseteq Digits) THEN Refused("MalformedTagValue")
        ELSE IF number < low \/ number > high THEN Refused("MalformedTagValue")
        ELSE Accepted(number)

U64(v) == FromStr(v, 0, MaxU64)
I64(v) == FromStr(v, -MaxI64 - 1, MaxI64)

Number(m, key) == IF Nonempty(m, key).is = "ok" THEN U64(m.tags[<< key >>]) ELSE Nonempty(m, key)

\* A number of one byte, which says yes unless it is 0.
Truth(v) == LET n == FromStr(v, 0, MaxU8) IN IF n.is = "ok" THEN Accepted(n.value > 0) ELSE n

Bool(m, key) == IF Nonempty(m, key).is = "ok" THEN Truth(m.tags[<< key >>]) ELSE Nonempty(m, key)

\* An option read by a tag that may be absent, but not empty.
Optional(m, key, read) ==
    IF ~HasTag(m, key) \/ Nonempty(m, key).is = "error" THEN OptionalNonempty(m, key) ELSE All(<< read >>)

OptionalNumber(m, key) == Optional(m, key, U64(m.tags[<< key >>]))

OptionalBool(m, key) == Optional(m, key, Truth(m.tags[<< key >>]))

Timestamp(m, key) ==
    LET millis == I64(m.tags[<< key >>])
    IN  IF Nonempty(m, key).is = "error" THEN Nonempty(m, key)
        ELSE IF millis.is = "ok" /\ millis.value \notin (-MaxMillis)..MaxMillis
        THEN Refused("MalformedTagValue") ELSE millis

\* All five tags of the message replied to, or none.
OptionalReplyParent(m) ==
    IF ~HasTag(m, "reply-parent-msg-id") THEN Accepted(<< >>)
    ELSE All(<< TagValue(m, "reply-parent-msg-id"), Nonempty(m, "reply-parent-user-id"),
                Nonempty(m, "reply-parent-user-login"), Nonempty(m, "reply-parent-display-name"),
                TagValue(m, "reply-parent-msg-body") >>)

\* What a tag that must be there is cut into at every c: nothing if it is empty.
Parts(m, key, c) == IF m.tags[<< key >>] = << >> THEN << >> ELSE Split(m.tags[<< key >>], c)

EmoteSets(m, key) ==
    IF HasTag(m, key) THEN Accepted(ToSet(Parts(m, key, ","))) ELSE TagValue(m, key)

Badge(part) == IF Len(Cut(part, "/")) = 1 THEN Refused("MalformedTagValue") ELSE Accepted(Cut(part, "/"))

Badges(m, key) ==
    LET badges == Parts(m, key, ",")
    IN  IF HasTag(m, key) THEN All([i \in DOMAIN badges |-> Badge(badges[i])]) ELSE TagValue(m, key)

\* A text in bytes: each is a character and which of its bytes it is.
Bytes(text) ==
    Concat([i \in DOMAIN text |-> IF text[i] \in Wide THEN << << text[i], 1 >>, << text[i], 2 >> >>
                                  ELSE << << text[i], 1 >> >>])

\* Two hexadecimal digits, the bytes i and i + 1; cutting through a character panics.
HexPair(bytes, i) ==
    LET first  == bytes[i][1]
        second == bytes[i + 1][1]
    IN  IF bytes[i][2] = 2 \/ (i + 2 <= Len(bytes) /\ bytes[i + 2][2] = 2) THEN Panic
        ELSE IF second \in Hex /\ first \in Hex \cup {"+"} THEN Accepted(<< first, second >>)
        ELSE Refused("MalformedTagValue")

\* The colour: seven bytes, of which the first is not looked at.
Color(m, key) ==
    LET value == m.tags[<< key >>]
        bytes == Bytes(value)
    IN  IF TagValue(m, key).is = "error" THEN TagValue(m, key)
        ELSE IF value = << >> THEN Accepted(<< >>)
        ELSE IF Len(bytes) # 7 THEN Refused("MalformedTagValue")
        ELSE All([i \in 1..3 |-> HexPair(bytes, 2 * i)])

-----------------------------------------------------------------------------
(* Emotes *)

\* Mutant of RangeEnd: the end is taken as it was sent.
RangeEndAsSent(to) == to

\* Mutant of RangeOverflows: the length is computed before one is added.
OverflowsBeforeAdding(from, to) == to = MaxU64 \/ to < from

\* The end of a range is exclusive, one more than was sent.
RangeEnd(to) == Wrapped(to + 1)

RangeOverflows(from, to) == to = MaxU64 \/ to + 1 < from

\* An emote and the characters of the text it covers: as many as there are.
Emote(id, from, to, text) ==
    LET end    == RangeEnd(to)
        length == Wrapped(end - from)
        last   == IF from + length > Len(text) THEN Len(text) ELSE from + length
        emote  == Accepted([id |-> id, start |-> from, end |-> end, code |-> SubSeq(text, from + 1, last)])
    IN  IF RangeOverflows(from, to) THEN Overflow(emote) ELSE emote

\* One range of an emote, from-to.
EmoteRange(id, range, text) ==
    LET cut  == Cut(range, "-")
        ends == All(<< U64(cut[1]), U64(cut[2]) >>)
    IN  IF Len(cut) = 1 THEN Refused("MalformedTagValue")
        ELSE IF ends.is = "error" THEN ends
        ELSE Emote(id, ends.value[1], ends.value[2], text)

\* An emote with its ranges.
EmoteRanges(part, text) ==
    LET cut    == Cut(part, ":")
        ranges == Split(cut[2], ",")
    IN  IF Len(cut) = 1 THEN Refused("MalformedTagValue")
        ELSE All([i \in DOMAIN ranges |-> EmoteRange(cut[1], ranges[i], text)])

\* The emotes in the order in which they start, those that start together in any.
Sorted(emotes) ==
    LET order == CHOOSE p \in Bijection(DOMAIN emotes, DOMAIN emotes) :
                    \A i, j \in DOMAIN emotes : i < j => emotes[p[i]].start <= emotes[p[j]].start
    IN  [i \in DOMAIN emotes |-> emotes[order[i]]]

\* The emotes read of each part, sorted.
ByStart(all) ==
    LET sorted == [Unchecked(all) EXCEPT !.value = Sorted(Concat(@))]
    IN  IF Unchecked(all).is # "ok" THEN all
        ELSE IF all.is = "overflow" THEN Overflow(sorted) ELSE sorted

Emotes(m, key, text) ==
    LET parts == Parts(m, key, "/")
    IN  IF HasTag(m, key) THEN ByStart(All([i \in DOMAIN parts |-> EmoteRanges(parts[i], text)]))
        ELSE TagValue(m, key)

=============================================================================
