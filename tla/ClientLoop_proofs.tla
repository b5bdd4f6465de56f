------------------------- MODULE ClientLoop_proofs -------------------------
(***************************************************************************)
(* Theorems about `ClientLoop`, for every set of channels, every limit and *)
(* every bound: what the pool wants; then its bookkeeping: the deque, the  *)
(* limit on channels, the lookups of connections, the whisper connection,  *)
(* the gauges, and what a connection's traffic with the server amounts to. *)
(***************************************************************************)
EXTENDS ClientLoop, SequenceTheorems, FiniteSetTheorems, WellFoundedInduction, TLAPS

(***************************************************************************)
(* The deque                                                               *)
(***************************************************************************)

\* `position` finds a connection of the set when the deque has one.
LEMMA FirstOfFound ==
    ASSUME connections \in Seq(Ids), NEW S, Live \cap S # {}
    PROVE  FirstOf(S) \in Live \cap S
<1> DEFINE found == {i \in 1..Len(connections) : connections[i] \in S}
<1>1. DOMAIN connections = 1..Len(connections) /\ Len(connections) \in Nat
  OBVIOUS
<1>2. found # {} /\ found \subseteq Nat
  BY <1>1 DEF Live, ToSet
<1>3. PICK i \in found : \A j \in found : ~(<<j, i>> \in OpToRel(<, Nat))
  <2> HIDE DEF found
  <2> QED BY <1>2, NatLessThanWellFounded, WFMin
<1>4. \A j \in 1..(i - 1) : connections[j] \notin S
  <2> SUFFICES ASSUME NEW j \in 1..(i - 1), connections[j] \in S PROVE FALSE
    OBVIOUS
  <2>1. j \in found /\ j < i /\ i \in Nat /\ j \in Nat
    BY <1>1
  <2>2. <<j, i>> \in OpToRel(<, Nat)
    BY <2>1 DEF OpToRel
  <2> QED BY <1>3, <2>1, <2>2
<1>5. \E k \in DOMAIN connections : /\ connections[k] \in S
                                    /\ \A j \in 1..(k - 1) : connections[j] \notin S
  BY <1>1, <1>4
<1>6. PICK k \in DOMAIN connections : connections[k] \in S /\ FirstOf(S) = connections[k]
  BY <1>5 DEF FirstOf
<1> QED BY <1>6 DEF Live, ToSet

\* The deque without the connection at place k.
WithoutAt(c, k) ==
    /\ Without(c) \in Seq(Ids)
    /\ k \in 1..Len(connections) /\ connections[k] = c
    /\ Len(connections) \in Nat /\ Len(Without(c)) = Len(connections) - 1
    /\ \A i \in 1..(Len(connections) - 1) :
          Without(c)[i] = IF i < k THEN connections[i] ELSE connections[i + 1]

LEMMA WithoutPlace ==
    ASSUME connections \in Seq(Ids), NEW c \in Live
    PROVE  \E k : WithoutAt(c, k)
<1> DEFINE k == CHOOSE i \in DOMAIN connections : connections[i] = c
           front == SubSeq(connections, 1, k - 1)
           back == SubSeq(connections, k + 1, Len(connections))
           n == Len(connections)
<1>1. n \in Nat /\ DOMAIN connections = 1..n
  OBVIOUS
<1>2. k \in 1..n /\ connections[k] = c
  <2>1. \E i \in DOMAIN connections : connections[i] = c
    BY DEF Live, ToSet
  <2> QED BY <1>1, <2>1
<1> HIDE DEF k
<1>3. /\ front \in Seq(Ids) /\ Len(front) = k - 1
      /\ \A i \in 1..(k - 1) : front[i] = connections[i]
  <2>1. /\ 1 \in Int /\ k - 1 \in Int /\ \A i \in 1..(k - 1) : connections[i] \in Ids
    BY <1>1, <1>2
  <2>2. /\ front \in Seq(Ids)
        /\ Len(front) = IF 1 <= k - 1 THEN (k - 1) - 1 + 1 ELSE 0
        /\ \A i \in 1..((k - 1) - 1 + 1) : front[i] = connections[1 + i - 1]
    BY <2>1, SubSeqProperties
  <2> QED BY <1>1, <1>2, <2>2
<1>4. /\ back \in Seq(Ids) /\ Len(back) = n - k
      /\ \A i \in 1..(n - k) : back[i] = connections[k + i]
  <2>1. /\ k + 1 \in Int /\ n \in Int /\ \A i \in (k + 1)..n : connections[i] \in Ids
    BY <1>1, <1>2
  <2>2. /\ back \in Seq(Ids)
        /\ Len(back) = IF k + 1 <= n THEN n - (k + 1) + 1 ELSE 0
        /\ \A i \in 1..(n - (k + 1) + 1) : back[i] = connections[(k + 1) + i - 1]
    BY <2>1, SubSeqProperties
  <2> QED BY <1>1, <1>2, <2>2
<1>5. Without(c) = front \o back
  BY DEF Without, RemoveAt, k
<1> HIDE DEF front, back, n
<1>6. /\ Without(c) \in Seq(Ids) /\ Len(Without(c)) = n - 1
      /\ \A i \in 1..(n - 1) : Without(c)[i] = IF i < k THEN connections[i]
                                               ELSE connections[i + 1]
  <2>1. /\ front \o back \in Seq(Ids)
        /\ Len(front \o back) = Len(front) + Len(back)
        /\ \A i \in 1..(Len(front) + Len(back)) :
              (front \o back)[i] = IF i <= Len(front) THEN front[i] ELSE back[i - Len(front)]
    BY <1>3, <1>4, ConcatProperties
  <2>2. Len(front) + Len(back) = n - 1
    BY <1>1, <1>2, <1>3, <1>4
  <2>3. ASSUME NEW i \in 1..(n - 1)
        PROVE  (front \o back)[i] = IF i < k THEN connections[i] ELSE connections[i + 1]
    <3>1. CASE i < k
      BY <1>1, <1>2, <1>3, <2>1, <2>2, <3>1
    <3>2. CASE ~(i < k)
      <4>1. i - (k - 1) \in 1..(n - k) /\ k + (i - (k - 1)) = i + 1
        BY <1>1, <1>2, <3>2
      <4>2. (front \o back)[i] = back[i - (k - 1)]
        BY <1>1, <1>2, <1>3, <2>1, <2>2, <3>2
      <4> QED BY <1>4, <3>2, <4>1, <4>2
    <3> QED BY <3>1, <3>2
  <2> QED BY <1>5, <2>1, <2>2, <2>3
<1> QED BY <1>1, <1>2, <1>6 DEF WithoutAt, n

\* Removing one element keeps the type and every other element.
LEMMA WithoutKeeps ==
    ASSUME connections \in Seq(Ids), NEW c \in Live
    PROVE  /\ Without(c) \in Seq(Ids)
           /\ \A d \in Live : d # c => d \in ToSet(Without(c))
           /\ ToSet(Without(c)) \subseteq Live
<1> DEFINE n == Len(connections)
<1>1. PICK k : WithoutAt(c, k)
  BY WithoutPlace
<1>2. n \in Nat /\ DOMAIN connections = 1..n
  OBVIOUS
<1>3. k \in 1..n /\ connections[k] = c
  BY <1>1 DEF WithoutAt
<1>4. /\ Without(c) \in Seq(Ids) /\ Len(Without(c)) = n - 1
      /\ \A i \in 1..(n - 1) : Without(c)[i] = IF i < k THEN connections[i]
                                               ELSE connections[i + 1]
  BY <1>1 DEF WithoutAt
<1> HIDE DEF n
<1>5. DOMAIN Without(c) = 1..(n - 1)
  BY <1>4
<1>6. ASSUME NEW d \in Live, d # c PROVE d \in ToSet(Without(c))
  <2>1. PICK i \in 1..n : connections[i] = d
    BY <1>2 DEF Live, ToSet
  <2>2. CASE i < k
    BY <1>2, <1>3, <1>4, <1>5, <2>1, <2>2 DEF ToSet
  <2>3. CASE i > k
    <3>1. /\ i - 1 \in 1..(n - 1) /\ ~(i - 1 < k) /\ (i - 1) + 1 = i
      BY <1>2, <1>3, <2>3
    <3>2. Without(c)[i - 1] = d
      BY <1>4, <2>1, <3>1
    <3> QED BY <1>5, <3>1, <3>2 DEF ToSet
  <2> QED BY <1>2, <1>3, <1>6, <2>1, <2>2, <2>3
<1>7. ToSet(Without(c)) \subseteq Live
  <2> SUFFICES ASSUME NEW i \in 1..(n - 1) PROVE Without(c)[i] \in Live
    BY <1>5 DEF ToSet
  <2>1. i \in 1..n /\ i + 1 \in 1..n
    BY <1>2
  <2>2. \A j \in 1..n : connections[j] \in Live
    BY <1>2 DEF ToSet, Live
  <2> QED BY <1>4, <2>1, <2>2
<1> QED BY <1>4, <1>6, <1>7

\* Putting a connection to the back, or making it, keeps all the others.
LEMMA RequeueKeeps ==
    ASSUME connections \in Seq(Ids), next_connection_id \in 0..MaxConnections,
           phase \in [Ids -> Phases],
           NEW c, c = Fresh \/ c \in Live, Requeue(c)
    PROVE  /\ c \in Ids
           /\ connections' \in Seq(Ids)
           /\ Live' = Live \union {c}
           /\ next_connection_id' \in 0..MaxConnections
           /\ phase' \in [Ids -> Phases]
<1> USE PoolAssumption
<1>1. \A s \in Seq(Ids), d \in Ids : /\ Append(s, d) \in Seq(Ids)
                                     /\ ToSet(Append(s, d)) = ToSet(s) \union {d}
  <2> SUFFICES ASSUME NEW s \in Seq(Ids), NEW d \in Ids
               PROVE  ToSet(Append(s, d)) = ToSet(s) \union {d}
    OBVIOUS
  <2>1. /\ DOMAIN Append(s, d) = 1..(Len(s) + 1) /\ DOMAIN s = 1..Len(s) /\ Len(s) \in Nat
        /\ \A i \in 1..Len(s) : Append(s, d)[i] = s[i]
        /\ Append(s, d)[Len(s) + 1] = d
    OBVIOUS
  <2>2. /\ ToSet(s) = {s[i] : i \in 1..Len(s)}
        /\ ToSet(Append(s, d)) = {Append(s, d)[i] : i \in 1..(Len(s) + 1)}
    BY <2>1 DEF ToSet
  <2>3. ToSet(Append(s, d)) \subseteq ToSet(s) \union {d}
    <3> SUFFICES ASSUME NEW i \in 1..(Len(s) + 1)
                 PROVE  Append(s, d)[i] \in ToSet(s) \union {d}
      BY <2>2
    <3>1. i \in 1..Len(s) \/ i = Len(s) + 1
      BY <2>1
    <3> QED BY <2>1, <2>2, <3>1
  <2>4. ToSet(s) \subseteq ToSet(Append(s, d))
    <3> SUFFICES ASSUME NEW i \in 1..Len(s) PROVE s[i] \in ToSet(Append(s, d))
      BY <2>2
    <3>1. i \in 1..(Len(s) + 1)
      BY <2>1
    <3> QED BY <2>1, <2>2, <3>1
  <2>5. d \in ToSet(Append(s, d))
    <3>1. Len(s) + 1 \in 1..(Len(s) + 1)
      BY <2>1
    <3> QED BY <2>1, <2>2, <3>1
  <2> QED BY <2>3, <2>4, <2>5
<1>2. CASE c = Fresh
  <2>1. c \in Ids /\ connections' = Append(connections, c)
    BY <1>2 DEF Requeue, Fresh, Ids
  <2> QED BY <1>1, <1>2, <2>1 DEF Requeue, Fresh, Ids, Live, Phases
<1>3. CASE c # Fresh
  <2>1. c \in Live /\ c \in Ids
    BY <1>3 DEF Live, ToSet
  <2>2. connections' = Append(Without(c), c) /\ UNCHANGED <<next_connection_id, phase>>
    BY <1>3 DEF Requeue
  <2>3. ToSet(Without(c)) \union {c} = Live
    BY <2>1, WithoutKeeps
  <2> QED BY <1>1, <2>1, <2>2, <2>3, WithoutKeeps DEF Live
<1> QED BY <1>2, <1>3

-----------------------------------------------------------------------------
(* The types of the pool, and the channels of its connections *)

\* The part of the state the handlers for channels work on.
PoolTypeOK ==
    /\ connections \in Seq(Ids)
    /\ next_connection_id \in 0..MaxConnections
    /\ wanted_channels \in [Ids -> SUBSET Channels]
    /\ phase \in [Ids -> Phases]
    /\ outgoing \in [Ids -> Seq(Requests)]

\* Only connections of the pool want channels, and no two want the same: the
\* invariant that makes `position(wanted_channels.contains)` find the right one.
PoolInv == WantedOnce /\ \A c \in Ids : wanted_channels[c] # {} => c \in Live

WantedSomewhere(x) == \E c \in Ids : x \in wanted_channels[c]

LEMMA SendToType ==
    ASSUME outgoing \in [Ids -> Seq(Requests)], NEW c \in Ids, NEW m \in Requests, SendTo(c, m)
    PROVE  outgoing' \in [Ids -> Seq(Requests)]
<1>1. Append(outgoing[c], m) \in Seq(Requests)
  OBVIOUS
<1> QED BY <1>1 DEF SendTo

\* Joining a channel, on whichever connection, makes it and no other one wanted, and
\* keeps it on one connection.
LEMMA JoinKeeps ==
    ASSUME PoolTypeOK, PoolInv, NEW ch \in Channels, join(ch)
    PROVE  /\ PoolTypeOK' /\ PoolInv'
           /\ \A x : WantedSomewhere(x)' <=> WantedSomewhere(x) \/ x = ch
<1>1. CASE Confirmed(ch)
  <2>1. UNCHANGED <<connections, next_connection_id, wanted_channels, phase, outgoing>>
    BY <1>1 DEF join
  <2>2. WantedSomewhere(ch)
    BY <1>1 DEF Confirmed, WantedSomewhere, PoolTypeOK, Live, ToSet
  <2>3. PoolTypeOK' /\ PoolInv'
    BY <2>1 DEF PoolTypeOK, PoolInv, WantedOnce, Live
  <2> QED BY <2>1, <2>2, <2>3 DEF WantedSomewhere
<1>2. CASE ~Confirmed(ch)
  <2> DEFINE c == JoinTarget(ch)
  <2>1. /\ Requeue(c) /\ SendTo(c, Message("JOIN", ch))
        /\ wanted_channels' = [wanted_channels EXCEPT ![c] = @ \union {ch}]
    BY <1>2 DEF join
  <2>2. /\ c = Fresh \/ c \in Live
        /\ Wanting(ch) # {} => c \in Wanting(ch)
    <3>1. Wanting(ch) # {} => FirstOf(Wanting(ch)) \in Live \cap Wanting(ch)
      BY FirstOfFound DEF PoolTypeOK, Wanting
    <3>2. BelowLimit # {} => FirstOf(BelowLimit) \in Live \cap BelowLimit
      BY FirstOfFound DEF PoolTypeOK, BelowLimit
    <3> QED BY <3>1, <3>2 DEF JoinTarget
  <2> HIDE DEF c
  <2>3. /\ c \in Ids /\ connections' \in Seq(Ids) /\ Live' = Live \union {c}
        /\ next_connection_id' \in 0..MaxConnections
        /\ phase' \in [Ids -> Phases]
    BY <2>1, <2>2, RequeueKeeps DEF PoolTypeOK
  <2>4. Message("JOIN", ch) \in Requests
    BY DEF Message, Requests
  <2>5. PoolTypeOK'
    BY <2>1, <2>3, <2>4, SendToType DEF PoolTypeOK
  <2>6. ASSUME NEW d \in Ids, ch \in wanted_channels[d] PROVE d = c
    BY <2>2, <2>3, <2>6 DEF PoolInv, WantedOnce, Wanting
  <2>7. \A d \in Ids : wanted_channels'[d] =
            IF d = c THEN wanted_channels[c] \union {ch} ELSE wanted_channels[d]
    BY <2>1, <2>3 DEF PoolTypeOK
  <2>8. WantedOnce'
    BY <2>6, <2>7 DEF PoolInv, WantedOnce
  <2>9. \A d \in Ids : wanted_channels'[d] # {} => d \in Live'
    BY <2>3, <2>7 DEF PoolInv
  <2>10. \A x : WantedSomewhere(x)' <=> WantedSomewhere(x) \/ x = ch
    BY <2>3, <2>7 DEF WantedSomewhere
  <2> QED BY <2>5, <2>8, <2>9, <2>10 DEF PoolInv
<1> QED BY <1>1, <1>2

\* Parting takes this channel away and no other.
LEMMA PartKeeps ==
    ASSUME PoolTypeOK, PoolInv, NEW ch \in Channels, part(ch)
    PROVE  /\ PoolTypeOK' /\ PoolInv'
           /\ \A x : WantedSomewhere(x)' <=> WantedSomewhere(x) /\ x # ch
<1>1. CASE Wanting(ch) = {}
  <2>1. UNCHANGED <<connections, next_connection_id, wanted_channels, phase, outgoing>>
    BY <1>1 DEF part
  <2>2. ~WantedSomewhere(ch)
    BY <1>1 DEF WantedSomewhere, Wanting, PoolInv
  <2>3. PoolTypeOK' /\ PoolInv'
    BY <2>1 DEF PoolTypeOK, PoolInv, WantedOnce, Live
  <2> QED BY <2>1, <2>2, <2>3 DEF WantedSomewhere
<1>2. CASE Wanting(ch) # {}
  <2> DEFINE c == FirstOf(Wanting(ch))
  <2>1. /\ Requeue(c) /\ SendTo(c, Message("PART", ch))
        /\ wanted_channels' = [wanted_channels EXCEPT ![c] = @ \ {ch}]
    BY <1>2 DEF part
  <2>2. c \in Live /\ ch \in wanted_channels[c]
    BY <1>2, FirstOfFound DEF PoolTypeOK, Wanting
  <2> HIDE DEF c
  <2>3. /\ c \in Ids /\ connections' \in Seq(Ids) /\ Live' = Live \union {c}
        /\ next_connection_id' \in 0..MaxConnections
        /\ phase' \in [Ids -> Phases]
    BY <2>1, <2>2, RequeueKeeps DEF PoolTypeOK
  <2>4. Message("PART", ch) \in Requests
    BY DEF Message, Requests
  <2>5. PoolTypeOK'
    BY <2>1, <2>3, <2>4, SendToType DEF PoolTypeOK
  <2>6. \A d \in Ids : wanted_channels'[d] \subseteq wanted_channels[d]
    BY <2>1, <2>3 DEF PoolTypeOK
  <2>7. WantedOnce'
    BY <2>6 DEF PoolInv, WantedOnce
  <2>8. \A d \in Ids : wanted_channels'[d] # {} => d \in Live'
    BY <2>3, <2>6 DEF PoolInv
  <2>9. \A d \in Ids : wanted_channels'[d] =
            IF d = c THEN wanted_channels[c] \ {ch} ELSE wanted_channels[d]
    BY <2>1, <2>3 DEF PoolTypeOK
  <2>10. \A d \in Ids : ch \in wanted_channels[d] => d = c
    BY <2>2, <2>3 DEF PoolInv, WantedOnce
  <2>11. \A x : WantedSomewhere(x)' <=> WantedSomewhere(x) /\ x # ch
    BY <2>3, <2>9, <2>10 DEF WantedSomewhere
  <2> QED BY <2>5, <2>7, <2>8, <2>11 DEF PoolInv
<1> QED BY <1>1, <1>2

\* Making or moving a connection without touching its channels.
LEMMA RequeueKeepsPool ==
    ASSUME PoolTypeOK, PoolInv, NEW c, c = Fresh \/ c \in Live, Requeue(c),
           UNCHANGED <<wanted_channels, outgoing>>
    PROVE  PoolTypeOK' /\ PoolInv'
<1>1. /\ c \in Ids /\ connections' \in Seq(Ids) /\ Live' = Live \union {c}
      /\ next_connection_id' \in 0..MaxConnections
      /\ phase' \in [Ids -> Phases]
  BY RequeueKeeps DEF PoolTypeOK
<1> QED BY <1>1 DEF PoolTypeOK, PoolInv, WantedOnce

-----------------------------------------------------------------------------
LEMMA InitPool == Init => PoolTypeOK /\ PoolInv
BY PoolAssumption DEF Init, PoolTypeOK, PoolInv, WantedOnce, Phases

LEMMA StepPool == PoolTypeOK /\ PoolInv /\ [Next]_vars => PoolTypeOK' /\ PoolInv'
<1> SUFFICES ASSUME PoolTypeOK, PoolInv, [Next]_vars PROVE PoolTypeOK' /\ PoolInv'
  OBVIOUS
<1>1. ASSUME UNCHANGED <<connections, next_connection_id, wanted_channels, phase, outgoing>>
      PROVE  PoolTypeOK' /\ PoolInv'
  BY <1>1 DEF PoolTypeOK, PoolInv, WantedOnce, Live
<1>2. ASSUME UserCommand PROVE PoolTypeOK' /\ PoolInv'
  <2>1. ASSUME Connect PROVE PoolTypeOK' /\ PoolInv'
    BY <1>1, <2>1, RequeueKeepsPool DEF Connect
  <2>2. ASSUME NEW busy \in SUBSET Live, SendMessage(busy) PROVE PoolTypeOK' /\ PoolInv'
    <3> DEFINE c == IF Live \subseteq busy THEN Fresh ELSE FirstOf(Live \ busy)
    <3>1. c = Fresh \/ c \in Live
      BY FirstOfFound DEF PoolTypeOK
    <3>2. Requeue(c) /\ UNCHANGED <<wanted_channels, outgoing>>
      BY <2>2 DEF SendMessage
    <3> HIDE DEF c
    <3> QED BY <3>1, <3>2, RequeueKeepsPool
  <2>3. ASSUME NEW ch \in Channels, Join(ch) \/ Part(ch) PROVE PoolTypeOK' /\ PoolInv'
    BY <2>3, JoinKeeps, PartKeeps DEF Join, Part
  <2>4. ASSUME NEW S \in SUBSET Channels, SetWantedChannels(S) PROVE PoolTypeOK' /\ PoolInv'
    BY <1>1, <2>4 DEF SetWantedChannels
  <2> QED BY <1>2, <2>1, <2>2, <2>3, <2>4 DEF UserCommand
<1>3. ASSUME Continue PROVE PoolTypeOK' /\ PoolInv'
  <2>1. ASSUME FinishClosed PROVE PoolTypeOK' /\ PoolInv'
    BY <1>1, <2>1, RequeueKeepsPool DEF FinishClosed, StayConnected
  <2>2. ASSUME NEW ch \in Channels, PartNext(ch) \/ JoinNext(ch)
        PROVE  PoolTypeOK' /\ PoolInv'
    BY <2>2, JoinKeeps, PartKeeps DEF PartNext, JoinNext
  <2> QED BY <1>3, <2>1, <2>2 DEF Continue
<1>4. ASSUME NEW c \in Ids, on_incoming_message(c) PROVE PoolTypeOK' /\ PoolInv'
  <2>1. ASSUME NEW ch \in Channels, OnServerJoin(c, ch) \/ OnServerPart(c, ch)
        PROVE  PoolTypeOK' /\ PoolInv'
    BY <1>1, <2>1 DEF OnServerJoin, OnServerPart, Receive, Unwraps
  <2>2. ASSUME NEW w \in Whispers, OnWhisper(c, w) PROVE PoolTypeOK' /\ PoolInv'
    BY <1>1, <2>2 DEF OnWhisper, Receive
  <2>3. ASSUME OnStateOpen(c) PROVE PoolTypeOK' /\ PoolInv'
    BY <1>1, <2>3 DEF OnStateOpen, Receive, Unwraps
  <2>4. ASSUME OnStateClosed(c) PROVE PoolTypeOK' /\ PoolInv'
    <3>1. CASE Unwraps(c)
      BY <1>1, <2>4, <3>1 DEF OnStateClosed, Receive, Unwraps
    <3>2. CASE ~Unwraps(c)
      <4>1. /\ c \in Live /\ connections' = Without(c)
            /\ wanted_channels' = [wanted_channels EXCEPT ![c] = {}]
            /\ UNCHANGED <<next_connection_id, phase, outgoing>>
        BY <2>4, <3>2 DEF OnStateClosed, Receive
      <4>2. connections' \in Seq(Ids) /\ \A d \in Live : d # c => d \in Live'
        BY <4>1, WithoutKeeps DEF PoolTypeOK, Live
      <4>3. PoolTypeOK'
        BY <4>1, <4>2 DEF PoolTypeOK
      <4>4. \A d \in Ids : wanted_channels'[d] = IF d = c THEN {} ELSE wanted_channels[d]
        BY <4>1 DEF PoolTypeOK
      <4>5. PoolInv'
        BY <4>2, <4>4 DEF PoolInv, WantedOnce
      <4> QED BY <4>3, <4>5
    <3> QED BY <3>1, <3>2
  <2> QED BY <1>4, <2>1, <2>2, <2>3, <2>4 DEF on_incoming_message
<1>5. ASSUME Environment PROVE PoolTypeOK' /\ PoolInv'
  <2>1. UNCHANGED <<connections, next_connection_id, wanted_channels>>
    BY <1>5 DEF Environment, PeerOpens, PeerCloses, PeerPanics, PeerSticks, ServerAnswers, ServerJoins, ServerParts,
                ServerRefuses, ServerRemoves, ServerWhispers, NextRequest, Peer, worker_vars
  <2>2. PoolInv'
    BY <2>1 DEF PoolInv, WantedOnce, Live
  <2>3. ASSUME NEW c \in Ids, outgoing' = [outgoing EXCEPT ![c] = Tail(@)],
               outgoing[c] # <<>>
        PROVE  outgoing' \in [Ids -> Seq(Requests)]
    <3>1. Tail(outgoing[c]) \in Seq(Requests)
      BY <2>3 DEF PoolTypeOK
    <3> QED BY <2>3, <3>1 DEF PoolTypeOK
  <2>4. outgoing' \in [Ids -> Seq(Requests)]
    <3>1. ASSUME NEW c \in Ids, PeerOpens(c) PROVE outgoing' \in [Ids -> Seq(Requests)]
      BY <3>1 DEF PeerOpens, PoolTypeOK
    <3>2. ASSUME NEW c \in Ids, PeerCloses(c) PROVE outgoing' \in [Ids -> Seq(Requests)]
      <4>1. <<>> \in Seq(Requests)
        OBVIOUS
      <4> QED BY <3>2, <4>1 DEF PeerCloses, PoolTypeOK
    <3>7. ASSUME NEW c \in Ids, PeerPanics(c) PROVE outgoing' \in [Ids -> Seq(Requests)]
      <4>1. <<>> \in Seq(Requests)
        OBVIOUS
      <4> QED BY <3>7, <4>1 DEF PeerPanics, PoolTypeOK
    <3>8. ASSUME NEW c \in Ids, PeerSticks(c) PROVE outgoing' \in [Ids -> Seq(Requests)]
      BY <3>8 DEF PeerSticks, PoolTypeOK
    <3>3. ASSUME NEW c \in Ids, ServerAnswers(c) PROVE outgoing' \in [Ids -> Seq(Requests)]
      <4>1. /\ outgoing[c] # <<>>
            /\ outgoing' = [outgoing EXCEPT ![c] = Tail(@)]
        BY <3>3 DEF ServerAnswers, ServerJoins, ServerParts, NextRequest
      <4> QED BY <2>3, <4>1
    <3>4. ASSUME NEW c \in Ids, NEW ch \in Channels, ServerRefuses(c, ch)
          PROVE  outgoing' \in [Ids -> Seq(Requests)]
      BY <2>3, <3>4 DEF ServerRefuses, NextRequest
    <3>5. ASSUME NEW c \in Ids, NEW ch \in Channels, ServerRemoves(c, ch)
          PROVE  outgoing' \in [Ids -> Seq(Requests)]
      BY <3>5 DEF ServerRemoves, PoolTypeOK
    <3>6. ASSUME ServerWhispers PROVE outgoing' \in [Ids -> Seq(Requests)]
      BY <3>6 DEF ServerWhispers, PoolTypeOK
    <3> QED BY <1>5, <3>1, <3>2, <3>3, <3>4, <3>5, <3>6, <3>7, <3>8 DEF Environment
  <2>5. phase' \in [Ids -> Phases]
    BY <1>5 DEF Environment, PeerOpens, PeerCloses, PeerPanics, PeerSticks, ServerAnswers, ServerJoins,
          ServerParts, ServerRefuses, ServerRemoves, ServerWhispers, NextRequest, PoolTypeOK,
          Phases
  <2> QED BY <2>1, <2>2, <2>4, <2>5 DEF PoolTypeOK
<1>6. CASE UNCHANGED vars
  BY <1>1, <1>6 DEF vars, worker_vars
<1>7. CASE \E c \in Ids : SendPanics(c)
  BY <1>1, <1>7 DEF SendPanics, worker_vars
<1> QED BY <1>2, <1>3, <1>4, <1>5, <1>6, <1>7 DEF Next

\* Whatever callers, failures and reconnections do, in the middle of a handler too, no
\* channel is wanted by two connections of the pool.
THEOREM WantedOnceCorrect == Spec => []WantedOnce
<1>1. Spec => [](PoolTypeOK /\ PoolInv)
  BY InitPool, StepPool, PTL DEF Spec
<1>2. PoolInv => WantedOnce
  BY DEF PoolInv
<1> QED BY <1>1, <1>2, PTL

-----------------------------------------------------------------------------
(* The set of wanted channels is the callers' *)

WorkTypeOK == work \in [parts : SUBSET Channels, joins : SUBSET Channels,
                        closing : Ids \union {NoConnection}]

\* What the pool wants: channels of some connection, save those the handler at work
\* still parts, and those it still joins.
AskedInv ==
    /\ WorkTypeOK
    /\ asked \subseteq Channels
    /\ \A x : x \in asked <=> x \in work.joins \/ (WantedSomewhere(x) /\ x \notin work.parts)

LEMMA WantedElements ==
    ASSUME PoolTypeOK, PoolInv, NEW x
    PROVE  x \in UNION {wanted_channels[c] : c \in Live} <=> WantedSomewhere(x)
<1>1. Live \subseteq Ids
  BY DEF PoolTypeOK, Live, ToSet
<1>2. \A c \in Ids : x \in wanted_channels[c] => c \in Live
  BY DEF PoolInv
<1> QED BY <1>1, <1>2 DEF WantedSomewhere

LEMMA InitAsked == Init => AskedInv
<1> SUFFICES ASSUME Init PROVE AskedInv
  OBVIOUS
<1>1. work = [parts |-> {}, joins |-> {}, closing |-> NoConnection] /\ asked = {}
  BY DEF Init, NoWork
<1>2. \A c \in Ids : wanted_channels[c] = {}
  BY DEF Init
<1> QED BY <1>1, <1>2 DEF AskedInv, WorkTypeOK, WantedSomewhere

LEMMA StepAsked == PoolTypeOK /\ PoolInv /\ AskedInv /\ [Next]_vars => AskedInv'
<1> SUFFICES ASSUME PoolTypeOK, PoolInv, AskedInv, [Next]_vars PROVE AskedInv'
  OBVIOUS
<1>1. ASSUME UNCHANGED <<wanted_channels, work, asked>> PROVE AskedInv'
  BY <1>1 DEF AskedInv, WorkTypeOK, WantedSomewhere
<1>2. ASSUME UserCommand PROVE AskedInv'
  <2>1. work = NoWork
    BY <1>2 DEF UserCommand, Connect, SendMessage, Join, Part, SetWantedChannels, Command, Idle
  <2>2. ASSUME Connect PROVE AskedInv'
    BY <1>1, <2>2 DEF Connect
  <2>3. ASSUME NEW busy \in SUBSET Live, SendMessage(busy) PROVE AskedInv'
    BY <1>1, <2>3 DEF SendMessage
  <2>4. ASSUME NEW ch \in Channels, Join(ch) PROVE AskedInv'
    <3>1. \A x : WantedSomewhere(x)' <=> WantedSomewhere(x) \/ x = ch
      BY <2>4, JoinKeeps DEF Join
    <3>2. UNCHANGED work /\ asked' = asked \union {ch}
      BY <2>4 DEF Join
    <3> QED BY <2>1, <3>1, <3>2 DEF AskedInv, WorkTypeOK, NoWork
  <2>5. ASSUME NEW ch \in Channels, Part(ch) PROVE AskedInv'
    <3>1. \A x : WantedSomewhere(x)' <=> WantedSomewhere(x) /\ x # ch
      BY <2>5, PartKeeps DEF Part
    <3>2. UNCHANGED work /\ asked' = asked \ {ch}
      BY <2>5 DEF Part
    <3> QED BY <2>1, <3>1, <3>2 DEF AskedInv, WorkTypeOK, NoWork
  <2>6. ASSUME NEW S \in SUBSET Channels, SetWantedChannels(S) PROVE AskedInv'
    <3> DEFINE wanted == UNION {wanted_channels[c] : c \in Live}
    <3>1. UNCHANGED wanted_channels /\ asked' = S
          /\ work' = [parts |-> wanted \ S, joins |-> S, closing |-> NoConnection]
      BY <2>6 DEF SetWantedChannels, NoWork
    <3>2. \A x : x \in wanted <=> WantedSomewhere(x)
      BY WantedElements
    <3>3. wanted \subseteq Channels
      BY <3>2 DEF WantedSomewhere, PoolTypeOK
    <3> HIDE DEF wanted
    <3>4. \A x : WantedSomewhere(x)' <=> WantedSomewhere(x)
      BY <3>1 DEF WantedSomewhere
    <3> QED BY <3>1, <3>2, <3>3, <3>4 DEF AskedInv, WorkTypeOK
  <2> QED BY <1>2, <2>2, <2>3, <2>4, <2>5, <2>6 DEF UserCommand
<1>3. ASSUME Continue PROVE AskedInv'
  <2>1. ASSUME FinishClosed PROVE AskedInv'
    <3>1. work.parts = {} /\ work.joins = {} /\ work' = NoWork
          /\ UNCHANGED <<wanted_channels, asked>>
      BY <2>1 DEF FinishClosed, StayConnected, Working
    <3>2. \A x : WantedSomewhere(x)' <=> WantedSomewhere(x)
      BY <3>1 DEF WantedSomewhere
    <3> QED BY <3>1, <3>2 DEF AskedInv, WorkTypeOK, NoWork
  <2>2. ASSUME NEW ch \in Channels, PartNext(ch) PROVE AskedInv'
    <3>1. \A x : WantedSomewhere(x)' <=> WantedSomewhere(x) /\ x # ch
      BY <2>2, PartKeeps DEF PartNext
    <3>2. /\ ch \in work.parts /\ UNCHANGED asked
          /\ work' = [work EXCEPT !.parts = @ \ {ch}]
      BY <2>2 DEF PartNext, Working
    <3> QED BY <3>1, <3>2 DEF AskedInv, WorkTypeOK
  <2>3. ASSUME NEW ch \in Channels, JoinNext(ch) PROVE AskedInv'
    <3>1. \A x : WantedSomewhere(x)' <=> WantedSomewhere(x) \/ x = ch
      BY <2>3, JoinKeeps DEF JoinNext
    <3>2. /\ work.parts = {} /\ ch \in work.joins /\ UNCHANGED asked
          /\ work' = [work EXCEPT !.joins = @ \ {ch}]
      BY <2>3 DEF JoinNext, Working
    <3> QED BY <3>1, <3>2 DEF AskedInv, WorkTypeOK
  <2> QED BY <1>3, <2>1, <2>2, <2>3 DEF Continue
<1>4. ASSUME NEW c \in Ids, on_incoming_message(c) PROVE AskedInv'
  <2>1. ASSUME NEW ch \in Channels, OnServerJoin(c, ch) \/ OnServerPart(c, ch) PROVE AskedInv'
    BY <1>1, <2>1 DEF OnServerJoin, OnServerPart, Receive, Unwraps
  <2>2. ASSUME NEW w \in Whispers, OnWhisper(c, w) PROVE AskedInv'
    BY <1>1, <2>2 DEF OnWhisper, Receive
  <2>3. ASSUME OnStateOpen(c) PROVE AskedInv'
    BY <1>1, <2>3 DEF OnStateOpen, Receive, Unwraps
  <2>4. ASSUME OnStateClosed(c) PROVE AskedInv'
    <3>1. CASE Unwraps(c)
      BY <1>1, <2>4, <3>1 DEF OnStateClosed, Receive, Unwraps
    <3>2. CASE ~Unwraps(c)
      <4>1. /\ work = NoWork /\ UNCHANGED asked
            /\ wanted_channels' = [wanted_channels EXCEPT ![c] = {}]
            /\ work' = [parts |-> {}, joins |-> wanted_channels[c], closing |-> c]
        BY <2>4, <3>2 DEF OnStateClosed, Receive, Idle, NoWork
      <4>2. \A x : WantedSomewhere(x) <=> WantedSomewhere(x)' \/ x \in wanted_channels[c]
        BY <4>1 DEF WantedSomewhere, PoolTypeOK
      <4> QED BY <4>1, <4>2 DEF AskedInv, WorkTypeOK, NoWork, PoolTypeOK
    <3> QED BY <3>1, <3>2
  <2> QED BY <1>4, <2>1, <2>2, <2>3, <2>4 DEF on_incoming_message
<1>5. ASSUME Environment PROVE AskedInv'
  <2>1. UNCHANGED <<wanted_channels, work, asked>>
    BY <1>5 DEF Environment, PeerOpens, PeerCloses, PeerPanics, PeerSticks, ServerAnswers, ServerJoins, ServerParts,
                ServerRefuses, ServerRemoves, ServerWhispers, NextRequest, Peer, worker_vars
  <2> QED BY <1>1, <2>1
<1>6. CASE UNCHANGED vars
  BY <1>1, <1>6 DEF vars, worker_vars
<1>7. CASE \E c \in Ids : SendPanics(c)
  BY <1>1, <1>7 DEF SendPanics, worker_vars
<1> QED BY <1>2, <1>3, <1>4, <1>5, <1>6, <1>7 DEF Next

\* The channels the pool wants are at every moment those the callers asked for: failures
\* and replacements of connections, late or missing echoes and refusals, and the order
\* of iteration change nothing about them.
THEOREM WantedAsAskedCorrect == Spec => []WantedAsAsked
<1>1. Spec => [](PoolTypeOK /\ PoolInv /\ AskedInv)
  BY InitPool, StepPool, InitAsked, StepAsked, PTL DEF Spec
<1>2. PoolTypeOK /\ PoolInv /\ AskedInv => WantedAsAsked
  <2> SUFFICES ASSUME PoolTypeOK, PoolInv, AskedInv, NEW x PROVE x \in Wanted <=> x \in asked
    BY DEF WantedAsAsked
  <2> QED BY WantedElements DEF AskedInv, Wanted
<1> QED BY <1>1, <1>2, PTL

(***************************************************************************)
(* No connection is in the deque twice                                     *)
(***************************************************************************)

\* No id is in the deque twice, and all were assigned.
Distinct == \A i, j \in 1..Len(connections) : connections[i] = connections[j] => i = j
Assigned == \A c \in Live : c < next_connection_id
DequeInv ==
    /\ Distinct /\ Assigned
    /\ connections_failed \in Nat
    /\ IsFiniteSet(Live)
    /\ PoolAccounted

\* Removing a connection that is in the deque once removes it.
LEMMA RemoveDeque ==
    ASSUME PoolTypeOK, Distinct, NEW c \in Live
    PROVE  /\ ToSet(Without(c)) = Live \ {c}
           /\ Len(Without(c)) = Len(connections) - 1 /\ Len(connections) \in Nat
           /\ \A i, j \in 1..Len(Without(c)) : Without(c)[i] = Without(c)[j] => i = j
<1>1. connections \in Seq(Ids)
  BY DEF PoolTypeOK
<1>2. PICK k : WithoutAt(c, k)
  BY <1>1, WithoutPlace
<1> DEFINE n == Len(connections)
           at(i) == IF i < k THEN i ELSE i + 1
<1>3. n \in Nat /\ k \in 1..n /\ connections[k] = c /\ Len(Without(c)) = n - 1
  BY <1>2 DEF WithoutAt
<1>4. \A i \in 1..(n - 1) : at(i) \in 1..n /\ at(i) # k /\ Without(c)[i] = connections[at(i)]
  BY <1>2, <1>3 DEF WithoutAt
<1>5. \A i, j \in 1..(n - 1) : at(i) = at(j) => i = j
  BY <1>3
<1> HIDE DEF at, n
<1>6. \A i, j \in 1..(n - 1) : Without(c)[i] = Without(c)[j] => i = j
  BY <1>4, <1>5 DEF Distinct, n
<1>7. \A i \in 1..(n - 1) : Without(c)[i] # c
  BY <1>3, <1>4 DEF Distinct, n
<1>8. c \notin ToSet(Without(c))
  <2>1. Without(c) \in Seq(Ids)
    BY <1>1, WithoutKeeps
  <2>2. DOMAIN Without(c) = 1..(n - 1)
    BY <1>3, <2>1
  <2> QED BY <1>7, <2>2 DEF ToSet
<1>9. ToSet(Without(c)) = Live \ {c}
  BY <1>1, <1>8, WithoutKeeps
<1> QED BY <1>3, <1>6, <1>9 DEF n

LEMMA AppendDistinct ==
    ASSUME NEW s \in Seq(Ids), NEW d \in Ids, d \notin ToSet(s),
           \A i, j \in 1..Len(s) : s[i] = s[j] => i = j
    PROVE  /\ Len(Append(s, d)) = Len(s) + 1 /\ Len(s) \in Nat
           /\ \A i, j \in 1..Len(Append(s, d)) : Append(s, d)[i] = Append(s, d)[j] => i = j
<1>1. /\ DOMAIN s = 1..Len(s) /\ Len(s) \in Nat /\ Len(Append(s, d)) = Len(s) + 1
      /\ \A i \in 1..Len(s) : Append(s, d)[i] = s[i]
      /\ Append(s, d)[Len(s) + 1] = d
  OBVIOUS
<1>2. \A i \in 1..Len(s) : s[i] # d
  BY <1>1 DEF ToSet
<1>3. \A i \in 1..Len(Append(s, d)) : i \in 1..Len(s) \/ i = Len(s) + 1
  BY <1>1
<1> QED BY <1>1, <1>2, <1>3

\* A connection that is new, or moved to the back.
LEMMA RequeueDeque ==
    ASSUME PoolTypeOK, DequeInv, NEW c, c = Fresh \/ c \in Live, Requeue(c),
           UNCHANGED connections_failed
    PROVE  DequeInv' /\ Live' = Live \union {c} /\ c \in Ids
<1>1. /\ c \in Ids /\ connections' \in Seq(Ids) /\ Live' = Live \union {c}
      /\ connections \in Seq(Ids) /\ next_connection_id \in 0..MaxConnections
  BY RequeueKeeps DEF PoolTypeOK
<1>2. Len(connections) \in Nat /\ Cardinality(Live) = Len(connections) /\ next_connection_id \in Nat
  BY <1>1, PoolAssumption DEF DequeInv, PoolAccounted
<1>3. CASE c = Fresh
  <2>1. connections' = Append(connections, c) /\ next_connection_id' = next_connection_id + 1
    BY <1>3 DEF Requeue, Fresh
  <2>2. c \notin Live /\ c \notin ToSet(connections)
    <3>1. ASSUME c \in Live PROVE FALSE
      <4>1. c < next_connection_id /\ c = next_connection_id
        BY <1>3, <3>1 DEF DequeInv, Assigned, Fresh
      <4> QED BY <1>2, <4>1
    <3> QED BY <3>1 DEF Live
  <2>3. Len(connections') = Len(connections) + 1 /\ Distinct'
    BY <1>1, <2>1, <2>2, AppendDistinct DEF DequeInv, Distinct
  <2>4. IsFiniteSet(Live') /\ Cardinality(Live') = Cardinality(Live) + 1
    BY <1>1, <2>2, FS_AddElement DEF DequeInv
  <2>5. Assigned'
    <3> SUFFICES ASSUME NEW d \in Live' PROVE d < next_connection_id + 1
      BY <2>1 DEF Assigned
    <3>1. CASE d = c
      BY <1>2, <1>3, <3>1 DEF Fresh
    <3>2. CASE d \in Live
      <4>1. \A m, n \in Nat : m < n => m < n + 1
        OBVIOUS
      <4>2. d < next_connection_id
        BY <3>2 DEF DequeInv, Assigned
      <4>3. d \in Nat
        <5>1. d \in Ids
          BY <1>1, <3>2 DEF Live, ToSet
        <5> QED BY <5>1, PoolAssumption DEF Ids
      <4> QED BY <1>2, <4>1, <4>2, <4>3
    <3> QED BY <1>1, <3>1, <3>2
  <2>6. PoolAccounted'
    <3>1. next_connection_id + 1 = Len(connections) + 1 + connections_failed
      BY <1>2 DEF DequeInv, PoolAccounted
    <3> QED BY <1>2, <2>1, <2>3, <2>4, <3>1 DEF PoolAccounted
  <2> QED BY <1>1, <2>3, <2>4, <2>5, <2>6 DEF DequeInv
<1>4. CASE c # Fresh
  <2>1. c \in Live /\ connections' = Append(Without(c), c) /\ UNCHANGED next_connection_id
    BY <1>4 DEF Requeue
  <2>2. Without(c) \in Seq(Ids)
    BY <1>1, <2>1, WithoutKeeps
  <2>3. /\ c \notin ToSet(Without(c)) /\ Len(Without(c)) = Len(connections) - 1
        /\ \A i, j \in 1..Len(Without(c)) : Without(c)[i] = Without(c)[j] => i = j
    BY <2>1, RemoveDeque DEF DequeInv
  <2>4. Len(connections') = Len(Without(c)) + 1 /\ Distinct'
    BY <1>1, <2>1, <2>2, <2>3, AppendDistinct DEF Distinct
  <2>5. Live' = Live /\ Len(connections') = Len(connections)
    BY <1>1, <1>2, <2>1, <2>3, <2>4
  <2> QED BY <1>1, <2>1, <2>4, <2>5 DEF DequeInv, Assigned, PoolAccounted
<1> QED BY <1>3, <1>4

(***************************************************************************)
(* The three things that happen to the deque                               *)
(***************************************************************************)

Kept == UNCHANGED <<connections, next_connection_id, connections_failed>>
Requeued ==
    \E c : (c = Fresh \/ c \in Live) /\ Requeue(c) /\ UNCHANGED connections_failed
Removed(c) ==
    /\ c \in Live /\ connections' = Without(c)
    /\ connections_failed' = connections_failed + 1
    /\ UNCHANGED next_connection_id

LEMMA JoinTargetFound ==
    ASSUME PoolTypeOK, NEW ch \in Channels
    PROVE  /\ JoinTarget(ch) = Fresh \/ JoinTarget(ch) \in Live
           /\ Wanting(ch) # {} => JoinTarget(ch) \in Wanting(ch)
           /\ Wanting(ch) = {} /\ JoinTarget(ch) # Fresh => JoinTarget(ch) \in BelowLimit
<1>1. Wanting(ch) # {} => FirstOf(Wanting(ch)) \in Live \cap Wanting(ch)
  BY FirstOfFound DEF PoolTypeOK, Wanting
<1>2. BelowLimit # {} => FirstOf(BelowLimit) \in Live \cap BelowLimit
  BY FirstOfFound DEF PoolTypeOK, BelowLimit
<1> QED BY <1>1, <1>2 DEF JoinTarget

LEMMA JoinMoves ==
    ASSUME PoolTypeOK, NEW ch \in Channels, join(ch), UNCHANGED connections_failed
    PROVE  (Kept /\ UNCHANGED phase) \/ Requeued
BY JoinTargetFound DEF join, Kept, Requeued

LEMMA PartMoves ==
    ASSUME PoolTypeOK, NEW ch \in Channels, part(ch), UNCHANGED connections_failed
    PROVE  (Kept /\ UNCHANGED phase) \/ Requeued
<1>1. CASE Wanting(ch) = {}
  BY <1>1 DEF part, Kept
<1>2. CASE Wanting(ch) # {}
  <2>1. FirstOf(Wanting(ch)) \in Live
    BY <1>2, FirstOfFound DEF PoolTypeOK, Wanting
  <2> QED BY <1>2, <2>1 DEF part, Requeued
<1> QED BY <1>1, <1>2

\* A command of a caller, or an iteration of a handler, keeps the deque or moves one
\* connection.
LEMMA CommandMoves ==
    ASSUME PoolTypeOK, UserCommand \/ Continue
    PROVE  /\ (Kept /\ UNCHANGED phase) \/ Requeued
           /\ panicked = "no" /\ UNCHANGED <<incoming, panicked, server_channels, reported_state>>
<1>1. panicked = "no" /\ UNCHANGED <<connections_failed, incoming, panicked, server_channels, reported_state>>
  BY DEF UserCommand, Connect, SendMessage, Join, Part, SetWantedChannels, Command, Continue,
         FinishClosed, PartNext, JoinNext, Working, report_vars, Idle
<1> DEFINE moves == (Kept /\ UNCHANGED phase) \/ Requeued
<1>2. ASSUME Connect PROVE moves
  BY <1>1, <1>2 DEF Connect, Kept, Requeued
<1>3. ASSUME NEW busy \in SUBSET Live, SendMessage(busy) PROVE Requeued
  <2> DEFINE c == IF Live \subseteq busy THEN Fresh ELSE FirstOf(Live \ busy)
  <2>1. c = Fresh \/ c \in Live
    BY FirstOfFound DEF PoolTypeOK
  <2>2. Requeue(c)
    BY <1>3 DEF SendMessage
  <2> HIDE DEF c
  <2> QED BY <1>1, <2>1, <2>2 DEF Requeued
<1>4. ASSUME NEW ch \in Channels, Join(ch) \/ Part(ch) \/ PartNext(ch) \/ JoinNext(ch)
      PROVE  moves
  BY <1>1, <1>4, JoinMoves, PartMoves DEF Join, Part, PartNext, JoinNext
<1>5. ASSUME NEW S \in SUBSET Channels, SetWantedChannels(S) PROVE moves
  BY <1>1, <1>5 DEF SetWantedChannels, Kept
<1>6. ASSUME FinishClosed PROVE moves
  BY <1>1, <1>6 DEF FinishClosed, StayConnected, Kept, Requeued
<1> QED BY <1>1, <1>2, <1>3, <1>4, <1>5, <1>6 DEF UserCommand, Continue

\* A send that panics leaves everything as it was.
LEMMA SendPanicsMoves ==
    ASSUME NEW c \in Ids, SendPanics(c)
    PROVE  /\ Kept /\ panicked' = "send"
           /\ UNCHANGED <<connections, next_connection_id, wanted_channels, work, server_channels,
                          reported_state, gauges, current_whisper_connection_id, forwarded, phase,
                          outgoing, incoming, members, asked, whispers, closes, panics, refusals>>
BY DEF SendPanics, worker_vars, whisper_vars, report_vars, metric_vars, bound_vars, Kept

\* The events of the connections but StateClosed, connections and server.
LEMMA OtherMoves ==
    ASSUME NEW c \in Ids,
           \/ \E ch \in Channels : OnServerJoin(c, ch) \/ OnServerPart(c, ch)
           \/ \E w \in Whispers : OnWhisper(c, w)
           \/ OnStateOpen(c)
    PROVE  Kept /\ UNCHANGED <<wanted_channels, work>>
BY DEF OnServerJoin, OnServerPart, OnWhisper, OnStateOpen, Receive, Unwraps, Kept

LEMMA ClosedMoves ==
    ASSUME NEW c \in Ids, OnStateClosed(c)
    PROVE  \/ Kept /\ UNCHANGED <<wanted_channels, work>>
           \/ /\ Removed(c)
              /\ wanted_channels' = [wanted_channels EXCEPT ![c] = {}]
              /\ work' = [NoWork EXCEPT !.joins = wanted_channels[c], !.closing = c]
BY DEF OnStateClosed, Receive, Unwraps, Kept, Removed

LEMMA EnvironmentMoves ==
    ASSUME Environment
    PROVE  Kept /\ UNCHANGED <<wanted_channels, server_channels, reported_state, gauges, work,
                               current_whisper_connection_id, panicked>>
BY DEF Environment, PeerOpens, PeerCloses, PeerPanics, PeerSticks, ServerAnswers, ServerJoins, ServerParts, ServerRefuses,
       ServerRemoves, ServerWhispers, NextRequest, Peer, worker_vars, whisper_vars, report_vars,
       metric_vars, Kept

LEMMA PoolMoves ==
    ASSUME PoolTypeOK, [Next]_vars
    PROVE  Kept \/ Requeued \/ \E c : Removed(c)
<1>1. CASE UNCHANGED vars
  BY <1>1 DEF vars, worker_vars, metric_vars, Kept
<1>2. CASE UserCommand \/ Continue
  BY <1>2, CommandMoves
<1>3. ASSUME NEW c \in Ids, on_incoming_message(c) PROVE Kept \/ Removed(c)
  BY <1>3, OtherMoves, ClosedMoves DEF on_incoming_message
<1>4. CASE Environment
  BY <1>4, EnvironmentMoves
<1>5. ASSUME NEW c \in Ids, SendPanics(c) PROVE Kept
  BY <1>5, SendPanicsMoves
<1> QED BY <1>1, <1>2, <1>3, <1>4, <1>5 DEF Next

-----------------------------------------------------------------------------
(* Every connection is accounted for *)

LEMMA InitDeque == Init => DequeInv
<1> SUFFICES ASSUME Init PROVE DequeInv
  OBVIOUS
<1>1. connections = <<>> /\ Len(connections) = 0 /\ next_connection_id = 0 /\ connections_failed = 0
  BY DEF Init
<1>2. Live = {}
  BY <1>1 DEF Live, ToSet
<1>3. IsFiniteSet(Live) /\ Cardinality(Live) = 0
  BY <1>2, FS_EmptySet
<1> QED BY <1>1, <1>2, <1>3 DEF DequeInv, Distinct, Assigned, PoolAccounted

LEMMA StepDeque == PoolTypeOK /\ DequeInv /\ [Next]_vars => DequeInv'
<1> SUFFICES ASSUME PoolTypeOK, DequeInv, [Next]_vars PROVE DequeInv'
  OBVIOUS
<1>1. CASE Kept
  BY <1>1 DEF Kept, DequeInv, Distinct, Assigned, PoolAccounted, Live
<1>2. CASE Requeued
  BY <1>2, RequeueDeque DEF Requeued
<1>3. ASSUME NEW c, Removed(c) PROVE DequeInv'
  <2>1. /\ c \in Live /\ connections' = Without(c) /\ UNCHANGED next_connection_id
        /\ connections_failed' = connections_failed + 1
    BY <1>3 DEF Removed
  <2>2. Live' = Live \ {c} /\ Len(connections') = Len(connections) - 1 /\ Len(connections) \in Nat /\ Distinct'
    BY <2>1, RemoveDeque DEF DequeInv, Distinct, Live
  <2>3. IsFiniteSet(Live') /\ Cardinality(Live') = Cardinality(Live) - 1
    BY <2>1, <2>2, FS_RemoveElement DEF DequeInv
  <2>4. next_connection_id = Len(connections) - 1 + (connections_failed + 1)
    BY <2>2 DEF DequeInv, PoolAccounted
  <2>5. PoolAccounted'
    BY <2>1, <2>2, <2>3, <2>4 DEF DequeInv, PoolAccounted
  <2> QED BY <2>1, <2>2, <2>3, <2>5 DEF DequeInv, Assigned
<1> QED BY <1>1, <1>2, <1>3, PoolMoves

LEMMA DequeAlways == Spec => [](PoolTypeOK /\ PoolInv /\ DequeInv)
BY InitPool, StepPool, InitDeque, StepDeque, PTL DEF Spec

\* No connection is lost or entered twice while it is taken out of the deque and put back
\* (event_loop.rs:217-240), whatever its channels, its failures or its place in the deque.
THEOREM PoolAccountedCorrect == Spec => []PoolAccounted
<1>1. DequeInv => PoolAccounted
  BY DEF DequeInv
<1> QED BY <1>1, DequeAlways, PTL

-----------------------------------------------------------------------------
(* Every event of a connection finds it in the pool *)

\* StateClosed is the last event of a connection.
ClosedLast(c) ==
    \A i \in 1..Len(incoming[c]) :
        incoming[c][i].kind = "StateClosed" => i = Len(incoming[c]) /\ phase[c] = "Closed"

\* Ids not yet assigned are unused; a connection with an event on its way to the client
\* loop, or that may still send one, is in the pool.
EventsInv ==
    /\ panicked # "lookup" /\ whispers \in Nat
    /\ incoming \in [Ids -> Seq(Events)]
    /\ \A c \in Ids :
        /\ c >= next_connection_id => phase[c] = "None"
        /\ phase[c] = "None" => incoming[c] = <<>>
        /\ phase[c] \in {"Initializing", "Open"} \/ incoming[c] # <<>> => c \in Live
        /\ ClosedLast(c)

\* What a step of the connections and the server does to connection d.
Dies(d) == phase[d] \in {"Initializing", "Open"} /\ phase'[d] \in {"Panicked", "Stuck"}
Silent(d) == (phase'[d] = phase[d] \/ Dies(d)) /\ incoming'[d] = incoming[d]
Sends(d) ==
    /\ phase[d] \in {"Initializing", "Open"} /\ phase'[d] \in {"Open", "Closed"}
    /\ \E e \in Events : /\ incoming'[d] = Append(incoming[d], e)
                         /\ e.kind = "StateClosed" => phase'[d] = "Closed"

LEMMA EventTypes ==
    /\ \A ch \in Channels : {Message("JOIN", ch), Message("PART", ch)} \subseteq Events
    /\ \A w \in Whispers : Message("WHISPER", w) \in Events
    /\ {Message("StateOpen", "None"), Message("StateClosed", "None")} \subseteq Events
BY DEF Message, Events, Requests

LEMMA SaysSends ==
    ASSUME EventsInv, NEW c \in Ids, NEW e \in Events, Says(c, e)
    PROVE  /\ incoming' = [d \in Ids |-> IF d = c THEN Append(incoming[d], e) ELSE incoming[d]]
           /\ incoming' \in [Ids -> Seq(Events)]
<1>1. \A d \in Ids : Append(incoming[d], e) \in Seq(Events) /\ incoming[d] \in Seq(Events)
  BY DEF EventsInv
<1>2. incoming' = [d \in Ids |-> IF d = c THEN Append(incoming[d], e) ELSE incoming[d]]
  BY DEF Says, EventsInv
<1> QED BY <1>1, <1>2

LEMMA EnvironmentSends ==
    ASSUME PoolTypeOK, EventsInv, Environment
    PROVE  incoming' \in [Ids -> Seq(Events)] /\ \A d \in Ids : Silent(d) \/ Sends(d)
<1> DEFINE goal == incoming' \in [Ids -> Seq(Events)] /\ \A d \in Ids : Silent(d) \/ Sends(d)
<1>1. ASSUME NEW c \in Ids, NEW e \in Events, Says(c, e), phase[c] \in {"Initializing", "Open"},
             NEW p \in {"Open", "Closed"}, phase' = [phase EXCEPT ![c] = p],
             e.kind = "StateClosed" => p = "Closed"
      PROVE  goal
  <2>1. phase' = [d \in Ids |-> IF d = c THEN p ELSE phase[d]]
    BY <1>1 DEF PoolTypeOK
  <2> QED BY <1>1, <2>1, SaysSends DEF Silent, Sends
<1>2. ASSUME UNCHANGED <<phase, incoming>> PROVE goal
  BY <1>2 DEF EventsInv, Silent
<1>3. ASSUME NEW c \in Ids, phase[c] = "Open", UNCHANGED phase, NEW e \in Events, Says(c, e),
             e.kind # "StateClosed"
      PROVE  goal
  <2>1. phase' = [phase EXCEPT ![c] = "Open"]
    BY <1>3 DEF PoolTypeOK
  <2> QED BY <1>1, <1>3, <2>1
<1> HIDE DEF goal
<1>4. ASSUME NEW c \in Ids, PeerOpens(c) PROVE goal
  <2>1. Message("StateOpen", "None") \in Events /\ Message("StateOpen", "None").kind # "StateClosed"
    BY EventTypes DEF Message
  <2> QED BY <1>1, <1>4, <2>1 DEF PeerOpens
<1>5. ASSUME NEW c \in Ids, PeerCloses(c) PROVE goal
  BY <1>1, <1>5, EventTypes DEF PeerCloses
<1>8. ASSUME NEW c \in Ids, PeerPanics(c) \/ PeerSticks(c) PROVE goal
  <2>1. PICK p \in {"Panicked", "Stuck"} :
            /\ phase[c] \in {"Initializing", "Open"} /\ UNCHANGED incoming
            /\ phase' = [phase EXCEPT ![c] = p]
    BY <1>8 DEF PeerPanics, PeerSticks
  <2>2. phase' = [d \in Ids |-> IF d = c THEN p ELSE phase[d]]
    BY <2>1 DEF PoolTypeOK
  <2> QED BY <2>1, <2>2 DEF goal, EventsInv, Silent, Dies
<1>6. ASSUME NEW c \in Ids, NEW ch \in Channels,
             ServerJoins(c, ch) \/ ServerParts(c, ch) \/ ServerRefuses(c, ch) \/ ServerRemoves(c, ch)
      PROVE  goal
  <2>1. phase[c] = "Open" /\ UNCHANGED phase
    BY <1>6 DEF ServerJoins, ServerParts, ServerRefuses, ServerRemoves, NextRequest
  <2>2. \/ UNCHANGED incoming
        \/ Says(c, Message("JOIN", ch)) \/ Says(c, Message("PART", ch))
    BY <1>6 DEF ServerJoins, ServerParts, ServerRefuses, ServerRemoves
  <2>3. Message("JOIN", ch).kind # "StateClosed" /\ Message("PART", ch).kind # "StateClosed"
    BY DEF Message
  <2> QED BY <1>2, <1>3, <2>1, <2>2, <2>3, EventTypes
<1>7. ASSUME ServerWhispers PROVE goal
  <2> DEFINE w == whispers + 1
             m == Message("WHISPER", w)
  <2>1. /\ UNCHANGED phase
        /\ incoming' = [c \in Ids |-> IF phase[c] = "Open" THEN Append(incoming[c], m)
                                      ELSE incoming[c]]
    BY <1>7 DEF ServerWhispers
  <2>2. m \in Events /\ m.kind # "StateClosed"
    <3>1. w \in Whispers
      BY <1>7, PoolAssumption DEF ServerWhispers, Whispers, EventsInv
    <3> QED BY <3>1, EventTypes DEF Message
  <2> HIDE DEF m
  <2>3. \A d \in Ids : Append(incoming[d], m) \in Seq(Events) /\ incoming[d] \in Seq(Events)
    BY <2>2 DEF EventsInv
  <2>4. incoming' \in [Ids -> Seq(Events)]
    BY <2>1, <2>3
  <2>5. \A d \in Ids : Silent(d) \/ Sends(d)
    BY <2>1, <2>2 DEF Silent, Sends
  <2> QED BY <2>4, <2>5 DEF goal
<1> QED BY <1>4, <1>5, <1>6, <1>7, <1>8 DEF Environment, ServerAnswers, goal

LEMMA AppendClosed ==
    ASSUME NEW q \in Seq(Events), NEW e \in Events,
           \A i \in 1..Len(q) : q[i].kind # "StateClosed"
    PROVE  /\ Append(q, e) # <<>>
           /\ \A i \in 1..Len(Append(q, e)) : Append(q, e)[i].kind = "StateClosed"
                  => i = Len(Append(q, e)) /\ e.kind = "StateClosed"
<1>1. /\ Len(Append(q, e)) = Len(q) + 1 /\ Len(q) \in Nat
      /\ \A i \in 1..Len(q) : Append(q, e)[i] = q[i]
      /\ Append(q, e)[Len(q) + 1] = e
  OBVIOUS
<1>2. \A i \in 1..Len(Append(q, e)) : i \in 1..Len(q) \/ i = Len(q) + 1
  BY <1>1
<1> QED BY <1>1, <1>2

LEMMA TailClosed ==
    ASSUME NEW q \in Seq(Events), q # <<>>
    PROVE  /\ Tail(q) \in Seq(Events) /\ Head(q) = q[1] /\ 1 \in 1..Len(q) /\ Len(q) \in Nat
           /\ Len(q) = 1 => Tail(q) = <<>>
           /\ Len(Tail(q)) = Len(q) - 1
           /\ \A i \in 1..Len(Tail(q)) : i + 1 \in 1..Len(q) /\ Tail(q)[i] = q[i + 1]
OBVIOUS

\* A step of connections and server.
LEMMA EnvironmentEvents == PoolTypeOK /\ EventsInv /\ Environment => EventsInv'
<1> SUFFICES ASSUME PoolTypeOK, EventsInv, Environment PROVE EventsInv'
  OBVIOUS
<1>1. /\ incoming' \in [Ids -> Seq(Events)] /\ \A d \in Ids : Silent(d) \/ Sends(d)
      /\ Live' = Live /\ UNCHANGED <<next_connection_id, panicked>>
  BY EnvironmentSends, EnvironmentMoves DEF Kept, Live
<1>2. whispers' \in Nat
  BY DEF EventsInv, Environment, PeerOpens, PeerCloses, PeerPanics, PeerSticks, ServerAnswers, ServerJoins, ServerParts,
         ServerRefuses, ServerRemoves, ServerWhispers, NextRequest
<1>3. ASSUME NEW d \in Ids
      PROVE  /\ d >= next_connection_id' => phase'[d] = "None"
             /\ phase'[d] = "None" => incoming'[d] = <<>>
             /\ phase'[d] \in {"Initializing", "Open"} \/ incoming'[d] # <<>> => d \in Live'
             /\ ClosedLast(d)'
  <2>1. CASE Silent(d)
    BY <1>1, <2>1 DEF Silent, Dies, EventsInv, ClosedLast
  <2>2. CASE Sends(d)
    <3>1. PICK e \in Events : /\ incoming'[d] = Append(incoming[d], e)
                              /\ e.kind = "StateClosed" => phase'[d] = "Closed"
      BY <2>2 DEF Sends
    <3>2. incoming[d] \in Seq(Events) /\ \A i \in 1..Len(incoming[d]) : incoming[d][i].kind # "StateClosed"
      BY <2>2 DEF Sends, EventsInv, ClosedLast
    <3>3. ClosedLast(d)'
      BY <3>1, <3>2, AppendClosed DEF ClosedLast
    <3>4. d \in Live /\ ~(d >= next_connection_id) /\ phase'[d] # "None"
      BY <2>2 DEF Sends, EventsInv
    <3> QED BY <1>1, <3>3, <3>4
  <2> QED BY <1>1, <2>1, <2>2
<1> QED BY <1>1, <1>2, <1>3 DEF EventsInv

\* A command, or an iteration of a handler.
LEMMA CommandEvents ==
    ASSUME PoolTypeOK, DequeInv, EventsInv, UserCommand \/ Continue
    PROVE  EventsInv'
<1>1. /\ (Kept /\ UNCHANGED phase) \/ Requeued
      /\ UNCHANGED <<incoming, panicked>>
  BY CommandMoves
<1>2. UNCHANGED whispers
  BY DEF UserCommand, Connect, SendMessage, Join, Part, SetWantedChannels, Command, Continue,
         FinishClosed, PartNext, JoinNext, Working, bound_vars
<1>3. CASE Kept /\ UNCHANGED phase
  BY <1>1, <1>2, <1>3 DEF EventsInv, Kept, Live, ClosedLast
<1>4. CASE Requeued
  <2>1. PICK c : (c = Fresh \/ c \in Live) /\ Requeue(c) /\ UNCHANGED connections_failed
    BY <1>4 DEF Requeued
  <2>2. c \in Ids /\ Live' = Live \union {c}
    BY <2>1, RequeueDeque
  <2>3. /\ next_connection_id' >= next_connection_id /\ next_connection_id' \in Nat
        /\ next_connection_id \in Nat
        /\ c >= next_connection_id' => FALSE
        /\ \A d \in Ids \ {c} : phase'[d] = phase[d]
        /\ phase'[c] = phase[c] \/ (c = Fresh /\ phase'[c] = "Initializing")
    <3>1. next_connection_id \in Nat
      BY PoolAssumption DEF PoolTypeOK
    <3>2. CASE c = Fresh
      BY <2>1, <2>2, <3>1, <3>2 DEF Requeue, Fresh, PoolTypeOK
    <3>3. CASE c # Fresh
      <4>1. c < next_connection_id /\ c \in Nat
        BY <2>1, <2>2, <3>3, PoolAssumption DEF DequeInv, Assigned, Ids
      <4>2. UNCHANGED <<next_connection_id, phase>>
        BY <2>1, <3>3 DEF Requeue
      <4>3. ~(c >= next_connection_id) /\ next_connection_id >= next_connection_id
        BY <3>1, <4>1
      <4> QED BY <3>1, <4>2, <4>3
    <3> QED BY <3>2, <3>3
  <2>4. ASSUME NEW d \in Ids
        PROVE  /\ d >= next_connection_id' => phase'[d] = "None"
               /\ phase'[d] = "None" => incoming'[d] = <<>>
               /\ phase'[d] \in {"Initializing", "Open"} \/ incoming'[d] # <<>> => d \in Live'
               /\ ClosedLast(d)'
    <3>1. CASE d # c
      <4>1. d >= next_connection_id' => d >= next_connection_id
        BY <2>3, PoolAssumption DEF Ids
      <4> QED BY <1>1, <2>2, <2>3, <3>1, <4>1 DEF EventsInv, ClosedLast
    <3>2. CASE d = c /\ phase'[c] = phase[c]
      BY <1>1, <2>2, <2>3, <3>2 DEF EventsInv, ClosedLast
    <3>3. CASE d = c /\ c = Fresh /\ phase'[c] = "Initializing"
      <4>1. incoming[c] = <<>>
        <5>1. c >= next_connection_id
          BY <2>3, <3>3 DEF Fresh
        <5> QED BY <2>2, <5>1 DEF EventsInv
      <4>2. \A i \in 1..Len(incoming[c]) : FALSE
        BY <4>1
      <4> QED BY <1>1, <2>2, <2>3, <3>3, <4>1, <4>2 DEF ClosedLast
    <3> QED BY <2>3, <3>1, <3>2, <3>3
  <2> QED BY <1>1, <1>2, <2>4 DEF EventsInv
<1> QED BY <1>1, <1>3, <1>4

\* An event of connection c is handled.
LEMMA ReceiveEvents ==
    ASSUME PoolTypeOK, DequeInv, EventsInv, NEW c \in Ids, on_incoming_message(c)
    PROVE  /\ EventsInv'
           /\ c \in Live
           /\ Kept \/ (Removed(c) /\ OnStateClosed(c))
<1>1. PICK kind, arg : Receive(c, kind, arg) /\ (OnStateClosed(c) => kind = "StateClosed")
  BY DEF on_incoming_message, OnServerJoin, OnServerPart, OnWhisper, OnStateOpen, OnStateClosed
<1>2. /\ incoming[c] # <<>> /\ incoming[c] \in Seq(Events) /\ c \in Live
      /\ incoming' = [incoming EXCEPT ![c] = Tail(@)] /\ UNCHANGED <<phase, next_connection_id, whispers>>
  BY <1>1 DEF Receive, EventsInv, bound_vars
<1>3. UNCHANGED panicked
  BY <1>2 DEF on_incoming_message, OnServerJoin, OnServerPart, OnWhisper, OnStateOpen,
              OnStateClosed, Unwraps
<1>4. Kept \/ (Removed(c) /\ OnStateClosed(c))
  BY OtherMoves, ClosedMoves DEF on_incoming_message
<1>5. incoming' \in [Ids -> Seq(Events)] /\ incoming'[c] = Tail(incoming[c])
      /\ \A d \in Ids \ {c} : incoming'[d] = incoming[d]
  BY <1>2, TailClosed DEF EventsInv
<1>6. ClosedLast(c)' /\ (incoming'[c] # <<>> => incoming[c] # <<>>)
  <2>1. ASSUME NEW i \in 1..Len(Tail(incoming[c])), Tail(incoming[c])[i].kind = "StateClosed"
        PROVE  i = Len(Tail(incoming[c])) /\ phase[c] = "Closed"
    <3>1. i + 1 \in 1..Len(incoming[c]) /\ incoming[c][i + 1].kind = "StateClosed"
          /\ Len(Tail(incoming[c])) = Len(incoming[c]) - 1 /\ Len(incoming[c]) \in Nat
      BY <1>2, <2>1, TailClosed
    <3>2. i + 1 = Len(incoming[c]) /\ phase[c] = "Closed"
      BY <3>1 DEF EventsInv, ClosedLast
    <3> QED BY <3>1, <3>2
  <2> QED BY <1>2, <1>5, <2>1 DEF ClosedLast
<1>7. CASE Kept
  <2>1. Live' = Live
    BY <1>7 DEF Kept, Live
  <2>2. \A d \in Ids \ {c} : ClosedLast(d)'
    BY <1>2, <1>5 DEF EventsInv, ClosedLast
  <2>3. \A d \in Ids : ClosedLast(d)'
    BY <1>6, <2>2
  <2>4. \A d \in Ids : /\ d >= next_connection_id' => phase'[d] = "None"
                       /\ phase'[d] = "None" => incoming'[d] = <<>>
                       /\ phase'[d] \in {"Initializing", "Open"} \/ incoming'[d] # <<>> => d \in Live'
    BY <1>2, <1>5, <1>6, <2>1 DEF EventsInv
  <2>5. EventsInv'
    BY <1>2, <1>3, <1>5, <2>3, <2>4 DEF EventsInv
  <2> QED BY <1>2, <1>7, <2>5
<1>8. CASE Removed(c) /\ OnStateClosed(c)
  <2>1. Live' = Live \ {c}
    BY <1>8, RemoveDeque DEF Removed, Live, DequeInv
  <2>2. phase[c] = "Closed" /\ incoming'[c] = <<>>
    <3>1. Head(incoming[c]).kind = "StateClosed"
      BY <1>1, <1>8 DEF Receive, Message
    <3>2. 1 \in 1..Len(incoming[c]) /\ incoming[c][1].kind = "StateClosed"
      BY <1>2, <3>1, TailClosed
    <3>3. Len(incoming[c]) = 1 /\ phase[c] = "Closed"
      BY <3>2 DEF EventsInv, ClosedLast
    <3> QED BY <1>2, <1>5, <3>3, TailClosed
  <2>3. \A d \in Ids \ {c} : ClosedLast(d)'
    BY <1>2, <1>5 DEF EventsInv, ClosedLast
  <2>4. \A d \in Ids : ClosedLast(d)'
    BY <1>6, <2>3
  <2>5. \A d \in Ids : /\ d >= next_connection_id' => phase'[d] = "None"
                       /\ phase'[d] = "None" => incoming'[d] = <<>>
                       /\ phase'[d] \in {"Initializing", "Open"} \/ incoming'[d] # <<>> => d \in Live'
    BY <1>2, <1>5, <2>1, <2>2 DEF EventsInv
  <2>6. EventsInv'
    BY <1>2, <1>3, <1>5, <2>4, <2>5 DEF EventsInv
  <2> QED BY <1>2, <1>8, <2>6
<1> QED BY <1>4, <1>7, <1>8

LEMMA InitEvents == Init => EventsInv
BY PoolAssumption DEF Init, EventsInv, ClosedLast

LEMMA StepEvents == PoolTypeOK /\ DequeInv /\ EventsInv /\ [Next]_vars => EventsInv'
<1>1. EventsInv /\ UNCHANGED vars => EventsInv'
  BY DEF vars, worker_vars, bound_vars, EventsInv, ClosedLast, Live
<1>2. EventsInv /\ (\E c \in Ids : SendPanics(c)) => EventsInv'
  BY SendPanicsMoves DEF EventsInv, ClosedLast, Live
<1> QED BY <1>1, <1>2, EnvironmentEvents, CommandEvents, ReceiveEvents DEF Next

LEMMA EventsAlways == Spec => [](PoolTypeOK /\ PoolInv /\ DequeInv /\ EventsInv)
BY InitPool, StepPool, InitDeque, StepDeque, InitEvents, StepEvents, PTL DEF Spec

\* The lookups of the source connection of an event (event_loop.rs:409-462) never fail,
\* for any number of connections and any order in which their events and failures arrive.
THEOREM NoUnwrapFailsCorrect == Spec => []NoUnwrapFails
<1>1. EventsInv => NoUnwrapFails
  BY DEF EventsInv, NoUnwrapFails
<1> QED BY <1>1, EventsAlways, PTL

-----------------------------------------------------------------------------
(* The pool keeps a connection, and the whisper connection is one of it *)

\* While no StateClosed handler is at work, a pool that had a connection has one; the
\* handler may hold the last id of the whisper connection until its end.
RoleInv ==
    /\ work.closing = NoConnection /\ next_connection_id > 0 => connections # <<>>
    /\ WhisperConnectionLives

LEMMA RequeuedNonempty ==
    ASSUME PoolTypeOK, Requeued PROVE connections' # <<>> /\ Live \subseteq Live'
<1>1. PICK c : (c = Fresh \/ c \in Live) /\ Requeue(c)
  BY DEF Requeued
<1>2. c \in Ids /\ Live' = Live \union {c}
  BY <1>1, RequeueKeeps DEF PoolTypeOK
<1>3. connections' # <<>>
  <2>1. c \in ToSet(connections')
    BY <1>2 DEF Live
  <2>2. ToSet(<<>>) = {}
    BY DEF ToSet
  <2> QED BY <2>1, <2>2
<1> QED BY <1>2, <1>3

LEMMA InitRole == Init => RoleInv
BY DEF Init, RoleInv, WhisperConnectionLives, NoWork

LEMMA StepRole ==
    PoolTypeOK /\ PoolInv /\ DequeInv /\ EventsInv /\ AskedInv /\ RoleInv /\ [Next]_vars => RoleInv'
<1> SUFFICES ASSUME PoolTypeOK, PoolInv, DequeInv, EventsInv, AskedInv, RoleInv, [Next]_vars
             PROVE  RoleInv'
  OBVIOUS
<1>1. ASSUME Kept, UNCHANGED <<work, current_whisper_connection_id>> PROVE RoleInv'
  BY <1>1 DEF RoleInv, WhisperConnectionLives, Kept, Live
<1>2. ASSUME Kept \/ Requeued, work'.closing = work.closing,
             UNCHANGED current_whisper_connection_id
      PROVE  RoleInv'
  <2>1. CASE Kept
    BY <1>2, <2>1 DEF RoleInv, WhisperConnectionLives, Kept, Live
  <2>2. CASE Requeued
    BY <1>2, <2>2, RequeuedNonempty DEF RoleInv, WhisperConnectionLives
  <2> QED BY <1>2, <2>1, <2>2
<1>3. CASE UNCHANGED vars
  BY <1>1, <1>3 DEF vars, worker_vars, whisper_vars, metric_vars, Kept
<1>4. CASE UserCommand
  <2>1. work'.closing = work.closing
    BY <1>4 DEF UserCommand, Connect, SendMessage, Join, Part, SetWantedChannels, Command, Idle,
                NoWork
  <2>2. UNCHANGED current_whisper_connection_id
    BY <1>4 DEF UserCommand, Connect, SendMessage, Join, Part, SetWantedChannels, Command,
                whisper_vars
  <2> QED BY <1>2, <1>4, <2>1, <2>2, CommandMoves
<1>5. ASSUME NEW ch \in Channels, PartNext(ch) \/ JoinNext(ch) PROVE RoleInv'
  <2>1. work'.closing = work.closing
    BY <1>5 DEF PartNext, JoinNext, AskedInv, WorkTypeOK
  <2>2. UNCHANGED current_whisper_connection_id
    BY <1>5 DEF PartNext, JoinNext, whisper_vars
  <2> QED BY <1>2, <1>5, <2>1, <2>2, CommandMoves DEF Continue
<1>6. CASE FinishClosed
  <2>1. Kept \/ Requeued
    BY <1>6, CommandMoves DEF Continue
  <2>2. connections' # <<>> /\ Live \subseteq Live'
    BY <1>6, <2>1, RequeuedNonempty DEF FinishClosed, StayConnected, Kept, Requeued, Live
  <2>3. current_whisper_connection_id' \in Live' \union {NoConnection}
    BY <1>6, <2>2 DEF FinishClosed, ReleaseWhisperRole, RoleInv, WhisperConnectionLives
  <2> QED BY <2>2, <2>3 DEF RoleInv, WhisperConnectionLives
<1>7. ASSUME NEW c \in Ids, on_incoming_message(c) PROVE RoleInv'
  <2>1. c \in Live
    BY <1>7, ReceiveEvents
  <2>2. CASE \E ch \in Channels : OnServerJoin(c, ch) \/ OnServerPart(c, ch)
    <3>1. Kept /\ UNCHANGED work
      BY <2>2, OtherMoves
    <3>2. UNCHANGED current_whisper_connection_id
      BY <2>2 DEF OnServerJoin, OnServerPart, Unwraps, whisper_vars
    <3> QED BY <1>1, <3>1, <3>2
  <2>3. CASE OnStateOpen(c)
    <3>1. Kept /\ UNCHANGED work
      BY <2>3, OtherMoves
    <3>2. UNCHANGED current_whisper_connection_id
      BY <2>3 DEF OnStateOpen, Unwraps, whisper_vars
    <3> QED BY <1>1, <3>1, <3>2
  <2>4. ASSUME NEW w \in Whispers, OnWhisper(c, w) PROVE RoleInv'
    <3>1. Kept /\ UNCHANGED work
      BY <2>4, OtherMoves
    <3>2. current_whisper_connection_id' \in {current_whisper_connection_id, c}
      BY <2>4 DEF OnWhisper, whisper_vars
    <3> QED BY <2>1, <3>1, <3>2 DEF RoleInv, WhisperConnectionLives, Kept, Live
  <2>5. CASE OnStateClosed(c)
    <3>1. Idle /\ UNCHANGED current_whisper_connection_id
      BY <2>5 DEF OnStateClosed, Receive, Unwraps, whisper_vars
    <3>2. connections' = Without(c) /\ work' = [NoWork EXCEPT !.joins = wanted_channels[c], !.closing = c]
      BY <2>1, <2>5 DEF OnStateClosed, Unwraps
    <3>3. Live' = Live \ {c}
      BY <2>1, <3>2, RemoveDeque DEF Live, DequeInv
    <3>4. work'.closing = c /\ c # NoConnection
      BY <3>2, PoolAssumption DEF NoWork, Ids, NoConnection
    <3>5. work.closing = NoConnection
      BY <3>1 DEF Idle, NoWork
    <3> QED BY <3>1, <3>3, <3>4, <3>5 DEF RoleInv, WhisperConnectionLives
  <2> QED BY <1>7, <2>2, <2>3, <2>4, <2>5 DEF on_incoming_message
<1>8. CASE Environment
  BY <1>1, <1>8, EnvironmentMoves
<1>9. ASSUME NEW c \in Ids, SendPanics(c) PROVE RoleInv'
  BY <1>1, <1>9, SendPanicsMoves
<1> QED BY <1>3, <1>4, <1>5, <1>6, <1>7, <1>8, <1>9 DEF Next, Continue

LEMMA RoleAlways == Spec => [](PoolTypeOK /\ RoleInv)
BY InitPool, StepPool, InitAsked, StepAsked, InitDeque, StepDeque, InitEvents, StepEvents, InitRole,
   StepRole, PTL DEF Spec

\* A pool that had a connection has one after every handler, to receive whispers
\* (event_loop.rs:493-498).
THEOREM StaysConnectedCorrect == Spec => []StaysConnected
<1>1. RoleInv => StaysConnected
  BY DEF RoleInv, StaysConnected, Idle, NoWork
<1> QED BY <1>1, RoleAlways, PTL

\* The whisper connection is never one that left the pool (event_loop.rs:483-490), which
\* would silence all whispers.
THEOREM WhisperConnectionLivesCorrect == Spec => []WhisperConnectionLives
<1>1. RoleInv => WhisperConnectionLives
  BY DEF RoleInv
<1> QED BY <1>1, RoleAlways, PTL

-----------------------------------------------------------------------------
(* The limit on the channels of a connection *)

Limit == IF MaxChannelsPerConnection = 0 THEN 1 ELSE MaxChannelsPerConnection

LEMMA JoinLimit ==
    ASSUME PoolTypeOK, PoolInv, DequeInv, LimitRespected, NEW ch \in Channels, join(ch)
    PROVE  LimitRespected'
<1>1. CASE Confirmed(ch)
  BY <1>1 DEF join, LimitRespected
<1>2. CASE ~Confirmed(ch)
  <2> DEFINE c == JoinTarget(ch)
  <2>1. Requeue(c) /\ wanted_channels' = [wanted_channels EXCEPT ![c] = @ \union {ch}]
    BY <1>2 DEF join
  <2>2. /\ c = Fresh \/ c \in Live
        /\ Wanting(ch) # {} => c \in Wanting(ch)
        /\ Wanting(ch) = {} /\ c # Fresh => c \in BelowLimit
    BY JoinTargetFound
  <2> HIDE DEF c
  <2>3. c \in Ids
    BY <2>1, <2>2, RequeueKeeps DEF PoolTypeOK
  <2>4. \A d \in Ids : wanted_channels'[d] =
            IF d = c THEN wanted_channels[c] \union {ch} ELSE wanted_channels[d]
    BY <2>1, <2>3 DEF PoolTypeOK
  <2>5. MaxChannelsPerConnection \in Nat /\ IsFiniteSet(wanted_channels[c])
    <3>1. wanted_channels[c] \subseteq Channels
      BY <2>3 DEF PoolTypeOK
    <3> QED BY <3>1, PoolAssumption, FS_Subset
  <2>6. Cardinality(wanted_channels[c]) \in Nat /\ Cardinality(wanted_channels[c]) <= Limit
    BY <2>3, <2>5, FS_CardinalityType DEF LimitRespected, Limit
  <2>7. Cardinality(wanted_channels[c] \union {ch}) <= Limit
    <3>1. CASE ch \in wanted_channels[c]
      <4>1. wanted_channels[c] \union {ch} = wanted_channels[c]
        BY <3>1
      <4> QED BY <2>6, <4>1
    <3>2. CASE ch \notin wanted_channels[c] /\ c = Fresh
      <4>1. c \notin Live
        <5>1. next_connection_id \in Nat /\ (c \in Live => c < next_connection_id)
          BY PoolAssumption DEF PoolTypeOK, DequeInv, Assigned
        <5> QED BY <3>2, <5>1 DEF Fresh
      <4>2. wanted_channels[c] = {}
        BY <2>3, <4>1 DEF PoolInv
      <4>3. Cardinality(wanted_channels[c] \union {ch}) = 0 + 1
        BY <2>5, <4>2, FS_EmptySet, FS_AddElement
      <4> QED BY <2>5, <4>3 DEF Limit
    <3>3. CASE ch \notin wanted_channels[c] /\ c # Fresh
      <4>1. Cardinality(wanted_channels[c]) < MaxChannelsPerConnection
        BY <2>2, <3>3 DEF Wanting, BelowLimit
      <4>2. Cardinality(wanted_channels[c] \union {ch}) = Cardinality(wanted_channels[c]) + 1
        BY <2>5, <3>3, FS_AddElement
      <4> QED BY <2>5, <2>6, <4>1, <4>2 DEF Limit
    <3> QED BY <3>1, <3>2, <3>3
  <2> QED BY <2>4, <2>7 DEF LimitRespected, Limit
<1> QED BY <1>1, <1>2

\* Every other step leaves each connection at most the channels it had.
LEMMA FewerWanted ==
    ASSUME PoolTypeOK, PoolInv, LimitRespected, \A d \in Ids : wanted_channels'[d] \subseteq wanted_channels[d]
    PROVE  LimitRespected'
<1> SUFFICES ASSUME NEW d \in Ids PROVE Cardinality(wanted_channels'[d]) <= Limit
  BY DEF LimitRespected, Limit
<1>1. IsFiniteSet(wanted_channels[d]) /\ MaxChannelsPerConnection \in Nat
  <2>1. wanted_channels[d] \subseteq Channels
    BY DEF PoolTypeOK
  <2> QED BY <2>1, PoolAssumption, FS_Subset
<1>2. /\ Cardinality(wanted_channels[d]) \in Nat /\ Cardinality(wanted_channels'[d]) \in Nat
      /\ Cardinality(wanted_channels'[d]) <= Cardinality(wanted_channels[d])
  BY <1>1, FS_Subset, FS_CardinalityType
<1>3. Cardinality(wanted_channels[d]) <= Limit
  BY DEF LimitRespected, Limit
<1> QED BY <1>1, <1>2, <1>3 DEF Limit

LEMMA InitLimit == Init => LimitRespected
<1> SUFFICES ASSUME Init, NEW d \in Ids PROVE Cardinality(wanted_channels[d]) <= Limit
  BY DEF LimitRespected, Limit
<1>1. Cardinality(wanted_channels[d]) = 0 /\ MaxChannelsPerConnection \in Nat
  BY FS_EmptySet, PoolAssumption DEF Init
<1> QED BY <1>1 DEF Limit

LEMMA StepLimit ==
    PoolTypeOK /\ PoolInv /\ DequeInv /\ LimitRespected /\ [Next]_vars => LimitRespected'
<1> SUFFICES ASSUME PoolTypeOK, PoolInv, DequeInv, LimitRespected, [Next]_vars
             PROVE  LimitRespected'
  OBVIOUS
<1> DEFINE fewer == \A d \in Ids : wanted_channels'[d] \subseteq wanted_channels[d]
<1>1. CASE UNCHANGED vars
  BY <1>1 DEF vars, worker_vars, LimitRespected
<1>2. ASSUME NEW ch \in Channels, Join(ch) \/ JoinNext(ch) PROVE LimitRespected'
  BY <1>2, JoinLimit DEF Join, JoinNext
<1>3. ASSUME NEW ch \in Channels, Part(ch) \/ PartNext(ch) PROVE fewer
  BY <1>3 DEF Part, PartNext, part, PoolTypeOK
<1>4. ASSUME \/ Connect \/ FinishClosed
             \/ \E busy \in SUBSET Live : SendMessage(busy)
             \/ \E S \in SUBSET Channels : SetWantedChannels(S)
      PROVE  fewer
  BY <1>4 DEF Connect, FinishClosed, StayConnected, SendMessage, SetWantedChannels
<1>5. ASSUME NEW c \in Ids, on_incoming_message(c) PROVE fewer
  BY <1>5, OtherMoves, ClosedMoves DEF on_incoming_message, PoolTypeOK
<1>6. ASSUME Environment PROVE fewer
  BY <1>6, EnvironmentMoves
<1>8. ASSUME NEW c \in Ids, SendPanics(c) PROVE fewer
  BY <1>8, SendPanicsMoves
<1> HIDE DEF fewer
<1>7. fewer => LimitRespected'
  BY FewerWanted DEF fewer
<1> QED BY <1>1, <1>2, <1>3, <1>4, <1>5, <1>6, <1>7, <1>8 DEF Next, UserCommand, Continue, fewer

\* However channels are moved about by failures, no connection wants more of them than
\* config.max_channels_per_connection; with a limit of zero, the one it was made for
\* (event_loop.rs:265-276).
THEOREM LimitRespectedCorrect == Spec => []LimitRespected
BY InitPool, StepPool, InitDeque, StepDeque, InitLimit, StepLimit, PTL DEF Spec

-----------------------------------------------------------------------------
(* The gauges *)

GaugesInv == gauges = Gauges(connections, wanted_channels, server_channels, reported_state)

LEMMA InitGauges == Init => GaugesInv
<1> SUFFICES ASSUME Init PROVE GaugesInv
  OBVIOUS
<1>1. ToSet(connections) = {} /\ Cardinality({}) = 0
  BY FS_EmptySet DEF Init, ToSet
<1> DEFINE live == ToSet(connections)
<1>2. /\ {c \in live : reported_state[c] = "Initializing"} = {}
      /\ {c \in live : reported_state[c] = "Open"} = {}
  BY <1>1
<1>3. /\ {p \in live \X Channels : p[2] \in wanted_channels[p[1]]} = {}
      /\ {p \in live \X Channels : p[2] \in server_channels[p[1]]} = {}
  BY <1>1
<1> HIDE DEF live
<1>4. Gauges(connections, wanted_channels, server_channels, reported_state)
          = [initializing |-> 0, open |-> 0, wanted |-> 0, server |-> 0]
  BY <1>1, <1>2, <1>3 DEF Gauges, live
<1> QED BY <1>4 DEF Init, GaugesInv

\* Every step that changes what the gauges show ends in update_metrics.
LEMMA StepGauges == GaugesInv /\ [Next]_vars => GaugesInv'
<1> DEFINE same == UNCHANGED <<connections, wanted_channels, server_channels, reported_state, gauges>>
<1> SUFFICES ASSUME GaugesInv, [Next]_vars PROVE same \/ update_metrics
  BY DEF GaugesInv, update_metrics
<1>1. CASE UNCHANGED vars
  BY <1>1 DEF vars, worker_vars, report_vars, metric_vars
<1>2. CASE UserCommand
  BY <1>2 DEF UserCommand, Command, report_vars, Connect, SendMessage, Join, Part, join, part,
              SetWantedChannels
<1>3. CASE Continue
  BY <1>3 DEF Continue, Working, report_vars, FinishClosed, StayConnected, PartNext, JoinNext,
              join, part
<1>4. ASSUME NEW c \in Ids, on_incoming_message(c) PROVE same \/ update_metrics
  BY <1>4 DEF on_incoming_message, OnServerJoin, OnServerPart, OnWhisper, OnStateOpen,
              OnStateClosed, Unwraps, report_vars
<1>5. CASE Environment
  BY <1>5, EnvironmentMoves DEF Kept
<1>6. ASSUME NEW c \in Ids, SendPanics(c) PROVE same
  BY <1>6, SendPanicsMoves
<1> QED BY <1>1, <1>2, <1>3, <1>4, <1>5, <1>6 DEF Next

\* The gauges `connections` and `channels` show the pool as it is between two commands
\* (update_metrics, event_loop.rs:503-553): no path through a handler forgets to set them.
THEOREM GaugesCurrentCorrect == Spec => []GaugesCurrent
<1>1. GaugesInv => GaugesCurrent
  BY DEF GaugesInv, GaugesCurrent
<1> QED BY <1>1, InitGauges, StepGauges, PTL DEF Spec


-----------------------------------------------------------------------------
(* A set of channels once the messages of a queue have taken effect *)

IsAbout(m, ch) == m.kind \in {"JOIN", "PART"} /\ m.arg = ch
About(q, ch) == {i \in 1..Len(q) : IsAbout(q[i], ch)}

LEMMA AfterSays ==
    ASSUME NEW S, NEW q \in Seq(S), NEW set, NEW ch
    PROVE  /\ About(q, ch) = {} => (After(set, q, ch) <=> ch \in set)
           /\ About(q, ch) # {} =>
                (After(set, q, ch) <=> \E i \in About(q, ch) : /\ q[i].kind = "JOIN"
                                                                /\ \A j \in About(q, ch) : j <= i)
<1>1. DOMAIN q = 1..Len(q)
  OBVIOUS
<1>2. {i \in DOMAIN q : q[i].kind \in {"JOIN", "PART"} /\ q[i].arg = ch} = About(q, ch)
  BY <1>1 DEF About, IsAbout
<1> QED BY <1>2 DEF After

\* Without messages nothing changes.
LEMMA AfterNothing ==
    ASSUME NEW set, NEW ch PROVE After(set, <<>>, ch) <=> ch \in set
<1>1. <<>> \in Seq({}) /\ About(<<>>, ch) = {}
  BY DEF About
<1> QED BY <1>1, AfterSays

\* A smaller set stays the smaller one.
LEMMA AfterMonotone ==
    ASSUME NEW S, NEW q \in Seq(S), NEW small, NEW big, small \subseteq big, NEW ch,
           After(small, q, ch)
    PROVE  After(big, q, ch)
BY AfterSays

\* The last message about a channel decides.
LEMMA AfterAppend ==
    ASSUME NEW S, NEW q \in Seq(S), NEW m \in S, NEW set, NEW ch
    PROVE  /\ IsAbout(m, ch) => (After(set, Append(q, m), ch) <=> m.kind = "JOIN")
           /\ ~IsAbout(m, ch) => (After(set, Append(q, m), ch) <=> After(set, q, ch))
<1> DEFINE n == Len(q)
           longer == Append(q, m)
<1>1. /\ n \in Nat /\ longer \in Seq(S) /\ Len(longer) = n + 1
      /\ \A i \in 1..n : longer[i] = q[i]
      /\ longer[n + 1] = m
  OBVIOUS
<1> HIDE DEF longer, n
<1>2. \A i \in 1..(n + 1) : i \in 1..n \/ i = n + 1
  BY <1>1
<1>3. CASE IsAbout(m, ch)
  <2>1. n + 1 \in About(longer, ch)
    BY <1>1, <1>3 DEF About
  <2>2. \A i \in About(longer, ch) : i <= n + 1
    BY <1>1 DEF About
  <2>3. \A i \in About(longer, ch) : n + 1 <= i => i = n + 1
    BY <1>1 DEF About
  <2>4. After(set, longer, ch) <=> \E i \in About(longer, ch) : /\ longer[i].kind = "JOIN"
                                                              /\ \A j \in About(longer, ch) : j <= i
    BY <1>1, <2>1, AfterSays
  <2>5. After(set, longer, ch) <=> longer[n + 1].kind = "JOIN"
    BY <2>1, <2>2, <2>3, <2>4
  <2> QED BY <1>1, <1>3, <2>5 DEF longer
<1>4. CASE ~IsAbout(m, ch)
  <2>1. About(longer, ch) = About(q, ch)
    BY <1>1, <1>2, <1>4 DEF About, n
  <2>2. \A i \in About(q, ch) : longer[i] = q[i]
    BY <1>1 DEF About, n
  <2> QED BY <1>1, <1>4, <2>1, <2>2, AfterSays DEF longer
<1> QED BY <1>3, <1>4

\* The first message may as well have taken effect on the set already.
LEMMA AfterHead ==
    ASSUME NEW S, NEW q \in Seq(S), q # <<>>, NEW set, NEW then, NEW ch,
           ch \in then <=> IF IsAbout(Head(q), ch) THEN Head(q).kind = "JOIN" ELSE ch \in set
    PROVE  After(set, q, ch) <=> After(then, Tail(q), ch)
<1> DEFINE n == Len(q)
           rest == Tail(q)
<1>1. /\ n \in Nat /\ n >= 1 /\ rest \in Seq(S) /\ Len(rest) = n - 1
      /\ \A i \in 1..(n - 1) : rest[i] = q[i + 1]
      /\ Head(q) = q[1]
  OBVIOUS
<1> HIDE DEF rest, n
<1>2. \A i \in About(rest, ch) : i \in Nat /\ i >= 1 /\ i + 1 \in About(q, ch) /\ q[i + 1] = rest[i]
  BY <1>1 DEF About, n
<1>3. \A i \in About(q, ch) : \/ i = 1 /\ IsAbout(q[1], ch)
                              \/ i \in Nat /\ i > 1 /\ i - 1 \in About(rest, ch) /\ rest[i - 1] = q[i]
  BY <1>1 DEF About, n
<1>4. IsAbout(q[1], ch) => 1 \in About(q, ch)
  BY <1>1 DEF About, n
<1>5. CASE About(rest, ch) = {}
  <2>1. CASE IsAbout(q[1], ch)
    <3>1. About(q, ch) = {1}
      BY <1>3, <1>4, <1>5, <2>1
    <3>2. About(q, ch) # {}
      BY <3>1
    <3>3. After(set, q, ch) <=> \E i \in About(q, ch) : /\ q[i].kind = "JOIN"
                                                        /\ \A j \in About(q, ch) : j <= i
      BY <3>2, AfterSays
    <3>4. \A i, j \in About(q, ch) : j <= i
      BY <3>1
    <3>5. After(set, q, ch) <=> q[1].kind = "JOIN"
      BY <3>1, <3>3, <3>4, Zenon
    <3> QED BY <1>1, <1>5, <2>1, <3>5, AfterSays DEF rest
  <2>2. CASE ~IsAbout(q[1], ch)
    <3>1. About(q, ch) = {}
      BY <1>3, <1>5, <2>2
    <3> QED BY <1>1, <1>5, <2>2, <3>1, AfterSays DEF rest
  <2> QED BY <2>1, <2>2
<1>6. CASE About(rest, ch) # {}
  <2>1. PICK k \in About(rest, ch) : TRUE
    BY <1>6
  <2>2. About(q, ch) # {}
    BY <1>2, <2>1
  <2>3. ASSUME NEW i \in About(q, ch), q[i].kind = "JOIN", \A j \in About(q, ch) : j <= i
        PROVE  \E h \in About(rest, ch) : rest[h].kind = "JOIN" /\ \A j \in About(rest, ch) : j <= h
    <3>1. i # 1
      BY <1>2, <2>1, <2>3
    <3>2. i \in Nat /\ i - 1 \in About(rest, ch) /\ rest[i - 1] = q[i]
      BY <1>3, <2>3, <3>1
    <3>3. \A j \in About(rest, ch) : j <= i - 1
      BY <1>2, <2>3, <3>2
    <3> QED BY <2>3, <3>2, <3>3
  <2>4. ASSUME NEW h \in About(rest, ch), rest[h].kind = "JOIN", \A j \in About(rest, ch) : j <= h
        PROVE  \E i \in About(q, ch) : q[i].kind = "JOIN" /\ \A j \in About(q, ch) : j <= i
    <3>1. h \in Nat /\ h + 1 \in About(q, ch) /\ q[h + 1] = rest[h]
      BY <1>2, <2>4
    <3>2. \A j \in About(q, ch) : j <= h + 1
      BY <1>3, <2>4, <3>1
    <3> QED BY <2>4, <3>1, <3>2
  <2> QED BY <1>1, <1>6, <2>2, <2>3, <2>4, AfterSays DEF rest
<1> QED BY <1>5, <1>6


-----------------------------------------------------------------------------
(* What is sent, what is wanted, and what the server and the pool believe *)

ServerTypeOK ==
    /\ members \in [Ids -> SUBSET Channels] /\ server_channels \in [Ids -> SUBSET Channels]
    /\ refusals \in Nat

\* the phases of a connection that has left its server
Gone == {"Closed", "Panicked"}

\* The two properties, for one connection, whether it is in the pool or not yet made.
Settled(c) ==
    \A ch \in Channels :
        /\ After(members[c], outgoing[c], ch) => ch \in wanted_channels[c]
        /\ refusals = 0 /\ ch \in wanted_channels[c] => After(members[c], outgoing[c], ch)
Mirrored(c) ==
    \A ch \in Channels : After(server_channels[c], incoming[c], ch) <=> ch \in members[c]

\* A connection that is not made yet is sent nothing and in no channel, so that making
\* one needs no case of its own.
TrafficInv ==
    /\ ServerTypeOK
    /\ \A c \in Ids : phase[c] \notin Gone => Settled(c) /\ Mirrored(c)

LEMMA InitTraffic == Init => TrafficInv
BY AfterNothing DEF Init, TrafficInv, ServerTypeOK, Settled, Mirrored

\* No connection that closed is used again: the id of one that is made is new.
LEMMA StaysClosed ==
    ASSUME PoolTypeOK, DequeInv, EventsInv, (Kept /\ UNCHANGED phase) \/ Requeued
    PROVE  \A d \in Ids : phase'[d] \notin Gone => phase[d] \notin Gone
<1>1. CASE UNCHANGED phase
  BY <1>1
<1>2. CASE Requeued
  <2>1. PICK c : (c = Fresh \/ c \in Live) /\ Requeue(c) /\ UNCHANGED connections_failed
    BY <1>2 DEF Requeued
  <2>2. c \in Ids
    BY <2>1, RequeueDeque
  <2>3. CASE c = Fresh
    <3>1. next_connection_id \in Nat /\ c >= next_connection_id
      BY <2>3, PoolAssumption DEF PoolTypeOK, Fresh
    <3>2. phase[c] = "None" /\ phase' = [phase EXCEPT ![c] = "Initializing"]
      BY <2>1, <2>2, <2>3, <3>1 DEF EventsInv, Requeue
    <3> QED BY <2>2, <3>2 DEF PoolTypeOK, Gone
  <2>4. CASE c # Fresh
    BY <2>1, <2>4 DEF Requeue
  <2> QED BY <2>3, <2>4
<1> QED BY <1>1, <1>2

\* What SendTo and the change of the wanted channels that goes with it do to each
\* connection.
LEMMA Sent ==
    ASSUME PoolTypeOK, NEW c \in Ids, NEW m \in Requests, SendTo(c, m), phase[c] \notin Gone
    PROVE  \A d \in Ids : outgoing'[d] = IF d = c THEN Append(outgoing[d], m) ELSE outgoing[d]
BY DEF SendTo, PoolTypeOK, Gone

LEMMA SettledSame ==
    ASSUME NEW d \in Ids, Settled(d), refusals' = 0 => refusals = 0, members'[d] = members[d],
           outgoing'[d] = outgoing[d], wanted_channels'[d] = wanted_channels[d]
    PROVE  Settled(d)'
BY DEF Settled

\* A JOIN for what becomes wanted.
LEMMA SettledJoin ==
    ASSUME PoolTypeOK, TrafficInv, NEW ch \in Channels, join(ch), UNCHANGED <<members, refusals>>
    PROVE  \A d \in Ids : phase[d] \notin Gone => Settled(d)'
<1> SUFFICES ASSUME NEW d \in Ids, phase[d] \notin Gone PROVE Settled(d)'
  OBVIOUS
<1>1. Settled(d)
  BY DEF TrafficInv
<1>2. CASE Confirmed(ch)
  BY <1>1, <1>2, SettledSame DEF join
<1>3. CASE ~Confirmed(ch)
  <2> DEFINE c == JoinTarget(ch)
             m == Message("JOIN", ch)
  <2>1. /\ Requeue(c) /\ SendTo(c, m)
        /\ wanted_channels' = [wanted_channels EXCEPT ![c] = @ \union {ch}]
    BY <1>3 DEF join
  <2>2. c = Fresh \/ c \in Live
    BY JoinTargetFound
  <2> HIDE DEF c
  <2>3. c \in Ids
    BY <2>1, <2>2, RequeueKeeps DEF PoolTypeOK
  <2>4. m \in Requests /\ m.kind = "JOIN" /\ \A x : IsAbout(m, x) <=> x = ch
    BY DEF Message, Requests, IsAbout
  <2> HIDE DEF m
  <2>5. CASE d # c
    <3>1. outgoing'[d] = outgoing[d] /\ wanted_channels'[d] = wanted_channels[d]
      BY <2>1, <2>3, <2>4, <2>5 DEF SendTo, PoolTypeOK
    <3> QED BY <1>1, <3>1, SettledSame
  <2>6. CASE d = c
    <3>1. outgoing'[d] = Append(outgoing[d], m) /\ outgoing[d] \in Seq(Requests)
      BY <2>1, <2>3, <2>4, <2>6, Sent DEF PoolTypeOK
    <3>2. wanted_channels'[d] = wanted_channels[d] \union {ch}
      BY <2>1, <2>3, <2>6 DEF PoolTypeOK
    <3>3. \A x : After(members[d], outgoing[d], x)' <=> x = ch \/ After(members[d], outgoing[d], x)
      <4>1. \A x : After(members[d], Append(outgoing[d], m), x)
                      <=> x = ch \/ After(members[d], outgoing[d], x)
        <5> SUFFICES ASSUME NEW x
                     PROVE  After(members[d], Append(outgoing[d], m), x)
                                <=> x = ch \/ After(members[d], outgoing[d], x)
          OBVIOUS
        <5> QED BY <2>4, <3>1, AfterAppend
      <4> QED BY <3>1, <4>1
    <3> QED BY <1>1, <3>2, <3>3 DEF Settled
  <2> QED BY <2>5, <2>6
<1> QED BY <1>2, <1>3

\* A PART for what is wanted no more, even when its JOIN is not confirmed yet.
LEMMA SettledPart ==
    ASSUME PoolTypeOK, TrafficInv, NEW ch \in Channels, part(ch), UNCHANGED <<members, refusals>>
    PROVE  \A d \in Ids : phase[d] \notin Gone => Settled(d)'
<1> SUFFICES ASSUME NEW d \in Ids, phase[d] \notin Gone PROVE Settled(d)'
  OBVIOUS
<1>1. Settled(d)
  BY DEF TrafficInv
<1>2. CASE Wanting(ch) = {}
  BY <1>1, <1>2, SettledSame DEF part
<1>3. CASE Wanting(ch) # {}
  <2> DEFINE c == FirstOf(Wanting(ch))
             m == Message("PART", ch)
  <2>1. /\ SendTo(c, m)
        /\ wanted_channels' = [wanted_channels EXCEPT ![c] = @ \ {ch}]
    BY <1>3 DEF part
  <2>2. c \in Ids
    <3>1. c \in Live
      BY <1>3, FirstOfFound DEF PoolTypeOK, Wanting
    <3> QED BY <3>1 DEF PoolTypeOK, Live, ToSet
  <2> HIDE DEF c
  <2>3. m \in Requests /\ m.kind # "JOIN" /\ \A x : IsAbout(m, x) <=> x = ch
    BY DEF Message, Requests, IsAbout
  <2> HIDE DEF m
  <2>4. CASE d # c
    <3>1. outgoing'[d] = outgoing[d] /\ wanted_channels'[d] = wanted_channels[d]
      BY <2>1, <2>2, <2>3, <2>4 DEF SendTo, PoolTypeOK
    <3> QED BY <1>1, <3>1, SettledSame
  <2>5. CASE d = c
    <3>1. outgoing'[d] = Append(outgoing[d], m) /\ outgoing[d] \in Seq(Requests)
      BY <2>1, <2>2, <2>3, <2>5, Sent DEF PoolTypeOK
    <3>2. wanted_channels'[d] = wanted_channels[d] \ {ch}
      BY <2>1, <2>2, <2>5 DEF PoolTypeOK
    <3>3. \A x : After(members[d], outgoing[d], x)' <=> x # ch /\ After(members[d], outgoing[d], x)
      <4>1. \A x : After(members[d], Append(outgoing[d], m), x)
                      <=> x # ch /\ After(members[d], outgoing[d], x)
        <5> SUFFICES ASSUME NEW x
                     PROVE  After(members[d], Append(outgoing[d], m), x)
                                <=> x # ch /\ After(members[d], outgoing[d], x)
          OBVIOUS
        <5> QED BY <2>3, <3>1, AfterAppend
      <4> QED BY <3>1, <4>1
    <3> QED BY <1>1, <3>2, <3>3 DEF Settled
  <2> QED BY <2>4, <2>5
<1> QED BY <1>2, <1>3

\* Nothing is heard of a connection and nothing changes at its server.
LEMMA MirroredSame ==
    ASSUME NEW d \in Ids, Mirrored(d), members'[d] = members[d], incoming'[d] = incoming[d],
           server_channels'[d] = server_channels[d]
    PROVE  Mirrored(d)'
BY DEF Mirrored

LEMMA CommandTraffic ==
    ASSUME PoolTypeOK, DequeInv, EventsInv, TrafficInv, UserCommand \/ Continue
    PROVE  TrafficInv'
<1>1. UNCHANGED <<members, refusals>>
  BY DEF UserCommand, Connect, SendMessage, Join, Part, SetWantedChannels, Command, Continue,
         FinishClosed, PartNext, JoinNext, Working, bound_vars
<1>2. UNCHANGED <<server_channels, incoming>> /\ \A d \in Ids : phase'[d] \notin Gone => phase[d] \notin Gone
  BY CommandMoves, StaysClosed
<1>3. ServerTypeOK'
  BY <1>1, <1>2 DEF TrafficInv, ServerTypeOK
<1>4. \A d \in Ids : phase[d] \notin Gone => Mirrored(d)'
  BY <1>1, <1>2, MirroredSame DEF TrafficInv
<1> DEFINE settled == \A d \in Ids : phase[d] \notin Gone => Settled(d)'
<1>5. ASSUME NEW ch \in Channels, Join(ch) \/ JoinNext(ch) PROVE settled
  BY <1>1, <1>5, SettledJoin DEF Join, JoinNext
<1>6. ASSUME NEW ch \in Channels, Part(ch) \/ PartNext(ch) PROVE settled
  BY <1>1, <1>6, SettledPart DEF Part, PartNext
<1>7. ASSUME UNCHANGED <<wanted_channels, outgoing>> PROVE settled
  BY <1>1, <1>7, SettledSame DEF TrafficInv
<1>8. ASSUME \/ Connect \/ FinishClosed
             \/ \E busy \in SUBSET Live : SendMessage(busy)
             \/ \E S \in SUBSET Channels : SetWantedChannels(S)
      PROVE  settled
  BY <1>7, <1>8 DEF Connect, FinishClosed, StayConnected, SendMessage, SetWantedChannels
<1>9. settled
  BY <1>5, <1>6, <1>8 DEF UserCommand, Continue
<1> QED BY <1>2, <1>3, <1>4, <1>9 DEF TrafficInv

\* The set after one change of membership.
Applied(kind, set, ch) == IF kind = "JOIN" THEN set \union {ch} ELSE set \ {ch}

\* The server takes the next request of a connection and does as it says.
LEMMA SettledAnswer ==
    ASSUME PoolTypeOK, NEW c \in Ids, Settled(c), NEW kind \in {"JOIN", "PART"},
           NEW ch \in Channels, NextRequest(c, kind, ch), UNCHANGED refusals,
           members'[c] = Applied(kind, members[c], ch)
    PROVE  Settled(c)'
<1> DEFINE q == outgoing[c]
<1>1. /\ q \in Seq(Requests) /\ q # <<>> /\ Head(q) = Message(kind, ch) /\ outgoing'[c] = Tail(q)
      /\ UNCHANGED wanted_channels
  BY DEF NextRequest, Peer, worker_vars, PoolTypeOK
<1>2. Head(q).kind = kind /\ \A x : IsAbout(Head(q), x) <=> x = ch
  BY <1>1 DEF Message, IsAbout
<1>3. \A x : After(members[c], q, x) <=> After(members'[c], Tail(q), x)
  <2> SUFFICES ASSUME NEW x PROVE After(members[c], q, x) <=> After(members'[c], Tail(q), x)
    OBVIOUS
  <2>1. x \in members'[c] <=> IF IsAbout(Head(q), x) THEN Head(q).kind = "JOIN" ELSE x \in members[c]
    BY <1>2 DEF Applied
  <2> QED BY <1>1, <2>1, AfterHead
<1>4. \A x : After(members[c], outgoing[c], x)' <=> After(members[c], outgoing[c], x)
  BY <1>1, <1>3
<1> QED BY <1>1, <1>4 DEF Settled

\* The server ignores the next JOIN of a connection.
LEMMA SettledRefusal ==
    ASSUME PoolTypeOK, NEW c \in Ids, Settled(c), NEW ch \in Channels, NextRequest(c, "JOIN", ch),
           refusals' # 0, UNCHANGED members
    PROVE  Settled(c)'
<1> DEFINE q == outgoing[c]
<1>1. /\ q \in Seq(Requests) /\ q # <<>> /\ Head(q) = Message("JOIN", ch) /\ outgoing'[c] = Tail(q)
      /\ Tail(q) \in Seq(Requests) /\ UNCHANGED wanted_channels
  BY DEF NextRequest, Peer, worker_vars, PoolTypeOK
<1>2. Head(q).kind = "JOIN" /\ \A x : IsAbout(Head(q), x) <=> x = ch
  BY <1>1 DEF Message, IsAbout
<1>3. ASSUME NEW x, After(members[c], Tail(q), x) PROVE After(members[c], q, x)
  <2> DEFINE more == members[c] \union {ch}
  <2>1. x \in more <=> IF IsAbout(Head(q), x) THEN Head(q).kind = "JOIN" ELSE x \in members[c]
    BY <1>2
  <2> HIDE DEF more
  <2>2. After(members[c], q, x) <=> After(more, Tail(q), x)
    BY <1>1, <2>1, AfterHead
  <2>3. members[c] \subseteq more
    BY DEF more
  <2>4. After(more, Tail(q), x)
    BY <1>1, <1>3, <2>3, AfterMonotone
  <2> QED BY <2>2, <2>4
<1>4. \A x : After(members[c], outgoing[c], x)' => After(members[c], outgoing[c], x)
  BY <1>1, <1>3
<1> QED BY <1>1, <1>4 DEF Settled

\* The server removes a connection from a channel.
LEMMA SettledRemoval ==
    ASSUME PoolTypeOK, NEW c \in Ids, Settled(c), members'[c] \subseteq members[c], refusals' # 0,
           outgoing'[c] = outgoing[c], wanted_channels'[c] = wanted_channels[c]
    PROVE  Settled(c)'
<1>1. outgoing[c] \in Seq(Requests)
  BY DEF PoolTypeOK
<1>2. ASSUME NEW x, After(members'[c], outgoing[c], x) PROVE After(members[c], outgoing[c], x)
  BY <1>1, <1>2, AfterMonotone
<1>3. \A x : After(members[c], outgoing[c], x)' => After(members[c], outgoing[c], x)
  BY <1>2
<1> QED BY <1>3 DEF Settled

\* The server tells a connection of a change of its membership.
LEMMA MirroredEcho ==
    ASSUME EventsInv, NEW c \in Ids, Mirrored(c), NEW kind \in {"JOIN", "PART"}, NEW ch \in Channels,
           Says(c, Message(kind, ch)), members'[c] = Applied(kind, members[c], ch),
           UNCHANGED server_channels
    PROVE  Mirrored(c)'
<1> DEFINE m == Message(kind, ch)
<1>1. m \in Events /\ m.kind = kind /\ \A x : IsAbout(m, x) <=> x = ch
  BY EventTypes DEF Message, IsAbout
<1> HIDE DEF m
<1>2. incoming[c] \in Seq(Events) /\ incoming'[c] = Append(incoming[c], m)
  BY DEF EventsInv, Says, m
<1>3. \A x : After(server_channels[c], Append(incoming[c], m), x)
                <=> IF x = ch THEN kind = "JOIN" ELSE After(server_channels[c], incoming[c], x)
  <2> SUFFICES ASSUME NEW x
               PROVE  After(server_channels[c], Append(incoming[c], m), x)
                         <=> IF x = ch THEN kind = "JOIN" ELSE After(server_channels[c], incoming[c], x)
    OBVIOUS
  <2> QED BY <1>1, <1>2, AfterAppend
<1>4. \A x : After(server_channels[c], incoming[c], x)'
                <=> IF x = ch THEN kind = "JOIN" ELSE After(server_channels[c], incoming[c], x)
  BY <1>2, <1>3
<1> QED BY <1>4 DEF Mirrored, Applied

\* It is told of something else.
LEMMA MirroredOther ==
    ASSUME NEW c \in Ids, Mirrored(c), incoming[c] \in Seq(Events), NEW m \in Events,
           m.kind \notin {"JOIN", "PART"}, incoming'[c] = Append(incoming[c], m),
           members'[c] = members[c], server_channels'[c] = server_channels[c]
    PROVE  Mirrored(c)'
<1>1. \A x : ~IsAbout(m, x)
  BY DEF IsAbout
<1>2. \A x : After(server_channels[c], Append(incoming[c], m), x)
                <=> After(server_channels[c], incoming[c], x)
  <2> SUFFICES ASSUME NEW x
               PROVE  After(server_channels[c], Append(incoming[c], m), x)
                         <=> After(server_channels[c], incoming[c], x)
    OBVIOUS
  <2> QED BY <1>1, AfterAppend
<1>3. \A x : After(server_channels[c], incoming[c], x)' <=> After(server_channels[c], incoming[c], x)
  BY <1>2
<1> QED BY <1>3 DEF Mirrored

\* The client loop takes the next event of a connection and notes what it says.
LEMMA MirroredHeard ==
    ASSUME NEW c \in Ids, Mirrored(c), incoming[c] \in Seq(Events), incoming[c] # <<>>,
           incoming'[c] = Tail(incoming[c]), members'[c] = members[c],
           \A x : x \in server_channels'[c]
                     <=> IF IsAbout(Head(incoming[c]), x) THEN Head(incoming[c]).kind = "JOIN"
                         ELSE x \in server_channels[c]
    PROVE  Mirrored(c)'
<1>1. \A x : After(server_channels[c], incoming[c], x)
                <=> After(server_channels'[c], Tail(incoming[c]), x)
  <2> SUFFICES ASSUME NEW x
               PROVE  After(server_channels[c], incoming[c], x)
                         <=> After(server_channels'[c], Tail(incoming[c]), x)
    OBVIOUS
  <2> QED BY AfterHead
<1>2. \A x : After(server_channels[c], incoming[c], x)' <=> After(server_channels[c], incoming[c], x)
  BY <1>1
<1> QED BY <1>2 DEF Mirrored

\* A step of connections and server: at most one connection's outgoing requests or
\* membership change.
LEMMA EnvironmentTraffic ==
    ASSUME PoolTypeOK, EventsInv, TrafficInv, Environment
    PROVE  TrafficInv'
<1> USE DEF Gone
<1> DEFINE fine(d) == phase'[d] \notin Gone => Settled(d)' /\ Mirrored(d)'
<1>1. UNCHANGED <<wanted_channels, server_channels>>
  BY EnvironmentMoves
<1>2. /\ members \in [Ids -> SUBSET Channels] /\ server_channels \in [Ids -> SUBSET Channels]
      /\ refusals \in Nat /\ \A d \in Ids : incoming[d] \in Seq(Events)
      /\ \A d \in Ids : phase[d] \notin Gone => Settled(d) /\ Mirrored(d)
  BY DEF TrafficInv, ServerTypeOK, EventsInv
<1>3. ASSUME NEW d \in Ids, phase'[d] = phase[d], members'[d] = members[d], incoming'[d] = incoming[d],
             outgoing'[d] = outgoing[d], refusals' = 0 => refusals = 0
      PROVE  fine(d)
  BY <1>1, <1>2, <1>3, SettledSame, MirroredSame
<1>4. ASSUME NEW d \in Ids, NEW m \in Events, m.kind \notin {"JOIN", "PART"}, phase[d] \notin Gone,
             incoming'[d] = Append(incoming[d], m), members'[d] = members[d],
             outgoing'[d] = outgoing[d], UNCHANGED refusals
      PROVE  fine(d)
  BY <1>1, <1>2, <1>4, SettledSame, MirroredOther
<1> HIDE DEF fine
<1> DEFINE goal == members' \in [Ids -> SUBSET Channels] /\ refusals' \in Nat /\ \A d \in Ids : fine(d)
<1>5. ASSUME NEW c \in Ids, PeerOpens(c) PROVE goal
  <2> DEFINE m == Message("StateOpen", "None")
  <2>1. m \in Events /\ m.kind \notin {"JOIN", "PART"}
    BY EventTypes DEF Message
  <2> HIDE DEF m
  <2>2. /\ phase[c] \notin Gone /\ UNCHANGED <<members, outgoing, refusals>>
        /\ incoming' = [incoming EXCEPT ![c] = Append(@, m)] /\ phase' = [phase EXCEPT ![c] = "Open"]
    BY <1>5 DEF PeerOpens, Says, m
  <2>3. fine(c)
    BY <1>4, <2>1, <2>2 DEF EventsInv
  <2>4. \A d \in Ids \ {c} : fine(d)
    BY <1>3, <2>2 DEF EventsInv, PoolTypeOK
  <2> QED BY <1>2, <2>2, <2>3, <2>4
<1>6. ASSUME NEW c \in Ids, PeerCloses(c) PROVE goal
  <2>1. /\ members' = [members EXCEPT ![c] = {}] /\ outgoing' = [outgoing EXCEPT ![c] = <<>>]
        /\ phase' = [phase EXCEPT ![c] = "Closed"] /\ UNCHANGED refusals
    BY <1>6 DEF PeerCloses
  <2>2. \A d \in Ids \ {c} : incoming'[d] = incoming[d]
    BY <1>6 DEF PeerCloses, Says, EventsInv
  <2>3. fine(c)
    BY <2>1 DEF fine, PoolTypeOK, Gone
  <2>4. \A d \in Ids \ {c} : fine(d)
    BY <1>2, <1>3, <2>1, <2>2 DEF PoolTypeOK
  <2>5. members' \in [Ids -> SUBSET Channels]
    BY <1>2, <2>1
  <2> QED BY <1>2, <2>1, <2>3, <2>4, <2>5
<1>13. ASSUME NEW c \in Ids, PeerPanics(c) PROVE goal
  <2>1. /\ members' = [members EXCEPT ![c] = {}] /\ outgoing' = [outgoing EXCEPT ![c] = <<>>]
        /\ phase' = [phase EXCEPT ![c] = "Panicked"] /\ UNCHANGED <<incoming, refusals>>
    BY <1>13 DEF PeerPanics
  <2>2. fine(c)
    BY <2>1 DEF fine, PoolTypeOK, Gone
  <2>3. \A d \in Ids \ {c} : fine(d)
    BY <1>2, <1>3, <2>1 DEF PoolTypeOK
  <2>4. members' \in [Ids -> SUBSET Channels]
    BY <1>2, <2>1
  <2> QED BY <1>2, <2>1, <2>2, <2>3, <2>4
<1>14. ASSUME NEW c \in Ids, PeerSticks(c) PROVE goal
  <2>1. /\ UNCHANGED <<members, outgoing, incoming, refusals>> /\ phase[c] = "Initializing"
        /\ phase' = [phase EXCEPT ![c] = "Stuck"]
    BY <1>14 DEF PeerSticks
  <2>2. \A d \in Ids : phase'[d] \notin Gone => phase[d] \notin Gone
    BY <2>1 DEF PoolTypeOK, Gone
  <2>3. \A d \in Ids : fine(d)
    BY <1>1, <1>2, <2>1, <2>2, SettledSame, MirroredSame DEF fine
  <2> QED BY <1>2, <2>1, <2>3
<1>7. ASSUME NEW c \in Ids, NEW ch \in Channels, NEW kind \in {"JOIN", "PART"},
             NextRequest(c, kind, ch), UNCHANGED refusals,
             members' = [members EXCEPT ![c] = Applied(kind, @, ch)],
             \/ Says(c, Message(kind, ch))
             \/ UNCHANGED incoming /\ members'[c] = members[c]
      PROVE  goal
  <2>1. /\ phase[c] = "Open" /\ UNCHANGED phase /\ members'[c] = Applied(kind, members[c], ch)
        /\ \A d \in Ids \ {c} : /\ members'[d] = members[d] /\ outgoing'[d] = outgoing[d]
                                /\ incoming'[d] = incoming[d]
    BY <1>2, <1>7 DEF NextRequest, PoolTypeOK, EventsInv, Says
  <2>2. Settled(c)'
    BY <1>2, <1>7, <2>1, SettledAnswer
  <2>3. Mirrored(c)'
    BY <1>1, <1>2, <1>7, <2>1, MirroredEcho, MirroredSame
  <2>4. fine(c)
    BY <2>2, <2>3 DEF fine
  <2>5. \A d \in Ids \ {c} : fine(d)
    BY <1>3, <1>7, <2>1
  <2>6. members' \in [Ids -> SUBSET Channels]
    <3>1. Applied(kind, members[c], ch) \in SUBSET Channels
      BY <1>2 DEF Applied
    <3> QED BY <1>2, <1>7, <3>1
  <2> QED BY <1>2, <1>7, <2>4, <2>5, <2>6
<1>8. ASSUME NEW c \in Ids, NEW ch \in Channels, ServerJoins(c, ch) \/ ServerParts(c, ch) PROVE goal
  <2>1. CASE ServerJoins(c, ch)
    <3>1. members' = [members EXCEPT ![c] = Applied("JOIN", @, ch)]
      BY <2>1 DEF ServerJoins, Applied
    <3>2. \/ Says(c, Message("JOIN", ch))
          \/ UNCHANGED incoming /\ members'[c] = members[c]
      BY <1>2, <2>1 DEF ServerJoins
    <3> QED BY <1>7, <2>1, <3>1, <3>2 DEF ServerJoins
  <2>2. CASE ServerParts(c, ch)
    <3>1. members' = [members EXCEPT ![c] = Applied("PART", @, ch)]
      BY <2>2 DEF ServerParts, Applied
    <3>2. \/ Says(c, Message("PART", ch))
          \/ UNCHANGED incoming /\ members'[c] = members[c]
      BY <1>2, <2>2 DEF ServerParts
    <3> QED BY <1>7, <2>2, <3>1, <3>2 DEF ServerParts
  <2> QED BY <1>8, <2>1, <2>2
<1>9. ASSUME NEW c \in Ids, NEW ch \in Channels, ServerRefuses(c, ch) PROVE goal
  <2>1. /\ NextRequest(c, "JOIN", ch) /\ refusals' = refusals + 1 /\ UNCHANGED <<incoming, members>>
        /\ phase[c] = "Open" /\ UNCHANGED phase
        /\ \A d \in Ids \ {c} : outgoing'[d] = outgoing[d]
    BY <1>9 DEF ServerRefuses, NextRequest, PoolTypeOK
  <2>2. refusals' \in Nat /\ refusals' # 0
    BY <1>2, <2>1
  <2>3. Settled(c)' /\ Mirrored(c)'
    BY <1>1, <1>2, <2>1, <2>2, SettledRefusal, MirroredSame
  <2>4. fine(c)
    BY <2>3 DEF fine
  <2>5. \A d \in Ids \ {c} : fine(d)
    BY <1>3, <2>1, <2>2
  <2> QED BY <1>2, <2>1, <2>2, <2>4, <2>5
<1>10. ASSUME NEW c \in Ids, NEW ch \in Channels, ServerRemoves(c, ch) PROVE goal
  <2>1. /\ members' = [members EXCEPT ![c] = @ \ {ch}] /\ Says(c, Message("PART", ch))
        /\ refusals' = refusals + 1 /\ phase[c] = "Open" /\ UNCHANGED <<phase, outgoing>>
    BY <1>10 DEF ServerRemoves
  <2>2. refusals' \in Nat /\ refusals' # 0
    BY <1>2, <2>1
  <2>3. members'[c] = members[c] \ {ch} /\ members' \in [Ids -> SUBSET Channels]
    BY <1>2, <2>1
  <2>4. Settled(c)'
    BY <1>1, <1>2, <2>1, <2>2, <2>3, SettledRemoval
  <2>5. Mirrored(c)'
    BY <1>1, <1>2, <2>1, <2>3, MirroredEcho DEF Applied
  <2>6. fine(c)
    BY <2>4, <2>5 DEF fine
  <2>7. \A d \in Ids \ {c} : members'[d] = members[d] /\ incoming'[d] = incoming[d]
    BY <1>2, <2>1 DEF Says, EventsInv
  <2>8. \A d \in Ids \ {c} : fine(d)
    BY <1>3, <2>1, <2>2, <2>7
  <2> QED BY <2>2, <2>3, <2>6, <2>8
<1>11. ASSUME ServerWhispers PROVE goal
  <2> DEFINE w == whispers + 1
             m == Message("WHISPER", w)
  <2>1. /\ UNCHANGED <<phase, outgoing, members, refusals>>
        /\ incoming' = [c \in Ids |-> IF phase[c] = "Open" THEN Append(incoming[c], m)
                                      ELSE incoming[c]]
    BY <1>11 DEF ServerWhispers
  <2>2. m \in Events /\ m.kind \notin {"JOIN", "PART"}
    <3>1. w \in Whispers
      BY <1>11, PoolAssumption DEF ServerWhispers, Whispers, EventsInv
    <3> QED BY <3>1, EventTypes DEF Message
  <2> HIDE DEF m
  <2>3. ASSUME NEW d \in Ids PROVE fine(d)
    <3>1. CASE phase[d] = "Open"
      BY <1>4, <2>1, <2>2, <3>1
    <3>2. CASE phase[d] # "Open"
      BY <1>3, <2>1, <3>2
    <3> QED BY <3>1, <3>2
  <2> QED BY <1>2, <2>1, <2>3
<1>12. goal
  <2> HIDE DEF goal
  <2> QED BY <1>5, <1>6, <1>8, <1>9, <1>10, <1>11, <1>13, <1>14 DEF Environment, ServerAnswers
<1> QED BY <1>1, <1>2, <1>12 DEF TrafficInv, ServerTypeOK, fine

\* An event of connection c is handled.
LEMMA ReceiveTraffic ==
    ASSUME PoolTypeOK, DequeInv, EventsInv, TrafficInv, NEW c \in Ids, on_incoming_message(c)
    PROVE  TrafficInv'
<1> USE DEF Gone
<1>1. PICK kind, arg : Receive(c, kind, arg)
  BY DEF on_incoming_message, OnServerJoin, OnServerPart, OnWhisper, OnStateOpen, OnStateClosed
<1>2. /\ incoming[c] # <<>> /\ incoming' = [incoming EXCEPT ![c] = Tail(@)]
      /\ UNCHANGED <<phase, outgoing, members, refusals>>
  BY <1>1 DEF Receive, bound_vars
<1>3. c \in Live /\ EventsInv'
  BY ReceiveEvents
<1>4. /\ members \in [Ids -> SUBSET Channels] /\ server_channels \in [Ids -> SUBSET Channels]
      /\ refusals \in Nat /\ incoming \in [Ids -> Seq(Events)]
      /\ \A d \in Ids : phase[d] \notin Gone => Settled(d) /\ Mirrored(d)
  BY DEF TrafficInv, ServerTypeOK, EventsInv
<1>5. incoming'[c] = Tail(incoming[c]) /\ \A d \in Ids \ {c} : incoming'[d] = incoming[d]
  BY <1>2, <1>4
<1> DEFINE head == Head(incoming[c])
           heard == \A x : x \in server_channels'[c]
                              <=> IF IsAbout(head, x) THEN head.kind = "JOIN"
                                  ELSE x \in server_channels[c]
           others == /\ server_channels' \in [Ids -> SUBSET Channels]
                     /\ \A d \in Ids \ {c} : server_channels'[d] = server_channels[d]
           goal == phase[c] \in Gone \/ (heard /\ UNCHANGED wanted_channels)
<1>6. ASSUME NEW ch \in Channels, OnServerJoin(c, ch) PROVE goal /\ others
  <2>1. head = Message("JOIN", ch)
    BY <1>6 DEF OnServerJoin, Receive
  <2>2. /\ server_channels' = [server_channels EXCEPT ![c] = @ \union {ch}]
        /\ UNCHANGED wanted_channels
    BY <1>3, <1>6 DEF OnServerJoin, Unwraps
  <2>3. head.kind = "JOIN" /\ \A x : IsAbout(head, x) <=> x = ch
    BY <2>1 DEF Message, IsAbout
  <2> HIDE DEF head
  <2> QED BY <1>4, <2>2, <2>3
<1>7. ASSUME NEW ch \in Channels, OnServerPart(c, ch) PROVE goal /\ others
  <2>1. head = Message("PART", ch)
    BY <1>7 DEF OnServerPart, Receive
  <2>2. /\ server_channels' = [server_channels EXCEPT ![c] = @ \ {ch}]
        /\ UNCHANGED wanted_channels
    BY <1>3, <1>7 DEF OnServerPart, Unwraps
  <2>3. head.kind = "PART" /\ \A x : IsAbout(head, x) <=> x = ch
    BY <2>1 DEF Message, IsAbout
  <2> HIDE DEF head
  <2> QED BY <1>4, <2>2, <2>3
<1>8. ASSUME (\E w \in Whispers : OnWhisper(c, w)) \/ OnStateOpen(c) PROVE goal /\ others
  <2>1. head.kind \in {"WHISPER", "StateOpen"}
    <3>1. \A w \in Whispers : OnWhisper(c, w) => head = Message("WHISPER", w)
      BY DEF OnWhisper, Receive
    <3>2. OnStateOpen(c) => head = Message("StateOpen", "None")
      BY DEF OnStateOpen, Receive
    <3> HIDE DEF head
    <3> QED BY <1>8, <3>1, <3>2 DEF Message
  <2>2. UNCHANGED <<server_channels, wanted_channels>>
    BY <1>3, <1>8 DEF OnWhisper, OnStateOpen, Unwraps, report_vars
  <2>3. \A x : ~IsAbout(head, x)
    BY <2>1 DEF IsAbout
  <2> HIDE DEF head
  <2> QED BY <1>4, <2>2, <2>3
<1>9. ASSUME OnStateClosed(c) PROVE goal /\ others
  <2>1. head.kind = "StateClosed"
    BY <1>9 DEF OnStateClosed, Receive, Message
  <2>2. phase[c] = "Closed"
    <3>1. 1 \in 1..Len(incoming[c]) /\ incoming[c][1] = head
      BY <1>2, <1>4, TailClosed
    <3> QED BY <2>1, <3>1 DEF EventsInv, ClosedLast
  <2>3. UNCHANGED server_channels
    BY <1>9 DEF OnStateClosed, Unwraps, report_vars
  <2> QED BY <1>4, <2>2, <2>3
<1>10. goal /\ others
  <2> HIDE DEF goal, others
  <2> QED BY <1>6, <1>7, <1>8, <1>9 DEF on_incoming_message
<1>11. \A d \in Ids \ {c} : wanted_channels'[d] = wanted_channels[d]
  <2>1. \/ UNCHANGED wanted_channels
        \/ wanted_channels' = [wanted_channels EXCEPT ![c] = {}]
    BY OtherMoves, ClosedMoves DEF on_incoming_message
  <2> QED BY <2>1 DEF PoolTypeOK
<1> HIDE DEF heard
<1>12. ASSUME NEW d \in Ids, d # c, phase[d] \notin Gone PROVE Settled(d)' /\ Mirrored(d)'
  BY <1>2, <1>4, <1>5, <1>10, <1>11, <1>12, SettledSame, MirroredSame
<1>13. ASSUME phase[c] \notin Gone PROVE Settled(c)' /\ Mirrored(c)'
  <2>1. UNCHANGED wanted_channels /\ heard
    BY <1>10, <1>13
  <2>2. Settled(c)'
    BY <1>2, <1>4, <1>13, <2>1, SettledSame
  <2>3. Mirrored(c)'
    BY <1>2, <1>4, <1>5, <1>13, <2>1, MirroredHeard DEF heard
  <2> QED BY <2>2, <2>3
<1> QED BY <1>2, <1>4, <1>10, <1>12, <1>13 DEF TrafficInv, ServerTypeOK

LEMMA StepTraffic == PoolTypeOK /\ DequeInv /\ EventsInv /\ TrafficInv /\ [Next]_vars => TrafficInv'
<1>1. TrafficInv /\ UNCHANGED vars => TrafficInv'
  BY SettledSame, MirroredSame DEF vars, worker_vars, report_vars, bound_vars, TrafficInv, ServerTypeOK
<1>2. TrafficInv /\ (\E c \in Ids : SendPanics(c)) => TrafficInv'
  BY SendPanicsMoves, SettledSame, MirroredSame DEF TrafficInv, ServerTypeOK
<1> QED BY <1>1, <1>2, CommandTraffic, ReceiveTraffic, EnvironmentTraffic DEF Next

LEMMA TrafficAlways == Spec => [](PoolTypeOK /\ TrafficInv)
BY InitPool, StepPool, InitDeque, StepDeque, InitEvents, StepEvents, InitTraffic, StepTraffic, PTL
   DEF Spec

LEMMA LiveIds == PoolTypeOK => Live \subseteq Ids
BY DEF PoolTypeOK, Live, ToSet

\* Once the server has worked through what a connection sent it, it has it in the channels
\* it wants and in no other, save those it refused, whatever join and part leave out
\* (event_loop.rs:252-365) and however failures move channels about.
THEOREM TrafficMatchesWantedCorrect == Spec => []TrafficMatchesWanted
<1>1. PoolTypeOK /\ TrafficInv => TrafficMatchesWanted
  BY LiveIds DEF TrafficInv, Settled, TrafficMatchesWanted, Gone
<1> QED BY <1>1, TrafficAlways, PTL

\* server_channels is the server's own set as of the last echo handled (event_loop.rs:
\* 408-432), for every order in which echoes, removals and commands arrive.
THEOREM MirrorsServerCorrect == Spec => []MirrorsServer
<1>1. PoolTypeOK /\ TrafficInv => MirrorsServer
  BY LiveIds DEF TrafficInv, Mirrored, MirrorsServer, Gone
<1> QED BY <1>1, TrafficAlways, PTL

-----------------------------------------------------------------------------
(* No whisper reaches the user twice, and none is missed once one came through *)

\* What a queue of events says of whispers: which it carries, and that they are in turn.
Carries(q, w) == \E i \in 1..Len(q) : q[i] = Message("WHISPER", w)
InTurn(q) ==
    \A i, j \in 1..Len(q) :
        i < j /\ q[i].kind = "WHISPER" /\ q[j].kind = "WHISPER" => q[i].arg < q[j].arg

NoFaults == closes = 0 /\ panics = 0

\* While no connection has failed or panicked.  An open connection has each whisper from its first
\* one on in its queue until it is handled.  Without a whisper connection none has been
\* handled at all; with one, what it handled since it got the role was forwarded once.
QueuesHold ==
    \A c \in Ids :
        /\ phase[c] # "Closed"
        /\ InTurn(incoming[c])
        /\ \A w \in Whispers : Carries(incoming[c], w) =>
              /\ phase[c] = "Open" /\ w <= whispers
              /\ \A v \in w..whispers : Carries(incoming[c], v)
NoneChosen ==
    \A w \in Whispers : /\ forwarded[w] = 0
                        /\ w <= whispers => \E c \in Ids : Carries(incoming[c], w)
Chosen(c) ==
    /\ c \in Ids /\ phase[c] = "Open"
    /\ \E v \in 1..whispers : forwarded[v] = 1
    /\ \A w \in Whispers :
          /\ forwarded[w] \in {0, 1}
          /\ forwarded[w] = 1 =>
                /\ w <= whispers /\ ~Carries(incoming[c], w)
                /\ \A v \in w..whispers : Carries(incoming[c], v) \/ forwarded[v] = 1

WhisperTypeOK ==
    /\ whispers \in Nat /\ whispers <= MaxWhispers /\ closes \in Nat /\ panics \in Nat
    /\ forwarded \in [Whispers -> Nat]
WhisperInv ==
    /\ WhisperTypeOK
    /\ NoFaults =>
          /\ work.closing = NoConnection
          /\ QueuesHold
          /\ IF current_whisper_connection_id = NoConnection THEN NoneChosen
             ELSE Chosen(current_whisper_connection_id)

LEMMA AppendedWhisper ==
    ASSUME NEW q \in Seq(Events), NEW e \in Events, InTurn(q),
           e.kind = "WHISPER" => \A i \in 1..Len(q) : q[i].kind = "WHISPER" => q[i].arg < e.arg
    PROVE  /\ InTurn(Append(q, e))
           /\ \A w : Carries(Append(q, e), w) <=> Carries(q, w) \/ e = Message("WHISPER", w)
<1> DEFINE n == Len(q)
           longer == Append(q, e)
<1>1. /\ n \in Nat /\ Len(longer) = n + 1 /\ \A i \in 1..n : longer[i] = q[i]
      /\ longer[n + 1] = e
  OBVIOUS
<1> HIDE DEF longer, n
<1>2. \A i : i \in 1..(n + 1) <=> i \in 1..n \/ i = n + 1
  BY <1>1
<1>3. InTurn(longer)
  <2> SUFFICES ASSUME NEW i \in 1..(n + 1), NEW j \in 1..(n + 1), i < j,
                      longer[i].kind = "WHISPER", longer[j].kind = "WHISPER"
               PROVE  longer[i].arg < longer[j].arg
    BY <1>1 DEF InTurn
  <2>1. i \in 1..n
    BY <1>1
  <2>2. CASE j \in 1..n
    BY <1>1, <2>1, <2>2 DEF InTurn, n
  <2>3. CASE j = n + 1
    BY <1>1, <2>1, <2>3 DEF n
  <2> QED BY <1>2, <2>2, <2>3
<1>4. ASSUME NEW w PROVE Carries(longer, w) <=> Carries(q, w) \/ e = Message("WHISPER", w)
  BY <1>1, <1>2 DEF Carries, n
<1> QED BY <1>3, <1>4 DEF longer

LEMMA HandledWhisper ==
    ASSUME NEW q \in Seq(Events), q # <<>>, InTurn(q)
    PROVE  /\ InTurn(Tail(q))
           /\ \A w : Carries(q, w) <=> Carries(Tail(q), w) \/ Head(q) = Message("WHISPER", w)
           /\ \A w, v : Head(q) = Message("WHISPER", w) /\ Carries(Tail(q), v) => w < v
<1> DEFINE rest == Tail(q)
<1>0. PICK n : n = Len(q) - 1
  OBVIOUS
<1>1. n \in Nat /\ n + 1 = Len(q)
  BY <1>0
<1>2. /\ Len(rest) = n /\ \A i \in 1..n : rest[i] = q[i + 1]
      /\ Head(q) = q[1]
  BY <1>1
<1> HIDE DEF rest
<1>3. /\ 1 \in 1..(n + 1) /\ \A i \in 1..n : i + 1 \in 1..(n + 1) /\ 1 < i + 1
      /\ \A i, j \in 1..n : i < j => i + 1 < j + 1
  BY <1>1
<1>4. InTurn(rest)
  BY <1>1, <1>2, <1>3 DEF InTurn
<1>5. ASSUME NEW w PROVE Carries(q, w) <=> Carries(rest, w) \/ Head(q) = Message("WHISPER", w)
  <2>1. ASSUME NEW i \in 1..(n + 1), q[i] = Message("WHISPER", w), i # 1 PROVE Carries(rest, w)
    <3>1. i - 1 \in 1..n /\ (i - 1) + 1 = i
      BY <1>1, <2>1
    <3> QED BY <1>2, <2>1, <3>1 DEF Carries
  <2>2. Carries(q, w) => Carries(rest, w) \/ Head(q) = Message("WHISPER", w)
    BY <1>1, <1>2, <2>1 DEF Carries
  <2>3. Carries(rest, w) \/ Head(q) = Message("WHISPER", w) => Carries(q, w)
    BY <1>1, <1>2, <1>3 DEF Carries
  <2> QED BY <2>2, <2>3
<1>6. ASSUME NEW w, NEW v, Head(q) = Message("WHISPER", w), Carries(rest, v) PROVE w < v
  <2>1. PICK i \in 1..n : q[i + 1] = Message("WHISPER", v)
    BY <1>2, <1>6 DEF Carries
  <2>2. /\ q[1].kind = "WHISPER" /\ q[1].arg = w
        /\ q[i + 1].kind = "WHISPER" /\ q[i + 1].arg = v
    BY <1>2, <1>6, <2>1 DEF Message
  <2> QED BY <1>1, <1>3, <2>2 DEF InTurn
<1> QED BY <1>4, <1>5, <1>6 DEF rest

\* A step that adds or removes no whisper.
LEMMA SameWhispers ==
    ASSUME WhisperInv, NoFaults, UNCHANGED <<forwarded, whispers, current_whisper_connection_id>>,
           NoFaults', work'.closing = NoConnection,
           \A c \in Ids : /\ phase'[c] # "Closed" /\ (phase[c] = "Open" => phase'[c] = "Open")
                          /\ InTurn(incoming'[c])
                          /\ \A w : Carries(incoming'[c], w) <=> Carries(incoming[c], w)
    PROVE  WhisperInv'
<1>1. QueuesHold /\ work.closing = NoConnection
  BY DEF WhisperInv
<1>2. QueuesHold'
  BY <1>1 DEF QueuesHold
<1>3. NoneChosen => NoneChosen'
  BY DEF NoneChosen
<1>4. ASSUME NEW c, Chosen(c) PROVE Chosen(c)'
  BY <1>4 DEF Chosen
<1>5. WhisperTypeOK'
  BY DEF WhisperInv, WhisperTypeOK, NoFaults
<1> QED BY <1>2, <1>3, <1>4, <1>5 DEF WhisperInv

\* The server sends the next whisper to every open connection.
LEMMA SentWhisper ==
    ASSUME PoolTypeOK, EventsInv, WhisperInv, NoFaults, ServerWhispers PROVE WhisperInv'
<1>1. /\ whispers < MaxWhispers /\ whispers' = whispers + 1
      /\ \E c \in Ids : phase[c] = "Open"
      /\ incoming' = [c \in Ids |-> IF phase[c] = "Open"
                                    THEN Append(incoming[c], Message("WHISPER", whispers + 1))
                                    ELSE incoming[c]]
      /\ UNCHANGED <<phase, closes, panics, work, forwarded, current_whisper_connection_id>>
  BY DEF ServerWhispers, Peer, worker_vars, whisper_vars
<1>2. PICK n : n = whispers + 1
  OBVIOUS
<1>3. /\ whispers \in Nat /\ n \in Whispers /\ n \in Nat /\ whispers' = n /\ n > whispers
      /\ \A w \in Whispers : w \in Nat
  BY <1>1, <1>2, PoolAssumption DEF WhisperInv, WhisperTypeOK, Whispers
<1>4. /\ \A c \in Ids : phase[c] = "Open" => incoming'[c] = Append(incoming[c], Message("WHISPER", n))
      /\ \A c \in Ids : phase[c] # "Open" => incoming'[c] = incoming[c]
  BY <1>1, <1>2
<1>5. QueuesHold
  BY DEF WhisperInv
<1>6. ASSUME NEW c \in Ids, phase[c] = "Open"
      PROVE  /\ InTurn(incoming'[c])
             /\ \A w : Carries(incoming'[c], w) <=> Carries(incoming[c], w) \/ w = n
  <2>1. incoming[c] \in Seq(Events) /\ InTurn(incoming[c]) /\ Message("WHISPER", n) \in Events
    BY <1>3, <1>5, EventTypes DEF QueuesHold, EventsInv
  <2>2. ASSUME NEW i \in 1..Len(incoming[c]), incoming[c][i].kind = "WHISPER"
        PROVE  incoming[c][i].arg < Message("WHISPER", n).arg
    <3>1. PICK w \in Whispers : incoming[c][i] = Message("WHISPER", w)
      BY <2>1, <2>2 DEF Events, Requests, Message
    <3>2. w <= whispers
      BY <1>5, <2>2, <3>1 DEF QueuesHold, Carries
    <3> QED BY <1>3, <3>1, <3>2 DEF Message
  <2>3. \A w : Message("WHISPER", n) = Message("WHISPER", w) <=> w = n
    BY DEF Message
  <2> DEFINE e == Message("WHISPER", n)
             q == incoming[c]
  <2> HIDE DEF e, q
  <2>4. InTurn(Append(q, e)) /\ \A w : Carries(Append(q, e), w) <=> Carries(q, w) \/ e = Message("WHISPER", w)
    BY <2>1, <2>2, AppendedWhisper DEF e, q
  <2>5. incoming'[c] = Append(q, e)
    BY <1>4, <1>6 DEF e, q
  <2> QED BY <2>3, <2>4, <2>5 DEF e, q
<1>7. ASSUME NEW c \in Ids, NEW w \in Whispers, w <= whispers
      PROVE  Carries(incoming'[c], w) <=> Carries(incoming[c], w)
  BY <1>3, <1>4, <1>6, <1>7
<1> HIDE DEF Carries, InTurn
<1>8. ASSUME NEW c \in Ids, NEW w \in Whispers, Carries(incoming'[c], w)
      PROVE  /\ phase[c] = "Open" /\ w <= n
             /\ \A v \in w..n : Carries(incoming'[c], v)
  <2>1. phase[c] = "Open"
    BY <1>4, <1>5, <1>8 DEF QueuesHold
  <2>2. w = n \/ Carries(incoming[c], w)
    BY <1>6, <1>8, <2>1
  <2>3. \A v \in w..n : v = n \/ v \in w..whispers
    BY <1>2, <1>3
  <2> QED BY <1>3, <1>5, <1>6, <2>1, <2>2, <2>3 DEF QueuesHold
<1>9. QueuesHold'
  <2>1. \A c \in Ids : phase'[c] # "Closed" /\ InTurn(incoming'[c])
    BY <1>1, <1>4, <1>5, <1>6 DEF QueuesHold
  <2> QED BY <1>1, <1>3, <1>8, <2>1 DEF QueuesHold
<1>10. ASSUME NoneChosen PROVE NoneChosen'
  <2>1. PICK d \in Ids : phase[d] = "Open"
    BY <1>1
  <2>2. Carries(incoming'[d], n)
    BY <1>6, <2>1
  <2>3. ASSUME NEW w \in Whispers, w <= n PROVE \E c \in Ids : Carries(incoming'[c], w)
    <3>1. CASE w = n
      BY <2>2, <3>1
    <3>2. CASE w # n
      <4>1. w <= whispers
        BY <1>2, <1>3, <2>3, <3>2
      <4> QED BY <1>7, <1>10, <4>1 DEF NoneChosen
    <3> QED BY <3>1, <3>2
  <2> QED BY <1>1, <1>3, <1>10, <2>3 DEF NoneChosen
<1>11. ASSUME NEW c, Chosen(c) PROVE Chosen(c)'
  <2>1. c \in Ids /\ phase[c] = "Open"
    BY <1>11 DEF Chosen
  <2>2. \E v \in 1..n : forwarded[v] = 1
    <3>1. \A v \in 1..whispers : v \in 1..n
      BY <1>2, <1>3
    <3> QED BY <1>11, <3>1 DEF Chosen
  <2>3. ASSUME NEW w \in Whispers, forwarded[w] = 1
        PROVE  /\ w <= n /\ ~Carries(incoming'[c], w)
               /\ \A v \in w..n : Carries(incoming'[c], v) \/ forwarded[v] = 1
    <3>1. w <= whispers /\ ~Carries(incoming[c], w)
      BY <1>11, <2>3 DEF Chosen
    <3>2. w # n /\ w <= n
      BY <1>2, <1>3, <3>1
    <3>3. \A v \in w..n : v = n \/ v \in w..whispers
      BY <1>2, <1>3
    <3> QED BY <1>6, <1>11, <2>1, <2>3, <3>1, <3>2, <3>3 DEF Chosen
  <2> QED BY <1>1, <1>3, <1>11, <2>1, <2>2, <2>3 DEF Chosen
<1>12. WhisperTypeOK'
  BY <1>1, <1>3, PoolAssumption DEF WhisperInv, WhisperTypeOK
<1> QED BY <1>1, <1>9, <1>10, <1>11, <1>12 DEF WhisperInv

\* The client loop handles a whisper.
LEMMA HandlesWhisper ==
    ASSUME PoolTypeOK, EventsInv, WhisperInv, NoFaults, NEW c \in Ids, NEW w \in Whispers,
           OnWhisper(c, w)
    PROVE  WhisperInv'
<1>1. /\ incoming[c] # <<>> /\ Head(incoming[c]) = Message("WHISPER", w)
      /\ incoming' = [incoming EXCEPT ![c] = Tail(@)]
      /\ UNCHANGED <<phase, closes, panics, whispers, work>>
  BY DEF OnWhisper, Receive, bound_vars
<1>2. QueuesHold /\ whispers \in Nat /\ forwarded \in [Whispers -> Nat] /\ \A v \in Whispers : v \in Nat
  BY DEF WhisperInv, WhisperTypeOK, Whispers
<1>3. incoming[c] \in Seq(Events) /\ InTurn(incoming[c])
  BY <1>2 DEF QueuesHold, EventsInv
<1>4. /\ incoming'[c] = Tail(incoming[c])
      /\ \A d \in Ids \ {c} : incoming'[d] = incoming[d]
  BY <1>1 DEF EventsInv
<1>5. /\ InTurn(incoming'[c])
      /\ \A v : Carries(incoming[c], v) <=> Carries(incoming'[c], v) \/ v = w
      /\ \A v : Carries(incoming'[c], v) => w < v
  <2>1. \A v : Head(incoming[c]) = Message("WHISPER", v) <=> v = w
    BY <1>1 DEF Message
  <2> QED BY <1>1, <1>3, <1>4, <2>1, HandledWhisper
<1> HIDE DEF Carries, InTurn
<1>6. Carries(incoming[c], w) /\ phase[c] = "Open" /\ w <= whispers /\ ~Carries(incoming'[c], w)
  BY <1>2, <1>5 DEF QueuesHold
<1>7. ASSUME NEW v \in Whispers, Carries(incoming'[c], v)
      PROVE  v <= whispers /\ \A u \in v..whispers : Carries(incoming'[c], u)
  <2>1. w < v /\ Carries(incoming[c], v)
    BY <1>5, <1>7
  <2>2. \A u \in v..whispers : u # w
    BY <1>2, <2>1
  <2> QED BY <1>2, <1>5, <2>1, <2>2 DEF QueuesHold
<1>8. QueuesHold'
  BY <1>1, <1>2, <1>4, <1>5, <1>6, <1>7 DEF QueuesHold
<1>9. \A v \in w..whispers : v = w \/ Carries(incoming'[c], v)
  BY <1>2, <1>5, <1>6 DEF QueuesHold
<1>10. CASE current_whisper_connection_id = NoConnection
  <2>1. NoneChosen
    BY <1>10 DEF WhisperInv
  <2>2. current_whisper_connection_id' = c /\ forwarded' = [forwarded EXCEPT ![w] = @ + 1]
    BY <1>10 DEF OnWhisper
  <2>3. \A v \in Whispers : forwarded'[v] = IF v = w THEN 1 ELSE 0
    BY <1>2, <2>1, <2>2 DEF NoneChosen
  <2>4. Chosen(c)'
    <3>1. w \in 1..whispers
      BY <1>2, <1>6 DEF Whispers
    <3>2. \A v \in Whispers : /\ forwarded'[v] \in {0, 1}
                              /\ forwarded'[v] = 1 => v = w
      BY <2>3
    <3> QED BY <1>1, <1>6, <1>9, <2>3, <3>1, <3>2 DEF Chosen
  <2>5. c # NoConnection
    BY PoolAssumption DEF Ids, NoConnection
  <2>6. WhisperTypeOK'
    BY <1>1, <1>2, <2>2 DEF WhisperInv, WhisperTypeOK
  <2> QED BY <1>1, <1>8, <2>2, <2>4, <2>5, <2>6 DEF WhisperInv
<1>11. CASE current_whisper_connection_id = c
  <2>1. Chosen(c) /\ c # NoConnection
    BY <1>11, PoolAssumption DEF WhisperInv, Ids, NoConnection
  <2>2. current_whisper_connection_id' = c /\ forwarded' = [forwarded EXCEPT ![w] = @ + 1]
    BY <1>11 DEF OnWhisper
  <2>3. forwarded[w] = 0
    BY <1>6, <2>1 DEF Chosen
  <2>4. /\ forwarded'[w] = 1
        /\ \A v \in Whispers : v # w => forwarded'[v] = forwarded[v]
    BY <1>2, <2>2, <2>3
  <2>5. ASSUME NEW v \in Whispers, forwarded'[v] = 1
        PROVE  /\ v <= whispers /\ ~Carries(incoming'[c], v)
               /\ \A u \in v..whispers : Carries(incoming'[c], u) \/ forwarded'[u] = 1
    <3>1. CASE v = w
      BY <1>6, <1>9, <2>4, <3>1
    <3>2. CASE v # w
      <4>1. forwarded[v] = 1
        BY <2>4, <2>5, <3>2
      <4>2. /\ v <= whispers /\ ~Carries(incoming[c], v)
            /\ \A u \in v..whispers : Carries(incoming[c], u) \/ forwarded[u] = 1
        BY <2>1, <4>1 DEF Chosen
      <4>3. \A u \in v..whispers : u \in Whispers
        BY <1>2, PoolAssumption DEF Whispers, WhisperInv, WhisperTypeOK
      <4> QED BY <1>5, <2>4, <4>2, <4>3
    <3> QED BY <3>1, <3>2
  <2>6. Chosen(c)'
    <3>1. w \in 1..whispers
      BY <1>2, <1>6 DEF Whispers
    <3>2. \A v \in Whispers : forwarded'[v] \in {0, 1}
      BY <2>1, <2>4 DEF Chosen
    <3> QED BY <1>1, <1>6, <2>4, <2>5, <3>1, <3>2 DEF Chosen
  <2>7. WhisperTypeOK'
    BY <1>1, <1>2, <2>2 DEF WhisperInv, WhisperTypeOK
  <2> QED BY <1>1, <1>8, <2>1, <2>2, <2>6, <2>7 DEF WhisperInv
<1>12. CASE current_whisper_connection_id \notin {NoConnection, c}
  <2>1. UNCHANGED <<current_whisper_connection_id, forwarded>>
    BY <1>12 DEF OnWhisper, whisper_vars
  <2>2. PICK d : d = current_whisper_connection_id
    OBVIOUS
  <2>3. Chosen(d) /\ d # c /\ d # NoConnection
    BY <1>12, <2>2 DEF WhisperInv
  <2>4. incoming'[d] = incoming[d]
    BY <1>4, <2>3 DEF Chosen
  <2>5. Chosen(d)'
    BY <1>1, <2>1, <2>3, <2>4 DEF Chosen
  <2>6. WhisperTypeOK'
    BY <1>1, <2>1 DEF WhisperInv, WhisperTypeOK
  <2> QED BY <1>1, <1>8, <2>1, <2>2, <2>3, <2>5, <2>6 DEF WhisperInv
<1> QED BY <1>10, <1>11, <1>12

\* A caller's command neither forwards a whisper nor touches a bound but its own, and
\* leaves no connection half removed.
LEMMA CommandsAreCounted ==
    ASSUME UserCommand
    PROVE  /\ UNCHANGED <<forwarded, current_whisper_connection_id, whispers, closes, panics>>
           /\ work'.closing = work.closing
<1>1. CASE Connect
  BY <1>1 DEF Connect, Command, whisper_vars
<1>2. CASE \E busy \in SUBSET Live : SendMessage(busy)
  BY <1>2 DEF SendMessage, Command, whisper_vars
<1>3. ASSUME NEW ch \in Channels, Join(ch) \/ Part(ch)
      PROVE  /\ UNCHANGED <<forwarded, current_whisper_connection_id, whispers, closes, panics>>
             /\ work'.closing = work.closing
  BY <1>3 DEF Join, Part, Command, whisper_vars
<1>4. ASSUME NEW S \in SUBSET Channels, SetWantedChannels(S)
      PROVE  /\ UNCHANGED <<forwarded, current_whisper_connection_id, whispers, closes, panics>>
             /\ work'.closing = work.closing
  <2>1. UNCHANGED <<forwarded, current_whisper_connection_id, whispers, closes, panics>> /\ work = NoWork
    BY <1>4 DEF SetWantedChannels, Command, Idle, whisper_vars
  <2>2. work'.closing = NoConnection
    BY <1>4 DEF SetWantedChannels, NoWork
  <2> QED BY <2>1, <2>2 DEF NoWork
<1> QED BY <1>1, <1>2, <1>3, <1>4 DEF UserCommand

\* What every other step does to whispers: nothing.
LEMMA OtherWhispers ==
    ASSUME PoolTypeOK, DequeInv, EventsInv, AskedInv, WhisperInv, NoFaults, NoFaults',
           [Next]_vars, ~ServerWhispers, \A c \in Ids, w \in Whispers : ~OnWhisper(c, w)
    PROVE  WhisperInv'
<1>1. /\ QueuesHold /\ work.closing = NoConnection /\ closes \in Nat /\ panics \in Nat
      /\ closes' = 0 /\ panics' = 0
  BY DEF WhisperInv, WhisperTypeOK, NoFaults
<1>2. \A c \in Ids : phase[c] # "Closed" /\ InTurn(incoming[c]) /\ incoming[c] \in Seq(Events)
  BY <1>1 DEF QueuesHold, EventsInv
<1>3. CASE UNCHANGED vars
  <2>1. UNCHANGED <<forwarded, whispers, current_whisper_connection_id, phase, incoming, work>>
    BY <1>3 DEF vars, whisper_vars, bound_vars, worker_vars
  <2> QED BY <1>1, <1>2, <2>1, SameWhispers
<1>4. CASE UserCommand \/ Continue
  <2>1. /\ (Kept /\ UNCHANGED phase) \/ Requeued
        /\ UNCHANGED incoming
    BY <1>4, CommandMoves
  <2>2. ~FinishClosed
    BY <1>1 DEF FinishClosed
  <2>3. UNCHANGED <<forwarded, whispers, current_whisper_connection_id>> /\ work'.closing = NoConnection
    <3>1. CASE UserCommand
      <4>1. UNCHANGED <<forwarded, whispers, current_whisper_connection_id>>
        BY <3>1, CommandsAreCounted
      <4>2. work'.closing = work.closing
        BY <3>1, CommandsAreCounted
      <4> QED BY <1>1, <4>1, <4>2
    <3>2. ASSUME NEW ch \in Channels, PartNext(ch) \/ JoinNext(ch)
          PROVE  /\ UNCHANGED <<forwarded, whispers, current_whisper_connection_id>>
                 /\ work'.closing = NoConnection
      BY <1>1, <3>2 DEF PartNext, JoinNext, Working, bound_vars, whisper_vars, AskedInv, WorkTypeOK
    <3> QED BY <1>4, <2>2, <3>1, <3>2 DEF Continue
  <2>4. ASSUME NEW c \in Ids
        PROVE  phase'[c] # "Closed" /\ (phase[c] = "Open" => phase'[c] = "Open")
    <3>1. CASE UNCHANGED phase
      BY <1>2, <3>1
    <3>2. CASE Requeued
      <4>1. PICK d : (d = Fresh \/ d \in Live) /\ Requeue(d)
        BY <3>2 DEF Requeued
      <4>2. CASE d = Fresh
        <5>1. phase' = [phase EXCEPT ![Fresh] = "Initializing"]
          BY <4>1, <4>2 DEF Requeue
        <5>2. c = Fresh => phase[c] = "None" /\ phase'[c] = "Initializing"
          <6>1. next_connection_id \in Nat /\ (c = Fresh => c >= next_connection_id)
            BY PoolAssumption DEF Fresh, PoolTypeOK
          <6> QED BY <5>1, <6>1 DEF EventsInv, PoolTypeOK
        <5>3. c # Fresh => phase'[c] = phase[c]
          BY <5>1 DEF PoolTypeOK
        <5> QED BY <1>2, <5>2, <5>3
      <4>3. CASE d # Fresh
        BY <1>2, <4>1, <4>3 DEF Requeue
      <4> QED BY <4>2, <4>3
    <3> QED BY <2>1, <3>1, <3>2
  <2> QED BY <1>2, <2>1, <2>3, <2>4, SameWhispers
<1>5. ASSUME NEW c \in Ids, NEW e \in Events, Says(c, e), e.kind # "WHISPER",
             UNCHANGED <<forwarded, whispers, current_whisper_connection_id, work>>,
             \A d \in Ids : phase'[d] # "Closed" /\ (phase[d] = "Open" => phase'[d] = "Open")
      PROVE  WhisperInv'
  <2>1. incoming' = [d \in Ids |-> IF d = c THEN Append(incoming[d], e) ELSE incoming[d]]
    BY <1>5, SaysSends
  <2>2. \A w : e # Message("WHISPER", w)
    BY <1>5 DEF Message
  <2> DEFINE q == incoming[c]
  <2>3. q \in Seq(Events) /\ InTurn(q)
    BY <1>2
  <2> HIDE DEF q
  <2>4. InTurn(Append(q, e)) /\ \A w : Carries(Append(q, e), w) <=> Carries(q, w)
    BY <1>5, <2>2, <2>3, AppendedWhisper
  <2>5. incoming'[c] = Append(q, e) /\ incoming[c] = q /\ \A d \in Ids \ {c} : incoming'[d] = incoming[d]
    BY <2>1 DEF q
  <2>6. \A d \in Ids : /\ InTurn(incoming'[d])
                       /\ \A w : Carries(incoming'[d], w) <=> Carries(incoming[d], w)
    BY <1>2, <2>4, <2>5
  <2> QED BY <1>1, <1>5, <2>6, SameWhispers
<1>6. CASE Environment
  <2>1. UNCHANGED <<forwarded, current_whisper_connection_id, work>>
    BY <1>6 DEF Environment, PeerOpens, PeerCloses, PeerPanics, PeerSticks, ServerAnswers, ServerJoins, ServerParts,
         ServerRefuses, ServerRemoves, ServerWhispers, NextRequest, Peer, worker_vars, whisper_vars
  <2>2. UNCHANGED whispers
    BY <1>6 DEF Environment, PeerOpens, PeerCloses, PeerPanics, PeerSticks, ServerAnswers, ServerJoins, ServerParts,
         ServerRefuses, ServerRemoves, NextRequest
  <2>3. ASSUME NEW c \in Ids, PeerOpens(c) PROVE WhisperInv'
    <3>1. Message("StateOpen", "None") \in Events /\ Message("StateOpen", "None").kind # "WHISPER"
      BY EventTypes DEF Message
    <3>2. \A d \in Ids : phase'[d] # "Closed" /\ (phase[d] = "Open" => phase'[d] = "Open")
      BY <1>2, <2>3 DEF PeerOpens, PoolTypeOK
    <3> QED BY <1>5, <2>1, <2>2, <2>3, <3>1, <3>2 DEF PeerOpens
  <2>4. ASSUME NEW c \in Ids, PeerCloses(c) \/ PeerPanics(c) \/ PeerSticks(c) PROVE FALSE
    BY <1>1, <2>4 DEF PeerCloses, PeerPanics, PeerSticks
  <2>5. ASSUME NEW c \in Ids, NEW ch \in Channels,
               ServerJoins(c, ch) \/ ServerParts(c, ch) \/ ServerRefuses(c, ch) \/ ServerRemoves(c, ch)
        PROVE  WhisperInv'
    <3>1. UNCHANGED phase
      BY <2>5 DEF ServerJoins, ServerParts, ServerRefuses, ServerRemoves, NextRequest
    <3>2. \/ UNCHANGED incoming
          \/ Says(c, Message("JOIN", ch)) \/ Says(c, Message("PART", ch))
      BY <2>5 DEF ServerJoins, ServerParts, ServerRefuses, ServerRemoves
    <3>3. Message("JOIN", ch).kind # "WHISPER" /\ Message("PART", ch).kind # "WHISPER"
      BY DEF Message
    <3>4. UNCHANGED incoming => WhisperInv'
      BY <1>1, <1>2, <2>1, <2>2, <3>1, SameWhispers
    <3> QED BY <1>2, <1>5, <2>1, <2>2, <3>1, <3>2, <3>3, <3>4, EventTypes
  <2> QED BY <1>6, <2>3, <2>4, <2>5 DEF Environment, ServerAnswers
<1>7. ASSUME NEW c \in Ids, on_incoming_message(c) PROVE WhisperInv'
  <2>1. ~OnStateClosed(c)
    <3>1. ASSUME OnStateClosed(c) PROVE FALSE
      <4>1. incoming[c] # <<>> /\ Head(incoming[c]).kind = "StateClosed"
        BY <3>1 DEF OnStateClosed, Receive, Message
      <4>2. 1 \in 1..Len(incoming[c]) /\ incoming[c][1].kind = "StateClosed"
        BY <1>2, <4>1, TailClosed
      <4> QED BY <1>2, <4>2 DEF EventsInv, ClosedLast
    <3> QED BY <3>1
  <2>2. PICK kind, arg : Receive(c, kind, arg) /\ kind # "WHISPER"
    BY <1>7, <2>1 DEF on_incoming_message, OnServerJoin, OnServerPart, OnStateOpen
  <2>3. UNCHANGED <<forwarded, whispers, current_whisper_connection_id, work, phase>>
    <3>1. UNCHANGED <<phase, whispers>>
      BY <2>2 DEF Receive, bound_vars
    <3>2. UNCHANGED <<forwarded, current_whisper_connection_id, work>>
      BY <1>7, <2>1 DEF on_incoming_message, OnServerJoin, OnServerPart, OnStateOpen, Unwraps,
                        whisper_vars
    <3> QED BY <3>1, <3>2
  <2> DEFINE q == incoming[c]
  <2>4. /\ q \in Seq(Events) /\ q # <<>> /\ InTurn(q) /\ \A w : Head(q) # Message("WHISPER", w)
        /\ incoming' = [incoming EXCEPT ![c] = Tail(q)]
    BY <1>2, <2>2 DEF Receive, Message
  <2>5. incoming'[c] = Tail(q) /\ \A d \in Ids \ {c} : incoming'[d] = incoming[d]
    BY <2>4 DEF EventsInv
  <2>6. incoming[c] = q
    OBVIOUS
  <2> HIDE DEF q
  <2>7. InTurn(Tail(q)) /\ \A w : Carries(Tail(q), w) <=> Carries(q, w)
    BY <2>4, HandledWhisper
  <2>8. \A d \in Ids : /\ InTurn(incoming'[d])
                       /\ \A w : Carries(incoming'[d], w) <=> Carries(incoming[d], w)
    <3>1. ASSUME NEW d \in Ids
          PROVE  InTurn(incoming'[d]) /\ \A w : Carries(incoming'[d], w) <=> Carries(incoming[d], w)
      <4>1. CASE d = c
        <5>1. incoming'[d] = Tail(q) /\ incoming[d] = q
          BY <2>5, <2>6, <4>1
        <5> QED BY <2>7, <5>1
      <4>2. CASE d # c
        <5>1. incoming'[d] = incoming[d]
          BY <2>5, <4>2
        <5> QED BY <1>2, <5>1
      <4> QED BY <4>1, <4>2
    <3> QED BY <3>1
  <2> QED BY <1>1, <1>2, <2>3, <2>8, SameWhispers
<1>8. ASSUME NEW c \in Ids, SendPanics(c) PROVE WhisperInv'
  <2>1. UNCHANGED <<forwarded, whispers, current_whisper_connection_id, phase, incoming, work>>
    BY <1>8, SendPanicsMoves
  <2> QED BY <1>1, <1>2, <2>1, SameWhispers
<1> QED BY <1>3, <1>4, <1>6, <1>7, <1>8 DEF Next

\* The number of whispers and of failed connections stay what they count.
LEMMA StepWhisperType ==
    ASSUME WhisperTypeOK, [Next]_vars
    PROVE  WhisperTypeOK' /\ (NoFaults' => NoFaults)
<1>1. CASE UNCHANGED vars
  BY <1>1 DEF vars, bound_vars, whisper_vars, WhisperTypeOK, NoFaults
<1>2. CASE UserCommand
  <2>1. UNCHANGED <<forwarded, whispers, closes, panics>>
    BY <1>2, CommandsAreCounted
  <2> QED BY <2>1 DEF WhisperTypeOK, NoFaults
<1>3. CASE Continue
  <2>1. UNCHANGED <<forwarded, whispers, closes, panics>>
    BY <1>3 DEF Continue, FinishClosed, PartNext, JoinNext, Working, bound_vars, whisper_vars
  <2> QED BY <2>1 DEF WhisperTypeOK, NoFaults
<1>4. ASSUME NEW c \in Ids, on_incoming_message(c)
      PROVE  WhisperTypeOK' /\ (NoFaults' => NoFaults)
  <2>1. PICK kind, arg : Receive(c, kind, arg)
    BY <1>4 DEF on_incoming_message, OnServerJoin, OnServerPart, OnWhisper, OnStateOpen, OnStateClosed
  <2>2. UNCHANGED <<whispers, closes, panics>>
    BY <2>1 DEF Receive, bound_vars
  <2>3. CASE \E w \in Whispers : OnWhisper(c, w)
    <3>1. PICK w \in Whispers : OnWhisper(c, w)
      BY <2>3
    <3>2. UNCHANGED forwarded \/ forwarded' = [forwarded EXCEPT ![w] = @ + 1]
      BY <3>1 DEF OnWhisper, whisper_vars
    <3>3. forwarded' \in [Whispers -> Nat]
      BY <3>2 DEF WhisperTypeOK
    <3> QED BY <2>2, <3>3 DEF WhisperTypeOK, NoFaults
  <2>4. CASE ~\E w \in Whispers : OnWhisper(c, w)
    <3>1. UNCHANGED forwarded
      BY <1>4, <2>4 DEF on_incoming_message, OnServerJoin, OnServerPart, OnStateOpen, OnStateClosed,
                        Unwraps, whisper_vars
    <3> QED BY <2>2, <3>1 DEF WhisperTypeOK, NoFaults
  <2> QED BY <2>3, <2>4
<1>5. CASE Environment
  <2>1. UNCHANGED forwarded
    BY <1>5 DEF Environment, PeerOpens, PeerCloses, PeerPanics, PeerSticks, ServerAnswers, ServerJoins, ServerParts,
         ServerRefuses, ServerRemoves, ServerWhispers, NextRequest, Peer, whisper_vars
  <2>2. closes' \in {closes, closes + 1} /\ panics' \in {panics, panics + 1}
    BY <1>5 DEF Environment, PeerOpens, PeerCloses, PeerPanics, PeerSticks, ServerAnswers, ServerJoins, ServerParts,
         ServerRefuses, ServerRemoves, ServerWhispers, NextRequest
  <2>3. whispers' = whispers \/ (whispers < MaxWhispers /\ whispers' = whispers + 1)
    BY <1>5 DEF Environment, PeerOpens, PeerCloses, PeerPanics, PeerSticks, ServerAnswers, ServerJoins, ServerParts,
         ServerRefuses, ServerRemoves, ServerWhispers, NextRequest
  <2> QED BY <2>1, <2>2, <2>3, PoolAssumption DEF WhisperTypeOK, NoFaults
<1>6. ASSUME NEW c \in Ids, SendPanics(c) PROVE WhisperTypeOK' /\ (NoFaults' => NoFaults)
  BY <1>6, SendPanicsMoves DEF WhisperTypeOK, NoFaults
<1> QED BY <1>1, <1>2, <1>3, <1>4, <1>5, <1>6 DEF Next

LEMMA StepWhispers ==
    PoolTypeOK /\ DequeInv /\ EventsInv /\ AskedInv /\ WhisperInv /\ [Next]_vars => WhisperInv'
<1> SUFFICES ASSUME PoolTypeOK, DequeInv, EventsInv, AskedInv, WhisperInv, [Next]_vars
             PROVE  WhisperInv'
  OBVIOUS
<1>1. WhisperTypeOK' /\ (NoFaults' => NoFaults)
  BY StepWhisperType DEF WhisperInv
<1>2. CASE ~NoFaults'
  BY <1>1, <1>2 DEF WhisperInv
<1>3. CASE NoFaults'
  BY <1>1, <1>3, SentWhisper, HandlesWhisper, OtherWhispers
<1> QED BY <1>2, <1>3

\* As long as no connection fails or panics, however many connections receive each whisper and in
\* whatever order their forwarders are served, the user gets no whisper twice and none is
\* missed once one came through (event_loop.rs:372-404).
THEOREM WhisperExactlyOnceCorrect == Spec => []WhisperExactlyOnce
<1>1. Init => WhisperInv
  <2> SUFFICES ASSUME Init PROVE WhisperInv
    OBVIOUS
  <2>1. WhisperTypeOK
    BY PoolAssumption DEF Init, WhisperTypeOK
  <2>2. work.closing = NoConnection
    BY DEF Init, NoWork
  <2>3. \A c \in Ids : incoming[c] = <<>> /\ phase[c] = "None"
    BY DEF Init
  <2>4. ASSUME NEW c \in Ids
        PROVE  InTurn(incoming[c]) /\ \A w : ~Carries(incoming[c], w)
    <3>1. incoming[c] = <<>> /\ DOMAIN <<>> = {}
      BY <2>3
    <3> QED BY <3>1 DEF InTurn, Carries
  <2>5. QueuesHold
    BY <2>3, <2>4 DEF QueuesHold
  <2>6. NoneChosen
    <3>1. \A w \in Whispers : forwarded[w] = 0
      BY DEF Init
    <3>2. \A w \in Whispers : ~(w <= whispers)
      BY DEF Init, Whispers
    <3> QED BY <3>1, <3>2 DEF NoneChosen
  <2>7. current_whisper_connection_id = NoConnection
    BY DEF Init
  <2> QED BY <2>1, <2>2, <2>5, <2>6, <2>7 DEF WhisperInv
<1>2. Spec => []WhisperInv
  BY <1>1, InitPool, StepPool, InitAsked, StepAsked, InitDeque, StepDeque, InitEvents, StepEvents,
     StepWhispers, PTL DEF Spec
<1>3. EventsInv /\ WhisperInv => WhisperExactlyOnce
  <2> SUFFICES ASSUME EventsInv, WhisperInv, NoFaults, NEW w \in 1..whispers
               PROVE  /\ forwarded[w] <= 1
                      /\ ~InFlight(w) /\ (w = whispers \/ \E v \in 1..(w - 1) : forwarded[v] = 1)
                            => forwarded[w] = 1
    BY DEF WhisperExactlyOnce, NoFaults
  <2>1. w \in Whispers /\ w <= whispers /\ whispers \in Nat /\ 1..whispers \subseteq Whispers
    BY PoolAssumption DEF WhisperInv, WhisperTypeOK, Whispers
  <2>2. \A c \in Ids : Carries(incoming[c], w) => InFlight(w)
    BY DEF Carries, InFlight, ToSet, EventsInv
  <2>3. CASE current_whisper_connection_id = NoConnection
    <3>1. NoneChosen
      BY <2>3 DEF WhisperInv
    <3> QED BY <2>1, <2>2, <3>1 DEF NoneChosen
  <2>4. CASE current_whisper_connection_id # NoConnection
    <3>1. PICK c : Chosen(c)
      BY <2>4 DEF WhisperInv
    <3>2. ASSUME ~InFlight(w), NEW v \in 1..whispers, forwarded[v] = 1, v <= w PROVE forwarded[w] = 1
      <4>1. w \in v..whispers /\ v \in Whispers /\ c \in Ids
        BY <2>1, <3>1, <3>2 DEF Chosen
      <4> QED BY <2>2, <3>1, <3>2, <4>1 DEF Chosen
    <3>3. \E v \in 1..whispers : forwarded[v] = 1
      BY <3>1 DEF Chosen
    <3>4. \A v \in 1..(w - 1) : v \in 1..whispers /\ v <= w
      BY <2>1
    <3>5. forwarded[w] <= 1
      BY <2>1, <3>1 DEF Chosen
    <3> QED BY <2>1, <3>2, <3>3, <3>4, <3>5
  <2> QED BY <2>3, <2>4
<1> QED BY <1>2, <1>3, EventsAlways, PTL
=============================================================================
