---------------------------- MODULE Pinger_proofs ----------------------------
(***************************************************************************)
(* The pinger, for all periods, delays and latenesses that PingerAssumption *)
(* allows: a healthy connection is not closed, a dead peer is noticed.     *)
(***************************************************************************)
EXTENDS Pinger, SequenceTheorems, TLAPS

\* Time since the last PING was due (before the first: since the start).
Elapsed == PingEvery - sendIn

\* Which interval ticks next.
SendNext == checkIn - sendIn = CheckAfter
CheckNext == checkIn - sendIn = CheckAfter - PingEvery

Queued(c) == \E i \in 1..Len(commands) : commands[i] = c

\* A tick is handled before the next is due: at most one is in the queue, for no longer
\* than the loop has had something to do.
TicksInTurn ==
    /\ Elapsed >= 0
    /\ SendNext => ~Queued("SendPing")
    /\ CheckNext => ~Queued("CheckPong")
    /\ \A i, j \in 1..Len(commands) : commands[i] # "Pong" /\ commands[j] # "Pong" => i = j
    /\ Queued("SendPing") => Elapsed <= MaxLate + waited
    /\ Queued("CheckPong") => Elapsed <= CheckAfter + MaxLate + waited

\* While the peer is alive, the answer to the last PING is on its way until it is there,
\* and it is there before the check.
AnswerComes ==
    /\ open = TRUE /\ silent = 0
    /\ \A i \in 1..Len(commands) :
            commands[i] = "CheckPong" => \/ pong_received = TRUE
                                         \/ \E j \in 1..(i - 1) : commands[j] = "Pong"
    /\ CheckNext => \/ Queued("SendPing") \/ Queued("Pong") \/ pong_received = TRUE
                    \/ \E i \in 1..Len(flight) : Elapsed - flight[i] <= 2 * MaxLate

\* The silence at the time the last PING was due.
Missed == silent - Elapsed

\* No answer is left that could pass for one to the last PING.
NoAnswer ==
    /\ flight = <<>>
    /\ \/ \E i \in 1..Len(commands) : /\ commands[i] = "SendPing"
                                      /\ \A j \in (i + 1)..Len(commands) : commands[j] # "Pong"
       \/ ~Queued("SendPing") /\ ~Queued("Pong") /\ pong_received = FALSE

\* After the peer died, a PING that was due when its last answer was in already is the
\* last one that is sent.
SilenceFound ==
    /\ \A i \in 1..Len(flight) : flight[i] >= silent
    /\ CheckNext => Missed <= MaxDelay + PingEvery /\ (Missed > MaxDelay => NoAnswer)
    /\ SendNext => \/ Missed <= MaxDelay
                   \/ Missed <= MaxDelay + PingEvery /\ NoAnswer /\ Queued("CheckPong")

\* The inductive invariant.
PingerInv ==
    /\ TypeOK
    /\ open = TRUE => TicksInTurn
    /\ alive = TRUE => AnswerComes
    /\ open = TRUE /\ alive = FALSE => SilenceFound

---------------------------------------------------------------------------
(* Steps of the queue.                                                     *)

\* The queue with one command more.
Longer(c) ==
    /\ commands' \in Seq(Commands) /\ Len(commands) \in Nat /\ Len(commands') = Len(commands) + 1
    /\ \A i \in 1..Len(commands) : commands'[i] = commands[i]
    /\ commands'[Len(commands) + 1] = c
    /\ waited' = waited

\* The queue with one command less.
Shorter(c) ==
    /\ commands' \in Seq(Commands) /\ Len(commands) \in Nat \ {0} /\ Len(commands') = Len(commands) - 1
    /\ commands[1] = c
    /\ \A i \in 1..Len(commands') : commands'[i] = commands[i + 1]
    /\ waited' = IF Len(commands) = 1 THEN 0 ELSE waited

LEMMA PostLonger ==
    ASSUME TypeOK, NEW c \in Commands, Post(c)
    PROVE  Longer(c)
BY DEF TypeOK, Post, Longer

LEMMA TakeShorter ==
    ASSUME TypeOK, NEW c, Take(c)
    PROVE  Shorter(c) /\ open = TRUE
<1>1. commands \in Seq(Commands) /\ commands # <<>> /\ Head(commands) = c /\ commands' = Tail(commands)
    BY DEF TypeOK, Take
<1>2. /\ commands' \in Seq(Commands) /\ Len(commands) \in Nat \ {0} /\ Len(commands') = Len(commands) - 1
      /\ commands[1] = c
      /\ \A i \in 1..Len(commands') : commands'[i] = commands[i + 1]
    BY <1>1
<1>3. waited' = IF Len(commands) = 1 THEN 0 ELSE waited
    BY DEF Take
<1>4. open = TRUE
    BY DEF TypeOK, Take
<1> QED
    BY <1>2, <1>3, <1>4 DEF Shorter

\* The intervals take turns.
LEMMA Turns ==
    ASSUME TypeOK
    PROVE  /\ SendNext \/ CheckNext
           /\ ~(SendNext /\ CheckNext)
           /\ SendNext => checkIn > 0
           /\ CheckNext => sendIn > 0
           /\ sendIn \in Int /\ checkIn \in Int /\ Elapsed \in Int /\ waited \in 0..MaxLate
           /\ Elapsed <= PingEvery + MaxLate
BY PingerAssumption DEF TypeOK, SendNext, CheckNext, Elapsed

LEMMA FlightType ==
    ASSUME TypeOK
    PROVE  /\ flight \in Seq(0..MaxDelay) /\ Len(flight) \in Nat
           /\ \A i \in 1..Len(flight) : flight[i] \in 0..MaxDelay
<1>1. flight \in Seq(0..MaxDelay)
    BY DEF TypeOK
<1> QED
    BY <1>1, LenProperties, ElementOfSeq

LEMMA TypeStep == TypeOK /\ [Next]_vars => TypeOK'
<1> SUFFICES ASSUME TypeOK, [Next]_vars PROVE TypeOK'
    OBVIOUS
<1>1. CASE SendPingTick
    <2>1. Longer("SendPing")
        BY <1>1, PostLonger DEF SendPingTick, Commands
    <2>2. UNCHANGED <<open, pong_received, checkIn, flight, alive, silent>> /\ sendIn' = sendIn + PingEvery /\ sendIn <= 0
        BY <1>1 DEF SendPingTick
    <2>3. SendNext
        BY <2>2, Turns
    <2>4. /\ sendIn' \in Int /\ checkIn' \in Int /\ -MaxLate <= sendIn' /\ -MaxLate <= checkIn'
          /\ checkIn' - sendIn' = CheckAfter - PingEvery
        BY <2>2, <2>3, PingerAssumption DEF TypeOK, SendNext
    <2> QED
        BY <2>1, <2>2, <2>4 DEF TypeOK, Longer
<1>2. CASE CheckPongTick
    <2>1. Longer("CheckPong")
        BY <1>2, PostLonger DEF CheckPongTick, Commands
    <2>2. UNCHANGED <<open, pong_received, sendIn, flight, alive, silent>> /\ checkIn' = checkIn + PingEvery /\ checkIn <= 0
        BY <1>2 DEF CheckPongTick
    <2>3. CheckNext
        BY <2>2, Turns
    <2>4. /\ sendIn' \in Int /\ checkIn' \in Int /\ -MaxLate <= sendIn' /\ -MaxLate <= checkIn'
          /\ checkIn' - sendIn' = CheckAfter
        BY <2>2, <2>3, PingerAssumption DEF TypeOK, CheckNext
    <2> QED
        BY <2>1, <2>2, <2>4 DEF TypeOK, Longer
<1>3. ASSUME NEW c, Take(c) PROVE commands' \in Seq(Commands) /\ waited' \in 0..MaxLate
    <2>1. Shorter(c)
        BY <1>3, TakeShorter
    <2> QED
        BY <2>1, Turns, PingerAssumption DEF Shorter
<1>4. CASE send_ping
    <2>1. commands' \in Seq(Commands) /\ waited' \in 0..MaxLate
        BY <1>3, <1>4 DEF send_ping
    <2>2. flight' \in Seq(0..MaxDelay)
        <3>1. Append(flight, 0) \in Seq(0..MaxDelay) /\ flight \in Seq(0..MaxDelay)
            BY PingerAssumption DEF TypeOK
        <3> QED
            BY <1>4, <3>1 DEF send_ping
    <2>3. pong_received' \in BOOLEAN /\ UNCHANGED <<open, sendIn, checkIn, alive, silent>>
        BY <1>4 DEF send_ping
    <2> QED
        BY <2>1, <2>2, <2>3 DEF TypeOK
<1>5. CASE check_pong
    <2>1. commands' \in Seq(Commands) /\ waited' \in 0..MaxLate
        BY <1>3, <1>5 DEF check_pong
    <2>2. open' \in BOOLEAN /\ UNCHANGED <<pong_received, sendIn, checkIn, flight, alive, silent>>
        BY <1>5 DEF check_pong, TypeOK
    <2> QED
        BY <2>1, <2>2 DEF TypeOK
<1>6. CASE on_pong
    <2>1. commands' \in Seq(Commands) /\ waited' \in 0..MaxLate
        BY <1>3, <1>6 DEF on_pong
    <2>2. pong_received' \in BOOLEAN /\ UNCHANGED <<open, sendIn, checkIn, flight, alive, silent>>
        BY <1>6 DEF on_pong
    <2> QED
        BY <2>1, <2>2 DEF TypeOK
<1>7. CASE CallerPings
    <2>1. flight' \in Seq(0..MaxDelay)
        BY <1>7, PingerAssumption DEF CallerPings, TypeOK
    <2> QED
        BY <1>7, <2>1 DEF CallerPings, TypeOK
<1>8. CASE PongArrives
    <2>1. flight' \in Seq(0..MaxDelay)
        BY <1>8 DEF PongArrives, TypeOK
    <2>2. Longer("Pong")
        BY <1>8, PostLonger DEF PongArrives, Commands
    <2> QED
        BY <1>8, <2>1, <2>2 DEF PongArrives, TypeOK, Longer
<1>9. CASE PeerDies
    <2>1. flight' \in Seq(0..MaxDelay)
        <3>1. flight \in Seq(0..MaxDelay)
            BY DEF TypeOK
        <3>2. PICK n \in 0..Len(flight) : flight' = SubSeq(flight, 1, n)
            BY <1>9 DEF PeerDies
        <3>3. SubSeq(flight, 1, n) \in Seq(0..MaxDelay)
            <4>1. n \in Int /\ \A i \in 1..n : flight[i] \in 0..MaxDelay
                BY <3>2, FlightType
            <4> QED
                BY <4>1, SubSeqProperties
        <3> QED
            BY <3>2, <3>3
    <2>2. alive' \in BOOLEAN /\ UNCHANGED <<open, pong_received, sendIn, checkIn, commands, waited, silent>>
        BY <1>9 DEF PeerDies
    <2> QED
        BY <2>1, <2>2 DEF TypeOK
<1>10. CASE Tick
    <2>1. flight' \in Seq(0..MaxDelay)
        <3>1. \A i \in 1..Len(flight) : flight[i] \in 0..MaxDelay /\ flight[i] < MaxDelay
            BY <1>10, FlightType DEF Tick
        <3>2. \A i \in 1..Len(flight) : flight[i] + 1 \in 0..MaxDelay
            BY <3>1, PingerAssumption
        <3>3. Len(flight) \in Nat
            BY FlightType
        <3> QED
            BY <1>10, <3>2, <3>3 DEF Tick
    <2>2. waited' \in 0..MaxLate
        BY <1>10, PingerAssumption DEF Tick, TypeOK
    <2>3. /\ sendIn' \in Int /\ checkIn' \in Int /\ -MaxLate <= sendIn' /\ -MaxLate <= checkIn'
          /\ checkIn' - sendIn' \in {CheckAfter, CheckAfter - PingEvery}
        BY <1>10, PingerAssumption DEF Tick, TypeOK
    <2>4. silent' \in Nat
        BY <1>10 DEF Tick, TypeOK
    <2>5. UNCHANGED <<open, pong_received, commands, alive>>
        BY <1>10 DEF Tick
    <2> QED
        BY <2>1, <2>2, <2>3, <2>4, <2>5 DEF TypeOK
<1>11. CASE UNCHANGED vars
    BY <1>11 DEF vars, TypeOK
<1> QED
    BY <1>1, <1>2, <1>4, <1>5, <1>6, <1>7, <1>8, <1>9, <1>10, <1>11 DEF Next, Pings, Loop, Ended

---------------------------------------------------------------------------
(* The two intervals do not meet in the queue.                             *)

UntouchedTimers == UNCHANGED <<sendIn, checkIn>>
UntouchedQueue == UNCHANGED <<commands, waited>>

LEMMA CommandsType ==
    ASSUME TypeOK
    PROVE  Len(commands) \in Nat /\ \A i \in 1..Len(commands) : commands[i] \in Commands
<1>1. commands \in Seq(Commands)
    BY DEF TypeOK
<1> QED
    BY <1>1, LenProperties, ElementOfSeq

\* When an interval ticks, the loop has handled the tick before.
LEMMA LastTickHandled ==
    ASSUME TypeOK, TicksInTurn, sendIn <= 0 \/ checkIn <= 0
    PROVE  /\ sendIn <= 0 => SendNext
           /\ checkIn <= 0 => CheckNext
           /\ \A i \in 1..Len(commands) : commands[i] = "Pong"
<1>1. ~Queued("SendPing") /\ ~Queued("CheckPong")
    <2>1. CASE SendNext
        BY <2>1, Turns, PingerAssumption DEF TicksInTurn, Elapsed
    <2>2. CASE CheckNext
        BY <2>2, Turns, PingerAssumption DEF TicksInTurn, Elapsed, CheckNext
    <2> QED
        BY <2>1, <2>2, Turns
<1>2. \A i \in 1..Len(commands) : commands[i] = "Pong"
    BY <1>1, CommandsType DEF Queued, Commands
<1> QED
    BY <1>2, Turns

LEMMA SendPingTurn ==
    ASSUME TypeOK, TicksInTurn, sendIn <= 0, Longer("SendPing"),
           sendIn' = sendIn + PingEvery, checkIn' = checkIn
    PROVE  TicksInTurn' /\ CheckNext' /\ Elapsed' = -sendIn
<1>1. SendNext /\ \A i \in 1..Len(commands) : commands[i] = "Pong"
    BY LastTickHandled
<1>2. CheckNext' /\ ~SendNext' /\ Elapsed' = -sendIn /\ Elapsed' \in 0..MaxLate
    BY <1>1, Turns, PingerAssumption DEF SendNext, CheckNext, Elapsed, TypeOK
<1>3. \A i \in 1..Len(commands') : commands'[i] # "Pong" => i = Len(commands) + 1 /\ commands'[i] = "SendPing"
    BY <1>1 DEF Longer
<1>4. waited' \in Nat /\ MaxLate \in Nat
    BY Turns, PingerAssumption DEF Longer
<1> QED
    BY <1>2, <1>3, <1>4 DEF TicksInTurn, Queued

LEMMA CheckPongTurn ==
    ASSUME TypeOK, TicksInTurn, checkIn <= 0, Longer("CheckPong"),
           checkIn' = checkIn + PingEvery, sendIn' = sendIn
    PROVE  TicksInTurn' /\ CheckNext /\ SendNext' /\ Elapsed' = Elapsed /\ Elapsed >= CheckAfter
<1>1. CheckNext /\ \A i \in 1..Len(commands) : commands[i] = "Pong"
    BY LastTickHandled
<1>2. SendNext' /\ ~CheckNext' /\ Elapsed' = Elapsed /\ Elapsed \in CheckAfter..(CheckAfter + MaxLate)
    BY <1>1, Turns, PingerAssumption DEF SendNext, CheckNext, Elapsed, TypeOK
<1>3. \A i \in 1..Len(commands') : commands'[i] # "Pong" => i = Len(commands) + 1 /\ commands'[i] = "CheckPong"
    BY <1>1 DEF Longer
<1>4. waited' \in Nat /\ MaxLate \in Nat /\ CheckAfter \in Nat
    BY Turns, PingerAssumption DEF Longer
<1>5. ~Queued("SendPing")'
    BY <1>3 DEF Queued
<1>6. \A i, j \in 1..Len(commands') : commands'[i] # "Pong" /\ commands'[j] # "Pong" => i = j
    BY <1>3
<1>7. Elapsed' <= CheckAfter + MaxLate + waited' /\ Elapsed' >= 0
    <2>1. Elapsed <= CheckAfter + MaxLate + waited /\ Elapsed >= 0
        BY <1>2, Turns, PingerAssumption
    <2>2. Elapsed' = Elapsed /\ waited' = waited
        BY <1>2 DEF Longer
    <2> QED
        BY <2>1, <2>2
<1>8. TicksInTurn'
    BY <1>2, <1>5, <1>6, <1>7 DEF TicksInTurn
<1> QED
    BY <1>1, <1>2, <1>4, <1>8

\* The loop takes a command.
LEMMA ShorterTurn ==
    ASSUME TypeOK, TicksInTurn, NEW c, Shorter(c), UntouchedTimers
    PROVE  TicksInTurn' /\ (\A d : Queued(d)' => Queued(d))
<1>1. \A i \in 1..Len(commands') : commands'[i] = commands[i + 1] /\ i + 1 \in 1..Len(commands)
    BY DEF Shorter
<1>2. ASSUME NEW d, Queued(d)' PROVE Queued(d) /\ waited' = waited
    <2>1. PICK i \in 1..Len(commands') : commands'[i] = d
        BY <1>2 DEF Queued
    <2>2. Queued(d)
        BY <1>1, <2>1 DEF Queued
    <2>3. Len(commands) # 1
        BY <1>1, <2>1
    <2> QED
        BY <2>2, <2>3 DEF Shorter
<1>3. Elapsed' = Elapsed /\ (SendNext' <=> SendNext) /\ (CheckNext' <=> CheckNext)
    BY DEF Elapsed, SendNext, CheckNext, UntouchedTimers
<1>4. \A i, j \in 1..Len(commands') : commands'[i] # "Pong" /\ commands'[j] # "Pong" => i = j
    <2> TAKE i, j \in 1..Len(commands')
    <2> HAVE commands'[i] # "Pong" /\ commands'[j] # "Pong"
    <2>1. i + 1 = j + 1
        BY <1>1 DEF TicksInTurn
    <2> QED
        BY <2>1 DEF Shorter
<1> QED
    BY <1>2, <1>3, <1>4 DEF TicksInTurn

LEMMA LongerPong ==
    ASSUME TypeOK, TicksInTurn, Longer("Pong"), UntouchedTimers
    PROVE  /\ TicksInTurn' /\ Queued("Pong")'
           /\ \A d : d # "Pong" => (Queued(d)' <=> Queued(d))
<1>1. \A i \in 1..Len(commands) : i \in 1..Len(commands') /\ commands'[i] = commands[i]
    BY DEF Longer
<1>2. \A i \in 1..Len(commands') : commands'[i] = "Pong" \/ i \in 1..Len(commands)
    BY DEF Longer
<1>3. \A d : d # "Pong" => (Queued(d)' <=> Queued(d))
    BY <1>1, <1>2 DEF Queued
<1>4. Queued("Pong")'
    BY DEF Longer, Queued
<1>5. Elapsed' = Elapsed /\ (SendNext' <=> SendNext) /\ (CheckNext' <=> CheckNext) /\ waited' = waited
    BY DEF Elapsed, SendNext, CheckNext, UntouchedTimers, Longer
<1>6. \A i, j \in 1..Len(commands') : commands'[i] # "Pong" /\ commands'[j] # "Pong" => i = j
    BY <1>1, <1>2 DEF TicksInTurn
<1> QED
    BY <1>3, <1>4, <1>5, <1>6 DEF TicksInTurn

LEMMA TickTurn ==
    ASSUME TypeOK, TicksInTurn, Tick
    PROVE  /\ TicksInTurn' /\ Elapsed' = Elapsed + 1
           /\ (SendNext' <=> SendNext) /\ (CheckNext' <=> CheckNext)
<1>1. /\ sendIn' = sendIn - 1 /\ checkIn' = checkIn - 1 /\ commands' = commands
      /\ waited' = IF commands = <<>> THEN 0 ELSE waited + 1
    BY DEF Tick
<1>2. Elapsed' = Elapsed + 1 /\ (SendNext' <=> SendNext) /\ (CheckNext' <=> CheckNext)
    <2>1. sendIn \in Int /\ checkIn \in Int /\ PingEvery \in Int
        BY Turns, PingerAssumption
    <2>2. sendIn' = sendIn - 1 /\ checkIn' = checkIn - 1
        BY <1>1
    <2>3. checkIn' - sendIn' = checkIn - sendIn /\ PingEvery - sendIn' = PingEvery - sendIn + 1
        BY <2>1, <2>2
    <2> QED
        BY <2>3 DEF Elapsed, SendNext, CheckNext
<1>3. \A d : (Queued(d)' <=> Queued(d)) /\ (Queued(d) => waited' = waited + 1)
    BY <1>1 DEF Queued
<1> QED
    BY <1>1, <1>2, <1>3, Turns, PingerAssumption DEF TicksInTurn

---------------------------------------------------------------------------
(* The answer of a peer that is alive.                                     *)

LEMMA UntouchedPhase ==
    ASSUME UntouchedTimers
    PROVE  Elapsed' = Elapsed /\ (SendNext' <=> SendNext) /\ (CheckNext' <=> CheckNext)
BY DEF Elapsed, SendNext, CheckNext, UntouchedTimers

\* At the time of a check the answer to the PING before is in.
LEMMA CheckFindsAnswer ==
    ASSUME TypeOK, TicksInTurn, AnswerComes, checkIn <= 0
    PROVE  pong_received = TRUE \/ \E j \in 1..Len(commands) : commands[j] = "Pong"
<1>1. CheckNext /\ \A i \in 1..Len(commands) : commands[i] = "Pong"
    BY LastTickHandled
<1>2. Elapsed >= CheckAfter
    BY <1>1, Turns, PingerAssumption DEF CheckNext, Elapsed
<1>3. ~\E i \in 1..Len(flight) : Elapsed - flight[i] <= 2 * MaxLate
    <2> SUFFICES ASSUME NEW i \in 1..Len(flight) PROVE ~(Elapsed - flight[i] <= 2 * MaxLate)
        OBVIOUS
    <2>1. flight[i] \in 0..MaxDelay
        BY FlightType
    <2> QED
        BY <1>2, <2>1, Turns, PingerAssumption
<1>4. ~Queued("SendPing")
    BY <1>1 DEF Queued
<1> QED
    BY <1>1, <1>3, <1>4 DEF AnswerComes, Queued

LEMMA AliveStep ==
    ASSUME TypeOK, TicksInTurn, AnswerComes, alive = TRUE, alive' = TRUE, [Next]_vars
    PROVE  AnswerComes'
<1>1. CASE SendPingTick
    <2>1. /\ sendIn <= 0 /\ sendIn' = sendIn + PingEvery
          /\ UNCHANGED <<open, pong_received, checkIn, flight, alive, silent>>
        BY <1>1 DEF SendPingTick
    <2>2. Longer("SendPing")
        BY <1>1, PostLonger DEF SendPingTick, Commands
    <2>3. \A i \in 1..Len(commands) : commands[i] = "Pong"
        BY <2>1, LastTickHandled
    <2>4. \A i \in 1..Len(commands') : commands'[i] # "CheckPong"
        BY <2>2, <2>3 DEF Longer
    <2>5. Queued("SendPing")'
        BY <2>2 DEF Longer, Queued
    <2> QED
        BY <2>1, <2>4, <2>5 DEF AnswerComes
<1>2. CASE CheckPongTick
    <2>1. /\ checkIn <= 0 /\ checkIn' = checkIn + PingEvery
          /\ UNCHANGED <<open, pong_received, sendIn, flight, alive, silent>>
        BY <1>2 DEF CheckPongTick
    <2>2. Longer("CheckPong")
        BY <1>2, PostLonger DEF CheckPongTick, Commands
    <2>3. SendNext' /\ TypeOK'
        BY <1>2, <2>1, <2>2, CheckPongTurn, TypeStep DEF Next, Pings
    <2>4. ~CheckNext'
        BY <2>1, <2>2, <2>3, CheckPongTurn, Turns, PingerAssumption DEF SendNext, CheckNext
    <2>5. \A i \in 1..Len(commands) : commands[i] = "Pong"
        BY <2>1, LastTickHandled
    <2>6. ASSUME NEW i \in 1..Len(commands'), commands'[i] = "CheckPong"
          PROVE  pong_received' = TRUE \/ \E j \in 1..(i - 1) : commands'[j] = "Pong"
        <3>1. i = Len(commands) + 1
            BY <2>2, <2>5, <2>6 DEF Longer
        <3>2. i - 1 = Len(commands)
            BY <2>2, <3>1 DEF Longer
        <3>3. pong_received = TRUE \/ \E j \in 1..Len(commands) : commands[j] = "Pong"
            BY <2>1, CheckFindsAnswer
        <3> QED
            BY <2>1, <2>2, <3>2, <3>3 DEF Longer
    <2> QED
        BY <2>1, <2>4, <2>6 DEF AnswerComes
<1>3. CASE send_ping
    <2>1. Shorter("SendPing") /\ open = TRUE
        BY <1>3, TakeShorter DEF send_ping
    <2>2. UNCHANGED <<open, sendIn, checkIn, silent>> /\ flight' = Append(flight, 0)
        BY <1>3 DEF send_ping
    <2>3. Queued("SendPing")
        BY <2>1 DEF Shorter, Queued
    <2>4. \A i \in 1..Len(commands') : commands'[i] # "CheckPong"
        <3>1. \A i \in 1..Len(commands') : i + 1 \in 1..Len(commands) /\ commands'[i] = commands[i + 1] /\ i + 1 # 1
            BY <2>1 DEF Shorter
        <3>2. 1 \in 1..Len(commands) /\ commands[1] = "SendPing"
            BY <2>1 DEF Shorter
        <3> QED
            BY <3>1, <3>2 DEF TicksInTurn
    <2>5. Elapsed <= 2 * MaxLate
        BY <2>3, Turns, PingerAssumption DEF TicksInTurn
    <2>6. Len(flight) + 1 \in 1..Len(flight') /\ flight'[Len(flight) + 1] = 0
        BY <2>2, FlightType
    <2>7. Elapsed' = Elapsed
        BY <2>2, UntouchedPhase DEF UntouchedTimers
    <2>8. Elapsed' - flight'[Len(flight) + 1] <= 2 * MaxLate
        BY <2>5, <2>6, <2>7, Turns
    <2> QED
        BY <2>2, <2>4, <2>6, <2>8 DEF AnswerComes
<1>4. CASE check_pong
    <2>1. Shorter("CheckPong")
        BY <1>4, TakeShorter DEF check_pong
    <2>2. UNCHANGED <<pong_received, sendIn, checkIn, flight, silent>> /\ open' = pong_received
        BY <1>4 DEF check_pong
    <2>3. 1 \in 1..Len(commands) /\ commands[1] = "CheckPong"
        BY <2>1 DEF Shorter
    <2>4. pong_received = TRUE
        BY <2>3 DEF AnswerComes
    <2>5. ~CheckNext
        BY <2>3 DEF TicksInTurn, Queued
    <2>6. ~CheckNext'
        BY <2>2, <2>5, UntouchedPhase DEF UntouchedTimers
    <2> QED
        BY <2>2, <2>4, <2>6 DEF AnswerComes
<1>5. CASE on_pong
    BY <1>5 DEF on_pong, AnswerComes
<1>6. CASE CallerPings
    <2>1. /\ UNCHANGED <<open, pong_received, sendIn, checkIn, commands, silent>>
          /\ flight' = Append(flight, 0)
        BY <1>6 DEF CallerPings
    <2>2. Elapsed' = Elapsed /\ (CheckNext' <=> CheckNext)
        BY <2>1, UntouchedPhase DEF UntouchedTimers
    <2>3. \A i \in 1..Len(flight) : i \in 1..Len(flight') /\ flight'[i] = flight[i]
        BY <2>1, FlightType
    <2>4. CheckNext => \/ Queued("SendPing")' \/ Queued("Pong")' \/ pong_received' = TRUE
                       \/ \E i \in 1..Len(flight') : Elapsed' - flight'[i] <= 2 * MaxLate
        BY <2>1, <2>2, <2>3 DEF AnswerComes, Queued
    <2> QED
        BY <2>1, <2>2, <2>4 DEF AnswerComes
<1>7. CASE PongArrives
    <2>1. UNCHANGED <<open, pong_received, sendIn, checkIn, silent>>
        BY <1>7 DEF PongArrives
    <2>2. Longer("Pong")
        BY <1>7, PostLonger DEF PongArrives, Commands
    <2>3. Queued("Pong")'
        BY <2>1, <2>2, LongerPong DEF UntouchedTimers
    <2>4. ASSUME NEW i \in 1..Len(commands'), commands'[i] = "CheckPong"
          PROVE  pong_received' = TRUE \/ \E j \in 1..(i - 1) : commands'[j] = "Pong"
        <3>1. i \in 1..Len(commands) /\ commands[i] = "CheckPong"
            BY <2>2, <2>4 DEF Longer
        <3>2. \A j \in 1..(i - 1) : j \in 1..Len(commands)
            BY <3>1, CommandsType
        <3> QED
            BY <2>1, <2>2, <3>1, <3>2 DEF AnswerComes, Longer
    <2> QED
        BY <2>1, <2>3, <2>4 DEF AnswerComes
<1>8. CASE Tick
    <2>1. UNCHANGED <<open, pong_received, commands>> /\ flight' = [i \in 1..Len(flight) |-> flight[i] + 1]
        BY <1>8 DEF Tick
    <2>2. silent' = 0
        BY <1>8 DEF Tick
    <2>3. Elapsed' = Elapsed + 1 /\ (CheckNext' <=> CheckNext)
        BY <1>8, TickTurn
    <2>4. \A i \in 1..Len(flight) : i \in 1..Len(flight') /\ flight'[i] = flight[i] + 1
        BY <2>1, FlightType
    <2>5. \A i \in 1..Len(flight) : Elapsed' - flight'[i] = Elapsed - flight[i]
        <3> SUFFICES ASSUME NEW i \in 1..Len(flight) PROVE Elapsed' - flight'[i] = Elapsed - flight[i]
            OBVIOUS
        <3>1. (Elapsed + 1) - (flight[i] + 1) = Elapsed - flight[i]
            BY Turns, FlightType
        <3> QED
            BY <2>3, <2>4, <3>1
    <2>6. CheckNext => \/ Queued("SendPing")' \/ Queued("Pong")' \/ pong_received' = TRUE
                       \/ \E i \in 1..Len(flight') : Elapsed' - flight'[i] <= 2 * MaxLate
        BY <2>1, <2>4, <2>5 DEF AnswerComes, Queued
    <2> QED
        BY <2>1, <2>2, <2>3, <2>6 DEF AnswerComes
<1>9. CASE UNCHANGED vars
    BY <1>9 DEF vars, AnswerComes, Queued, CheckNext, Elapsed
<1>10. ~PeerDies
    BY DEF PeerDies
<1>11. ~Ended
    BY DEF Ended, AnswerComes
<1> QED
    BY <1>1, <1>2, <1>3, <1>4, <1>5, <1>6, <1>7, <1>8, <1>9, <1>10, <1>11 DEF Next, Pings, Loop

---------------------------------------------------------------------------
(* The silence of a peer that is dead.                                     *)

\* The answers to the PINGs before are gone once the peer is silent for longer.
LEMMA FlightEmpty ==
    ASSUME TypeOK, \A i \in 1..Len(flight) : flight[i] >= silent, silent > MaxDelay
    PROVE  flight = <<>>
<1>1. silent \in Nat /\ flight \in Seq(0..MaxDelay)
    BY DEF TypeOK
<1>2. ASSUME NEW i \in 1..Len(flight) PROVE FALSE
    BY <1>1, <1>2, FlightType, PingerAssumption
<1>3. 1 \notin 1..Len(flight)
    BY <1>2
<1>4. Len(flight) = 0
    BY <1>3, FlightType
<1> QED
    BY <1>1, <1>4, EmptySeq

LEMMA DeathStep ==
    ASSUME TypeOK, TicksInTurn, AnswerComes, PeerDies
    PROVE  SilenceFound'
<1>1. PICK n \in 0..Len(flight) : flight' = SubSeq(flight, 1, n)
    BY DEF PeerDies
<1>2. /\ UNCHANGED <<sendIn, checkIn, silent>> /\ silent = 0
      /\ Elapsed' = Elapsed /\ Elapsed \in Int /\ Elapsed >= 0
    BY UntouchedPhase, Turns DEF PeerDies, UntouchedTimers, AnswerComes, TicksInTurn
<1>3. n \in Int /\ \A i \in 1..n : i \in 1..Len(flight) /\ flight[i] \in 0..MaxDelay
    BY <1>1, FlightType
<1>4. Len(flight') = n /\ \A i \in 1..n : flight'[i] = flight[i]
    BY <1>1, <1>3, SubSeqProperties
<1>5. \A i \in 1..Len(flight') : flight'[i] >= silent'
    BY <1>2, <1>3, <1>4
<1>6. Missed' = Missed /\ Missed <= MaxDelay /\ Missed <= MaxDelay + PingEvery /\ ~(Missed > MaxDelay)
    BY <1>2, PingerAssumption DEF Missed
<1> QED
    BY <1>5, <1>6 DEF SilenceFound

LEMMA SilentPing ==
    ASSUME TypeOK, TicksInTurn, SilenceFound, SendPingTick
    PROVE  SilenceFound'
<1>1. /\ sendIn <= 0 /\ sendIn' = sendIn + PingEvery
      /\ UNCHANGED <<open, pong_received, checkIn, flight, alive, silent>>
    BY DEF SendPingTick
<1>2. Longer("SendPing")
    BY PostLonger DEF SendPingTick, Commands
<1>3. SendNext /\ \A i \in 1..Len(commands) : commands[i] = "Pong"
    BY <1>1, LastTickHandled
<1>4. CheckNext' /\ Elapsed' = -sendIn /\ TypeOK'
    BY <1>1, <1>2, SendPingTurn, TypeStep DEF Next, Pings
<1>5. ~SendNext'
    BY <1>4, Turns, PingerAssumption DEF SendNext, CheckNext
<1>6. Missed <= MaxDelay
    BY <1>3 DEF SilenceFound, Queued
<1>7. silent \in Nat /\ sendIn \in Int
    BY DEF TypeOK
<1>8. Missed' = silent + sendIn
    BY <1>1, <1>4, <1>7 DEF Missed
<1>9. silent + sendIn <= MaxDelay + PingEvery
    BY <1>6, <1>7, PingerAssumption DEF Missed, Elapsed
<1>10. Missed' > MaxDelay => NoAnswer'
    <2> SUFFICES ASSUME silent + sendIn > MaxDelay PROVE NoAnswer'
        BY <1>8
    <2>1. silent > MaxDelay
        BY <1>1, <1>7, PingerAssumption
    <2>2. flight' = <<>>
        BY <1>1, <2>1, FlightEmpty DEF SilenceFound
    <2>3. \E i \in 1..Len(commands') : /\ commands'[i] = "SendPing"
                                       /\ \A j \in (i + 1)..Len(commands') : commands'[j] # "Pong"
        <3>1. /\ Len(commands) + 1 \in 1..Len(commands') /\ commands'[Len(commands) + 1] = "SendPing"
              /\ \A j \in (Len(commands) + 1 + 1)..Len(commands') : FALSE
            BY <1>2 DEF Longer
        <3> QED
            BY <3>1
    <2> QED
        BY <2>2, <2>3 DEF NoAnswer
<1>11. \A i \in 1..Len(flight') : flight'[i] >= silent'
    BY <1>1 DEF SilenceFound
<1> QED
    BY <1>5, <1>8, <1>9, <1>10, <1>11 DEF SilenceFound

LEMMA SilentCheck ==
    ASSUME TypeOK, TicksInTurn, SilenceFound, CheckPongTick
    PROVE  SilenceFound'
<1>1. /\ checkIn <= 0 /\ checkIn' = checkIn + PingEvery
      /\ UNCHANGED <<open, pong_received, sendIn, flight, alive, silent>>
    BY DEF CheckPongTick
<1>2. Longer("CheckPong")
    BY PostLonger DEF CheckPongTick, Commands
<1>3. CheckNext /\ \A i \in 1..Len(commands) : commands[i] = "Pong"
    BY <1>1, LastTickHandled
<1>4. SendNext' /\ Elapsed' = Elapsed /\ TypeOK'
    BY <1>1, <1>2, CheckPongTurn, TypeStep DEF Next, Pings
<1>5. ~CheckNext'
    BY <1>4, Turns, PingerAssumption DEF SendNext, CheckNext
<1>6. Missed' = Missed
    BY <1>1, <1>4 DEF Missed
<1>7. Missed \in Int
    BY Turns DEF Missed, TypeOK
<1>8. CASE Missed <= MaxDelay
    BY <1>1, <1>5, <1>6, <1>8 DEF SilenceFound
<1>9. CASE Missed > MaxDelay
    <2>1. NoAnswer /\ Missed <= MaxDelay + PingEvery
        BY <1>3, <1>9 DEF SilenceFound
    <2>2. flight = <<>> /\ pong_received = FALSE /\ ~Queued("Pong")
        BY <1>3, <2>1 DEF NoAnswer
    <2>3. \A i \in 1..Len(commands') : commands'[i] = "CheckPong"
        BY <1>2, <1>3, <2>2 DEF Longer, Queued
    <2>4. NoAnswer'
        BY <1>1, <2>2, <2>3 DEF NoAnswer, Queued
    <2>5. Queued("CheckPong")'
        BY <1>2 DEF Longer, Queued
    <2> QED
        BY <1>1, <1>5, <1>6, <2>1, <2>4, <2>5 DEF SilenceFound
<1> QED
    BY <1>7, <1>8, <1>9, PingerAssumption

LEMMA SilentSend ==
    ASSUME TypeOK, TicksInTurn, SilenceFound, alive = FALSE, send_ping
    PROVE  SilenceFound'
<1>1. Shorter("SendPing")
    BY TakeShorter DEF send_ping
<1>2. UNCHANGED <<sendIn, checkIn, silent, flight>> /\ pong_received' = FALSE
    BY DEF send_ping
<1>3. 1 \in 1..Len(commands) /\ commands[1] = "SendPing"
    BY <1>1 DEF Shorter
<1>4. ~SendNext
    BY <1>3 DEF TicksInTurn, Queued
<1>5. Elapsed' = Elapsed /\ (SendNext' <=> SendNext) /\ (CheckNext' <=> CheckNext)
    BY <1>2, UntouchedPhase DEF UntouchedTimers
<1>6. Missed' = Missed
    BY <1>2, <1>5 DEF Missed
<1>7. \A i \in 1..Len(commands') : /\ i + 1 \in 1..Len(commands) /\ commands'[i] = commands[i + 1]
                                   /\ i + 1 # 1 /\ i + 1 \in 2..Len(commands)
    BY <1>1 DEF Shorter
<1>8. NoAnswer => NoAnswer'
    <2> SUFFICES ASSUME NoAnswer PROVE NoAnswer'
        OBVIOUS
    <2>1. PICK i \in 1..Len(commands) : /\ commands[i] = "SendPing"
                                        /\ \A j \in (i + 1)..Len(commands) : commands[j] # "Pong"
        BY <1>3 DEF NoAnswer, Queued
    <2>2. i = 1
        BY <1>3, <2>1 DEF TicksInTurn
    <2>3. \A j \in 1..Len(commands') : commands'[j] # "Pong"
        BY <1>7, <2>1, <2>2
    <2>4. \A j \in 1..Len(commands') : commands'[j] # "SendPing"
        BY <1>3, <1>7 DEF TicksInTurn
    <2> QED
        BY <1>2, <2>3, <2>4 DEF NoAnswer, Queued
<1> QED
    BY <1>2, <1>4, <1>5, <1>6, <1>8 DEF SilenceFound

LEMMA SilentCheckHandled ==
    ASSUME TypeOK, TicksInTurn, SilenceFound, check_pong, open' = TRUE
    PROVE  SilenceFound'
<1>1. Shorter("CheckPong")
    BY TakeShorter DEF check_pong
<1>2. UNCHANGED <<sendIn, checkIn, silent, flight, pong_received>> /\ pong_received = TRUE
    BY DEF check_pong
<1>3. 1 \in 1..Len(commands) /\ commands[1] = "CheckPong"
    BY <1>1 DEF Shorter
<1>4. ~CheckNext
    BY <1>3 DEF TicksInTurn, Queued
<1>5. Elapsed' = Elapsed /\ (SendNext' <=> SendNext) /\ (CheckNext' <=> CheckNext)
    BY <1>2, UntouchedPhase DEF UntouchedTimers
<1>6. Missed' = Missed
    BY <1>2, <1>5 DEF Missed
<1>7. ~NoAnswer
    BY <1>2, <1>3 DEF NoAnswer, TicksInTurn
<1>8. Missed <= MaxDelay
    BY <1>4, <1>7, Turns DEF SilenceFound
<1> QED
    BY <1>2, <1>4, <1>5, <1>6, <1>8 DEF SilenceFound

LEMMA SilentPong ==
    ASSUME TypeOK, TicksInTurn, SilenceFound, on_pong
    PROVE  SilenceFound'
<1>1. Shorter("Pong")
    BY TakeShorter DEF on_pong
<1>2. UNCHANGED <<sendIn, checkIn, silent, flight>>
    BY DEF on_pong
<1>3. 1 \in 1..Len(commands) /\ commands[1] = "Pong" /\ Len(commands) \in Nat
    BY <1>1 DEF Shorter
<1>4. Elapsed' = Elapsed /\ (SendNext' <=> SendNext) /\ (CheckNext' <=> CheckNext)
    BY <1>2, UntouchedPhase DEF UntouchedTimers
<1>5. Missed' = Missed
    BY <1>2, <1>4 DEF Missed
<1>6. ASSUME NEW i \in 1..Len(commands), commands[i] # "Pong"
      PROVE  i - 1 \in 1..Len(commands') /\ commands'[i - 1] = commands[i]
    BY <1>1, <1>3, <1>6 DEF Shorter
<1>7. Queued("CheckPong") => Queued("CheckPong")'
    BY <1>6 DEF Queued
<1>8. NoAnswer => NoAnswer'
    <2> SUFFICES ASSUME NoAnswer PROVE NoAnswer'
        OBVIOUS
    <2>1. PICK i \in 1..Len(commands) : /\ commands[i] = "SendPing"
                                        /\ \A j \in (i + 1)..Len(commands) : commands[j] # "Pong"
        BY <1>3 DEF NoAnswer, Queued
    <2>2. i - 1 \in 1..Len(commands') /\ commands'[i - 1] = "SendPing"
        BY <1>6, <2>1
    <2>3. \A j \in (i - 1 + 1)..Len(commands') : j + 1 \in (i + 1)..Len(commands) /\ commands'[j] = commands[j + 1]
        BY <1>1, <2>1 DEF Shorter
    <2>4. \A j \in (i - 1 + 1)..Len(commands') : commands'[j] # "Pong"
        BY <2>1, <2>3
    <2> QED
        BY <1>2, <2>2, <2>4 DEF NoAnswer
<1> QED
    BY <1>2, <1>4, <1>5, <1>7, <1>8 DEF SilenceFound

LEMMA SilentAnswer ==
    ASSUME TypeOK, TicksInTurn, SilenceFound, PongArrives
    PROVE  SilenceFound'
<1>1. UNCHANGED <<sendIn, checkIn, silent>> /\ flight # <<>> /\ flight' = Tail(flight)
    BY DEF PongArrives
<1>2. Elapsed' = Elapsed /\ (SendNext' <=> SendNext) /\ (CheckNext' <=> CheckNext)
    BY <1>1, UntouchedPhase DEF UntouchedTimers
<1>3. Missed' = Missed
    BY <1>1, <1>2 DEF Missed
<1>4. ~NoAnswer
    BY <1>1 DEF NoAnswer
<1>5. \A i \in 1..Len(flight') : i + 1 \in 1..Len(flight) /\ flight'[i] = flight[i + 1]
    BY <1>1, FlightType, HeadTailProperties
<1>6. \A i \in 1..Len(flight') : flight'[i] >= silent'
    BY <1>1, <1>5 DEF SilenceFound
<1> QED
    BY <1>2, <1>3, <1>4, <1>6 DEF SilenceFound

LEMMA SilentTick ==
    ASSUME TypeOK, TicksInTurn, SilenceFound, alive = FALSE, Tick
    PROVE  SilenceFound'
<1>1. UNCHANGED <<pong_received, commands>> /\ flight' = [i \in 1..Len(flight) |-> flight[i] + 1]
    BY DEF Tick
<1>2. silent' = silent + 1 /\ silent \in Nat
    BY DEF Tick, TypeOK
<1>3. Elapsed' = Elapsed + 1 /\ (SendNext' <=> SendNext) /\ (CheckNext' <=> CheckNext)
    BY TickTurn
<1>4. Missed' = Missed
    <2>1. (silent + 1) - (Elapsed + 1) = silent - Elapsed
        BY <1>2, Turns
    <2> QED
        BY <1>2, <1>3, <2>1 DEF Missed
<1>5. Len(flight') = Len(flight) /\ \A i \in 1..Len(flight) : flight'[i] = flight[i] + 1
    BY <1>1, FlightType
<1>6. \A i \in 1..Len(flight') : flight'[i] >= silent'
    <2> SUFFICES ASSUME NEW i \in 1..Len(flight) PROVE flight[i] + 1 >= silent + 1
        BY <1>2, <1>5
    <2>1. flight[i] \in Nat /\ flight[i] >= silent
        BY FlightType DEF SilenceFound
    <2> QED
        BY <1>2, <2>1
<1>7. NoAnswer => NoAnswer'
    <2> SUFFICES ASSUME NoAnswer PROVE NoAnswer'
        OBVIOUS
    <2>1. flight' = <<>>
        BY <1>1 DEF NoAnswer
    <2> QED
        BY <1>1, <2>1 DEF NoAnswer, Queued
<1>8. Queued("CheckPong")' <=> Queued("CheckPong")
    BY <1>1 DEF Queued
<1> QED
    BY <1>3, <1>4, <1>6, <1>7, <1>8 DEF SilenceFound

LEMMA SilenceStep ==
    ASSUME TypeOK, TicksInTurn, SilenceFound, open = TRUE, alive = FALSE, open' = TRUE, [Next]_vars
    PROVE  SilenceFound'
<1>1. ~CallerPings /\ ~PeerDies /\ ~Ended
    BY DEF CallerPings, PeerDies, Ended
<1>2. CASE UNCHANGED vars
    BY <1>2 DEF vars, SilenceFound, NoAnswer, Missed, Elapsed, SendNext, CheckNext, Queued
<1> QED
    BY <1>1, <1>2, SilentPing, SilentCheck, SilentSend, SilentCheckHandled, SilentPong, SilentAnswer,
        SilentTick DEF Next, Pings, Loop

---------------------------------------------------------------------------
(* The theorems.                                                           *)

LEMMA PingerInit == Init => PingerInv
<1> SUFFICES ASSUME Init PROVE PingerInv
    OBVIOUS
<1>1. /\ open = TRUE /\ alive = TRUE /\ pong_received = FALSE /\ silent = 0 /\ waited = 0
      /\ sendIn = PingEvery /\ checkIn = PingEvery + CheckAfter /\ commands = <<>> /\ flight = <<>>
    BY DEF Init
<1>2. commands \in Seq(Commands) /\ flight \in Seq(0..MaxDelay)
    BY <1>1, EmptySeq
<1>3. /\ sendIn \in Int /\ checkIn \in Int /\ -MaxLate <= sendIn /\ -MaxLate <= checkIn
      /\ checkIn - sendIn = CheckAfter /\ waited \in 0..MaxLate /\ silent \in Nat
    BY <1>1, PingerAssumption
<1>4. TypeOK
    BY <1>1, <1>2, <1>3 DEF TypeOK
<1>5. \A i \in 1..Len(commands) : FALSE
    BY <1>1, EmptySeq
<1>6. Elapsed = 0 /\ SendNext /\ ~CheckNext
    BY <1>1, <1>3, <1>4, Turns, PingerAssumption DEF Elapsed, SendNext
<1>7. TicksInTurn
    BY <1>5, <1>6 DEF TicksInTurn, Queued
<1>8. AnswerComes
    BY <1>1, <1>5, <1>6 DEF AnswerComes
<1> QED
    BY <1>1, <1>4, <1>7, <1>8 DEF PingerInv

LEMMA TurnsStep ==
    ASSUME TypeOK, TicksInTurn, [Next]_vars
    PROVE  TicksInTurn'
<1>1. CASE SendPingTick
    <2>1. Longer("SendPing")
        BY <1>1, PostLonger DEF SendPingTick, Commands
    <2> QED
        BY <1>1, <2>1, SendPingTurn DEF SendPingTick
<1>2. CASE CheckPongTick
    <2>1. Longer("CheckPong")
        BY <1>2, PostLonger DEF CheckPongTick, Commands
    <2> QED
        BY <1>2, <2>1, CheckPongTurn DEF CheckPongTick
<1>3. CASE Loop
    <2>1. PICK c \in Commands : Take(c) /\ UntouchedTimers
        BY <1>3 DEF Loop, send_ping, check_pong, on_pong, Commands, UntouchedTimers
    <2> QED
        BY <2>1, TakeShorter, ShorterTurn
<1>4. CASE PongArrives
    <2>1. Longer("Pong")
        BY <1>4, PostLonger DEF PongArrives, Commands
    <2> QED
        BY <1>4, <2>1, LongerPong DEF PongArrives, UntouchedTimers
<1>5. CASE Tick
    BY <1>5, TickTurn
<1>6. CASE CallerPings \/ PeerDies \/ Ended \/ UNCHANGED vars
    <2>1. UntouchedTimers /\ UntouchedQueue
        BY <1>6 DEF CallerPings, PeerDies, Ended, vars, UntouchedTimers, UntouchedQueue
    <2> QED
        BY <2>1, UntouchedPhase DEF TicksInTurn, Queued, UntouchedQueue
<1> QED
    BY <1>1, <1>2, <1>3, <1>4, <1>5, <1>6 DEF Next, Pings

LEMMA PingerStep == PingerInv /\ [Next]_vars => PingerInv'
<1> SUFFICES ASSUME PingerInv, [Next]_vars PROVE PingerInv'
    OBVIOUS
<1>1. TypeOK /\ TypeOK'
    BY TypeStep DEF PingerInv
<1>2. open' = TRUE => open = TRUE
    BY <1>1 DEF Next, Pings, Loop, SendPingTick, CheckPongTick, send_ping, check_pong, on_pong, Take,
        CallerPings, PongArrives, PeerDies, Tick, Ended, vars, TypeOK
<1>3. alive' = TRUE => alive = TRUE
    BY <1>1 DEF Next, Pings, Loop, SendPingTick, CheckPongTick, send_ping, check_pong, on_pong,
        CallerPings, PongArrives, PeerDies, Tick, Ended, vars, TypeOK
<1>4. open' = TRUE => TicksInTurn'
    BY <1>1, <1>2, TurnsStep DEF PingerInv
<1>5. alive' = TRUE => AnswerComes'
    BY <1>1, <1>3, AliveStep DEF PingerInv, AnswerComes
<1>6. ASSUME open' = TRUE, alive' = FALSE PROVE SilenceFound'
    <2>1. TicksInTurn /\ open = TRUE
        BY <1>2, <1>6 DEF PingerInv
    <2>2. CASE alive = FALSE
        BY <1>1, <1>6, <2>1, <2>2, SilenceStep DEF PingerInv
    <2>3. CASE alive = TRUE
        <3>1. PeerDies
            BY <1>6, <2>3 DEF Next, Pings, Loop, SendPingTick, CheckPongTick, send_ping, check_pong,
                on_pong, CallerPings, PongArrives, Tick, Ended, vars
        <3> QED
            BY <1>1, <2>1, <2>3, <3>1, DeathStep DEF PingerInv
    <2> QED
        BY <1>1, <2>2, <2>3 DEF TypeOK
<1> QED
    BY <1>1, <1>4, <1>5, <1>6 DEF PingerInv

LEMMA PingerAlways == Spec => []PingerInv
BY PingerInit, PingerStep, PTL DEF Spec

\* Whatever the periods of the intervals and the delays within PingerAssumption, however
\* many PINGs callers add: a peer that answers in time is not taken for dead by
\* check_pong (event_loop.rs:598-611).
THEOREM HealthyStaysOpenCorrect == Spec => []HealthyStaysOpen
<1>1. PingerInv => HealthyStaysOpen
    <2> SUFFICES ASSUME PingerInv, alive PROVE open
        BY DEF HealthyStaysOpen
    <2>1. alive = TRUE
        BY DEF PingerInv, TypeOK
    <2>2. open = TRUE
        BY <2>1 DEF PingerInv, AnswerComes
    <2> QED
        BY <2>2
<1> QED
    BY <1>1, PingerAlways, PTL

\* A peer that stopped answering is noticed within one period of send_ping_interval, the
\* delay of the check and of an answer, and the time its tick and its handling are late.
THEOREM DeadPeerNoticedCorrect == Spec => []DeadPeerNoticed
<1>1. PingerInv => DeadPeerNoticed
    <2> SUFFICES ASSUME PingerInv, open PROVE silent <= PingEvery + CheckAfter + MaxDelay + 2 * MaxLate
        BY DEF DeadPeerNoticed
    <2>1. TypeOK /\ open = TRUE /\ TicksInTurn /\ silent \in Nat
        BY DEF PingerInv, TypeOK
    <2>2. CASE alive = TRUE
        BY <2>1, <2>2, PingerAssumption DEF PingerInv, AnswerComes
    <2>3. CASE SilenceFound
        <3>1. silent = Missed + Elapsed /\ Missed \in Int
            BY <2>1, Turns DEF Missed
        <3>2. CASE CheckNext
            <4>1. Elapsed <= CheckAfter + MaxLate
                BY <2>1, <3>2, PingerAssumption DEF TypeOK, CheckNext, Elapsed
            <4>2. Missed <= MaxDelay + PingEvery
                BY <2>3, <3>2 DEF SilenceFound
            <4> QED
                BY <2>1, <3>1, <4>1, <4>2, Turns, PingerAssumption
        <3>3. CASE Missed <= MaxDelay
            BY <2>1, <3>1, <3>3, Turns, PingerAssumption
        <3>4. CASE Missed <= MaxDelay + PingEvery /\ Queued("CheckPong")
            <4>1. Elapsed <= CheckAfter + MaxLate + waited
                BY <2>1, <3>4 DEF TicksInTurn
            <4> QED
                BY <2>1, <3>1, <3>4, <4>1, Turns, PingerAssumption
        <3> QED
            BY <2>1, <2>3, <3>2, <3>3, <3>4, Turns DEF SilenceFound
    <2> QED
        BY <2>1, <2>2, <2>3 DEF PingerInv, TypeOK
<1> QED
    BY <1>1, PingerAlways, PTL
=============================================================================
