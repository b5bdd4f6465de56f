------------------------- MODULE ClientHandle_proofs -------------------------
(***************************************************************************)
(* The end of a client, for any number of callers and connections, calls   *)
(* and messages: no unwrap() on a channel fails before the loop of a       *)
(* connection has panicked, and what the callers see is the safety part    *)
(* of ClientContract.                                                      *)
(***************************************************************************)
EXTENDS ClientHandle, TLAPS

\* Only a loop that runs has a pool, and only its end drops a connection that has not
\* closed.
InPool == {"initializing", "open", "closed", "stuck", "panicked"}
PoolServed ==
    \A c \in Connections :
        /\ phase[c] \in InPool => loop = "running"
        /\ phase[c] \in {"abandoned", "unopened"} => loop # "running"

\* A connection that reports its end has closed.
HasClosed == {"closed", "finishing", "ended"}
ReportsAreTrue ==
    /\ \A c \in Connections : \A i \in 1..Len(events[c]) :
            events[c][i] = "StateClosed" => phase[c] \in HasClosed
    /\ \A i \in 1..Len(commands) :
            ReportsEnd(commands[i]) => phase[commands[i].call[1]] \in HasClosed

---------------------------------------------------------------------------
(* Types.                                                                  *)

Phases == {"none", "abandoned", "unopened", "finishing", "ended"} \union InPool
Forwarders == {"none", "running", "told", "ended"}

\* The part of TypeOK about the connections.
ConnectionsOK ==
    /\ phase \in [Connections -> Phases]
    /\ requests \in [Connections -> SUBSET Calls]
    /\ emitted \in [Connections -> 0..MaxEvents]
    /\ events \in [Connections -> Seq({"Message", "StateClosed"})]
    /\ forwarder \in [Connections -> Forwarders]
    /\ \A c \in Connections : forwarder[c] = "none" <=> phase[c] = "none"

\* The part about the callers and the loop.
CallersOK ==
    /\ holding \subseteq Callers /\ waiting \subseteq holding
    /\ calls \in [Callers -> Nat]
    /\ commands \in Seq(ClientLoopCommand)
    /\ loop \in {"running", "ended", "panicked"}

\* The inductive invariant; FaultsTraced and CallsMade below hold on top of it.
HandleInv == ConnectionsOK /\ CallersOK /\ PoolServed /\ ReportsAreTrue

LEMMA TypeParts ==
    TypeOK <=> ConnectionsOK /\ CallersOK /\ panicked \in BOOLEAN /\ crashed \in BOOLEAN
BY DEF TypeOK, ConnectionsOK, CallersOK, Phases, InPool, Forwarders

LEMMA HandleInvInit == Init => HandleInv
<1> SUFFICES ASSUME Init PROVE HandleInv
    OBVIOUS
<1>1. ConnectionsOK
    BY HandleAssumption DEF Init, ConnectionsOK, Phases, InPool, Forwarders
<1>2. CallersOK
    BY DEF Init, CallersOK
<1>3. ReportsAreTrue
    BY DEF Init, ReportsAreTrue
<1> QED
    BY <1>1, <1>2, <1>3 DEF Init, HandleInv, PoolServed, InPool

\* Answering a call leaves the callers that wait among those who hold a handle.
LEMMA AnswersType ==
    ASSUME CallersOK, NEW call, Answers(call), UNCHANGED holding
    PROVE  waiting' \subseteq holding'
BY DEF CallersOK, Answers

LEMMA AppendCommand ==
    ASSUME NEW command \in ClientLoopCommand, commands \in Seq(ClientLoopCommand),
           commands' = Append(commands, command)
    PROVE  /\ commands' \in Seq(ClientLoopCommand)
           /\ Len(commands') = Len(commands) + 1 /\ Len(commands) \in Nat
           /\ \A i \in 1..Len(commands) : commands'[i] = commands[i]
           /\ commands'[Len(commands) + 1] = command
OBVIOUS

LEMMA PostType ==
    ASSUME CallersOK, NEW k \in Callers, NEW kind \in Kinds, NEW awaited \in BOOLEAN,
           Post(k, kind, awaited)
    PROVE  CallersOK' /\ (ReportsAreTrue => ReportsAreTrue')
<1>1. calls[k] + 1 \in Nat
    BY DEF CallersOK
<1>2. calls' \in [Callers -> Nat] /\ UNCHANGED <<holding, loop, events, phase>>
    BY <1>1 DEF Post, CallersOK, connection_vars
<1>3. CASE UNCHANGED <<commands, waiting>>
    BY <1>2, <1>3 DEF CallersOK, ReportsAreTrue
<1>4. CASE loop = "running"
    <2> DEFINE command == [kind |-> kind, call |-> <<k, calls[k] + 1>>]
    <2>1. command \in ClientLoopCommand
        BY <1>1 DEF ClientLoopCommand, Calls
    <2>2. /\ commands' \in Seq(ClientLoopCommand)
          /\ Len(commands') = Len(commands) + 1 /\ Len(commands) \in Nat
          /\ \A i \in 1..Len(commands) : commands'[i] = commands[i]
          /\ commands'[Len(commands) + 1] = command
        <3>1. commands' = Append(commands, command)
            BY <1>4 DEF Post
        <3>2. commands \in Seq(ClientLoopCommand)
            BY DEF CallersOK
        <3> HIDE DEF command
        <3> QED
            BY <2>1, <3>1, <3>2, AppendCommand
    <2>3. waiting' \subseteq holding'
        BY <1>4 DEF Post, CallersOK
    <2>4. CallersOK'
        BY <1>2, <2>2, <2>3 DEF CallersOK
    <2>5. ~ReportsEnd(command)
        BY DEF ReportsEnd, Kinds, AnsweredByLoop, AnsweredByConnection, Unanswered
    <2> HIDE DEF command
    <2>6. ReportsAreTrue => ReportsAreTrue'
        BY <1>2, <2>2, <2>5 DEF ReportsAreTrue
    <2> QED
        BY <2>4, <2>6
<1> QED
    BY <1>3, <1>4 DEF Post

LEMMA TakeType ==
    ASSUME CallersOK, NEW kinds, Take(kinds)
    PROVE  /\ Head(commands) \in ClientLoopCommand /\ commands' \in Seq(ClientLoopCommand)
           /\ Len(commands') = Len(commands) - 1 /\ Len(commands) \in Nat
           /\ \A i \in 1..Len(commands') : commands'[i] = commands[i + 1] /\ i + 1 \in 1..Len(commands)
           /\ UNCHANGED <<holding, calls, loop>>
<1>1. commands \in Seq(ClientLoopCommand) /\ commands # <<>>
    BY DEF CallersOK, Take
<1> QED
    BY <1>1 DEF Take

---------------------------------------------------------------------------
(* What steps of one kind have in common.                                  *)

\* A connection that has closed stays so.
PhasesKept == \A c \in Connections : phase[c] \in HasClosed => phase'[c] \in HasClosed

LEMMA ReportedConnection ==
    ASSUME NEW command \in ClientLoopCommand, ReportsEnd(command)
    PROVE  command.call[1] \in Connections
<1>1. command.kind = "IncomingMessage"
    BY DEF ReportsEnd
<1>2. command.call \in Connections \X {"Message", "StateClosed"}
    BY <1>1 DEF ClientLoopCommand, Kinds, AnsweredByLoop, AnsweredByConnection, Unanswered
<1> QED
    BY <1>2

LEMMA ReportsKept ==
    ASSUME CallersOK, ReportsAreTrue, PhasesKept, UNCHANGED <<commands, events>>
    PROVE  ReportsAreTrue'
<1>1. ASSUME NEW i \in 1..Len(commands), ReportsEnd(commands[i])
      PROVE  phase'[commands[i].call[1]] \in HasClosed
    <2>1. commands[i] \in ClientLoopCommand
        BY DEF CallersOK
    <2> QED
        BY <1>1, <2>1, ReportedConnection DEF ReportsAreTrue, PhasesKept
<1> QED
    BY <1>1 DEF ReportsAreTrue, PhasesKept

LEMMA ReportsTaken ==
    ASSUME CallersOK, ReportsAreTrue, PhasesKept, NEW kinds, Take(kinds), UNCHANGED events
    PROVE  ReportsAreTrue'
<1>1. ASSUME NEW i \in 1..Len(commands'), ReportsEnd(commands'[i])
      PROVE  phase'[commands'[i].call[1]] \in HasClosed
    <2>1. commands'[i] = commands[i + 1] /\ i + 1 \in 1..Len(commands)
        BY TakeType
    <2>2. commands[i + 1] \in ClientLoopCommand
        BY <2>1 DEF CallersOK
    <2> QED
        BY <1>1, <2>1, <2>2, ReportedConnection DEF ReportsAreTrue, PhasesKept
<1> QED
    BY <1>1 DEF ReportsAreTrue, PhasesKept

\* The pool keeps its connections, or gets a new one.
LEMMA PoolGrows ==
    ASSUME ConnectionsOK, PoolServed, loop = "running", UNCHANGED <<loop, emitted, events>>,
           requests' \in [Connections -> SUBSET Calls],
           \/ UNCHANGED <<phase, forwarder>>
           \/ \E c \in Unmade : Make(c)
    PROVE  ConnectionsOK' /\ PoolServed' /\ PhasesKept
<1>1. CASE UNCHANGED <<phase, forwarder>>
    BY <1>1 DEF ConnectionsOK, PoolServed, PhasesKept
<1>2. ASSUME NEW c \in Unmade, Make(c)
      PROVE  ConnectionsOK' /\ PoolServed' /\ PhasesKept
    <2>1. c \in Connections /\ phase[c] = "none"
        BY DEF Unmade
    <2>2. /\ phase' \in [Connections -> Phases] /\ forwarder' \in [Connections -> Forwarders]
          /\ phase'[c] = "initializing" /\ forwarder'[c] = "running"
          /\ \A n \in Connections \ {c} : phase'[n] = phase[n] /\ forwarder'[n] = forwarder[n]
        BY <1>2, <2>1 DEF Make, ConnectionsOK, Phases, InPool, Forwarders
    <2>3. ConnectionsOK'
        BY <2>2 DEF ConnectionsOK
    <2> QED
        BY <2>1, <2>2, <2>3 DEF PoolServed, InPool, PhasesKept, HasClosed
<1> QED
    BY <1>1, <1>2

LEMMA UsesGrows ==
    ASSUME NEW c \in Connections, Uses(c)
    PROVE  UNCHANGED <<phase, forwarder>> \/ \E n \in Unmade : Make(n)
BY DEF Uses

\* Connections and callers that a step leaves alone.
LEMMA ConnectionsUntouched ==
    ASSUME ConnectionsOK, PoolServed, UNCHANGED connection_vars, UNCHANGED loop
    PROVE  ConnectionsOK' /\ PoolServed' /\ PhasesKept
BY DEF ConnectionsOK, PoolServed, PhasesKept, connection_vars

---------------------------------------------------------------------------
(* The invariant is kept: callers, loop, forwarders and connections.       *)

LEMMA PostKeeps ==
    ASSUME HandleInv, NEW k \in Callers, NEW kind \in Kinds, NEW awaited \in BOOLEAN,
           Post(k, kind, awaited)
    PROVE  HandleInv'
<1>1. CallersOK' /\ ReportsAreTrue'
    BY PostType DEF HandleInv
<1>2. ConnectionsOK' /\ PoolServed'
    BY ConnectionsUntouched DEF HandleInv, Post
<1> QED
    BY <1>1, <1>2 DEF HandleInv

LEMMA CallerKeeps ==
    ASSUME HandleInv, NEW k \in Callers, Caller(k)
    PROVE  HandleInv'
<1>1. CASE \E kind \in Kinds, awaited \in BOOLEAN : Post(k, kind, awaited)
    BY <1>1, PostKeeps
<1>2. CASE Cancel(k) \/ clone(k) \/ DropHandle(k)
    <2>1. CallersOK' /\ UNCHANGED <<commands, loop, connection_vars>>
        BY <1>2 DEF Cancel, clone, DropHandle, HandleInv, CallersOK
    <2>2. ConnectionsOK' /\ PoolServed' /\ PhasesKept
        BY <2>1, ConnectionsUntouched DEF HandleInv
    <2>3. ReportsAreTrue'
        BY <2>1, <2>2, ReportsKept DEF HandleInv, connection_vars
    <2> QED
        BY <2>1, <2>2, <2>3 DEF HandleInv
<1> QED
    BY <1>1, <1>2 DEF Caller, connect, send_message, get_channel_status, ping, join,
        set_wanted_channels, part, Kinds, AnsweredByLoop, AnsweredByConnection, Unanswered

\* A step of the loop that takes a command, may make a connection, and ends nothing.
LEMMA TakeKeeps ==
    ASSUME HandleInv, NEW kinds, Take(kinds), UNCHANGED <<emitted, events>>,
           waiting' \subseteq holding', requests' \in [Connections -> SUBSET Calls],
           UNCHANGED <<phase, forwarder>> \/ \E c \in Unmade : Make(c)
    PROVE  HandleInv'
<1>1. UNCHANGED <<holding, calls, loop>> /\ commands' \in Seq(ClientLoopCommand)
    BY TakeType DEF HandleInv
<1>2. CallersOK'
    BY <1>1 DEF HandleInv, CallersOK
<1>3. ConnectionsOK' /\ PoolServed' /\ PhasesKept
    BY <1>1, PoolGrows DEF HandleInv, Take
<1>4. ReportsAreTrue'
    BY <1>3, ReportsTaken DEF HandleInv
<1> QED
    BY <1>1, <1>2, <1>3, <1>4 DEF HandleInv

LEMMA ConnectKeeps == ASSUME HandleInv, Connect PROVE HandleInv'
<1>1. UNCHANGED holding /\ Take({"Connect"})
    BY DEF Connect, Take
<1>2. waiting' \subseteq holding'
    BY <1>1, AnswersType DEF Connect, HandleInv
<1>3. requests' \in [Connections -> SUBSET Calls]
    BY DEF Connect, HandleInv, ConnectionsOK
<1> QED
    BY <1>1, <1>2, <1>3, TakeKeeps DEF Connect

LEMMA GetChannelStatusKeeps == ASSUME HandleInv, GetChannelStatus PROVE HandleInv'
<1>1. UNCHANGED holding /\ Take({"GetChannelStatus"})
    BY DEF GetChannelStatus, Take
<1>2. waiting' \subseteq holding'
    BY <1>1, AnswersType DEF GetChannelStatus, HandleInv
<1>3. requests' \in [Connections -> SUBSET Calls]
    BY DEF GetChannelStatus, HandleInv, ConnectionsOK, connection_vars
<1> QED
    BY <1>1, <1>2, <1>3, TakeKeeps DEF GetChannelStatus, connection_vars

\* Only the callers' own commands reach a connection as a request.
LEMMA SendMessageKeeps == ASSUME HandleInv, SendMessage PROVE HandleInv'
<1>1. /\ Take(AnsweredByConnection) /\ UNCHANGED <<holding, waiting>>
      /\ Head(commands) \in ClientLoopCommand
    BY TakeType DEF SendMessage, HandleInv, Take
<1>2. Head(commands).call \in Calls
    BY <1>1 DEF Take, ClientLoopCommand, AnsweredByConnection
<1>3. requests' \in [Connections -> SUBSET Calls]
    BY <1>2 DEF SendMessage, HandleInv, ConnectionsOK
<1>4. waiting' \subseteq holding'
    BY <1>1 DEF HandleInv, CallersOK
<1>5. UNCHANGED <<phase, forwarder>> \/ \E c \in Unmade : Make(c)
    BY UsesGrows DEF SendMessage
<1> QED
    BY <1>1, <1>3, <1>4, <1>5, TakeKeeps DEF SendMessage

LEMMA MoveChannelsKeeps == ASSUME HandleInv, MoveChannels PROVE HandleInv'
<1>1. Take(Unanswered) /\ UNCHANGED <<holding, waiting>>
    BY DEF MoveChannels, Take
<1>2. waiting' \subseteq holding'
    BY <1>1 DEF HandleInv, CallersOK
<1>3. requests' \in [Connections -> SUBSET Calls]
    BY DEF MoveChannels, HandleInv, ConnectionsOK
<1>4. UNCHANGED <<phase, forwarder>> \/ \E c \in Unmade : Make(c)
    BY UsesGrows DEF MoveChannels
<1> QED
    BY <1>1, <1>2, <1>3, <1>4, TakeKeeps DEF MoveChannels

\* The connection a StateClosed names has closed: dropping it abandons nothing.
LEMMA ReportedOpen ==
    ASSUME HandleInv, IncomingMessage
    PROVE  \A n \in Connections : phase'[n] = "stuck" <=> phase[n] = "stuck"
<1>1. /\ Head(commands) \in ClientLoopCommand /\ Head(commands).kind = "IncomingMessage"
      /\ commands # <<>> /\ commands \in Seq(ClientLoopCommand)
    BY TakeType DEF IncomingMessage, Take, HandleInv, CallersOK
<1>2. Head(commands).call \in Connections \X {"Message", "StateClosed"}
    BY <1>1 DEF ClientLoopCommand, Kinds, AnsweredByLoop, AnsweredByConnection, Unanswered
<1>3. CASE UNCHANGED phase
    BY <1>3
<1>4. CASE Head(commands).call[2] # "Message"
    <2> DEFINE c == Head(commands).call[1]
    <2>1. ReportsEnd(Head(commands)) /\ Head(commands) = commands[1] /\ 1 \in 1..Len(commands)
        BY <1>1, <1>2, <1>4 DEF ReportsEnd
    <2>2. phase[c] \in HasClosed
        BY <2>1 DEF HandleInv, ReportsAreTrue
    <2> HIDE DEF c
    <2>3. PICK new \in {{}} \union {{n} : n \in Unmade} :
            phase' = [n \in Connections |-> IF n \in new THEN "initializing"
                        ELSE IF n = c THEN Released(phase[n]) ELSE phase[n]]
        BY <1>4 DEF IncomingMessage, c
    <2>4. \A n \in new : phase[n] = "none"
        BY DEF Unmade
    <2> QED
        BY <2>2, <2>3, <2>4 DEF Released, HasClosed
<1> QED
    BY <1>3, <1>4 DEF IncomingMessage

LEMMA IncomingMessageKeeps == ASSUME HandleInv, IncomingMessage PROVE HandleInv'
<1> DEFINE c == Head(commands).call[1]
<1>1. /\ Take({"IncomingMessage"}) /\ UNCHANGED <<holding, waiting, requests, emitted, events>>
      /\ Head(commands) \in ClientLoopCommand /\ commands # <<>> /\ commands \in Seq(ClientLoopCommand)
      /\ Head(commands).kind = "IncomingMessage" /\ UNCHANGED loop /\ loop = "running"
    BY TakeType DEF IncomingMessage, Take, HandleInv, CallersOK
<1>2. waiting' \subseteq holding' /\ requests' \in [Connections -> SUBSET Calls]
    BY <1>1 DEF HandleInv, CallersOK, ConnectionsOK
<1>3. CASE UNCHANGED <<phase, forwarder>>
    BY <1>1, <1>2, <1>3, TakeKeeps
<1>4. ASSUME Head(commands).call[2] # "Message", NEW new \in SUBSET Unmade,
             phase' = [n \in Connections |-> IF n \in new THEN "initializing"
                                ELSE IF n = c THEN Released(phase[n]) ELSE phase[n]],
             forwarder' = [n \in Connections |-> IF n \in new THEN "running"
                                ELSE IF n = c THEN Told(forwarder[n]) ELSE forwarder[n]]
      PROVE  HandleInv'
    <2>1. Head(commands).call \in Connections \X {"Message", "StateClosed"}
        BY <1>1 DEF ClientLoopCommand, Kinds, AnsweredByLoop, AnsweredByConnection, Unanswered
    <2>2. c \in Connections /\ ReportsEnd(Head(commands))
        BY <1>1, <1>4, <2>1 DEF ReportsEnd
    <2>3. phase[c] \in HasClosed
        <3>1. Head(commands) = commands[1] /\ 1 \in 1..Len(commands)
            BY <1>1
        <3> QED
            BY <2>2, <3>1 DEF HandleInv, ReportsAreTrue
    <2> HIDE DEF c
    <2>4. \A n \in new : n \in Connections /\ phase[n] = "none" /\ n # c
        BY <2>3 DEF Unmade, HasClosed
    <2>5. \A n \in Connections \ {c} : \/ phase'[n] = "initializing" /\ forwarder'[n] = "running" /\ phase[n] = "none"
                                       \/ phase'[n] = phase[n] /\ forwarder'[n] = forwarder[n]
        BY <1>4, <2>4
    <2>6. phase'[c] \in HasClosed
        BY <1>4, <2>2, <2>3, <2>4 DEF Released, HasClosed
    <2>7. forwarder'[c] = Told(forwarder[c])
        BY <1>4, <2>2, <2>4
    <2>8. \A n \in Connections : forwarder[n] \in Forwarders /\ phase[n] \in Phases /\ (forwarder[n] = "none" <=> phase[n] = "none")
        BY DEF HandleInv, ConnectionsOK
    <2>9. forwarder'[c] \in Forwarders \ {"none"}
        BY <2>2, <2>3, <2>7, <2>8 DEF Told, Forwarders, HasClosed
    <2>10. \A n \in Connections : forwarder'[n] \in Forwarders /\ phase'[n] \in Phases /\ (forwarder'[n] = "none" <=> phase'[n] = "none")
        BY <2>2, <2>5, <2>6, <2>8, <2>9 DEF Forwarders, Phases, InPool, HasClosed
    <2>11. ConnectionsOK'
        BY <1>1, <1>4, <2>10 DEF HandleInv, ConnectionsOK
    <2>12. PoolServed'
        BY <1>1, <2>2, <2>5, <2>6 DEF HandleInv, PoolServed, InPool, HasClosed
    <2>13. PhasesKept
        BY <2>2, <2>5, <2>6 DEF PhasesKept, HasClosed
    <2>14. ReportsAreTrue'
        BY <1>1, <2>13, ReportsTaken DEF HandleInv
    <2>15. CallersOK'
        BY <1>1, TakeType DEF HandleInv, CallersOK
    <2> QED
        BY <2>11, <2>12, <2>14, <2>15 DEF HandleInv
<1>5. CASE Head(commands).call[2] # "Message"
    <2>1. PICK new \in {{}} \union {{n} : n \in Unmade} :
            /\ phase' = [n \in Connections |-> IF n \in new THEN "initializing"
                                ELSE IF n = c THEN Released(phase[n]) ELSE phase[n]]
            /\ forwarder' = [n \in Connections |-> IF n \in new THEN "running"
                                ELSE IF n = c THEN Told(forwarder[n]) ELSE forwarder[n]]
        BY <1>5 DEF IncomingMessage
    <2>2. new \in SUBSET Unmade
        OBVIOUS
    <2> QED
        BY <1>4, <1>5, <2>1, <2>2
<1> QED
    BY <1>3, <1>5 DEF IncomingMessage

\* The loop goes, by its end or by a panic, and drops the pool.
LEMMA PoolDroppedKeeps ==
    ASSUME HandleInv, PoolDropped, loop' # "running", UNCHANGED <<requests, emitted, events>>
    PROVE  ConnectionsOK' /\ PoolServed' /\ PhasesKept
<1>1. \A c \in Connections : phase'[c] = Released(phase[c]) /\ forwarder'[c] = Told(forwarder[c])
    BY DEF PoolDropped
<1>2. \A c \in Connections : forwarder[c] \in Forwarders /\ phase[c] \in Phases /\ (forwarder[c] = "none" <=> phase[c] = "none")
    BY DEF HandleInv, ConnectionsOK
<1>3. \A c \in Connections :
        /\ forwarder'[c] \in Forwarders /\ phase'[c] \in Phases \ InPool
        /\ forwarder'[c] = "none" <=> phase'[c] = "none"
    BY <1>1, <1>2 DEF Released, Told, Forwarders, Phases, InPool
<1>4. ConnectionsOK'
    BY <1>3 DEF HandleInv, ConnectionsOK, PoolDropped
<1>5. PhasesKept
    BY <1>1, <1>2 DEF PhasesKept, Released, HasClosed, Phases
<1> QED
    BY <1>3, <1>4, <1>5 DEF PoolServed

LEMMA LoopEndsKeeps == ASSUME HandleInv, LoopEnds PROVE HandleInv'
<1>1. /\ loop' = "ended" /\ PoolDropped
      /\ UNCHANGED <<holding, calls, waiting, commands, requests, emitted, events>>
    BY DEF LoopEnds, caller_vars
<1>2. CallersOK'
    BY <1>1 DEF HandleInv, CallersOK
<1>3. ConnectionsOK' /\ PoolServed' /\ PhasesKept
    BY <1>1, PoolDroppedKeeps
<1>4. ReportsAreTrue'
    BY <1>1, <1>3, ReportsKept DEF HandleInv
<1> QED
    BY <1>2, <1>3, <1>4 DEF HandleInv

LEMMA SendPanicsKeeps == ASSUME HandleInv, SendPanics PROVE HandleInv'
<1>1. /\ loop' = "panicked" /\ PoolDropped /\ commands' = <<>> /\ waiting' \subseteq waiting
      /\ UNCHANGED <<holding, calls, requests, emitted, events>>
    BY DEF SendPanics, Forsakes
<1>2. CallersOK'
    BY <1>1 DEF HandleInv, CallersOK
<1>3. ConnectionsOK' /\ PoolServed' /\ PhasesKept
    BY <1>1, PoolDroppedKeeps
<1>4. ReportsAreTrue'
    BY <1>1, <1>3 DEF HandleInv, ReportsAreTrue, PhasesKept
<1> QED
    BY <1>2, <1>3, <1>4 DEF HandleInv

\* A forwarder that has nobody to send to ends.
LEMMA ForwardsKeeps == ASSUME HandleInv, NEW c \in Connections, Forwards(c) PROVE HandleInv'
<1> DEFINE command == [kind |-> "IncomingMessage", call |-> <<c, Head(events[c])>>]
<1>1. /\ events \in [Connections -> Seq({"Message", "StateClosed"})] /\ events[c] # <<>>
      /\ forwarder[c] # "none" /\ Hands(command, c) /\ commands \in Seq(ClientLoopCommand)
      /\ UNCHANGED <<holding, calls, waiting, loop, phase, requests, emitted>>
    BY DEF HandleInv, ConnectionsOK, CallersOK, Forwards, caller_vars
<1>2. events[c] \in Seq({"Message", "StateClosed"}) /\ Head(events[c]) \in {"Message", "StateClosed"}
    BY <1>1
<1>3. command \in ClientLoopCommand
    BY <1>2 DEF ClientLoopCommand
<1>4. Head(events[c]) = "StateClosed" => phase[c] \in HasClosed
    <2>1. Head(events[c]) = events[c][1] /\ 1 \in 1..Len(events[c])
        BY <1>1, <1>2
    <2> QED
        BY <2>1 DEF HandleInv, ReportsAreTrue
<1>5. ReportsEnd(command) => phase[command.call[1]] \in HasClosed
    BY <1>4 DEF ReportsEnd
<1> HIDE DEF command
<1>6. /\ commands' \in Seq(ClientLoopCommand)
      /\ \A i \in 1..Len(commands') : ReportsEnd(commands'[i]) => phase[commands'[i].call[1]] \in HasClosed
    <2>1. CASE UNCHANGED commands
        BY <1>1, <2>1 DEF HandleInv, ReportsAreTrue
    <2>2. CASE commands' = Append(commands, command)
        BY <1>1, <1>3, <1>5, <2>2, AppendCommand DEF HandleInv, ReportsAreTrue
    <2> QED
        BY <1>1, <2>1, <2>2 DEF Hands
<1>7. /\ events' = [events EXCEPT ![c] = Tail(@)]
      /\ Tail(events[c]) \in Seq({"Message", "StateClosed"})
      /\ \A i \in 1..Len(Tail(events[c])) : Tail(events[c])[i] = events[c][i + 1] /\ i + 1 \in 1..Len(events[c])
    BY <1>1, <1>2 DEF Forwards
<1>8. \A n \in Connections : \A i \in 1..Len(events'[n]) : events'[n][i] = "StateClosed" => phase[n] \in HasClosed
    BY <1>1, <1>7 DEF HandleInv, ReportsAreTrue
<1>9. ReportsAreTrue'
    BY <1>1, <1>6, <1>8 DEF ReportsAreTrue
<1>10. events' \in [Connections -> Seq({"Message", "StateClosed"})]
    BY <1>1, <1>7
<1>11. forwarder' \in [Connections -> Forwarders] /\ \A n \in Connections : forwarder'[n] = "none" <=> phase[n] = "none"
    BY <1>1 DEF Hands, HandleInv, ConnectionsOK, Forwarders
<1>12. ConnectionsOK'
    BY <1>1, <1>10, <1>11 DEF HandleInv, ConnectionsOK
<1>13. CallersOK' /\ PoolServed'
    BY <1>1, <1>6 DEF HandleInv, CallersOK, PoolServed
<1> QED
    BY <1>9, <1>12, <1>13 DEF HandleInv

LEMMA ForwarderEndsKeeps == ASSUME HandleInv, NEW c \in Connections, ForwarderEnds(c) PROVE HandleInv'
<1>1. UNCHANGED <<holding, calls, waiting, commands, loop, phase, requests, emitted, events>>
    BY DEF ForwarderEnds, caller_vars
<1>2. forwarder[c] # "none" /\ forwarder' = [forwarder EXCEPT ![c] = "ended"]
    BY DEF ForwarderEnds
<1>3. ConnectionsOK'
    BY <1>1, <1>2 DEF HandleInv, ConnectionsOK, Forwarders
<1>4. CallersOK' /\ PoolServed' /\ ReportsAreTrue'
    BY <1>1 DEF HandleInv, CallersOK, PoolServed, ReportsAreTrue
<1> QED
    BY <1>1, <1>3, <1>4 DEF HandleInv

LEMMA ConnectionAnswersKeeps == ASSUME HandleInv, NEW c \in Connections, ConnectionAnswers(c) PROVE HandleInv'
<1>1. UNCHANGED <<holding, calls, commands, loop, phase, emitted, events, forwarder>>
    BY DEF ConnectionAnswers
<1>2. waiting' \subseteq holding'
    BY <1>1, AnswersType DEF ConnectionAnswers, HandleInv
<1>3. requests' \in [Connections -> SUBSET Calls]
    BY DEF ConnectionAnswers, HandleInv, ConnectionsOK
<1>4. ConnectionsOK'
    BY <1>1, <1>3 DEF HandleInv, ConnectionsOK
<1>5. CallersOK' /\ PoolServed' /\ ReportsAreTrue'
    BY <1>1, <1>2 DEF HandleInv, CallersOK, PoolServed, ReportsAreTrue
<1> QED
    BY <1>1, <1>4, <1>5 DEF HandleInv

\* An event behind those that wait for the forwarder.
LEMMA EmitKeeps ==
    ASSUME ConnectionsOK, NEW c \in Connections, NEW event \in {"Message", "StateClosed"},
           events' = [events EXCEPT ![c] = Append(@, event)]
    PROVE  /\ events' \in [Connections -> Seq({"Message", "StateClosed"})]
           /\ \A n \in Connections : \A i \in 1..Len(events'[n]) :
                 \/ i \in 1..Len(events[n]) /\ events'[n][i] = events[n][i]
                 \/ n = c /\ events'[n][i] = event
<1>1. events \in [Connections -> Seq({"Message", "StateClosed"})] /\ events[c] \in Seq({"Message", "StateClosed"})
    BY DEF ConnectionsOK
<1>2. /\ Append(events[c], event) \in Seq({"Message", "StateClosed"})
      /\ \A i \in 1..Len(Append(events[c], event)) :
            \/ i \in 1..Len(events[c]) /\ Append(events[c], event)[i] = events[c][i]
            \/ Append(events[c], event)[i] = event
    BY <1>1
<1>3. events' \in [Connections -> Seq({"Message", "StateClosed"})]
    BY <1>1, <1>2
<1>4. events'[c] = Append(events[c], event) /\ \A n \in Connections \ {c} : events'[n] = events[n]
    BY <1>1
<1> QED
    BY <1>2, <1>3, <1>4

LEMMA ConnectionReceivesKeeps == ASSUME HandleInv, NEW c \in Connections, ConnectionReceives(c) PROVE HandleInv'
<1>1. UNCHANGED <<holding, calls, waiting, commands, loop, phase, requests, forwarder>>
    BY DEF ConnectionReceives, caller_vars
<1>2. /\ events' \in [Connections -> Seq({"Message", "StateClosed"})]
      /\ \A n \in Connections : \A i \in 1..Len(events'[n]) :
            \/ i \in 1..Len(events[n]) /\ events'[n][i] = events[n][i]
            \/ n = c /\ events'[n][i] = "Message"
    BY EmitKeeps DEF ConnectionReceives, HandleInv
<1>3. emitted' \in [Connections -> 0..MaxEvents]
    BY HandleAssumption DEF ConnectionReceives, HandleInv, ConnectionsOK
<1>4. ConnectionsOK'
    BY <1>1, <1>2, <1>3 DEF HandleInv, ConnectionsOK
<1>5. ReportsAreTrue'
    BY <1>1, <1>2 DEF HandleInv, ReportsAreTrue
<1>6. CallersOK' /\ PoolServed'
    BY <1>1 DEF HandleInv, CallersOK, PoolServed
<1> QED
    BY <1>1, <1>4, <1>5, <1>6 DEF HandleInv

LEMMA ConnectionFailsKeeps == ASSUME HandleInv, NEW c \in Connections, ConnectionFails(c) PROVE HandleInv'
<1>1. UNCHANGED <<holding, calls, waiting, commands, loop, requests, emitted, forwarder>>
    BY DEF ConnectionFails, caller_vars
<1>2. /\ events' \in [Connections -> Seq({"Message", "StateClosed"})]
      /\ \A n \in Connections : \A i \in 1..Len(events'[n]) :
            \/ i \in 1..Len(events[n]) /\ events'[n][i] = events[n][i]
            \/ n = c /\ events'[n][i] = "StateClosed"
    BY EmitKeeps DEF ConnectionFails, HandleInv
<1>3. /\ phase[c] \in {"initializing", "open"} /\ phase' \in [Connections -> Phases] /\ phase'[c] = "closed"
      /\ \A n \in Connections \ {c} : phase'[n] = phase[n]
    BY DEF ConnectionFails, HandleInv, ConnectionsOK, Phases, InPool
<1>4. PhasesKept
    BY <1>3 DEF PhasesKept, HasClosed
<1>5. ConnectionsOK'
    BY <1>1, <1>2, <1>3 DEF HandleInv, ConnectionsOK
<1>6. \A i \in 1..Len(commands) : ReportsEnd(commands[i]) => phase'[commands[i].call[1]] \in HasClosed
    <2>1. \A i \in 1..Len(commands) : commands[i] \in ClientLoopCommand
        BY DEF HandleInv, CallersOK
    <2> QED
        BY <1>4, <2>1, ReportedConnection DEF HandleInv, ReportsAreTrue, PhasesKept
<1>7. \A n \in Connections : \A i \in 1..Len(events'[n]) : events'[n][i] = "StateClosed" => phase'[n] \in HasClosed
    <2> SUFFICES ASSUME NEW n \in Connections, NEW i \in 1..Len(events'[n]), events'[n][i] = "StateClosed"
                 PROVE  phase'[n] \in HasClosed
        OBVIOUS
    <2>1. CASE n = c
        BY <1>3, <2>1 DEF HasClosed
    <2>2. CASE i \in 1..Len(events[n]) /\ events'[n][i] = events[n][i]
        BY <1>4, <2>2 DEF HandleInv, ReportsAreTrue, PhasesKept
    <2> QED
        BY <1>2, <2>1, <2>2
<1>8. ReportsAreTrue'
    BY <1>1, <1>6, <1>7 DEF ReportsAreTrue
<1>9. CallersOK' /\ PoolServed'
    BY <1>1, <1>3 DEF HandleInv, CallersOK, PoolServed, InPool
<1> QED
    BY <1>1, <1>5, <1>8, <1>9 DEF HandleInv

LEMMA InitTaskEndsKeeps == ASSUME HandleInv, NEW c \in Connections, InitTaskEnds(c) PROVE HandleInv'
<1>1. UNCHANGED <<holding, calls, waiting, commands, loop, requests, emitted, events, forwarder>>
    BY DEF InitTaskEnds, caller_vars
<1>2. /\ phase[c] = "initializing" /\ phase' \in [Connections -> Phases] /\ phase'[c] \in {"open", "stuck"}
      /\ \A n \in Connections \ {c} : phase'[n] = phase[n]
    BY DEF InitTaskEnds, HandleInv, ConnectionsOK, Phases, InPool
<1>3. ConnectionsOK'
    BY <1>1, <1>2 DEF HandleInv, ConnectionsOK
<1>4. PhasesKept
    BY <1>2 DEF PhasesKept, HasClosed
<1>5. ReportsAreTrue'
    BY <1>1, <1>4, ReportsKept DEF HandleInv
<1>6. CallersOK' /\ PoolServed'
    BY <1>1, <1>2 DEF HandleInv, CallersOK, PoolServed, InPool
<1> QED
    BY <1>3, <1>5, <1>6 DEF HandleInv

LEMMA ConnectionPanicsKeeps == ASSUME HandleInv, NEW c \in Connections, ConnectionPanics(c) PROVE HandleInv'
<1>1. waiting' \subseteq waiting /\ UNCHANGED <<holding, calls, commands, loop, emitted, events, forwarder>>
    BY DEF ConnectionPanics, Forsakes
<1>2. /\ phase[c] = "open" /\ phase' \in [Connections -> Phases] /\ phase'[c] = "panicked"
      /\ \A n \in Connections \ {c} : phase'[n] = phase[n]
    BY DEF ConnectionPanics, HandleInv, ConnectionsOK, Phases, InPool
<1>3. requests' \in [Connections -> SUBSET Calls]
    BY DEF ConnectionPanics, HandleInv, ConnectionsOK
<1>4. ConnectionsOK'
    BY <1>1, <1>2, <1>3 DEF HandleInv, ConnectionsOK
<1>5. PhasesKept
    BY <1>2 DEF PhasesKept, HasClosed
<1>6. ReportsAreTrue'
    BY <1>1, <1>5, ReportsKept DEF HandleInv
<1>7. CallersOK' /\ PoolServed'
    BY <1>1, <1>2 DEF HandleInv, CallersOK, PoolServed, InPool
<1> QED
    BY <1>4, <1>6, <1>7 DEF HandleInv

LEMMA ConnectionEndsKeeps == ASSUME HandleInv, NEW c \in Connections, ConnectionEnds(c) PROVE HandleInv'
<1>1. waiting' \subseteq waiting /\ UNCHANGED <<holding, calls, commands, loop, emitted, events, forwarder>>
    BY DEF ConnectionEnds, Forsakes
<1>2. /\ phase[c] \in {"abandoned", "unopened", "finishing"}
      /\ phase' \in [Connections -> Phases] /\ phase'[c] = "ended"
      /\ \A n \in Connections \ {c} : phase'[n] = phase[n]
    BY DEF ConnectionEnds, HandleInv, ConnectionsOK, Phases
<1>3. requests' \in [Connections -> SUBSET Calls]
    BY DEF ConnectionEnds, HandleInv, ConnectionsOK
<1>4. ConnectionsOK'
    BY <1>1, <1>2, <1>3 DEF HandleInv, ConnectionsOK
<1>5. PhasesKept
    BY <1>2 DEF PhasesKept, HasClosed
<1>6. ReportsAreTrue'
    BY <1>1, <1>5, ReportsKept DEF HandleInv
<1>7. CallersOK' /\ PoolServed'
    BY <1>1, <1>2 DEF HandleInv, CallersOK, PoolServed, InPool
<1> QED
    BY <1>4, <1>6, <1>7 DEF HandleInv

LEMMA HandleInvStep == HandleInv /\ [Next]_vars => HandleInv'
<1> SUFFICES ASSUME HandleInv, [Next]_vars PROVE HandleInv'
    OBVIOUS
<1>1. ASSUME NEW k \in Callers, Caller(k) PROVE HandleInv'
    BY <1>1, CallerKeeps
<1>2. CASE ClientLoop
    BY <1>2, ConnectKeeps, GetChannelStatusKeeps, SendMessageKeeps, MoveChannelsKeeps,
        IncomingMessageKeeps, LoopEndsKeeps, SendPanicsKeeps DEF ClientLoop
<1>3. ASSUME NEW c \in Connections, Forwarder(c) PROVE HandleInv'
    BY <1>3, ForwardsKeeps, ForwarderEndsKeeps DEF Forwarder
<1>4. ASSUME NEW c \in Connections, Connection(c) \/ ConnectionAnswers(c) PROVE HandleInv'
    BY <1>4, ConnectionAnswersKeeps, ConnectionReceivesKeeps, InitTaskEndsKeeps, ConnectionFailsKeeps,
        ConnectionPanicsKeeps, ConnectionEndsKeeps DEF Connection
<1>5. CASE UNCHANGED vars
    BY <1>5 DEF vars, caller_vars, connection_vars, HandleInv, ConnectionsOK, CallersOK,
        PoolServed, ReportsAreTrue
<1> QED
    BY <1>1, <1>2, <1>3, <1>4, <1>5 DEF Next

LEMMA HandleInvHolds == Spec => []HandleInv
BY HandleInvInit, HandleInvStep, PTL DEF Spec

---------------------------------------------------------------------------
(* What can fail, and after what.                                          *)

\* Whatever goes wrong goes back to a connection that has panicked; a loop that ended
\* otherwise has outlived the handles.
FaultsTraced ==
    /\ panicked \in BOOLEAN /\ crashed \in BOOLEAN
    /\ panicked \/ loop = "panicked" => crashed
    /\ \A c \in Connections : phase[c] = "panicked" => crashed
    /\ loop = "ended" => holding = {}

\* A step in which nothing fails.
Quiet ==
    /\ UNCHANGED <<panicked, crashed, loop>>
    /\ holding = {} => holding' = {}
    /\ \A c \in Connections : phase'[c] = "panicked" => phase[c] = "panicked"

LEMMA QuietKeeps == ASSUME FaultsTraced, Quiet PROVE FaultsTraced'
BY DEF FaultsTraced, Quiet

\* Who holds a handle without a loop holds it after a panic.
LEMMA HeldWithoutLoop ==
    ASSUME HandleInv, FaultsTraced, loop # "running", holding # {}
    PROVE  crashed
BY DEF HandleInv, CallersOK, FaultsTraced

LEMMA UnwrapFaults ==
    ASSUME HandleInv, FaultsTraced, UNCHANGED <<holding, loop, phase, crashed>>, holding # {},
           panicked' = panicked \/ (panicked' = TRUE /\ loop # "running")
    PROVE  FaultsTraced'
<1>1. CASE panicked' = panicked
    BY <1>1, QuietKeeps DEF Quiet
<1>2. CASE panicked' = TRUE /\ loop # "running"
    <2>1. crashed
        BY <1>2, HeldWithoutLoop
    <2> QED
        BY <1>2, <2>1 DEF FaultsTraced
<1> QED
    BY <1>1, <1>2

LEMMA CallerFaults ==
    ASSUME HandleInv, FaultsTraced, NEW k \in Callers, Caller(k)
    PROVE  FaultsTraced'
<1>1. ASSUME NEW kind, NEW awaited \in BOOLEAN, Post(k, kind, awaited)
      PROVE  FaultsTraced'
    <2>1. UNCHANGED <<holding, loop, phase, crashed>> /\ holding # {}
        BY <1>1 DEF Post, connection_vars
    <2>2. panicked' = panicked \/ (panicked' = TRUE /\ loop # "running")
        BY <1>1 DEF Post
    <2> QED
        BY <2>1, <2>2, UnwrapFaults
<1>2. CASE Cancel(k) \/ clone(k) \/ DropHandle(k)
    <2>1. Quiet
        BY <1>2 DEF Cancel, clone, DropHandle, connection_vars, Quiet
    <2> QED
        BY <2>1, QuietKeeps
<1> QED
    BY <1>1, <1>2 DEF Caller, connect, send_message, get_channel_status, ping, join,
        set_wanted_channels, part

LEMMA ClientLoopFaults ==
    ASSUME HandleInv, FaultsTraced, ClientLoop
    PROVE  FaultsTraced'
<1>1. ASSUME NEW kinds, Take(kinds), UNCHANGED <<panicked, crashed>>,
             \A c \in Connections : phase'[c] = "panicked" => phase[c] = "panicked"
      PROVE  FaultsTraced'
    BY <1>1, QuietKeeps DEF Take, Quiet
<1>2. ASSUME UNCHANGED <<phase, forwarder>> \/ \E c \in Unmade : Make(c)
      PROVE  \A c \in Connections : phase'[c] = "panicked" => phase[c] = "panicked"
    BY <1>2 DEF Make, HandleInv, ConnectionsOK
<1>3. CASE Connect \/ GetChannelStatus \/ SendMessage \/ MoveChannels
    BY <1>1, <1>2, <1>3, UsesGrows DEF Connect, GetChannelStatus, SendMessage, MoveChannels, connection_vars
<1>4. CASE IncomingMessage
    <2>1. \A c \in Connections : phase'[c] = "panicked" => phase[c] = "panicked"
        BY <1>4 DEF IncomingMessage, Released
    <2> QED
        BY <1>1, <1>4, <2>1 DEF IncomingMessage
<1>5. CASE LoopEnds
    <2>1. \A c \in Connections : phase'[c] = "panicked" => phase[c] = "panicked"
        BY <1>5 DEF LoopEnds, PoolDropped, Released
    <2> QED
        BY <1>5, <2>1 DEF LoopEnds, FaultsTraced, caller_vars
<1>6. CASE SendPanics
    <2>1. crashed /\ crashed' = crashed /\ loop' = "panicked" /\ panicked' \in BOOLEAN
        BY <1>6 DEF SendPanics, Forsakes, FaultsTraced
    <2> QED
        BY <2>1 DEF FaultsTraced
<1> QED
    BY <1>3, <1>4, <1>5, <1>6 DEF ClientLoop

LEMMA ForwarderFaults ==
    ASSUME HandleInv, FaultsTraced, NEW c \in Connections, Forwarder(c)
    PROVE  FaultsTraced'
<1>1. CASE Forwards(c)
    <2>1. UNCHANGED <<holding, loop, phase, crashed>> /\ holding # {}
        BY <1>1 DEF Forwards, caller_vars
    <2>2. panicked' = panicked \/ (panicked' = TRUE /\ loop # "running")
        BY <1>1 DEF Forwards, Hands
    <2> QED
        BY <2>1, <2>2, UnwrapFaults
<1>2. CASE ForwarderEnds(c)
    <2>1. Quiet
        BY <1>2 DEF ForwarderEnds, caller_vars, Quiet
    <2> QED
        BY <2>1, QuietKeeps
<1> QED
    BY <1>1, <1>2 DEF Forwarder

\* What a connection owes when it ends is owed to nobody, or ends after a panic.
LEMMA EndOwesNobody ==
    ASSUME HandleInv, FaultsTraced, NEW c \in Connections, ConnectionEnds(c), ~crashed
    PROVE  Forsaken(requests[c]) = {}
<1>1. CASE phase[c] \in {"abandoned", "unopened"}
    <2>1. loop # "running"
        BY <1>1 DEF HandleInv, PoolServed
    <2>2. holding = {}
        BY <2>1, HeldWithoutLoop
    <2>3. waiting = {}
        BY <2>2 DEF HandleInv, CallersOK
    <2> QED
        BY <2>3 DEF Forsaken
<1>2. CASE requests[c] = {}
    BY <1>2 DEF Forsaken
<1> QED
    BY <1>1, <1>2 DEF ConnectionEnds

LEMMA ConnectionFaults ==
    ASSUME HandleInv, FaultsTraced, NEW c \in Connections, Connection(c) \/ ConnectionAnswers(c)
    PROVE  FaultsTraced'
<1>1. CASE ConnectionReceives(c) \/ InitTaskEnds(c) \/ ConnectionFails(c) \/ ConnectionAnswers(c)
    <2>1. UNCHANGED <<holding, loop, panicked, crashed>>
        BY <1>1 DEF ConnectionReceives, InitTaskEnds, ConnectionFails, ConnectionAnswers, caller_vars
    <2>2. \A n \in Connections : phase'[n] = "panicked" => phase[n] = "panicked"
        BY <1>1 DEF ConnectionReceives, InitTaskEnds, ConnectionFails, ConnectionAnswers,
            HandleInv, ConnectionsOK
    <2> QED
        BY <2>1, <2>2, QuietKeeps DEF Quiet
<1>2. CASE ConnectionPanics(c)
    BY <1>2 DEF ConnectionPanics, Forsakes, FaultsTraced
<1>3. CASE ConnectionEnds(c)
    <2>1. UNCHANGED <<holding, loop, crashed>>
        BY <1>3 DEF ConnectionEnds
    <2>2. panicked' \in BOOLEAN /\ (panicked' => panicked \/ crashed)
        BY <1>3, EndOwesNobody DEF ConnectionEnds, Forsakes, FaultsTraced
    <2>3. \A n \in Connections : phase'[n] = "panicked" => phase[n] = "panicked"
        BY <1>3 DEF ConnectionEnds, HandleInv, ConnectionsOK
    <2> QED
        BY <2>1, <2>2, <2>3 DEF FaultsTraced
<1> QED
    BY <1>1, <1>2, <1>3 DEF Connection

LEMMA FaultsTracedStep == HandleInv /\ FaultsTraced /\ [Next]_vars => FaultsTraced'
<1> SUFFICES ASSUME HandleInv, FaultsTraced, [Next]_vars PROVE FaultsTraced'
    OBVIOUS
<1>1. CASE UNCHANGED vars
    BY <1>1 DEF vars, caller_vars, connection_vars, FaultsTraced
<1> QED
    BY <1>1, CallerFaults, ClientLoopFaults, ForwarderFaults, ConnectionFaults DEF Next

LEMMA FaultsTracedHolds == Spec => []FaultsTraced
<1>1. Init => FaultsTraced
    BY DEF Init, FaultsTraced
<1> QED
    BY <1>1, FaultsTracedStep, HandleInvHolds, PTL DEF Spec

---------------------------------------------------------------------------
(* The theorems.                                                           *)

\* TypeOK holds for any number of callers, connections, calls and messages.
THEOREM TypeCorrect == Spec => []TypeOK
<1>1. HandleInv /\ FaultsTraced => TypeOK
    BY TypeParts DEF HandleInv, FaultsTraced
<1> QED
    BY <1>1, HandleInvHolds, FaultsTracedHolds, PTL

\* UnwrapsFailOnlyAfterCrash: the unwrap() on a send to the client loop and on a reply
\* (client/mod.rs:96-99, 111-114, event_loop.rs:196) fails only after the loop of a
\* connection has panicked, whoever cancels, clones and drops.
THEOREM UnwrapsFailOnlyAfterCrashCorrect == Spec => []UnwrapsFailOnlyAfterCrash
<1>1. FaultsTraced => UnwrapsFailOnlyAfterCrash
    BY DEF FaultsTraced, UnwrapsFailOnlyAfterCrash
<1> QED
    BY <1>1, FaultsTracedHolds, PTL

---------------------------------------------------------------------------
(* The calls that are on their way have been made, so that a caller's next *)
(* call is none of them.                                                   *)

Made(call) == call[2] <= calls[call[1]]
CallsMade ==
    /\ \A c \in Connections : \A call \in requests[c] : Made(call)
    /\ \A i \in 1..Len(commands) : commands[i].kind \in Kinds => Made(commands[i].call)

\* A call of the callers, not a report of a connection.
LEMMA CallerCall ==
    ASSUME NEW command \in ClientLoopCommand, command.kind \in Kinds
    PROVE  command.call \in Calls
BY DEF ClientLoopCommand, Kinds, AnsweredByLoop, AnsweredByConnection, Unanswered

LEMMA PostMade ==
    ASSUME HandleInv, CallsMade, NEW k \in Callers, NEW kind \in Kinds, NEW awaited \in BOOLEAN,
           Post(k, kind, awaited)
    PROVE  CallsMade'
<1>1. calls \in [Callers -> Nat] /\ calls' = [calls EXCEPT ![k] = @ + 1] /\ UNCHANGED requests
    BY DEF HandleInv, CallersOK, Post, connection_vars
<1>2. \A call \in Calls : Made(call) => call[2] <= calls'[call[1]]
    BY <1>1 DEF Made, Calls
<1>3. \A c \in Connections : \A call \in requests'[c] : Made(call)'
    BY <1>1, <1>2 DEF CallsMade, Made, HandleInv, ConnectionsOK
<1>4. commands \in Seq(ClientLoopCommand) /\ Len(commands) \in Nat
    BY DEF HandleInv, CallersOK
<1>5. \A i \in 1..Len(commands) : commands[i].kind \in Kinds => commands[i].call[2] <= calls'[commands[i].call[1]]
    <2> SUFFICES ASSUME NEW i \in 1..Len(commands), commands[i].kind \in Kinds
                 PROVE  commands[i].call[2] <= calls'[commands[i].call[1]]
        OBVIOUS
    <2>1. commands[i] \in ClientLoopCommand
        BY <1>4
    <2> QED
        BY <1>2, <2>1, CallerCall DEF CallsMade
<1>6. CASE UNCHANGED commands
    BY <1>3, <1>5, <1>6 DEF CallsMade, Made
<1>7. CASE commands' = Append(commands, [kind |-> kind, call |-> <<k, calls[k] + 1>>])
    <2> DEFINE command == [kind |-> kind, call |-> <<k, calls[k] + 1>>]
    <2>1. command \in ClientLoopCommand /\ command.call[2] <= calls'[command.call[1]]
        BY <1>1 DEF ClientLoopCommand, Calls
    <2> HIDE DEF command
    <2>2. /\ Len(commands') = Len(commands) + 1
          /\ \A i \in 1..Len(commands) : commands'[i] = commands[i]
          /\ commands'[Len(commands) + 1] = command
        BY <1>4, <1>7, <2>1, AppendCommand DEF command
    <2>3. \A i \in 1..Len(commands') : i \in 1..Len(commands) \/ i = Len(commands) + 1
        BY <1>4, <2>2
    <2> QED
        BY <1>3, <1>5, <2>1, <2>2, <2>3 DEF CallsMade, Made
<1> QED
    BY <1>6, <1>7 DEF Post

LEMMA TakeMade ==
    ASSUME HandleInv, CallsMade, NEW kinds, Take(kinds),
           \A c \in Connections : \A call \in requests'[c] :
                call \in requests[c] \/ (call = Head(commands).call /\ Head(commands).kind \in Kinds)
    PROVE  CallsMade'
<1>1. UNCHANGED calls /\ commands # <<>> /\ commands \in Seq(ClientLoopCommand)
    BY DEF Take, HandleInv, CallersOK
<1>2. Head(commands) = commands[1] /\ 1 \in 1..Len(commands)
    BY <1>1
<1>3. \A c \in Connections : \A call \in requests'[c] : Made(call)'
    BY <1>1, <1>2 DEF CallsMade, Made
<1>4. \A i \in 1..Len(commands') : commands'[i] = commands[i + 1] /\ i + 1 \in 1..Len(commands)
    BY TakeType DEF HandleInv
<1> QED
    BY <1>1, <1>3, <1>4 DEF CallsMade, Made

\* No call is made, none is handed on.
LEMMA KeptMade ==
    ASSUME CallsMade, UNCHANGED calls, UNCHANGED commands \/ commands' = <<>>,
           \A c \in Connections : requests'[c] \subseteq requests[c]
    PROVE  CallsMade'
BY DEF CallsMade, Made

LEMMA ClientLoopMade == ASSUME HandleInv, CallsMade, ClientLoop PROVE CallsMade'
<1>1. CASE Connect \/ GetChannelStatus \/ MoveChannels \/ IncomingMessage
    <2>1. (\E kinds : Take(kinds)) /\ UNCHANGED requests
        BY <1>1 DEF Connect, GetChannelStatus, MoveChannels, IncomingMessage, connection_vars
    <2> QED
        BY <2>1, TakeMade
<1>2. CASE SendMessage
    <2>1. /\ Take(AnsweredByConnection) /\ Head(commands).kind \in Kinds
          /\ \E c \in Connections : requests' = [requests EXCEPT ![c] = @ \union {Head(commands).call}]
        BY <1>2 DEF SendMessage, Take, Kinds
    <2>2. \A c \in Connections : \A call \in requests'[c] : call \in requests[c] \/ call = Head(commands).call
        BY <2>1 DEF HandleInv, ConnectionsOK
    <2> QED
        BY <2>1, <2>2, TakeMade
<1>3. CASE LoopEnds \/ SendPanics
    BY <1>3, KeptMade DEF LoopEnds, SendPanics, caller_vars
<1> QED
    BY <1>1, <1>2, <1>3 DEF ClientLoop

LEMMA ForwardsMade ==
    ASSUME HandleInv, CallsMade, NEW c \in Connections, Forwards(c)
    PROVE  CallsMade'
<1> DEFINE command == [kind |-> "IncomingMessage", call |-> <<c, Head(events[c])>>]
<1>1. /\ Hands(command, c) /\ commands \in Seq(ClientLoopCommand) /\ UNCHANGED <<calls, requests>>
      /\ events[c] # <<>> /\ events[c] \in Seq({"Message", "StateClosed"})
    BY DEF HandleInv, CallersOK, ConnectionsOK, Forwards, caller_vars
<1>2. command \in ClientLoopCommand /\ command.kind \notin Kinds
    BY <1>1 DEF ClientLoopCommand, Kinds, AnsweredByLoop, AnsweredByConnection, Unanswered
<1> HIDE DEF command
<1>3. CASE UNCHANGED commands
    BY <1>1, <1>3, KeptMade
<1>4. CASE commands' = Append(commands, command)
    BY <1>1, <1>2, <1>4, AppendCommand DEF CallsMade, Made
<1> QED
    BY <1>1, <1>3, <1>4 DEF Hands

LEMMA CallsMadeStep == HandleInv /\ CallsMade /\ [Next]_vars => CallsMade'
<1> SUFFICES ASSUME HandleInv, CallsMade, [Next]_vars PROVE CallsMade'
    OBVIOUS
<1>1. ASSUME NEW k \in Callers, Caller(k) PROVE CallsMade'
    <2>1. CASE \E kind \in Kinds, awaited \in BOOLEAN : Post(k, kind, awaited)
        BY <2>1, PostMade
    <2>2. CASE Cancel(k) \/ clone(k) \/ DropHandle(k)
        BY <2>2, KeptMade DEF Cancel, clone, DropHandle, connection_vars
    <2> QED
        BY <1>1, <2>1, <2>2 DEF Caller, connect, send_message, get_channel_status, ping, join,
            set_wanted_channels, part, Kinds, AnsweredByLoop, AnsweredByConnection, Unanswered
<1>2. CASE ClientLoop
    BY <1>2, ClientLoopMade
<1>3. ASSUME NEW c \in Connections, Forwarder(c) PROVE CallsMade'
    BY <1>3, ForwardsMade, KeptMade DEF Forwarder, ForwarderEnds, caller_vars
<1>4. ASSUME NEW c \in Connections, Connection(c) \/ ConnectionAnswers(c) PROVE CallsMade'
    <2>1. UNCHANGED <<calls, commands>>
        BY <1>4 DEF Connection, ConnectionAnswers, ConnectionReceives, InitTaskEnds,
            ConnectionFails, ConnectionPanics, ConnectionEnds, caller_vars
    <2>2. \A n \in Connections : requests'[n] \subseteq requests[n]
        BY <1>4 DEF Connection, ConnectionAnswers, ConnectionReceives, InitTaskEnds,
            ConnectionFails, ConnectionPanics, ConnectionEnds, HandleInv, ConnectionsOK
    <2> QED
        BY <2>1, <2>2, KeptMade
<1>5. CASE UNCHANGED vars
    BY <1>5, KeptMade DEF vars, caller_vars, connection_vars
<1> QED
    BY <1>1, <1>2, <1>3, <1>4, <1>5 DEF Next

LEMMA CallsMadeHolds == Spec => []CallsMade
<1>1. Init => CallsMade
    BY DEF Init, CallsMade
<1> QED
    BY <1>1, CallsMadeStep, HandleInvHolds, PTL DEF Spec

---------------------------------------------------------------------------
(* What the callers see.                                                   *)

SeenInv == HandleInv /\ FaultsTraced /\ CallsMade

\* The stranded calls change with the calls that wait, and with what a stuck connection
\* owes.
LEMMA StrandedKept ==
    ASSUME waiting' \subseteq waiting, UNCHANGED calls,
           \A c \in Connections : phase'[c] = "stuck" <=> phase[c] = "stuck",
           \A c \in Connections : phase[c] = "stuck" => requests'[c] = requests[c]
    PROVE  Stranded' = Stranded \intersect waiting'
BY DEF Stranded

\* A call comes back, by its reply or by Cancel.
LEMMA ReturnStep ==
    ASSUME SeenInv, NEW k \in waiting, waiting' = waiting \ {k}, Stranded' = Stranded \ {k},
           UNCHANGED <<holding, loop, crashed>>
    PROVE  Contract!Next
<1>1. k \in Callers /\ holding # {}
    BY DEF SeenInv, HandleInv, CallersOK
<1>2. loop = "running" \/ crashed
    BY <1>1, HeldWithoutLoop DEF SeenInv
<1>3. Contract!Return(k)
    BY <1>2 DEF Contract!Return
<1> QED
    BY <1>1, <1>3 DEF Contract!Next

LEMMA AnswersStep ==
    ASSUME SeenInv, NEW call \in Calls, Answers(call), Stranded' = Stranded \intersect waiting',
           UNCHANGED <<holding, loop, crashed>>
    PROVE  [Contract!Next]_(Contract!vars)
<1>1. waiting' = waiting \/ (call[1] \in waiting /\ waiting' = waiting \ {call[1]})
    BY DEF Answers
<1>2. Stranded \subseteq waiting
    BY DEF Stranded
<1>3. CASE waiting' = waiting
    <2>1. Stranded' = Stranded
        BY <1>2, <1>3
    <2> QED
        BY <1>3, <2>1 DEF Contract!vars
<1>4. CASE call[1] \in waiting /\ waiting' = waiting \ {call[1]}
    <2>1. Stranded' = Stranded \ {call[1]}
        BY <1>2, <1>4
    <2> QED
        BY <1>4, <2>1, ReturnStep
<1> QED
    BY <1>1, <1>3, <1>4

\* A caller that asks is not stranded: its new call is with no connection yet.
LEMMA PostImplements ==
    ASSUME SeenInv, NEW k \in Callers, NEW kind, NEW awaited \in BOOLEAN, Post(k, kind, awaited)
    PROVE  [Contract!Next]_(Contract!vars)
<1>1. /\ k \in holding \ waiting /\ UNCHANGED <<holding, loop, crashed, phase, requests>>
      /\ calls' = [calls EXCEPT ![k] = @ + 1] /\ calls \in [Callers -> Nat] /\ waiting \subseteq Callers
    BY DEF Post, connection_vars, SeenInv, HandleInv, CallersOK
<1>2. \A c \in Connections : <<k, calls'[k]>> \notin requests[c]
    <2> SUFFICES ASSUME NEW c \in Connections, <<k, calls'[k]>> \in requests[c] PROVE FALSE
        OBVIOUS
    <2>1. calls'[k] <= calls[k]
        BY DEF SeenInv, CallsMade, Made
    <2> QED
        BY <1>1, <2>1
<1>3. \A other \in waiting : calls'[other] = calls[other]
    BY <1>1
<1>4. ASSUME waiting' \in {waiting, waiting \union {k}} PROVE Stranded' = Stranded
    BY <1>1, <1>2, <1>3, <1>4 DEF Stranded
<1>5. CASE waiting' = waiting
    BY <1>1, <1>4, <1>5 DEF Contract!vars
<1>6. CASE waiting' = waiting \union {k} /\ loop = "running"
    <2>1. Contract!Ask(k)
        BY <1>1, <1>4, <1>6 DEF Contract!Ask
    <2> QED
        BY <2>1 DEF Contract!Next
<1> QED
    BY <1>5, <1>6 DEF Post

LEMMA CallerImplements ==
    ASSUME SeenInv, NEW k \in Callers, Caller(k)
    PROVE  [Contract!Next]_(Contract!vars)
<1>1. ASSUME UNCHANGED <<calls, loop, crashed, connection_vars>>, waiting' \subseteq waiting
      PROVE  Stranded' = Stranded \intersect waiting' /\ Stranded \subseteq waiting
    BY <1>1, StrandedKept DEF connection_vars, Stranded
<1>2. CASE Cancel(k)
    <2>1. Stranded' = Stranded \ {k}
        BY <1>1, <1>2 DEF Cancel
    <2> QED
        BY <1>2, <2>1, ReturnStep DEF Cancel
<1>3. CASE clone(k)
    <2>1. Stranded' = Stranded
        BY <1>1, <1>3 DEF clone
    <2>2. PICK other \in Callers : holding' = holding \union {other}
        BY <1>3 DEF clone
    <2>3. Contract!Clone(k, other)
        BY <1>3, <2>1, <2>2 DEF clone, Contract!Clone
    <2> QED
        BY <2>3 DEF Contract!Next
<1>4. CASE DropHandle(k)
    <2>1. Stranded' = Stranded
        BY <1>1, <1>4 DEF DropHandle
    <2> QED
        BY <1>4, <2>1 DEF DropHandle, Contract!Next, Contract!Drop
<1> QED
    BY <1>2, <1>3, <1>4, PostImplements DEF Caller, connect, send_message, get_channel_status, ping,
        join, set_wanted_channels, part

\* Of the loop's steps callers see the replies, the calls it hands to a stuck connection,
\* its end and its panic.
LEMMA ClientLoopImplements ==
    ASSUME SeenInv, ClientLoop
    PROVE  [Contract!Next]_(Contract!vars)
<1>1. ASSUME UNCHANGED <<phase, forwarder>> \/ \E c \in Unmade : Make(c)
      PROVE  \A c \in Connections : phase'[c] = "stuck" <=> phase[c] = "stuck"
    BY <1>1 DEF Make, Unmade, SeenInv, HandleInv, ConnectionsOK
<1>2. ASSUME NEW kinds \in SUBSET Kinds, Take(kinds), Answers(Head(commands).call), UNCHANGED <<requests, crashed>>,
             UNCHANGED <<phase, forwarder>> \/ \E c \in Unmade : Make(c)
      PROVE  [Contract!Next]_(Contract!vars)
    <2>1. /\ Head(commands) \in ClientLoopCommand /\ Head(commands).kind \in kinds
          /\ UNCHANGED <<holding, loop, calls>>
        BY <1>2, TakeType DEF SeenInv, HandleInv, Take
    <2>2. Head(commands).call \in Calls
        BY <2>1, CallerCall
    <2>3. Stranded' = Stranded \intersect waiting'
        BY <1>1, <1>2, <2>1, StrandedKept DEF Answers
    <2> QED
        BY <1>2, <2>1, <2>2, <2>3, AnswersStep
<1>3. CASE Connect \/ GetChannelStatus
    <2>1. {"Connect"} \in SUBSET Kinds /\ {"GetChannelStatus"} \in SUBSET Kinds
        BY DEF Kinds, AnsweredByLoop
    <2> QED
        BY <1>2, <1>3, <2>1 DEF Connect, GetChannelStatus, connection_vars
<1>4. CASE SendMessage
    <2>1. UNCHANGED <<holding, waiting, loop, crashed, calls>>
        BY <1>4 DEF SendMessage, Take
    <2>2. \A c \in Connections : requests[c] \subseteq requests'[c]
        BY <1>4 DEF SendMessage, SeenInv, HandleInv, ConnectionsOK
    <2>3. \A c \in Connections : phase'[c] = "stuck" <=> phase[c] = "stuck"
        BY <1>1, <1>4, UsesGrows DEF SendMessage
    <2>4. Stranded \subseteq Stranded' /\ Stranded' \subseteq waiting
        BY <2>1, <2>2, <2>3 DEF Stranded
    <2> QED
        BY <2>1, <2>4 DEF Contract!Next, Contract!Strand
<1>5. CASE MoveChannels \/ IncomingMessage
    <2>1. UNCHANGED <<holding, waiting, loop, crashed, calls, requests>>
        BY <1>5 DEF MoveChannels, IncomingMessage, Take
    <2>2. \A c \in Connections : phase'[c] = "stuck" <=> phase[c] = "stuck"
        <3>1. CASE MoveChannels
            BY <1>1, <3>1, UsesGrows DEF MoveChannels
        <3>2. CASE IncomingMessage
            BY <3>2, ReportedOpen DEF SeenInv
        <3> QED
            BY <1>5, <3>1, <3>2
    <2>3. Stranded' = Stranded \intersect waiting' /\ Stranded \subseteq waiting
        BY <2>1, <2>2, StrandedKept DEF Stranded
    <2> QED
        BY <2>1, <2>3 DEF Contract!vars
<1>6. CASE LoopEnds
    <2>1. waiting = {} /\ waiting' = {} /\ holding = {}
        BY <1>6 DEF LoopEnds, SeenInv, HandleInv, CallersOK, caller_vars
    <2>2. Stranded = {} /\ Stranded' = {}
        BY <2>1 DEF Stranded
    <2> QED
        BY <1>6, <2>1, <2>2 DEF LoopEnds, caller_vars, Contract!Next, Contract!End
<1>7. CASE SendPanics
    <2>1. crashed /\ waiting' \subseteq waiting
        BY <1>7 DEF SendPanics, Forsakes, SeenInv, FaultsTraced
    <2>2. Stranded' = {}
        BY <1>7 DEF SendPanics, PoolDropped, Released, Stranded
    <2> QED
        BY <1>7, <2>1, <2>2 DEF SendPanics, Contract!Next, Contract!Break
<1> QED
    BY <1>3, <1>4, <1>5, <1>6, <1>7 DEF ClientLoop

\* Of the others' steps they see the replies, the calls that get stuck and those that are
\* lost with a connection.
LEMMA ConnectionImplements ==
    ASSUME SeenInv, NEW c \in Connections, Forwarder(c) \/ Connection(c) \/ ConnectionAnswers(c)
    PROVE  [Contract!Next]_(Contract!vars)
<1>1. phase \in [Connections -> Phases] /\ requests \in [Connections -> SUBSET Calls]
    BY DEF SeenInv, HandleInv, ConnectionsOK
<1>2. CASE Forwarder(c) \/ ConnectionReceives(c) \/ ConnectionFails(c)
    <2>1. UNCHANGED <<holding, waiting, loop, crashed, calls, requests>>
        BY <1>2 DEF Forwarder, Forwards, ForwarderEnds, ConnectionReceives, ConnectionFails, caller_vars
    <2>2. \A n \in Connections : phase'[n] = "stuck" <=> phase[n] = "stuck"
        BY <1>1, <1>2 DEF Forwarder, Forwards, ForwarderEnds, ConnectionReceives, ConnectionFails
    <2>3. Stranded' = Stranded \intersect waiting' /\ Stranded \subseteq waiting
        BY <2>1, <2>2, StrandedKept DEF Stranded
    <2> QED
        BY <2>1, <2>3 DEF Contract!vars
<1>3. CASE ConnectionAnswers(c)
    <2>1. PICK call \in requests[c] : Answers(call)
        BY <1>3 DEF ConnectionAnswers
    <2>2. call \in Calls
        BY <1>1
    <2>3. Stranded' = Stranded \intersect waiting'
        BY <1>1, <1>3, <2>1, StrandedKept DEF ConnectionAnswers, Answers
    <2> QED
        BY <1>3, <2>1, <2>2, <2>3, AnswersStep DEF ConnectionAnswers
<1>4. CASE InitTaskEnds(c)
    <2>1. UNCHANGED <<holding, waiting, loop, crashed, calls, requests>>
        BY <1>4 DEF InitTaskEnds, caller_vars
    <2>2. \A n \in Connections : phase[n] = "stuck" => phase'[n] = "stuck"
        BY <1>1, <1>4 DEF InitTaskEnds
    <2>3. Stranded \subseteq Stranded' /\ Stranded' \subseteq waiting
        BY <2>1, <2>2 DEF Stranded
    <2> QED
        BY <2>1, <2>3 DEF Contract!Next, Contract!Strand
<1>5. CASE ConnectionPanics(c)
    <2>1. waiting' \subseteq waiting /\ loop = "running"
        BY <1>5 DEF ConnectionPanics, Forsakes, SeenInv, HandleInv, PoolServed, InPool
    <2>2. Stranded' = Stranded \intersect waiting'
        BY <1>1, <1>5, <2>1, StrandedKept DEF ConnectionPanics
    <2> QED
        BY <1>5, <2>1, <2>2 DEF ConnectionPanics, Contract!Next, Contract!ConnectionPanics, Contract!Lose
<1>6. CASE ConnectionEnds(c)
    <2>1. /\ UNCHANGED <<holding, loop, crashed, calls>>
          /\ waiting' = waiting \ Forsaken(requests[c])
        BY <1>6 DEF ConnectionEnds, Forsakes
    <2>2. \A n \in Connections : phase'[n] = "stuck" <=> phase[n] = "stuck"
        BY <1>1, <1>6 DEF ConnectionEnds
    <2>3. \A n \in Connections : phase[n] = "stuck" => requests'[n] = requests[n]
        BY <1>1, <1>6 DEF ConnectionEnds
    <2>4. Stranded' = Stranded \intersect waiting' /\ Stranded \subseteq waiting
        BY <2>1, <2>2, <2>3, StrandedKept DEF Stranded
    <2>5. CASE Forsaken(requests[c]) = {}
        BY <2>1, <2>4, <2>5 DEF Contract!vars
    <2>6. CASE Forsaken(requests[c]) # {}
        <3>1. crashed
            BY <1>6, <2>6, EndOwesNobody DEF SeenInv
        <3>2. loop # "running"
            BY <1>6, <2>6 DEF ConnectionEnds, Forsaken, SeenInv, HandleInv, PoolServed
        <3> QED
            BY <2>1, <2>4, <3>1, <3>2 DEF Contract!Next, Contract!FallOut, Contract!Lose
    <2> QED
        BY <2>5, <2>6
<1> QED
    BY <1>2, <1>3, <1>4, <1>5, <1>6 DEF Connection

\* The safety part of ImplementsContract (client/mod.rs:26-33): a reply comes only to one
\* who waits, a handle is not dropped under its call, no call is lost and the client
\* serves until its last handle is gone - unless the loop of a connection panics.
THEOREM ContractCorrect == Spec => Contract!Safe
<1>1. Init => Contract!Init
    BY HandleAssumption DEF Init, Stranded, Contract!Init
<1>2. SeenInv /\ [Next]_vars => [Contract!Next]_(Contract!vars)
    <2> SUFFICES ASSUME SeenInv, [Next]_vars PROVE [Contract!Next]_(Contract!vars)
        OBVIOUS
    <2>1. CASE UNCHANGED vars
        BY <2>1 DEF vars, caller_vars, connection_vars, Stranded, Contract!vars
    <2> QED
        BY <2>1, CallerImplements, ClientLoopImplements, ConnectionImplements DEF Next
<1>3. Spec => []SeenInv
    BY HandleInvHolds, FaultsTracedHolds, CallsMadeHolds, PTL DEF SeenInv
<1> QED
    BY <1>1, <1>2, <1>3, PTL DEF Spec, Contract!Safe
=============================================================================
