---------------------------- MODULE ClientHandle ----------------------------
(***************************************************************************)
(* The handles of a client, the channel to its loop, and how everything    *)
(* ends when the last handle is dropped: src/src/client/mod.rs with the    *)
(* loop, its forwarders and the drop of the pool in                        *)
(* src/src/client/event_loop.rs and pool_connection.rs.                    *)
(*                                                                         *)
(* The handles are the only strong references to client_loop_tx; the loop  *)
(* and the forwarders hold a Weak. Which connection a command uses is left *)
(* open here (ClientLoop decides it), as is what a connection does with a  *)
(* request but for answering it (ConnectionLoop).                          *)
(***************************************************************************)
EXTENDS Naturals, Sequences, FiniteSets, Functions

CONSTANTS Callers,
          Connections,  \* bound: connections that are ever made
          MaxCalls,     \* bound: commands of all callers
          MaxEvents     \* bound: messages each connection receives

ASSUME HandleAssumption ==
    IsFiniteSet(Callers) /\ Callers # {} /\ MaxCalls \in Nat /\ MaxEvents \in Nat

VARIABLES holding,   \* callers that hold a (clone of the) handle
          calls,     \* commands each caller has posted
          waiting,   \* callers that await the reply to their last command
          commands,  \* client_loop_rx
          loop,      \* the client loop: "running", "ended" or "panicked"
          phase,     \* of each connection: one of Pooled, then without a handle
          requests,  \* replies each connection owes: <<caller, call>>
          emitted,   \* messages each connection has received
          events,    \* events of each connection that are not forwarded yet
          forwarder, \* run_incoming_forward_task of each connection
          panicked,  \* history: an unwrap() on a channel failed
          crashed    \* history: the loop of a connection panicked

caller_vars == <<holding, calls, waiting>>
connection_vars == <<phase, requests, emitted, events, forwarder>>
vars == <<caller_vars, commands, loop, connection_vars, panicked, crashed>>

\* What a caller may post; the loop answers some commands itself, a connection
\* answers others, and the rest has no reply.
AnsweredByLoop == {"Connect", "GetChannelStatus"}
AnsweredByConnection == {"SendMessage", "Ping"}
Unanswered == {"Join", "Part", "SetWantedChannels"}
Kinds == AnsweredByLoop \union AnsweredByConnection \union Unanswered

Calls == Callers \X Nat
ClientLoopCommand ==
    [kind : Kinds, call : Calls] \union [kind : {"IncomingMessage"}, call : Connections \X {"Message", "StateClosed"}]
ReportsEnd(command) == command.kind = "IncomingMessage" /\ command.call[2] = "StateClosed"

\* Some phases of pooled connections report no end: "stuck", with an init task that has
\* panicked, and "panicked", with a loop that has. A handle is all the pool sees.
Pooled == {c \in Connections : phase[c] \in {"initializing", "open", "closed", "stuck", "panicked"}}
Unmade == {c \in Connections : phase[c] = "none"}
\* bound: there is a connection left to replace each one that has failed
Spare == Cardinality(Unmade) > Cardinality({c \in Connections : phase[c] = "closed"})

\* TwitchIRCClient::new
Init ==
    /\ \E k \in Callers : holding = {k}
    /\ calls = [k \in Callers |-> 0]
    /\ waiting = {}
    /\ commands = <<>>
    /\ loop = "running"
    /\ phase = [c \in Connections |-> "none"]
    /\ requests = [c \in Connections |-> {}]
    /\ emitted = [c \in Connections |-> 0]
    /\ events = [c \in Connections |-> <<>>]
    /\ forwarder = [c \in Connections |-> "none"]
    /\ panicked = FALSE /\ crashed = FALSE

---------------------------------------------------------------------------
(* The callers. A call awaits its reply or not; send().unwrap() panics     *)
(* when the loop has dropped its receiver.                                 *)

Post(k, kind, awaited) ==
    /\ k \in holding \ waiting /\ FoldFunction(+, 0, calls) < MaxCalls
    /\ calls' = [calls EXCEPT ![k] = @ + 1]
    /\ \/ /\ loop = "running"
          /\ commands' = Append(commands, [kind |-> kind, call |-> <<k, calls[k] + 1>>])
          /\ waiting' = IF awaited THEN waiting \union {k} ELSE waiting
          /\ panicked' = panicked
       \/ loop # "running" /\ panicked' = TRUE /\ UNCHANGED <<commands, waiting>>
    /\ UNCHANGED <<holding, loop, connection_vars, crashed>>

connect(k) == Post(k, "Connect", TRUE)
send_message(k) == Post(k, "SendMessage", TRUE)
get_channel_status(k) == Post(k, "GetChannelStatus", TRUE)
ping(k) == Post(k, "Ping", TRUE)
\* join and set_wanted_channels only post valid names (IrcMessage has validate_login).
join(k) == Post(k, "Join", FALSE)
set_wanted_channels(k) == Post(k, "SetWantedChannels", FALSE)
part(k) == Post(k, "Part", FALSE)

\* The caller drops the future of its call, e.g. after a timeout.
Cancel(k) ==
    /\ k \in waiting
    /\ waiting' = waiting \ {k}
    /\ UNCHANGED <<holding, calls, commands, loop, connection_vars, panicked, crashed>>

clone(k) ==
    /\ k \in holding
    /\ \E other \in Callers \ holding : holding' = holding \union {other}
    /\ UNCHANGED <<calls, waiting, commands, loop, connection_vars, panicked, crashed>>

\* Futures borrow the handle: one that a call waits on cannot be dropped.
DropHandle(k) ==
    /\ k \in holding \ waiting
    /\ holding' = holding \ {k}
    /\ UNCHANGED <<calls, waiting, commands, loop, connection_vars, panicked, crashed>>

\* The call is answered, unless its caller has given it up.
Answers(call) == waiting' = IF calls[call[1]] = call[2] THEN waiting \ {call[1]} ELSE waiting

\* The reply senders of these calls are dropped: return_rx.await.unwrap() panics in the
\* callers that wait for one.
Forsaken(owed) == {k \in waiting : <<k, calls[k]>> \in owed}
Forsakes(owed) ==
    /\ waiting' = waiting \ Forsaken(owed)
    /\ panicked' = (panicked \/ Forsaken(owed) # {})

---------------------------------------------------------------------------
(* The client loop.                                                        *)

Take(kinds) ==
    /\ loop = "running"
    /\ commands # <<>> /\ Head(commands).kind \in kinds
    /\ commands' = Tail(commands)
    /\ UNCHANGED <<holding, calls, loop>>

\* make_new_connection spawns the forwarder with the connection.
Make(c) ==
    /\ phase' = [phase EXCEPT ![c] = "initializing"]
    /\ forwarder' = [forwarder EXCEPT ![c] = "running"]

\* A connection of the pool whose loop takes the send, or a new one.
Uses(c) ==
    \/ c \in Pooled /\ phase[c] # "panicked" /\ UNCHANGED <<phase, forwarder>>
    \/ c \in Unmade /\ (Pooled = {} \/ Spare) /\ Make(c)

\* mutant: connect() is answered only when it makes a connection
ConnectsOnce ==
    /\ Take({"Connect"})
    /\ IF Pooled = {} THEN \E c \in Unmade : Make(c) /\ Answers(Head(commands).call)
                      ELSE UNCHANGED <<phase, forwarder, waiting>>
    /\ UNCHANGED <<requests, emitted, events, panicked, crashed>>

Connect ==
    /\ Take({"Connect"})
    /\ IF Pooled = {} THEN \E c \in Unmade : Make(c) ELSE UNCHANGED <<phase, forwarder>>
    /\ Answers(Head(commands).call)
    /\ UNCHANGED <<requests, emitted, events, panicked, crashed>>

GetChannelStatus ==
    /\ Take({"GetChannelStatus"})
    /\ Answers(Head(commands).call)
    /\ UNCHANGED <<connection_vars, panicked, crashed>>

\* The reply sender goes to the connection with the message.
SendMessage ==
    /\ Take(AnsweredByConnection)
    /\ \E c \in Connections :
        /\ Uses(c)
        /\ requests' = [requests EXCEPT ![c] = @ \union {Head(commands).call}]
    /\ UNCHANGED <<waiting, emitted, events, panicked, crashed>>

\* join, part and set_wanted_channels, also after the last handle is gone.
MoveChannels ==
    /\ Take(Unanswered)
    /\ UNCHANGED <<phase, forwarder>> \/ \E c \in Connections : Uses(c)
    /\ UNCHANGED <<waiting, requests, emitted, events, panicked, crashed>>

\* Without the pool connection nobody holds the Connection, whose loop then ends after
\* what is queued, the report of its init task perhaps; its drop also tells the forwarder
\* to stop.
Released(p) ==
    CASE p \in {"initializing", "open"} -> "abandoned"
      [] p = "stuck" -> "unopened"
      [] p \in {"closed", "panicked"} -> "finishing"
      [] OTHER -> p
Told(f) == IF f = "running" THEN "told" ELSE f
PoolDropped ==
    /\ phase' = [c \in Connections |-> Released(phase[c])]
    /\ forwarder' = [c \in Connections |-> Told(forwarder[c])]

\* A message goes to the user; a connection that closed leaves the pool and may be
\* replaced by others.
IncomingMessage ==
    /\ Take({"IncomingMessage"})
    /\ LET c == Head(commands).call[1] IN
        IF Head(commands).call[2] = "Message"
        THEN UNCHANGED <<phase, forwarder>>
        ELSE \E new \in {{}} \union {{n} : n \in Unmade} :
                /\ phase' = [n \in Connections |-> IF n \in new THEN "initializing"
                                ELSE IF n = c THEN Released(phase[n]) ELSE phase[n]]
                /\ forwarder' = [n \in Connections |->
                                    IF n \in new THEN "running"
                                    ELSE IF n = c THEN Told(forwarder[n]) ELSE forwarder[n]]
    /\ UNCHANGED <<waiting, requests, emitted, events, panicked, crashed>>

\* mutant: something else holds the connections too
EndsWithoutDrop ==
    /\ loop = "running" /\ commands = <<>> /\ holding = {}
    /\ loop' = "ended"
    /\ UNCHANGED <<caller_vars, commands, connection_vars, panicked, crashed>>

\* recv() gives None when no handle is left and the queue is empty: the worker is
\* dropped with its pool.
LoopEnds ==
    /\ loop = "running" /\ commands = <<>> /\ holding = {}
    /\ loop' = "ended"
    /\ PoolDropped
    /\ UNCHANGED <<caller_vars, commands, requests, emitted, events, panicked, crashed>>

\* connection_loop_tx.send(..).unwrap() on a connection that has panicked, in
\* send_message, ping, join and part, also for the joins after a StateClosed: the loop
\* panics, and all that it holds is dropped, with the replies of the queued commands.
SendPanics ==
    /\ loop = "running" /\ commands # <<>>
    /\ Head(commands).kind \in AnsweredByConnection \union Unanswered \/ ReportsEnd(Head(commands))
    /\ \E c \in Connections : phase[c] = "panicked"
    /\ loop' = "panicked"
    /\ commands' = <<>>
    /\ Forsakes({commands[i].call : i \in {j \in DOMAIN commands : commands[j].kind # "IncomingMessage"}})
    /\ PoolDropped
    /\ UNCHANGED <<holding, calls, requests, emitted, events, crashed>>

---------------------------------------------------------------------------
(* The forwarders: kill signal and events race in the select!.             *)

\* send().unwrap() in a forwarder: without a loop its task panics.
Hands(command, c) ==
    \/ /\ loop = "running"
       /\ commands' = Append(commands, command)
       /\ UNCHANGED <<forwarder, panicked>>
    \/ /\ loop # "running"
       /\ forwarder' = [forwarder EXCEPT ![c] = "ended"] /\ panicked' = TRUE
       /\ UNCHANGED commands

\* mutant: the event is sent without looking for a handle
ForwardsBlindly(c) ==
    /\ forwarder[c] \in {"running", "told"} /\ events[c] # <<>>
    /\ events' = [events EXCEPT ![c] = Tail(@)]
    /\ Hands([kind |-> "IncomingMessage", call |-> <<c, Head(events[c])>>], c)
    /\ UNCHANGED <<caller_vars, loop, phase, requests, emitted, crashed>>

Forwards(c) ==
    /\ forwarder[c] \in {"running", "told"} /\ events[c] # <<>> /\ holding # {}
    /\ events' = [events EXCEPT ![c] = Tail(@)]
    /\ Hands([kind |-> "IncomingMessage", call |-> <<c, Head(events[c])>>], c)
    /\ UNCHANGED <<caller_vars, loop, phase, requests, emitted, crashed>>

\* Killed, no handle to upgrade, or the connection has dropped its end.
ForwarderEnds(c) ==
    /\ \/ forwarder[c] = "told"
       \/ forwarder[c] = "running" /\ events[c] # <<>> /\ holding = {}
       \/ forwarder[c] = "running" /\ events[c] = <<>> /\ phase[c] \in {"panicked", "ended"}
    /\ forwarder' = [forwarder EXCEPT ![c] = "ended"]
    /\ UNCHANGED <<caller_vars, commands, loop, phase, requests, emitted, events, panicked, crashed>>

---------------------------------------------------------------------------
(* The connections, as ConnectionContract has them.                        *)

\* A request is written, refused or failed: each way its caller is told. Nothing is
\* before the init task has reported.
ConnectionAnswers(c) ==
    /\ phase[c] \in {"open", "closed", "panicked", "abandoned", "finishing"}
    /\ \E call \in requests[c] :
        /\ Answers(call)
        /\ requests' = [requests EXCEPT ![c] = @ \ {call}]
    /\ UNCHANGED <<holding, calls, commands, loop, phase, emitted, events, forwarder, panicked, crashed>>

ConnectionReceives(c) ==
    /\ phase[c] = "open" /\ emitted[c] < MaxEvents
    /\ emitted' = [emitted EXCEPT ![c] = @ + 1]
    /\ events' = [events EXCEPT ![c] = Append(@, "Message")]
    /\ UNCHANGED <<caller_vars, commands, loop, phase, requests, forwarder, panicked, crashed>>

\* The init task reports a transport, or it panics in get_credentials and never reports.
InitTaskEnds(c) ==
    /\ phase[c] = "initializing"
    /\ \E ended \in {"open", "stuck"} : phase' = [phase EXCEPT ![c] = ended]
    /\ UNCHANGED <<caller_vars, commands, loop, requests, emitted, events, forwarder, panicked, crashed>>

ConnectionFails(c) ==
    /\ phase[c] \in {"initializing", "open"} /\ Spare
    /\ phase' = [phase EXCEPT ![c] = "closed"]
    /\ events' = [events EXCEPT ![c] = Append(@, "StateClosed")]
    /\ UNCHANGED <<caller_vars, commands, loop, requests, emitted, forwarder, panicked, crashed>>

\* ServerMessage::try_from panics in on_incoming_message. The replies in the queue of the
\* loop are lost, those with the outgoing task are not; no StateClosed is sent.
ConnectionPanics(c) ==
    /\ phase[c] = "open"
    /\ phase' = [phase EXCEPT ![c] = "panicked"]
    /\ \E lost \in SUBSET requests[c] :
        /\ requests' = [requests EXCEPT ![c] = @ \ lost]
        /\ Forsakes(lost)
    /\ crashed' = TRUE
    /\ UNCHANGED <<holding, calls, commands, loop, emitted, events, forwarder>>

\* The loop of a connection whose handle is gone: one that had closed has refused what was
\* left in its queue, any other ends with what it owes.
ConnectionEnds(c) ==
    /\ phase[c] \in {"abandoned", "unopened"} \/ (phase[c] = "finishing" /\ requests[c] = {})
    /\ phase' = [phase EXCEPT ![c] = "ended"]
    /\ requests' = [requests EXCEPT ![c] = {}]
    /\ Forsakes(requests[c])
    /\ UNCHANGED <<holding, calls, commands, loop, emitted, events, forwarder, crashed>>

Caller(k) ==
    \/ connect(k) \/ send_message(k) \/ get_channel_status(k) \/ ping(k)
    \/ join(k) \/ set_wanted_channels(k) \/ part(k)
    \/ Cancel(k) \/ clone(k) \/ DropHandle(k)
ClientLoop ==
    Connect \/ GetChannelStatus \/ SendMessage \/ MoveChannels \/ IncomingMessage \/ LoopEnds \/ SendPanics
Forwarder(c) == Forwards(c) \/ ForwarderEnds(c)
Connection(c) ==
    \/ ConnectionReceives(c) \/ InitTaskEnds(c) \/ ConnectionFails(c)
    \/ ConnectionPanics(c) \/ ConnectionEnds(c)

Over == loop # "running" /\ \A c \in Connections : phase[c] \in {"none", "ended"} /\ forwarder[c] \in {"none", "ended"}

Next ==
    \/ \E k \in Callers : Caller(k)
    \/ ClientLoop
    \/ \E c \in Connections : Forwarder(c) \/ Connection(c) \/ ConnectionAnswers(c)
    \/ loop # "running" /\ UNCHANGED vars

Spec == Init /\ [][Next]_vars

\* The runtime runs each task; an init task reports, or panics, and then the connection
\* answers its requests. Callers may keep their handles for ever.
FairSpec ==
    /\ Spec
    /\ WF_vars(ClientLoop)
    /\ \A c \in Connections :
        /\ WF_vars(Forwarder(c)) /\ WF_vars(ConnectionAnswers(c)) /\ WF_vars(ConnectionEnds(c))
        /\ WF_vars(InitTaskEnds(c) \/ (phase[c] = "initializing" /\ ConnectionFails(c)))

---------------------------------------------------------------------------
(* Properties.                                                             *)

\* Types; futures borrow their handle, and a forwarder belongs to a connection.
TypeOK ==
    /\ holding \subseteq Callers /\ waiting \subseteq holding
    /\ calls \in [Callers -> Nat]
    /\ commands \in Seq(ClientLoopCommand)
    /\ loop \in {"running", "ended", "panicked"}
    /\ phase \in [Connections ->
            {"none", "initializing", "open", "closed", "stuck", "panicked",
             "abandoned", "unopened", "finishing", "ended"}]
    /\ requests \in [Connections -> SUBSET Calls]
    /\ emitted \in [Connections -> 0..MaxEvents]
    /\ events \in [Connections -> Seq({"Message", "StateClosed"})]
    /\ forwarder \in [Connections -> {"none", "running", "told", "ended"}]
    /\ panicked \in BOOLEAN /\ crashed \in BOOLEAN
    /\ \A c \in Connections : forwarder[c] = "none" <=> phase[c] = "none"

\* An unwrap() on a send to the client loop or on a reply (client/mod.rs:96-99, 111-114,
\* event_loop.rs:196) fails only after the loop of a connection has panicked: until then
\* the loop lives as long as a handle does, forwarders send to a loop that lives, and no
\* reply sender is dropped under its caller, whoever cancels, clones and drops.
UnwrapsFailOnlyAfterCrash == panicked => crashed

\* After the last handle is dropped, or the client loop has panicked, the client loop, all
\* forwarders and all connection loops come to their end: none of them keeps another
\* alive, a stuck or panicked one included (client/mod.rs:26-33).
EverythingEnds == (holding = {} \/ loop # "running") ~> Over

\* The comment "unwrap: ClientLoopWorker should not die before all sender handles have
\* been dropped" (client/mod.rs:98, 113), which the panic of a connection's loop breaks.
LoopOutlivesHandles == holding # {} => loop = "running"

\* The callers whose requests are with a connection that never settles.
Stranded == {k \in waiting : \E c \in Connections : phase[c] = "stuck" /\ <<k, calls[k]>> \in requests[c]}

\* The client seen by its callers.
Contract == INSTANCE ClientContract WITH
    asking <- waiting, stranded <- Stranded, serving <- (loop = "running")

\* Callers see ClientContract: until a connection panics the client ends after its last
\* handle and never before, and no call is lost; each call comes back that is not with a
\* connection whose init task has panicked.
ImplementsContract == Contract!Spec
=============================================================================
