----------------------------- MODULE ClientLoop -----------------------------
(***************************************************************************)
(* The connection pool behind every `TwitchIRCClient`:                     *)
(* src/src/client/event_loop.rs and src/src/client/pool_connection.rs.     *)
(*                                                                         *)
(* `ClientLoopWorker` takes one command at a time from `client_loop_rx`    *)
(* and is the only owner of the pool.  The commands come from the callers  *)
(* and from one forwarder per connection; each forwarder is FIFO, and how  *)
(* their commands and the callers' are merged is arbitrary, so the model   *)
(* keeps one queue per connection and picks the next command from any      *)
(* source.  A connection is what `ConnectionContract` promises; the        *)
(* server behind it answers JOIN and PART and sends whispers.              *)
(*                                                                         *)
(* Two handlers loop over channels in the arbitrary order of a HashSet.    *)
(* Their remaining iterations are kept in `work`: as long as it is not     *)
(* empty no other command is taken, so each handler runs to its end, while *)
(* connections and server, which are other tasks, may move in between.     *)
(*                                                                         *)
(* Every send to a connection ends in .unwrap(), and so does every lookup  *)
(* of the source of an event.  A panic ends the worker and drops its pool; *)
(* the model stops there, and ClientHandle has what follows.               *)
(***************************************************************************)
EXTENDS Naturals, Sequences, FiniteSets, SequencesExt

CONSTANTS
    Channels,
    MaxChannelsPerConnection,  \* config.max_channels_per_connection
    MaxConnections,  \* bound: how many connections are ever made
    MaxCommands,     \* bound: how many commands the callers issue
    MaxWhispers,     \* bound: how many whispers the server sends
    MaxCloses,       \* bound: how many connections fail
    MaxPanics,       \* bound: how many connections have their loop or login panic
    MaxRefusals      \* bound: how many JOINs the server ignores or undoes

ASSUME PoolAssumption ==
    /\ IsFiniteSet(Channels)
    /\ {MaxChannelsPerConnection, MaxConnections, MaxCommands, MaxWhispers,
        MaxCloses, MaxPanics, MaxRefusals} \subseteq Nat

Ids == 0..(MaxConnections - 1)
NoConnection == MaxConnections
Whispers == 1..MaxWhispers

VARIABLES
    connections,                    \* the VecDeque, as the ids in their order
    next_connection_id,
    current_whisper_connection_id,
    wanted_channels,                \* of each connection, empty once it is removed
    server_channels,                \* of each connection
    reported_state,                 \* of each connection
    work,                           \* what the current handler still has to do
    gauges,                         \* the metrics `connections` and `channels`
    connections_created,            \* the counter metric of this name
    connections_failed,             \* likewise
    panicked,                       \* did an unwrap() fail: "no", or at a "lookup" or "send"
    forwarded,                      \* how often each whisper reached the user
    phase,                          \* of each connection, as in ConnectionContract
    outgoing,                       \* JOIN and PART on their way to the server
    incoming,                       \* events on their way to the client loop
    members,                        \* channels the server has each connection in
    asked,                          \* history: the channels the callers asked for
    commands, whispers, closes, panics, refusals  \* how much of each bound is used

worker_vars  == <<connections, next_connection_id, wanted_channels, work>>
whisper_vars == <<current_whisper_connection_id, forwarded>>
report_vars  == <<server_channels, reported_state>>
metric_vars  == <<gauges, connections_created, connections_failed>>
bound_vars   == <<commands, whispers, closes, panics, refusals>>
vars == <<worker_vars, whisper_vars, report_vars, metric_vars, panicked, phase,
          outgoing, incoming, members, asked, bound_vars>>

-----------------------------------------------------------------------------
(* Vocabulary *)

Message(kind, arg) == [kind |-> kind, arg |-> arg]

Live == ToSet(connections)

NoWork == [parts |-> {}, joins |-> {}, closing |-> NoConnection]
Idle == work = NoWork /\ panicked = "no"

\* the connection that `position` finds: the first of the deque that is in S
FirstOf(S) ==
    connections[CHOOSE i \in DOMAIN connections :
                    /\ connections[i] \in S
                    /\ \A j \in 1..(i - 1) : connections[j] \notin S]

\* mutant: the connection at the front is removed, whichever has failed
WithoutFront(c) == Tail(connections)

Without(c) == RemoveAt(connections, CHOOSE i \in DOMAIN connections : connections[i] = c)

\* the id make_new_connection would assign
Fresh == next_connection_id

\* mutant: a connection that was found is not put back
TakeOut(c) ==
    IF c = Fresh
    THEN /\ Fresh < MaxConnections
         /\ connections' = Append(connections, c)
         /\ next_connection_id' = Fresh + 1
         /\ phase' = [phase EXCEPT ![c] = "Initializing"]
    ELSE /\ connections' = Without(c)
         /\ UNCHANGED <<next_connection_id, phase>>

\* Takes connection c out of the deque, or makes it when c is fresh, and pushes
\* it to the back.
Requeue(c) ==
    IF c = Fresh
    THEN /\ Fresh < MaxConnections
         /\ connections' = Append(connections, c)
         /\ next_connection_id' = Fresh + 1
         /\ phase' = [phase EXCEPT ![c] = "Initializing"]
    ELSE /\ connections' = Append(Without(c), c)
         /\ UNCHANGED <<next_connection_id, phase>>

\* mutant: what is sent before the connection opens is not queued
SendIfOpen(c, message) ==
    outgoing' = IF phase[c] = "Open" THEN [outgoing EXCEPT ![c] = Append(@, message)]
                ELSE outgoing

\* Hands a message to connection c; one that is closed drops it, and SendPanics has
\* the one whose loop is gone.
SendTo(c, message) ==
    /\ phase[c] # "Panicked"
    /\ outgoing' = IF phase[c] = "Closed" THEN outgoing
                   ELSE [outgoing EXCEPT ![c] = Append(@, message)]

\* the gauges of a pool whose connections, wanted_channels, server_channels and
\* reported_state are these
Gauges(conns, wanted, server, reported) ==
    [initializing |-> Cardinality({c \in ToSet(conns) : reported[c] = "Initializing"}),
     open   |-> Cardinality({c \in ToSet(conns) : reported[c] = "Open"}),
     wanted |-> Cardinality({p \in ToSet(conns) \X Channels : p[2] \in wanted[p[1]]}),
     server |-> Cardinality({p \in ToSet(conns) \X Channels : p[2] \in server[p[1]]})]

update_metrics ==
    gauges' = Gauges(connections', wanted_channels', server_channels', reported_state')

Init ==
    /\ connections = <<>>
    /\ next_connection_id = 0
    /\ current_whisper_connection_id = NoConnection
    /\ wanted_channels = [c \in Ids |-> {}]
    /\ server_channels = [c \in Ids |-> {}]
    /\ reported_state = [c \in Ids |-> "Initializing"]
    /\ work = NoWork
    /\ gauges = [initializing |-> 0, open |-> 0, wanted |-> 0, server |-> 0]
    /\ connections_created = 0
    /\ connections_failed = 0
    /\ panicked = "no"
    /\ forwarded = [w \in Whispers |-> 0]
    /\ phase = [c \in Ids |-> "None"]
    /\ outgoing = [c \in Ids |-> <<>>]
    /\ incoming = [c \in Ids |-> <<>>]
    /\ members = [c \in Ids |-> {}]
    /\ asked = {}
    /\ commands = 0 /\ whispers = 0 /\ closes = 0 /\ panics = 0 /\ refusals = 0

-----------------------------------------------------------------------------
(* Methods of the worker *)

Wanting(ch) == {c \in Live : ch \in wanted_channels[c]}

\* mutant: off by one
UpToLimit == {c \in Live : Cardinality(wanted_channels[c]) <= MaxChannelsPerConnection}

BelowLimit == {c \in Live : Cardinality(wanted_channels[c]) < MaxChannelsPerConnection}

get_channel_status(ch) ==
    <<\E c \in Live : ch \in wanted_channels[c], \E c \in Live : ch \in server_channels[c]>>

Confirmed(ch) ==
    \E c \in Live : ch \in wanted_channels[c] /\ ch \in server_channels[c]

\* mutant: a JOIN that is still unconfirmed is repeated elsewhere
AnyTarget(ch) == IF BelowLimit # {} THEN FirstOf(BelowLimit) ELSE Fresh

\* A connection that already tried to join the channel, else one with room, else
\* a new one.
JoinTarget(ch) ==
    IF Wanting(ch) # {} THEN FirstOf(Wanting(ch))
    ELSE IF BelowLimit # {} THEN FirstOf(BelowLimit)
    ELSE Fresh

join(ch) ==
    IF Confirmed(ch)
    THEN UNCHANGED <<connections, next_connection_id, wanted_channels, gauges, phase, outgoing>>
    ELSE LET c == JoinTarget(ch) IN
         /\ Requeue(c)
         /\ SendTo(c, Message("JOIN", ch))
         /\ wanted_channels' = [wanted_channels EXCEPT ![c] = @ \union {ch}]
         /\ update_metrics

\* mutant: no PART for a channel the server has not confirmed
PartConfirmed(ch) ==
    IF Wanting(ch) = {}
    THEN UNCHANGED <<connections, next_connection_id, wanted_channels, gauges, phase, outgoing>>
    ELSE LET c == FirstOf(Wanting(ch)) IN
         /\ Requeue(c)
         /\ IF ch \in server_channels[c] THEN SendTo(c, Message("PART", ch))
                                         ELSE UNCHANGED outgoing
         /\ wanted_channels' = [wanted_channels EXCEPT ![c] = @ \ {ch}]
         /\ update_metrics

part(ch) ==
    IF Wanting(ch) = {}
    THEN UNCHANGED <<connections, next_connection_id, wanted_channels, gauges, phase, outgoing>>
    ELSE LET c == FirstOf(Wanting(ch)) IN
         /\ Requeue(c)
         /\ SendTo(c, Message("PART", ch))
         /\ wanted_channels' = [wanted_channels EXCEPT ![c] = @ \ {ch}]
         /\ update_metrics

-----------------------------------------------------------------------------
(* Commands of the callers *)

Command ==
    /\ Idle
    /\ commands < MaxCommands
    /\ commands' = commands + 1
    /\ UNCHANGED <<whisper_vars, report_vars, connections_failed, panicked, incoming,
                   members, whispers, closes, panics, refusals>>

Connect ==
    /\ Command
    /\ UNCHANGED <<wanted_channels, work, connections_created, outgoing, asked>>
    /\ IF connections = <<>>
       THEN Requeue(Fresh) /\ update_metrics
       ELSE UNCHANGED <<connections, next_connection_id, phase, gauges>>

\* `busy` is what not_busy() says of each connection, which depends on the times of
\* the messages sent before; `ping` is the same with a PING.
SendMessage(busy) ==
    /\ Command
    /\ UNCHANGED <<wanted_channels, work, outgoing, asked>>
    /\ LET c == IF Live \subseteq busy THEN Fresh ELSE FirstOf(Live \ busy) IN
       Requeue(c) /\ phase[c] # "Panicked"
    /\ connections_created' = connections_created + 1
    /\ update_metrics

Join(ch) ==
    /\ Command
    /\ asked' = asked \union {ch}
    /\ join(ch)
    /\ UNCHANGED <<work, connections_created>>

Part(ch) ==
    /\ Command
    /\ asked' = asked \ {ch}
    /\ part(ch)
    /\ UNCHANGED <<work, connections_created>>

\* First every wanted channel outside the set is parted, then all of it is joined.
SetWantedChannels(S) ==
    /\ Command
    /\ asked' = S
    /\ work' = [NoWork EXCEPT !.parts = (UNION {wanted_channels[c] : c \in Live}) \ S,
                              !.joins = S]
    /\ UNCHANGED <<connections, next_connection_id, wanted_channels, gauges,
                   connections_created, phase, outgoing>>

-----------------------------------------------------------------------------
(* Iterations of the handlers that loop over channels *)

Working ==
    /\ panicked = "no"
    /\ UNCHANGED <<report_vars, connections_created, connections_failed, panicked,
                   incoming, members, asked, bound_vars>>

PartNext(ch) ==
    /\ Working
    /\ ch \in work.parts
    /\ work' = [work EXCEPT !.parts = @ \ {ch}]
    /\ part(ch)
    /\ UNCHANGED whisper_vars

JoinNext(ch) ==
    /\ Working
    /\ work.parts = {}
    /\ ch \in work.joins
    /\ work' = [work EXCEPT !.joins = @ \ {ch}]
    /\ join(ch)
    /\ UNCHANGED whisper_vars

\* mutant: the role stays with the connection that is gone
KeepWhisperRole == UNCHANGED current_whisper_connection_id

\* the closed connection loses the role of whisper connection
ReleaseWhisperRole ==
    current_whisper_connection_id' =
        IF current_whisper_connection_id = work.closing THEN NoConnection
        ELSE current_whisper_connection_id

\* mutant: reconnects for channels only
StayDisconnected ==
    UNCHANGED <<connections, next_connection_id, wanted_channels, phase, gauges>>

\* mutant: the replacement is not counted
StayConnectedUncounted ==
    /\ IF connections = <<>> THEN Requeue(Fresh)
       ELSE UNCHANGED <<connections, next_connection_id, phase>>
    /\ UNCHANGED <<wanted_channels, gauges>>

\* an empty pool gets a new connection
StayConnected ==
    IF connections = <<>>
    THEN Requeue(Fresh) /\ UNCHANGED wanted_channels /\ update_metrics
    ELSE UNCHANGED <<connections, next_connection_id, wanted_channels, phase, gauges>>

\* The rest of the StateClosed handler, once the channels are rejoined.
FinishClosed ==
    /\ Working
    /\ work.parts = {} /\ work.joins = {} /\ work.closing # NoConnection
    /\ work' = NoWork
    /\ ReleaseWhisperRole
    /\ StayConnected
    /\ UNCHANGED <<forwarded, outgoing>>

\* May the next send be to connection c?  A command yet to come picks any of the pool,
\* by not_busy(), by its channel or by its place in the deque.
SendsTo(c) ==
    \/ Idle /\ commands < MaxCommands /\ c \in Live
    \/ \E ch \in work.parts : Wanting(ch) # {} /\ c = FirstOf(Wanting(ch))
    \/ \E ch \in work.joins : work.parts = {} /\ ~Confirmed(ch) /\ c = JoinTarget(ch)

\* connection_loop_tx.send(..).unwrap() of send_message, join and part, to a
\* connection whose loop has panicked.
SendPanics(c) ==
    /\ panicked = "no"
    /\ phase[c] = "Panicked"
    /\ SendsTo(c)
    /\ panicked' = "send"
    /\ UNCHANGED <<worker_vars, whisper_vars, report_vars, metric_vars, phase, outgoing,
                   incoming, members, asked, bound_vars>>

-----------------------------------------------------------------------------
(* Events of the connections *)

Receive(c, kind, arg) ==
    /\ Idle
    /\ incoming[c] # <<>>
    /\ Head(incoming[c]) = Message(kind, arg)
    /\ incoming' = [incoming EXCEPT ![c] = Tail(@)]
    /\ UNCHANGED <<next_connection_id, connections_created, phase, outgoing, members,
                   asked, bound_vars>>

\* every lookup of the source connection ends in .unwrap()
Unwraps(c) ==
    /\ c \notin Live
    /\ panicked' = "lookup"
    /\ UNCHANGED <<connections, wanted_channels, work, whisper_vars, report_vars,
                   gauges, connections_failed>>

OnServerJoin(c, ch) ==
    /\ Receive(c, "JOIN", ch)
    /\ \/ Unwraps(c)
       \/ /\ c \in Live
          /\ server_channels' = [server_channels EXCEPT ![c] = @ \union {ch}]
          /\ UNCHANGED <<connections, wanted_channels, reported_state>>
          /\ update_metrics
          /\ UNCHANGED <<work, whisper_vars, connections_failed, panicked>>

\* mutant: a removal by the server is taken for a late echo
OnServerPartUnwanted(c, ch) ==
    /\ Receive(c, "PART", ch)
    /\ \/ Unwraps(c)
       \/ /\ c \in Live
          /\ server_channels' = [server_channels EXCEPT
                                    ![c] = IF ch \in wanted_channels[c] THEN @ ELSE @ \ {ch}]
          /\ UNCHANGED <<connections, wanted_channels, reported_state>>
          /\ update_metrics
          /\ UNCHANGED <<work, whisper_vars, connections_failed, panicked>>

OnServerPart(c, ch) ==
    /\ Receive(c, "PART", ch)
    /\ \/ Unwraps(c)
       \/ /\ c \in Live
          /\ server_channels' = [server_channels EXCEPT ![c] = @ \ {ch}]
          /\ UNCHANGED <<connections, wanted_channels, reported_state>>
          /\ update_metrics
          /\ UNCHANGED <<work, whisper_vars, connections_failed, panicked>>

\* mutant: whispers of every connection are forwarded
OnAnyWhisper(c, w) ==
    /\ Receive(c, "WHISPER", w)
    /\ current_whisper_connection_id' = c
    /\ forwarded' = [forwarded EXCEPT ![w] = @ + 1]
    /\ UNCHANGED <<connections, wanted_channels, work, report_vars, gauges,
                   connections_failed, panicked>>

\* A whisper is forwarded from the current whisper connection; without one, its
\* source becomes it.
OnWhisper(c, w) ==
    /\ Receive(c, "WHISPER", w)
    /\ IF current_whisper_connection_id \in {NoConnection, c}
       THEN /\ current_whisper_connection_id' = c
            /\ forwarded' = [forwarded EXCEPT ![w] = @ + 1]
       ELSE UNCHANGED whisper_vars
    /\ UNCHANGED <<connections, wanted_channels, work, report_vars, gauges,
                   connections_failed, panicked>>

OnStateOpen(c) ==
    /\ Receive(c, "StateOpen", "None")
    /\ \/ Unwraps(c)
       \/ /\ c \in Live
          /\ reported_state' = [reported_state EXCEPT ![c] = "Open"]
          /\ UNCHANGED <<connections, wanted_channels, server_channels>>
          /\ update_metrics
          /\ UNCHANGED <<work, whisper_vars, connections_failed, panicked>>

\* mutant: only channels that were joined are rejoined
RejoinsConfirmed(c) ==
    /\ Receive(c, "StateClosed", "None")
    /\ \/ Unwraps(c)
       \/ /\ c \in Live
          /\ connections' = Without(c)
          /\ wanted_channels' = [wanted_channels EXCEPT ![c] = {}]
          /\ UNCHANGED report_vars
          /\ connections_failed' = connections_failed + 1
          /\ update_metrics
          /\ work' = [NoWork EXCEPT !.joins = wanted_channels[c] \cap server_channels[c],
                                    !.closing = c]
          /\ UNCHANGED <<whisper_vars, panicked>>

\* The connection leaves the pool; its channels are rejoined by JoinNext and the
\* handler ends in FinishClosed.
OnStateClosed(c) ==
    /\ Receive(c, "StateClosed", "None")
    /\ \/ Unwraps(c)
       \/ /\ c \in Live
          /\ connections' = Without(c)
          /\ wanted_channels' = [wanted_channels EXCEPT ![c] = {}]
          /\ UNCHANGED report_vars
          /\ connections_failed' = connections_failed + 1
          /\ update_metrics
          /\ work' = [NoWork EXCEPT !.joins = wanted_channels[c], !.closing = c]
          /\ UNCHANGED <<whisper_vars, panicked>>

-----------------------------------------------------------------------------
(* Connections and server *)

Peer ==
    /\ panicked = "no"
    /\ UNCHANGED <<worker_vars, whisper_vars, report_vars, metric_vars, panicked, asked,
                   commands>>

Says(c, message) == incoming' = [incoming EXCEPT ![c] = Append(@, message)]

PeerOpens(c) ==
    /\ Peer
    /\ phase[c] = "Initializing"
    /\ phase' = [phase EXCEPT ![c] = "Open"]
    /\ Says(c, Message("StateOpen", "None"))
    /\ UNCHANGED <<outgoing, members, whispers, closes, panics, refusals>>

\* An initialisation that fails, or the end of an open connection.
PeerCloses(c) ==
    /\ Peer
    /\ phase[c] \in {"Initializing", "Open"}
    /\ closes < MaxCloses
    /\ closes' = closes + 1
    /\ phase' = [phase EXCEPT ![c] = "Closed"]
    /\ Says(c, Message("StateClosed", "None"))
    /\ outgoing' = [outgoing EXCEPT ![c] = <<>>]
    /\ members' = [members EXCEPT ![c] = {}]
    /\ UNCHANGED <<whispers, panics, refusals>>

\* The loop of the connection panics over a message: the server is left, nobody is told,
\* and the pool keeps the connection.
PeerPanics(c) ==
    /\ Peer
    /\ phase[c] = "Open"
    /\ panics < MaxPanics
    /\ panics' = panics + 1
    /\ phase' = [phase EXCEPT ![c] = "Panicked"]
    /\ outgoing' = [outgoing EXCEPT ![c] = <<>>]
    /\ members' = [members EXCEPT ![c] = {}]
    /\ UNCHANGED <<incoming, whispers, closes, refusals>>

\* The init task panics in the login: what is sent to the connection is queued for ever.
PeerSticks(c) ==
    /\ Peer
    /\ phase[c] = "Initializing"
    /\ panics < MaxPanics
    /\ panics' = panics + 1
    /\ phase' = [phase EXCEPT ![c] = "Stuck"]
    /\ UNCHANGED <<outgoing, incoming, members, whispers, closes, refusals>>

NextRequest(c, kind, ch) ==
    /\ Peer
    /\ phase[c] = "Open"
    /\ outgoing[c] # <<>>
    /\ Head(outgoing[c]) = Message(kind, ch)
    /\ outgoing' = [outgoing EXCEPT ![c] = Tail(@)]
    /\ UNCHANGED <<phase, whispers, closes, panics>>

\* The server echoes a change of membership and ignores a request without effect.
ServerJoins(c, ch) ==
    /\ NextRequest(c, "JOIN", ch)
    /\ IF ch \in members[c] THEN UNCHANGED incoming ELSE Says(c, Message("JOIN", ch))
    /\ members' = [members EXCEPT ![c] = @ \union {ch}]
    /\ UNCHANGED refusals

ServerParts(c, ch) ==
    /\ NextRequest(c, "PART", ch)
    /\ IF ch \in members[c] THEN Says(c, Message("PART", ch)) ELSE UNCHANGED incoming
    /\ members' = [members EXCEPT ![c] = @ \ {ch}]
    /\ UNCHANGED refusals

\* The channel is suspended or does not exist, or the client is removed from it.
ServerRefuses(c, ch) ==
    /\ NextRequest(c, "JOIN", ch)
    /\ ch \notin members[c]
    /\ refusals < MaxRefusals
    /\ refusals' = refusals + 1
    /\ UNCHANGED <<incoming, members>>

ServerRemoves(c, ch) ==
    /\ Peer
    /\ phase[c] = "Open" /\ ch \in members[c]
    /\ refusals < MaxRefusals
    /\ refusals' = refusals + 1
    /\ members' = [members EXCEPT ![c] = @ \ {ch}]
    /\ Says(c, Message("PART", ch))
    /\ UNCHANGED <<phase, outgoing, whispers, closes, panics>>

\* Every open connection receives every whisper.
ServerWhispers ==
    /\ Peer
    /\ whispers < MaxWhispers
    /\ whispers' = whispers + 1
    /\ \E c \in Ids : phase[c] = "Open"
    /\ incoming' = [c \in Ids |-> IF phase[c] = "Open"
                                  THEN Append(incoming[c], Message("WHISPER", whispers + 1))
                                  ELSE incoming[c]]
    /\ UNCHANGED <<phase, outgoing, members, closes, panics, refusals>>

-----------------------------------------------------------------------------
UserCommand ==
    \/ Connect
    \/ \E busy \in SUBSET Live : SendMessage(busy)
    \/ \E ch \in Channels : Join(ch) \/ Part(ch)
    \/ \E S \in SUBSET Channels : SetWantedChannels(S)

Continue == FinishClosed \/ \E ch \in Channels : PartNext(ch) \/ JoinNext(ch)

on_incoming_message(c) ==
    \/ \E ch \in Channels : OnServerJoin(c, ch) \/ OnServerPart(c, ch)
    \/ \E w \in Whispers : OnWhisper(c, w)
    \/ OnStateOpen(c)
    \/ OnStateClosed(c)

ServerAnswers(c) == \E ch \in Channels : ServerJoins(c, ch) \/ ServerParts(c, ch)

Environment ==
    \/ \E c \in Ids : PeerOpens(c) \/ PeerCloses(c) \/ ServerAnswers(c)
    \/ \E c \in Ids : PeerPanics(c) \/ PeerSticks(c)
    \/ \E c \in Ids, ch \in Channels : ServerRefuses(c, ch) \/ ServerRemoves(c, ch)
    \/ ServerWhispers

Next ==
    \/ UserCommand
    \/ Continue
    \/ \E c \in Ids : SendPanics(c) \/ on_incoming_message(c)
    \/ Environment

Spec == Init /\ [][Next]_vars

(***************************************************************************)
(* The client loop is one task of the runtime: it finishes its handler and *)
(* takes the events of every connection, for its channel is one FIFO.  A   *)
(* connection that neither fails nor has its login panic opens             *)
(* (ConnectionLoop: SettlesLikeContract), and the server works through     *)
(* what it is sent.                                                        *)
(***************************************************************************)
Fairness ==
    /\ WF_vars(Continue \/ (work # NoWork /\ \E c \in Ids : SendPanics(c)))
    /\ \A c \in Ids : WF_vars(on_incoming_message(c))
    /\ \A c \in Ids : WF_vars(PeerOpens(c)) /\ WF_vars(ServerAnswers(c))

FairSpec == Spec /\ Fairness

-----------------------------------------------------------------------------
(* Properties *)

Requests == [kind : {"JOIN", "PART"}, arg : Channels]
Events == Requests \union [kind : {"WHISPER"}, arg : Whispers]
                   \union [kind : {"StateOpen", "StateClosed"}, arg : {"None"}]

Phases == {"None", "Initializing", "Open", "Closed", "Panicked", "Stuck"}

TypeOK ==
    /\ connections \in Seq(Ids)
    /\ next_connection_id \in 0..MaxConnections
    /\ current_whisper_connection_id \in Ids \union {NoConnection}
    /\ wanted_channels \in [Ids -> SUBSET Channels]
    /\ server_channels \in [Ids -> SUBSET Channels]
    /\ reported_state \in [Ids -> {"Initializing", "Open"}]
    /\ work \in [parts : SUBSET Channels, joins : SUBSET Channels,
                 closing : Ids \union {NoConnection}]
    /\ connections_created \in Nat
    /\ connections_failed \in Nat
    /\ panicked \in {"no", "lookup", "send"}
    /\ forwarded \in [Whispers -> Nat]
    /\ phase \in [Ids -> Phases]
    /\ outgoing \in [Ids -> Seq(Requests)]
    /\ incoming \in [Ids -> Seq(Events)]
    /\ members \in [Ids -> SUBSET Channels]
    /\ asked \subseteq Channels
    /\ {commands, whispers, closes, panics, refusals} \subseteq Nat

\* No lookup of an event's source connection fails (the unwrap() of lines 409-415,
\* 422-427, 439-444 and 457-462): the connection is in the pool until its last event,
\* whichever connections panic.  (The unwrap() of a send can fail: SendPanics.)
NoUnwrapFails == panicked # "lookup"

\* A channel is wanted by at most one connection, in the middle of a rejoin or of
\* set_wanted_channels too: otherwise its messages would be received twice.
WantedOnce ==
    \A c, d \in Ids : wanted_channels[c] \cap wanted_channels[d] # {} => c = d

\* No connection wants more channels than configured, however they were moved about
\* by failures; a limit of zero still allows the one that made the connection.
LimitRespected ==
    \A c \in Ids : Cardinality(wanted_channels[c])
                      <= IF MaxChannelsPerConnection = 0 THEN 1 ELSE MaxChannelsPerConnection

\* No connection gets lost or duplicated while it is taken out of the deque and put
\* back: every one made is in the pool, once, or was counted as failed.
PoolAccounted ==
    /\ next_connection_id = Len(connections) + connections_failed
    /\ Cardinality(Live) = Len(connections)

\* The pool that had a connection keeps one, to receive whispers (lines 493-498).
StaysConnected == Idle /\ next_connection_id > 0 => connections # <<>>

\* the state of channel ch once these messages have taken effect on the set
After(set, messages, ch) ==
    LET about == {i \in DOMAIN messages : messages[i].kind \in {"JOIN", "PART"}
                                              /\ messages[i].arg = ch}
    IN  IF about = {} THEN ch \in set
        ELSE \E i \in about : messages[i].kind = "JOIN" /\ \A j \in about : j <= i

\* part() skips a PART "if the last message we sent regarding that channel was a PART"
\* and join() a JOIN that is confirmed: still, once the server has worked through what
\* a connection sent it, it has the connection in the channels it wants and in no other,
\* save those it refused.  (One whose loop panicked is left out: it keeps its channels.)
TrafficMatchesWanted ==
    \A c \in Live, ch \in Channels :
        phase[c] \notin {"Closed", "Panicked"} =>
            /\ After(members[c], outgoing[c], ch) => ch \in wanted_channels[c]
            /\ refusals = 0 /\ ch \in wanted_channels[c] => After(members[c], outgoing[c], ch)

\* server_channels, from which joins are skipped and get_channel_status answers, is the
\* server's own set as of the last echo handled.
MirrorsServer ==
    \A c \in Live, ch \in Channels :
        phase[c] = "Open" => (After(server_channels[c], incoming[c], ch) <=> ch \in members[c])

\* The whisper connection is one of the pool: a stale id would silence all whispers (as
\* one of the pool does whose loop has panicked, for its StateClosed never comes).
WhisperConnectionLives ==
    current_whisper_connection_id \in Live \union {NoConnection, work.closing}

InFlight(w) == \E c \in Ids : Message("WHISPER", w) \in ToSet(incoming[c])

\* As long as no connection fails or panics, no whisper reaches the user twice, however many
\* connections receive it, and once a whisper came through no later one is missing.
\* (Earlier ones may be: while no whisper connection is chosen, the one whose
\* forwarder is fastest gets the role, and what the others hold is ignored.)
WhisperExactlyOnce ==
    closes = 0 /\ panics = 0 =>
        \A w \in 1..whispers :
            /\ forwarded[w] <= 1
            /\ ~InFlight(w) /\ (w = whispers \/ \E v \in 1..(w - 1) : forwarded[v] = 1)
                  => forwarded[w] = 1

\* Between two commands the gauges show the pool as it is.
GaugesCurrent ==
    Idle => gauges = Gauges(connections, wanted_channels, server_channels, reported_state)

\* The wanted channels of the connections, without what the current handler still
\* parts and with what it still joins.
Wanted == ((UNION {wanted_channels[c] : c \in Live}) \ work.parts) \union work.joins

\* join, part and set_wanted_channels act on one set that callers alone change: no
\* failure, no move of a channel between connections, no echo of the server that is
\* late and no order of iteration adds a channel to it or loses one.
WantedAsAsked == Wanted = asked

\* the channel's connection is in the pool but will never tell what became of it
Orphaned(ch) ==
    \E c \in Live : phase[c] \in {"Panicked", "Stuck"}
                      /\ ch \in wanted_channels[c] \union server_channels[c]

\* When callers and failures stop, what get_channel_status says is wanted is what it says
\* is joined, and stays so: "best attempts to stay joined" succeed, unless the server
\* refuses, for the channels of every connection but those whose loop or login panicked,
\* until a send to one of these ends the pool.
EventuallyJoined ==
    <>[](\/ refusals > 0 \/ panicked = "send"
         \/ \A ch \in Channels :
                get_channel_status(ch)[1] # get_channel_status(ch)[2] => Orphaned(ch))

-----------------------------------------------------------------------------
(* A claim of the documentation that the code does not keep *)

\* config.rs: connections_created "tracks how many times, since the creation of the
\* client, a new connection has been made".
CountsConnectionsMade == connections_created = next_connection_id
=============================================================================
