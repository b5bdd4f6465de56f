--------------------------- MODULE ConnectionLoop ---------------------------
(***************************************************************************)
(* One connection to the chat server: src/src/connection/event_loop.rs.    *)
(*                                                                         *)
(* Five tasks run concurrently and talk through channels only:             *)
(*   - the init task logs in and opens the transport, once;                *)
(*   - the main loop (`ConnectionLoopWorker::run`) takes one command at a  *)
(*     time from `connection_loop_rx` and is the only owner of the state;  *)
(*   - the incoming forwarder turns what the transport yields into         *)
(*     commands;                                                           *)
(*   - the outgoing forwarder writes queued messages to the transport and  *)
(*     answers their callers;                                              *)
(*   - the pinger issues SendPing and CheckPong.                           *)
(* The environment is the pool, which holds the only strong handle on the  *)
(* command channel, and the transport.                                     *)
(*                                                                         *)
(* A step of the main loop handles one command completely: there is no     *)
(* await inside `process_command`.  The other tasks upgrade their weak     *)
(* handle, send and release it without an await in between; a temporary    *)
(* handle that outlives the pool's own only makes a second upgrade behave  *)
(* as if it had run before the release, so an upgrade succeeds exactly     *)
(* while the pool holds its handle.                                        *)
(***************************************************************************)
EXTENDS Naturals, Sequences, SequencesExt

CONSTANTS
    Requests,     \* messages the pool sends through this connection, each once
    Awaited,      \* those of them that carry a reply sender
    Metrics,      \* is the feature metrics-collection compiled in?
    MaxIncoming,  \* bound: how many items the transport yields
    MaxTicks,     \* bound: how many ticks of each of the pinger's two intervals
    MaxFailures   \* bound: how many writes fail

Login == {"CAP", "PASS", "NICK"}
Control == Login \union {"PING", "PONG"}
Message == Requests \union Control

InitErrors == {"LoginError", "ConnectError", "ConnectTimeout"}
InitResults == {"token", "anonymous"} \union InitErrors
ServerMessages == {"Ping", "Pong", "Reconnect", "Other"}
StreamEnds == {"EOF", "IncomingError", "IRCParseError"}
\* what the transport yields; "Disordered" is a message whose tags make
\* ServerMessage::try_from panic (MessageFlow says which)
Items == ServerMessages \union StreamEnds \union {"Disordered"}
Cause == InitErrors \union {"OutgoingError", "IncomingError", "IRCParseError",
            "RemoteUnexpectedlyClosedConnection", "ReconnectCmd", "PingTimeout"}
NoCause == "None"
Ticks == {"SendPing", "CheckPong"}

ASSUME ConstantsAssumption ==
    /\ Awaited \subseteq Requests
    /\ Requests \cap Control = {}
    /\ Metrics \in BOOLEAN
    /\ MaxIncoming \in Nat
    /\ MaxTicks \in Nat
    /\ MaxFailures \in Nat

VARIABLES
    state,               \* of the main loop; "Ended" when its task returned,
                         \* "Panicked" when a message made try_from panic,
                         \* "Unreachable" when it ran into an unreachable!()
    reason_for_closure,  \* field of the Closed state
    commands_queue,      \* field of the Initializing state
    pong_received,       \* field of the Open state
    connection_loop_rx,  \* FIFO of commands waiting for the main loop
    handle,              \* the pool's strong handle: "held", or how it was dropped
    init_task,           \* "running", "ended" or "panicked"
    incoming_task,       \* "none", "running", "killed" (signalled), "ended"
    ping_task,           \* likewise
    outgoing_rx,         \* FIFO of messages waiting for the outgoing forwarder
    outgoing_task,       \* "none", "running" or "ended"
    connection_incoming, \* history: every event sent to the pool
    issued,              \* history: requests in the order the pool sent them
    replies,             \* what each awaited request was answered
    wire,                \* history: writes to the transport, with their outcome
    received,            \* how many items the transport has yielded
    ticks,               \* how many SendPing and CheckPong were issued
    failures             \* how many writes have failed

worker_vars == <<state, reason_for_closure, commands_queue, pong_received>>
task_vars   == <<init_task, incoming_task, ping_task, outgoing_task>>
out_vars    == <<outgoing_rx, wire>>
pool_vars   == <<handle, issued>>
bound_vars  == <<received, ticks, failures>>
vars == <<worker_vars, connection_loop_rx, task_vars, out_vars, pool_vars,
          connection_incoming, replies, bound_vars>>

-----------------------------------------------------------------------------
(* Vocabulary *)

Event(kind, arg) == [event |-> kind, arg |-> arg]
StateOpen == Event("StateOpen", "None")
StateClosed(cause) == Event("StateClosed", cause)
IncomingMessage(m) == Event("IncomingMessage", m)
EventSet == {StateOpen} \union {StateClosed(c) : c \in Cause}
                        \union {IncomingMessage(m) : m \in ServerMessages}

Command(kind, arg) == [command |-> kind, arg |-> arg]
CommandSet ==
    {Command("SendMessage", m) : m \in Requests}
    \union {Command("TransportInitFinished", r) : r \in InitResults}
    \union {Command("IncomingMessage", i) : i \in Items}
    \union {Command(c, "None") : c \in {"SendError"} \union Ticks}

TaskStates == {"none", "running", "killed", "ended"}
Running == state \in {"Initializing", "Open", "Closed"}

\* `Weak::upgrade` on the command channel
Upgrades == handle = "held"

\* mutant: the oneshot sender is leaked, not fired
SignalLost(task) == task

\* what the oneshot in a dropped Open state does to the task at its other end
Killed(task) == IF task = "running" THEN "killed" ELSE task

\* answers the reply senders of the messages in ms
Reply(ms, outcome) ==
    [r \in Requests |-> IF r \in ms \cap Awaited THEN outcome ELSE replies[r]]

\* a task sends a command to the main loop; once the loop has panicked its
\* receiver is gone and the failed send is ignored (`.ok()`)
Post(commands) ==
    connection_loop_rx' =
        IF state = "Panicked" THEN connection_loop_rx ELSE connection_loop_rx \o commands

Init ==
    /\ state = "Initializing"
    /\ reason_for_closure = NoCause
    /\ commands_queue = <<>>
    /\ pong_received = FALSE
    /\ connection_loop_rx = <<>>
    /\ handle = "held"
    /\ init_task = "running"
    /\ incoming_task = "none"
    /\ ping_task = "none"
    /\ outgoing_task = "none"
    /\ outgoing_rx = <<>>
    /\ wire = <<>>
    /\ connection_incoming = <<>>
    /\ issued = <<>>
    /\ replies = [r \in Requests |-> "pending"]
    /\ received = 0
    /\ ticks = [t \in Ticks |-> 0]
    /\ failures = 0

-----------------------------------------------------------------------------
(* The pool *)

\* `connection_loop_tx.send(SendMessage(..))` in client/event_loop.rs
PoolSend(m) ==
    /\ handle = "held"
    /\ state # "Panicked"
    /\ m \notin ToSet(issued)
    /\ issued' = Append(issued, m)
    /\ Post(<<Command("SendMessage", m)>>)
    /\ UNCHANGED <<worker_vars, task_vars, out_vars, handle,
                   connection_incoming, replies, bound_vars>>

\* The same send when the loop has panicked: the pool unwraps the error, its own
\* loop unwinds, and the message is dropped with its reply sender.
PoolSendPanics(m) ==
    /\ handle = "held"
    /\ state = "Panicked"
    /\ m \notin ToSet(issued)
    /\ issued' = Append(issued, m)
    /\ handle' = "pool_gone"
    /\ replies' = Reply({m}, "dropped")
    /\ UNCHANGED <<worker_vars, connection_loop_rx, task_vars, out_vars,
                   connection_incoming, bound_vars>>

\* The pool has handled every event up to StateClosed and removes the connection,
\* which drops the only strong handle.  The earlier events change nothing here.
PoolRemove ==
    /\ handle = "held"
    /\ \E i \in DOMAIN connection_incoming : connection_incoming[i].event = "StateClosed"
    /\ handle' = "removed"
    /\ UNCHANGED <<worker_vars, connection_loop_rx, task_vars, out_vars, issued,
                   connection_incoming, replies, bound_vars>>

\* The pool's loop ends, with the last client handle or by a panic over another
\* connection, and drops its connections.
PoolGone ==
    /\ handle = "held"
    /\ handle' = "pool_gone"
    /\ UNCHANGED <<worker_vars, connection_loop_rx, task_vars, out_vars, issued,
                   connection_incoming, replies, bound_vars>>

-----------------------------------------------------------------------------
(* The background tasks *)

\* mutant: `?` leaves the whole task, an error is not reported
ReportsSuccessOnly(result) ==
    /\ init_task = "running"
    /\ init_task' = "ended"
    /\ IF Upgrades /\ result \notin InitErrors
       THEN Post(<<Command("TransportInitFinished", result)>>)
       ELSE UNCHANGED connection_loop_rx
    /\ UNCHANGED <<worker_vars, incoming_task, ping_task, outgoing_task, out_vars,
                   pool_vars, connection_incoming, replies, bound_vars>>

\* mutant: the timeout is a task of its own and reports after a success, too
TimeoutReportsAnyway(result) ==
    /\ init_task = "running"
    /\ init_task' = IF result \in InitErrors THEN "ended" ELSE "running"
    /\ IF Upgrades THEN Post(<<Command("TransportInitFinished", result)>>)
                   ELSE UNCHANGED connection_loop_rx
    /\ UNCHANGED <<worker_vars, incoming_task, ping_task, outgoing_task, out_vars,
                   pool_vars, connection_incoming, replies, bound_vars>>

\* One result is sent, whatever step of the initialisation failed.
run_init_task(result) ==
    /\ init_task = "running"
    /\ init_task' = "ended"
    /\ IF Upgrades THEN Post(<<Command("TransportInitFinished", result)>>)
                   ELSE UNCHANGED connection_loop_rx
    /\ UNCHANGED <<worker_vars, incoming_task, ping_task, outgoing_task, out_vars,
                   pool_vars, connection_incoming, replies, bound_vars>>

\* The login panics (get_credentials unwraps an age that a clock set back makes negative,
\* and the first of the users it was sent): the task unwinds and reports nothing.
InitTaskPanics ==
    /\ init_task = "running"
    /\ init_task' = "panicked"
    /\ UNCHANGED <<worker_vars, connection_loop_rx, incoming_task, ping_task,
                   outgoing_task, out_vars, pool_vars, connection_incoming, replies,
                   bound_vars>>

\* The transport yields an item.  A signalled task may still take it: select!
\* picks any ready branch.
run_incoming_forward_task(item) ==
    /\ incoming_task \in {"running", "killed"}
    /\ received < MaxIncoming
    /\ received' = received + 1
    /\ IF Upgrades
       THEN /\ Post(<<Command("IncomingMessage", item)>>)
            /\ incoming_task' = IF item \in StreamEnds THEN "ended" ELSE incoming_task
       ELSE /\ incoming_task' = "ended"
            /\ UNCHANGED connection_loop_rx
    /\ UNCHANGED <<worker_vars, init_task, ping_task, outgoing_task, out_vars,
                   pool_vars, connection_incoming, replies, ticks, failures>>

IncomingTaskStops ==
    /\ incoming_task = "killed"
    /\ incoming_task' = "ended"
    /\ UNCHANGED <<worker_vars, connection_loop_rx, init_task, ping_task,
                   outgoing_task, out_vars, pool_vars, connection_incoming, replies,
                   bound_vars>>

\* An interval of the pinger fires.  Time is left out: a pinger that was not
\* polled for a while finds both intervals ready, and select! takes either.
run_ping_task(tick) ==
    /\ ping_task \in {"running", "killed"}
    /\ ticks[tick] < MaxTicks
    /\ ticks' = [ticks EXCEPT ![tick] = @ + 1]
    /\ IF Upgrades
       THEN Post(<<Command(tick, "None")>>) /\ UNCHANGED ping_task
       ELSE ping_task' = "ended" /\ UNCHANGED connection_loop_rx
    /\ UNCHANGED <<worker_vars, init_task, incoming_task, outgoing_task, out_vars,
                   pool_vars, connection_incoming, replies, received, failures>>

PingTaskStops ==
    /\ ping_task = "killed"
    /\ ping_task' = "ended"
    /\ UNCHANGED <<worker_vars, connection_loop_rx, init_task, incoming_task,
                   outgoing_task, out_vars, pool_vars, connection_incoming, replies,
                   bound_vars>>

\* One message is written.  A failed write is reported to the loop and to the
\* caller, and the forwarder goes on with the next message.
run_outgoing_forward_task(accepted) ==
    /\ outgoing_task = "running"
    /\ outgoing_rx # <<>>
    /\ ~accepted => failures < MaxFailures
    /\ failures' = IF accepted THEN failures ELSE failures + 1
    /\ outgoing_rx' = Tail(outgoing_rx)
    /\ wire' = Append(wire, [message |-> Head(outgoing_rx), accepted |-> accepted])
    /\ IF ~accepted /\ Upgrades THEN Post(<<Command("SendError", "None")>>)
                                ELSE UNCHANGED connection_loop_rx
    /\ replies' = Reply({Head(outgoing_rx)}, IF accepted THEN "ok" ELSE "OutgoingError")
    /\ UNCHANGED <<worker_vars, task_vars, pool_vars, connection_incoming, received, ticks>>

\* The channel is drained and its sender, a field of the Open state, is dropped.
OutgoingTaskStops ==
    /\ outgoing_task = "running"
    /\ outgoing_rx = <<>>
    /\ state # "Open"
    /\ outgoing_task' = "ended"
    /\ UNCHANGED <<worker_vars, connection_loop_rx, init_task, incoming_task,
                   ping_task, out_vars, pool_vars, connection_incoming, replies,
                   bound_vars>>

-----------------------------------------------------------------------------
(* The main loop *)

\* `recv` yields this command; only a running loop takes commands
Receive(kind, arg) ==
    /\ Running
    /\ connection_loop_rx # <<>>
    /\ Head(connection_loop_rx) = Command(kind, arg)
    /\ connection_loop_rx' = Tail(connection_loop_rx)
    /\ UNCHANGED <<init_task, wire, pool_vars, bound_vars>>

Emit(events) == connection_incoming' = connection_incoming \o events

\* a branch that leaves the whole connection as it is
Ignored ==
    UNCHANGED <<worker_vars, incoming_task, ping_task, outgoing_task, outgoing_rx,
                connection_incoming, replies>>

\* unreachable!(): the task of the main loop unwinds
Unreachable ==
    /\ state' = "Unreachable"
    /\ UNCHANGED <<reason_for_closure, commands_queue, pong_received, incoming_task,
                   ping_task, outgoing_task, outgoing_rx, connection_incoming, replies>>

\* mutant: the state is replaced before its reason is stored
ClosesWithoutReason(cause) ==
    /\ state' = "Closed"
    /\ replies' = Reply(ToSet(commands_queue), cause)
    /\ commands_queue' = <<>>
    /\ Emit(<<StateClosed(cause)>>)
    /\ UNCHANGED <<reason_for_closure, pong_received, incoming_task, ping_task,
                   outgoing_task, outgoing_rx>>

\* mutant: the queue is dropped with the state, its callers get no answer
DropsQueue(cause) ==
    /\ state' = "Closed"
    /\ reason_for_closure' = cause
    /\ replies' = Reply(ToSet(commands_queue), "dropped")
    /\ commands_queue' = <<>>
    /\ Emit(<<StateClosed(cause)>>)
    /\ UNCHANGED <<pong_received, incoming_task, ping_task, outgoing_task, outgoing_rx>>

InitializingToClosed(cause) ==
    /\ state' = "Closed"
    /\ reason_for_closure' = cause
    /\ replies' = Reply(ToSet(commands_queue), cause)
    /\ commands_queue' = <<>>
    /\ Emit(<<StateClosed(cause)>>)
    /\ UNCHANGED <<pong_received, incoming_task, ping_task, outgoing_task, outgoing_rx>>

\* mutant: the closing is announced before the message that caused it
ClosesThenDelivers(events, cause) ==
    /\ state' = "Closed"
    /\ reason_for_closure' = cause
    /\ Emit(<<StateClosed(cause)>> \o events)
    /\ incoming_task' = Killed(incoming_task)
    /\ ping_task' = Killed(ping_task)
    /\ UNCHANGED <<commands_queue, pong_received, outgoing_task, outgoing_rx, replies>>

\* Dropping the Open state signals the incoming forwarder and the pinger; the
\* outgoing forwarder keeps draining its channel.
OpenToClosed(events, cause) ==
    /\ state' = "Closed"
    /\ reason_for_closure' = cause
    /\ Emit(events \o <<StateClosed(cause)>>)
    /\ incoming_task' = Killed(incoming_task)
    /\ ping_task' = Killed(ping_task)
    /\ UNCHANGED <<commands_queue, pong_received, outgoing_task, outgoing_rx, replies>>

\* the Open state writes these messages itself and stays open
StayOpen(events, messages, pong) ==
    /\ Emit(events)
    /\ outgoing_rx' = outgoing_rx \o messages
    /\ pong_received' = pong
    /\ UNCHANGED <<state, reason_for_closure, commands_queue, incoming_task, ping_task,
                   outgoing_task, replies>>

\* mutant: pushed to the wrong end
QueueInFront(m) ==
    /\ commands_queue' = <<m>> \o commands_queue
    /\ UNCHANGED <<state, reason_for_closure, pong_received, incoming_task,
                   ping_task, outgoing_task, outgoing_rx, connection_incoming, replies>>

\* the Initializing state keeps the message for later
Queue(m) ==
    /\ commands_queue' = Append(commands_queue, m)
    /\ UNCHANGED <<state, reason_for_closure, pong_received, incoming_task,
                   ping_task, outgoing_task, outgoing_rx, connection_incoming, replies>>

\* mutant: a closed connection forgets the reply sender
RefuseSilently(m) == Ignored

\* the Closed state answers with its reason
Refuse(m) ==
    /\ replies' = Reply({m}, reason_for_closure)
    /\ UNCHANGED <<worker_vars, incoming_task, ping_task, outgoing_task, outgoing_rx,
                   connection_incoming>>

send_message(m) ==
    \/ state = "Initializing" /\ Queue(m)
    \/ state = "Open" /\ StayOpen(<<>>, <<m>>, pong_received)
    \/ state = "Closed" /\ Refuse(m)

\* CAP REQ, then PASS when there is a token, then NICK
Handshake(result) ==
    IF result = "token" THEN <<"CAP", "PASS", "NICK">> ELSE <<"CAP", "NICK">>

\* mutant: the queued messages overtake the login
QueueBeforeLogin(result) ==
    /\ state' = "Open"
    /\ pong_received' = FALSE
    /\ incoming_task' = "running"
    /\ ping_task' = "running"
    /\ outgoing_task' = "running"
    /\ outgoing_rx' = commands_queue \o Handshake(result)
    /\ commands_queue' = <<>>
    /\ Emit(IF Metrics THEN <<StateOpen>> ELSE <<>>)
    /\ UNCHANGED <<reason_for_closure, replies>>

\* The transport is split, its tasks are spawned, and the login goes out before
\* the messages that were queued meanwhile.
InitializingToOpen(result) ==
    /\ state' = "Open"
    /\ pong_received' = FALSE
    /\ incoming_task' = "running"
    /\ ping_task' = "running"
    /\ outgoing_task' = "running"
    /\ outgoing_rx' = Handshake(result) \o commands_queue
    /\ commands_queue' = <<>>
    /\ Emit(IF Metrics THEN <<StateOpen>> ELSE <<>>)
    /\ UNCHANGED <<reason_for_closure, replies>>

on_transport_init_finished(result) ==
    \/ state = "Initializing" /\ result \notin InitErrors /\ InitializingToOpen(result)
    \/ state = "Initializing" /\ result \in InitErrors /\ InitializingToClosed(result)
    \/ state = "Open" /\ Unreachable
    \/ state = "Closed" /\ Ignored

\* mutant: only the caller learns of the failed write
IgnoresSendError ==
    \/ state = "Initializing" /\ InitializingToClosed("OutgoingError")
    \/ state \in {"Open", "Closed"} /\ Ignored

on_send_error ==
    \/ state = "Initializing" /\ InitializingToClosed("OutgoingError")
    \/ state = "Open" /\ OpenToClosed(<<>>, "OutgoingError")
    \/ state = "Closed" /\ Ignored

EndCause(item) == IF item = "EOF" THEN "RemoteUnexpectedlyClosedConnection" ELSE item

\* The message reaches the client first; "Other" stands for every message
\* without a reaction, one that failed to parse as a ServerMessage included.  What an
\* open connection does about "Disordered" is try_from_panics.
on_incoming_message(item) ==
    \/ state = "Initializing" /\ Unreachable
    \/ /\ state = "Open"
       /\ \/ item \in StreamEnds /\ OpenToClosed(<<>>, EndCause(item))
          \/ /\ item = "Reconnect"
             /\ OpenToClosed(<<IncomingMessage(item)>>, "ReconnectCmd")
          \/ /\ item \in ServerMessages \ {"Reconnect"}
             /\ StayOpen(<<IncomingMessage(item)>>,
                         IF item = "Ping" THEN <<"PONG">> ELSE <<>>,
                         item = "Pong" \/ pong_received)
    \/ state = "Closed" /\ Ignored

send_ping ==
    \/ state = "Initializing" /\ Unreachable
    \/ state = "Open" /\ StayOpen(<<>>, <<"PING">>, FALSE)
    \/ state = "Closed" /\ Ignored

check_pong ==
    \/ state = "Initializing" /\ Unreachable
    \/ state = "Open" /\ pong_received /\ Ignored
    \/ state = "Open" /\ ~pong_received /\ OpenToClosed(<<>>, "PingTimeout")
    \/ state = "Closed" /\ Ignored

process_command ==
    \/ \E m \in Requests : Receive("SendMessage", m) /\ send_message(m)
    \/ \E r \in InitResults :
          Receive("TransportInitFinished", r) /\ on_transport_init_finished(r)
    \/ Receive("SendError", "None") /\ on_send_error
    \/ \E i \in Items :
          Receive("IncomingMessage", i) /\ on_incoming_message(i)
    \/ Receive("SendPing", "None") /\ send_ping
    \/ Receive("CheckPong", "None") /\ check_pong

\* ServerMessage::try_from panics in the Open state.  The task of the main loop
\* unwinds: it drops its state, which signals the background tasks, and the channel
\* with the reply senders that wait in it.  Nothing is reported to the pool.
try_from_panics ==
    /\ state = "Open"
    /\ connection_loop_rx # <<>>
    /\ Head(connection_loop_rx) = Command("IncomingMessage", "Disordered")
    /\ state' = "Panicked"
    /\ connection_loop_rx' = <<>>
    /\ replies' = Reply({m \in Requests : Command("SendMessage", m) \in
                                              ToSet(connection_loop_rx)}, "dropped")
    /\ incoming_task' = Killed(incoming_task)
    /\ ping_task' = Killed(ping_task)
    /\ UNCHANGED <<reason_for_closure, commands_queue, pong_received, init_task,
                   outgoing_task, out_vars, pool_vars, connection_incoming, bound_vars>>

\* `recv` yields None once the handle is gone and the channel is drained: the
\* loop returns and drops its state with the messages queued in it.
WorkerEnds ==
    /\ Running
    /\ connection_loop_rx = <<>>
    /\ ~Upgrades
    /\ state' = "Ended"
    /\ replies' = Reply(ToSet(commands_queue), "dropped")
    /\ commands_queue' = <<>>
    /\ incoming_task' = Killed(incoming_task)
    /\ ping_task' = Killed(ping_task)
    /\ UNCHANGED <<reason_for_closure, pong_received, connection_loop_rx, init_task,
                   outgoing_task, out_vars, pool_vars, connection_incoming, bound_vars>>

-----------------------------------------------------------------------------
Pool ==
    \/ \E m \in Requests : PoolSend(m) \/ PoolSendPanics(m)
    \/ PoolRemove
    \/ PoolGone

Tasks ==
    \/ \E r \in InitResults : run_init_task(r)
    \/ InitTaskPanics
    \/ \E i \in Items : run_incoming_forward_task(i)
    \/ IncomingTaskStops
    \/ \E t \in Ticks : run_ping_task(t)
    \/ PingTaskStops
    \/ \E accepted \in BOOLEAN : run_outgoing_forward_task(accepted)
    \/ OutgoingTaskStops

Next == Pool \/ Tasks \/ process_command \/ try_from_panics \/ WorkerEnds

Spec == Init /\ [][Next]_vars

(***************************************************************************)
(* The runtime polls every woken task: the main loop, the outgoing         *)
(* forwarder and a signalled task make progress.  That the init task       *)
(* reports or panics rests on `connect_timeout` for the transport and is   *)
(* assumed of the login; that a write ends is assumed of the transport.    *)
(* The pool's own loop handles its events.  Nothing obliges the pool to    *)
(* send, the server to say anything, or the client to go away.             *)
(***************************************************************************)
Fairness ==
    /\ WF_vars(process_command)
    /\ WF_vars(try_from_panics)
    /\ WF_vars(WorkerEnds)
    /\ WF_vars((\E r \in InitResults : run_init_task(r)) \/ InitTaskPanics)
    /\ WF_vars(\E accepted \in BOOLEAN : run_outgoing_forward_task(accepted))
    /\ WF_vars(IncomingTaskStops)
    /\ WF_vars(PingTaskStops)
    /\ WF_vars(OutgoingTaskStops)
    /\ WF_vars(PoolRemove)

FairSpec == Spec /\ Fairness

-----------------------------------------------------------------------------
(* Properties *)

TypeOK ==
    /\ state \in {"Initializing", "Open", "Closed", "Ended", "Panicked", "Unreachable"}
    /\ reason_for_closure \in Cause \union {NoCause}
    /\ state = "Closed" => reason_for_closure \in Cause
    /\ commands_queue \in Seq(Requests)
    /\ pong_received \in BOOLEAN
    /\ connection_loop_rx \in Seq(CommandSet)
    /\ handle \in {"held", "removed", "pool_gone"}
    /\ init_task \in {"running", "ended", "panicked"}
    /\ incoming_task \in TaskStates
    /\ ping_task \in TaskStates
    /\ outgoing_task \in TaskStates \ {"killed"}
    /\ outgoing_rx \in Seq(Message)
    /\ wire \in Seq([message : Message, accepted : BOOLEAN])
    /\ connection_incoming \in Seq(EventSet)
    /\ issued \in Seq(Requests)
    /\ replies \in [Requests -> Cause \union {"pending", "ok", "dropped"}]
    /\ received \in Nat
    /\ ticks \in [Ticks -> Nat]
    /\ failures \in Nat

\* The unreachable!() branches of the Initializing and Open states (lines 446-459
\* and 523-528) are never taken, however the tasks interleave.
NeverUnreachable == state # "Unreachable"

\* The pool unwraps a lookup of the connection on every event and asserts that
\* StateClosed comes once (client/event_loop.rs:455-462): StateClosed is the last
\* event ever sent, and StateOpen, when it exists, the first.
ClosedOnceAndLast ==
    \A i \in DOMAIN connection_incoming :
        /\ connection_incoming[i].event = "StateClosed" =>
              i = Len(connection_incoming) /\ state \notin {"Initializing", "Open"}
        /\ connection_incoming[i].event = "StateOpen" => i = 1
        /\ connection_incoming[i].event = "IncomingMessage" /\ Metrics =>
              connection_incoming[1] = StateOpen

\* Why NeverUnreachable holds.  The init task reports at most once, and its report is what
\* ends the Initializing state; until then no task exists that could send anything but
\* requests; and the loop ends only after the handle that lets tasks post is dropped.
LoopInv ==
    /\ init_task = "running" => state \in {"Initializing", "Ended"}
    /\ \A i \in DOMAIN connection_loop_rx :
          connection_loop_rx[i].command = "TransportInitFinished" =>
              /\ init_task = "ended" /\ state = "Initializing"
              /\ \A j \in DOMAIN connection_loop_rx :
                    connection_loop_rx[j].command = "TransportInitFinished" => i = j
    /\ state = "Initializing" =>
          /\ incoming_task = "none" /\ ping_task = "none" /\ outgoing_task = "none"
          /\ \A i \in DOMAIN connection_loop_rx :
                connection_loop_rx[i].command \in {"SendMessage", "TransportInitFinished"}
    /\ state = "Ended" => handle # "held"
    /\ NeverUnreachable

\* Why ClosedOnceAndLast holds: nothing is said before the opening, and only
\* an open connection says more.
ReportInv ==
    /\ ClosedOnceAndLast
    /\ state = "Initializing" => connection_incoming = <<>>
    /\ state = "Open" /\ Metrics => /\ connection_incoming # <<>>
                                    /\ connection_incoming[1] = StateOpen

WrittenTo(r, accepted) ==
    \E i \in DOMAIN wire : wire[i] = [message |-> r, accepted |-> accepted]

\* What a caller is told is what happened to its message: Ok only for a message the
\* transport took, OutgoingError of a live connection only for one whose write
\* failed, any other error only for a message that never went out and with the
\* cause the connection was closed with.  A reply sender is dropped without an
\* answer, which panics the caller (client/mod.rs:114), only when the pool's loop has
\* ended or this connection's own loop has panicked over a message.
AnswersAreTrue ==
    \A r \in Awaited :
        /\ replies[r] = "ok" => WrittenTo(r, TRUE)
        /\ replies[r] = "OutgoingError" =>
              WrittenTo(r, FALSE) \/ reason_for_closure = "OutgoingError"
        /\ replies[r] \in Cause \ {"OutgoingError"} =>
              /\ replies[r] = reason_for_closure
              /\ ~WrittenTo(r, TRUE) /\ ~WrittenTo(r, FALSE)
        /\ replies[r] = "dropped" => handle = "pool_gone" \/ state = "Panicked"

Written == [i \in DOMAIN wire |-> wire[i].message]

\* Every message is written after the login: no request, PING or PONG goes out
\* before NICK, nor anything before CAP (messages sent while the connection is
\* initializing must wait, CHANGELOG v0.1.1).
LoginComesFirst ==
    \A i \in DOMAIN wire :
        /\ Written[i] \notin Login => \E j \in 1..(i - 1) : Written[j] = "NICK"
        /\ Written[i] # "CAP" => Written[1] = "CAP"

\* the requests the pool issued before r
IssuedBefore(r) ==
    {issued[k] : k \in {k \in DOMAIN issued :
                          \E l \in DOMAIN issued : k < l /\ issued[l] = r}}

\* Requests are written in the order the pool issued them, none skipped and none
\* twice, across the queue of the Initializing state and the later channel: what was
\* written before a request is what was issued before it.
RequestsInOrder ==
    \A i \in DOMAIN wire :
        Written[i] \in Requests =>
            /\ Written[i] \in ToSet(issued)
            /\ {Written[j] : j \in 1..(i - 1)} \cap Requests = IssuedBefore(Written[i])

\* No caller waits for ever (client/mod.rs:105-115): every awaited request is answered,
\* or its reply sender dropped, whatever the connection goes through, with the one
\* exception of a connection whose init task has panicked while the pool keeps it.
EveryRequestAnswered ==
    \A r \in Awaited :
        r \in ToSet(issued) ~>
            replies[r] # "pending" \/ (init_task = "panicked" /\ handle = "held")

\* A closed, abandoned or panicked connection leaves no task behind.
TasksEnd ==
    (state \in {"Closed", "Ended", "Panicked"}) ~>
        /\ state \in {"Ended", "Panicked"}
        /\ \A t \in {incoming_task, ping_task, outgoing_task} : t \in {"none", "ended"}

\* A failed write takes the connection down, it does not go unnoticed.
FailedWriteCloses ==
    (\E i \in DOMAIN wire : ~wire[i].accepted) ~> (state \in {"Closed", "Ended", "Panicked"})

-----------------------------------------------------------------------------
(* What the pool relies on *)

phase ==
    CASE state = "Ended" -> "Abandoned"
      [] state = "Initializing" /\ init_task = "panicked" -> "Stuck"
      [] OTHER -> state

Contract == INSTANCE ConnectionContract WITH
    Causes <- Cause, Messages <- ServerMessages, Metrics <- Metrics,
    phase <- phase, events <- connection_incoming

\* The connection implements its contract: each step of any task is a step of
\* `ConnectionContract` or invisible to the pool.
ImplementsContract == Contract!Contract
\* ... and it leaves its initial phase, by a report or by a panic of its login.
SettlesLikeContract == Contract!FairContract
=============================================================================
