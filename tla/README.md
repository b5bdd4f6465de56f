# Verification of twitch-irc-rs

TLA+ specifications of the crate `twitch-irc`: its event loops and their tasks,
the handles callers use, rate limiting, login, and the messages themselves from
the wire to their typed form. They are checked with TLC on small instances and,
where listed, proved with TLAPS for every value of the constants. Line numbers refer to the source at `src/src/`;
`PROJECT.json` maps each definition to the lines it stands for.

## The system

A `TwitchIRCClient` is a handle. Behind it one task, the *client event loop*,
owns a pool of connections; behind each connection one task, the *connection
event loop*, owns its state. All of them talk through unbounded channels.

```
 callers --ClientLoopCommand--> client event loop --SendMessage--> connection loop
                                      ^   (pool)                     |  ^
                                      |                              |  | TransportInitFinished,
     incoming forwarder of the pool --+--- connection_incoming_tx ---+  | IncomingMessage, SendError,
                                                                        | SendPing, CheckPong
                       init task, incoming forwarder, outgoing forwarder, pinger
                                      |
                                  transport (TCP / WebSocket, TLS) -- chat server
```

| Component | State | Operations | What makes it correct |
|---|---|---|---|
| Connection event loop, `connection/event_loop.rs` | Initializing (queue of messages), Open (PONG seen?, kill switches), Closed (reason); channel of commands | send message, transport init finished, send error, incoming message, send PING, check PONG; four background tasks | never in an unreachable branch; reports its closing once and last; callers answered, and truly; login before anything else; order of requests; no task left behind; initialization settles; what is lost when a message or the login makes a task panic is bounded |
| Connection handle and event channel, `connection/mod.rs`, `error.rs` | the strong end of the command channel | create, drop | the contract the pool relies on |
| Client event loop and pool, `client/event_loop.rs`, `client/pool_connection.rs` | deque of connections, wanted and confirmed channels of each, whisper connection, metrics | connect, send, ping, join, part, set wanted channels, channel status; events of connections | channels asked for are the channels wanted, each by one connection within its limit; they get joined; no connection lost; whispers once; lookups never fail; gauges current; a connection that panicked is found out at the next send to it |
| Busy connections, `client/pool_connection.rs` | send times of the last messages | register, `not_busy` | the answer does not depend on what was forgotten; it counts the waiting messages |
| Connection rate limiter, `run_init_task` and `config.rs` | a semaphore shared by clients | acquire, connect or time out, release later | no permit leaked or doubled; openings spaced; no one starves |
| Client handle, `client/mod.rs` | the handles, strong ends of the channel to the client loop; replies awaited | one method per command; clone, cancel, drop | no `unwrap()` on a channel or reply fails before a connection's loop has panicked; after the last handle, or a panic of the client loop, everything ends |
| Login credentials, `login.rs` | token storage and cached login name, each behind a mutex | `get_credentials`: load, refresh, store, look the name up | no refresh token used twice, no new token lost; every call ends and releases its mutexes |
| Message model, `message/mod.rs`, `tags.rs`, `prefix.rs`, `twitch.rs` | - | parse, format | what is written is what is read, in both directions |
| Typed messages, `message/commands/*.rs` | - | `try_from`, field by field | a bad field costs neither message nor connection, but for three values; emotes cut the text they name |
| Validation, `validate.rs` | - | `validate_login` | admits no name that changes the meaning of a line |
| Transports, `transport/*.rs` | sockets | connect, read, write | a line is one message, whatever it contains |
| Configuration, metrics, crate root, examples | limits; counters | - | plumbing |

What is hard here is concurrency and staleness. A connection is closed by
whichever of a failed write, a failed read, a RECONNECT or a missing PONG comes
first, while the other tasks go on sending commands. The pool hears of it later
and until then sends JOINs to a connection that is gone; the server's echoes
arrive after the callers have changed their minds; a failure moves channels
between connections; and the code is full of `unwrap()` and `unreachable!()` that
state what its author believed of these interleavings. Two panics can really
happen: of a connection's main loop over a message (`connection/event_loop.rs:552`)
and of its init task in the login (`login.rs:318`, `323`, `373`). Nobody is told of
either, so that the pool, the callers and the other tasks go on with a connection
that is gone or never opens. The same beliefs meet
time (a PONG is looked for five seconds after its PING, by another timer),
failures half-way through a token refresh, the order in which everything ends,
and the values of fields a server sends. `PROJECT.json` lists the hazards line
by line.

## Modules

| Module | Models | |
|---|---|---|
| `ConnectionContract` | what a connection promises to the pool, through its event channel | abstract specification |
| `ConnectionLoop` | `connection/event_loop.rs`: main loop, init task, forwarders, pinger | implements the contract |
| `Pinger` | `run_ping_task` with the Open state, over time | what `ConnectionLoop` leaves to any order |
| `ConnectionRateLimit` | the steps inside `run_init_task`, and the semaphore | one action of `ConnectionLoop` in detail |
| `LoginCredentials` | `RefreshingLoginCredentials`, called by several init tasks | the step "credentials" of `ConnectionRateLimit` in detail |
| `ClientLoop` | `client/event_loop.rs` and the pool part of `pool_connection.rs`, with connections that keep the contract and a server | |
| `MessageRate` | `register_sent_message` and `not_busy` over a clock | decides what `ClientLoop!SendMessage` leaves open |
| `ClientContract` | what a client promises to its callers | abstract specification |
| `ClientHandle` | `client/mod.rs`, with the loops, forwarders and connections as they end | implements the contract |
| `IrcMessage` | message, tags, prefix: parser and formatter; the messages the handle builds; `validate_login`; how transports cut | operators |
| `MessageFields` | the reads of `IRCMessageParseExt` and what each may give | operators, on `IrcMessage` |
| `ServerMessage` | `try_from` of every typed message | operators, on `MessageFields` |
| `MessageFlow` | a message from its sender to the user, and on to another client | composes the three |
| `..._proofs` | theorems: `ConnectionLoop`, `ClientLoop`, `ConnectionRateLimit`, `MessageRate`, `Pinger`, `LoginCredentials`, `ClientHandle`, `MessageFlow` (with `IrcMessage`, `MessageFields`, `ServerMessage`) | TLAPS |
| `MC*` | model values, symmetry, a catalogue of messages | for TLC |

Definitions marked `mutant:` are slips a programmer could make; each is the
counter-test of one property and is used by no specification.

### ConnectionLoop

*State.* `state`, `reason_for_closure`, `commands_queue` and `pong_received` are
the enum `ConnectionLoopState` and the fields of its variants.
`connection_loop_rx` is the channel of commands, `outgoing_rx` that of the
outgoing forwarder. `init_task`, `incoming_task`, `ping_task` and
`outgoing_task` say whether each background task exists, was signalled by its
oneshot, or has ended. `handle` is the pool's `Arc` on the command channel,
which every other task upgrades a `Weak` of. `connection_incoming`, `issued`,
`wire` and `replies` record what the pool was told, what it asked, what was
written and what the callers were answered.

*Actions.* There is no `await` in `process_command`, so one step of the main loop
is one whole command: `process_command` takes the head of the channel and
dispatches on its kind, and each handler is a disjunction over the states
(`send_message`, `on_transport_init_finished`, `on_send_error`,
`on_incoming_message`, `send_ping`, `check_pong`). `WorkerEnds` is the `None` that
`recv` yields when the handle is dropped and the channel drained; the state is
dropped with all it holds. Each background task is an action per turn of its
loop and one for its end. `select!` picks any ready branch: a signalled task may
still take an item. The unreachable branches are modelled as what they do, a
panic of the task; `NeverUnreachable` says they are not reached.

*Panics.* `InitTaskPanics` is the init task that unwinds in `get_credentials` and
sends nothing: the connection stays Initializing, its requests queued, until its
handle is dropped. `try_from_panics` is the main loop that unwinds over the item
"Disordered", a message whose tags make `ServerMessage::try_from` panic
(`MessageFlow` says which). It drops the Open state, which signals the forwarder
and the pinger, and the channel with the reply senders in it; the outgoing
forwarder still writes and answers what it has. Nothing is sent to the pool, which
keeps the connection: its next send fails and is unwrapped (`PoolSendPanics`), and
with the pool's loop goes the handle. `PoolGone` is that loop ending for another
reason.

A task that has upgraded its `Weak` holds a second strong handle until it has
sent. There is no `await` in between; that another task's upgrade may succeed in
that window equals the order in which it upgrades first. So an upgrade
succeeds exactly while `handle = "held"`.

*Contract.* `ConnectionContract` has the phases Initializing, Open, Closed,
Abandoned, Panicked and Stuck, and the sequence of events. `phase` maps the ended
loop to Abandoned and a connection whose init task has panicked to Stuck, and the
events are `connection_incoming`. The property `ImplementsContract` is the abstract
specification under this mapping; `SettlesLikeContract` adds its fairness: a
connection does not stay in its initial phase, it opens, closes, is abandoned or
gets stuck by the panic of its login, and by nothing else.

### ClientLoop

*State.* `connections` is the `VecDeque`, as ids in their order. The fields of the
`PoolConnection`s are functions of the id (`wanted_channels`, `server_channels`,
`reported_state`). `gauges`, `connections_created` and `connections_failed` are
the metrics, `panicked` a failed `unwrap()`, of a "lookup" or a "send", `forwarded` counts what reached the
user. `phase`, `outgoing` and `incoming` are the connection behind each id and
what is in flight to and from it; `members` is the server's own record. `asked`
is a history variable: what the callers want, by their commands alone. The end
of the loop is in `ClientHandle`.

*Actions.* One per command and per kind of event. Two handlers iterate over a
`HashSet`, in any order: `set_wanted_channels` parts and then joins, the
`StateClosed` handler rejoins. What is left to do is in `work`, and no other
command is taken before it is done (`Idle`), which is the atomicity the code
has: connections and server move meanwhile, the loop does not. `join` and `part`
are operators used by both the commands and the iterations, as in the code.
`Requeue` is the removal from the deque and the push to its end.

The commands of the connections reach the loop through one FIFO each, merged
with the callers' in any order; so the model keeps one queue per connection and
takes the next command from any of them.

Each send to a connection is unwrapped. `SendTo` and `SendMessage` have the send
that succeeds, `SendPanics` the one to a connection whose loop has panicked, by a
command that picks it or by what is left in `work` (`SendsTo`). It ends the client
loop in the middle of its handler and the model with it; `ClientHandle` has what
follows. A stuck connection takes every send and does nothing with it.

*Environment.* A connection behaves as `ConnectionContract` says, its panics
(`PeerPanics`, `PeerSticks`) included; the model has
the feature `metrics-collection`, without which `StateOpen` does not exist.
A connection that closes drops what was not written and leaves its channels.
The server echoes a JOIN or PART that changes something, refuses some JOINs
(suspended channels), removes the client from a channel and sends each whisper
to every open connection.

`SendMessage(busy)` lets any set of connections be busy; `MessageRate` has the
computation. Private messages are followed to the choice of their connection
only; what becomes of them is `ConnectionLoop`.

### ConnectionRateLimit

Each task is in one stage of `run_init_task`: getting credentials, queued at the
semaphore (tokio's is fair: first come, first served), connecting with the
permit, and either failed or connected, after which `release_permit_task` holds
the permit for `new_connection_every`. `Tick` ages everything by one; an age
stops at `Horizon`, beyond which no timer distinguishes it, so that time is not
bounded. A timer may be noticed late by any number of ticks, and `select!` may
take a success that comes together with the timeout. The semaphore is never
closed by this crate; a caller who closes it is not modelled.

### MessageRate

A clock, the deque of send times and, as history, all send times. `Trimmed` is
the bound of twice `max_waiting_messages_per_connection`; `NotBusy` is the loop
over the deque. JOIN and PART register without asking.

### Pinger

The two tokio intervals of `run_ping_task` have the same period (30 s), the check
one `CheckAfter` (5 s) behind the PING; `sendIn` and `checkIn` are the times until
their next ticks. An interval that is served late keeps its schedule (tokio's
default `Burst`), so the difference of the two never changes. `commands` is the
loop's channel with the commands that matter here, `waited` how long the loop has
had something to do, `flight` the ages of the PINGs not yet answered. Lateness is
bounded by constants: `MaxLate` for each ready task, `MaxDelay` for an answer;
`Tick` does not let time pass beyond them. `PingerAssumption` relates these to the
code's periods: two late tasks and an answer fit into `CheckAfter`, the check and two
late tasks into a period. Callers may ping at any time, and the peer may die
without a word, with some of its answers on their way.

### LoginCredentials

`pc` has the place of each call: waiting for the mutex of the token storage, then,
under it, at `load_token`, at the OAuth endpoint, at `update_token`, waiting for
the mutex of the login name, at the users endpoint, and ended. The storage's mutex
is held to the end of the call, as the guard lives that long in
`get_credentials`. The OAuth endpoint knows the newest refresh token and uses it
up when it answers. Faults are counted by one bound: the storage fails to load or
update, a request fails before or after the endpoint acted on it, the process
crashes (locks and the cached name are gone, the storage stays), the clock is set
back (`to_std().unwrap()` panics on a negative age), the account is renamed.
`LogsIn` is the use of the credentials, after the waits of `run_init_task`.
Times are in small units; a token is refreshed after nine tenths of its lifetime.

### ClientHandle

The handles are the only strong references to `client_loop_tx`; the loop and its
forwarders hold a `Weak`. A caller posts a command, awaits its reply or not,
cancels (drops the future), clones or drops the handle; a future borrows the
handle, so that it cannot be dropped under a call. The loop takes its commands in
order, also those that were queued when the last handle went; what they do to the
pool is reduced to whether a connection is made (`ClientLoop` has the rest). A
request's reply sender goes with it to a connection, which owes the answer.
`LoopEnds` drops the pool: each `PoolConnection` sends the kill signal to its
forwarder and gives up the connection's handle. A forwarder that has been told
may still take an event (`select!`), and upgrades its `Weak` to pass it on. A
connection that was closed, or whose loop panicked, answers what it still has before
it ends; one that was open or initializing ends with what it owes, and the reply is
dropped under its caller.

A connection's init task reports a transport or leaves it "stuck" (`InitTaskEnds`), when
it owes what it is sent for as long as it is in the pool. `ConnectionPanics` is the
main loop that panics over a message: replies in its queue are lost, and their
callers panic (`Forsakes`). The pool keeps both connections. `SendPanics` is the
client loop that unwraps a send to a panicked one: it is dropped with its queue and its
pool under the callers' handles, and later posts panic. `panicked` records that an
`unwrap()` on the channel to the loop or on a reply failed, `crashed` that a
connection's loop has panicked.

`UnwrapsFailOnlyAfterCrash` is the authors' belief with its one exception, and
`LoopOutlivesHandles` the belief as the comment states it, which is false.
`Contract` maps `waiting` to the abstract `asking`, the running loop to `serving` and the
callers whose requests are with a stuck connection to `stranded`: the contract
promises the end of every other call.

### Messages

A text is a sequence of `Characters`. A word in which nothing is ever cut, as a
tag's key or a command, stands as one character of its own; characters that are
cut, escaped, compared or counted are themselves.

`IrcMessage` has the parser and the formatter with the escapes of tags, the
three forms of a prefix, middle and trailing parameters, and the errors; the
messages that `privmsg`, `say`, `me` and the replies build; `ValidateLogin`;
and the two transports: TCP cuts what it reads into lines, a WebSocket frame is
cut likewise, and empty lines are dropped. `MessageFields` has each read of a
parameter, the prefix or a tag: it is accepted, refused with an error, panics, or
overflows, which a build that checks arithmetic turns into a panic and another
into a wrapped number. `ServerMessage` lists for each command the reads in the
order of the code; `All` gives the first that fails. Emotes are sorted by where they
start, those that start together in any order (`Sorted`), as the unstable sort of the
code leaves open. The machine integers keep their kind with small limits (`MaxU8` = 20, `MaxI64` = 70, `MaxU64` twice that
plus one).

`MessageFlow` sends them on their way. The server takes a message of the catalogue,
one of each kind, and leaves out or spoils a tag; a peer types a line in
pieces; or a user of another client says something (`sender`). It is written with
the tags in any order a `HashMap` may give, cut, parsed and typed; an error of the
type makes a generic message, one of the transport ends the connection. What was
received may be sent on with `as_raw_irc` and is received again. `CanBeWritten` says
what the model takes a server to mean: a message that a line can carry. What a tag
is spoilt with is any text; what a peer types and a user says is any text too.

## What is checked

| Run | Properties | Instance | States |
|---|---|---|---|
| `ConnectionLoop_lifecycle` | `TypeOK` `NeverUnreachable` `ImplementsContract` | no requests, 2 items, 1 tick of each interval, 1 failed write | 1.3 M |
| `ConnectionLoop_requests` | `AnswersAreTrue` `LoginComesFirst` `RequestsInOrder` `EveryRequestAnswered` `TasksEnd` `FailedWriteCloses` `SettlesLikeContract` | 2 awaited requests, 1 item, 1 failed write; with fairness | 0.15 M |
| `ClientLoop_channels` | `NoUnwrapFails` `WantedOnce` `LimitRespected` `WantedAsAsked` `TrafficMatchesWanted` `MirrorsServer` `EventuallyJoined` | 2 channels, 1 per connection, 5 connections, 2 commands, 1 failure, 1 panic, 1 refusal; with fairness | 0.25 M |
| `ClientLoop_pool` | `PoolAccounted` `StaysConnected` `GaugesCurrent` `WhisperConnectionLives` `WhisperExactlyOnce` | 1 channel, 5 connections, 2 commands, 3 whispers, 2 failures, 1 panic | 0.16 M |
| `ClientLoop_created` | `CountsConnectionsMade`, violated | 1 channel, 4 connections, 2 commands | - |
| `ConnectionRateLimit_permits` | `PermitsAccounted` `ConnectionsSpaced` `EveryAttemptEnds` | 4 tasks, 2 permits; with fairness | 0.28 M |
| `MessageRate_busy` | `TrimIsHarmless` | 2 waiting, 2 ticks each, clock and messages to 8 | 49 k |
| `Pinger_timing` | `HealthyStaysOpen` `DeadPeerNoticed` | periods of the code in seconds (30, 5), answers late by 2, tasks by 1, 4 PINGs | 28 k |
| `LoginCredentials_refresh` | `RefreshTokenUnused` `TokenKept` `HandsOutStored` `EveryCallEnds` | 3 calls, tokens of 10 or without end (refreshed after 18), clock to 20 in steps of 9 and 10, 1 fault; with fairness | 0.47 M |
| `ClientHandle_shutdown` | `UnwrapsFailOnlyAfterCrash` `EverythingEnds` `ImplementsContract` | 2 callers, 2 calls, 2 connections, 1 message each; with fairness | 0.17 M |
| `ClientHandle_outlived` | `LoopOutlivesHandles`, violated | the same | - |
| `MessageFlow_relay` | `DeliveredAsMeant` `TypedWithoutOptionals` `SentOnUnchanged` `EmotesCutTheText` `PanicsOnlyOnDisorder` | 27 messages with one tag left out or set to one of 12 values; lines of up to 4 of 11 pieces; 2 pieces said on 6 channel names | 0.18 M |

The comments above the properties say what each means and for which code.
`ClosedOnceAndLast` and the `TypeOK` of `MessageFlow` have no run: the first is what
`ImplementsContract` says of the events alone, and both are proved. The
deeper ones: `AnswersAreTrue` relates what every caller is told to what was
written and why the connection closed, and says when a reply may be lost;
`EveryRequestAnswered` and `SettlesLikeContract` name the one way in which a caller may
wait for ever, a panic of the login; `TrafficMatchesWanted` follows the JOINs
and PARTs in flight to the set the server will end up with; `WantedAsAsked`
compares the pool, in the middle of a rejoin too, with the callers' wishes;
`TokenKept` and `RefreshTokenUnused` hold through every failure between issuing and
storing a token; `DeliveredAsMeant` compares what the user is given with what the
sender meant, through formatter, transport, parser, type and fallback, and
`TypedWithoutOptionals` says when the fallback may not be used;
`ImplementsContract` is the whole protocol between connection and pool, and the
whole promise to the callers with its liveness, and with what a panic of one
connection may take from it.

*Bounds.* They are constants in the guards (`Max...`), each reached by the runs:
two items and one tick suffice for every cause of closing to meet every other
while commands are queued, or a panic, two requests for an order between them, one
failure per connection and a second connection for every move of a channel. In
`ClientLoop` the limit is one channel per connection, so that a second channel
overflows; `MaxConnections` is large enough for all the connections that the
commands, failures and panics can cause in `ClientLoop_channels` and
`ClientLoop_pool`, where running out would hide a promise not kept. In
`ClientLoop_created` a behaviour that needs a further connection just stops; in
`ClientHandle` a spare connection is left for each
that has failed, so that running out never keeps the loop from going on.
`MessageRate` keeps four times, and sends eight, twice what is remembered.
`Pinger` needs no bound on time: its state is finite until the peer dies, and a
dead peer is found. In `LoginCredentials` a token expires while another call
refreshes it, and one fault meets every step; a second one can only lose more.
`MessageFlow` tries all orders of at most three tags, and of more one order and
its reverse. The limits of the integers are small enough for every range, time
and number in the catalogue to cross them.

*Deadlock.* The runs of `ConnectionLoop`, `ClientLoop`, `MessageRate` and
`MessageFlow` may stop when the bounds are used up, and a connection or a message
really ends; they say `CHECK_DEADLOCK FALSE`. What must not stop half-way is
stated as liveness.

*Fairness.* In `ConnectionLoop`, tokio polls woken tasks: the main loop, the
outgoing forwarder and a signalled task make progress. The init task ends, with a
report or with a panic, because of `connect_timeout` and by assumption on the login;
that it reports is not assumed. A write ends by assumption on the transport. The
pool drops a connection it was told is closed; nothing obliges it to drop one that
has panicked or is stuck. In `ClientLoop` the loop continues its handler, into a
panic perhaps, and takes the events of every connection, as its channel is one
FIFO; connections that neither fail nor get stuck open, which is
`SettlesLikeContract`; the server works through its input. In
`ConnectionRateLimit` timers fire, the semaphore serves its head, the login
answers; that a peer answers is not assumed. In `Pinger` time passes, the two
tasks run, and an answer on its way arrives. In `LoginCredentials` a call goes on:
mutexes are fair (tokio's are) and requests are answered, well or with an error.
The code sets no timeout for them, so this is an assumption on the endpoints; while
one does not answer, every call waits for the storage's mutex. In `ClientHandle` the
loop, the forwarders and the connections run, an init task ends, with a transport,
an error or a panic, and a connection that is not stuck answers its requests, which
is `EveryRequestAnswered`. Nothing is assumed of callers, of
failures or of what the server says on its own.

### Where code and documentation differ

The run `ClientLoop_created` states what the documentation says and is violated:
the counter `connections_created` is incremented for each message sent
(`client/event_loop.rs:239-243`) and not where connections are made
(`config.rs:77-78`). The run `ClientHandle_outlived` does the same for the comment
"unwrap: ClientLoopWorker should not die before all sender handles have been dropped"
(`client/mod.rs:98`, `113`): after a connection's loop has panicked over a message,
the pool unwraps its next send to it (`client/event_loop.rs:234`, `288`, `355`)
and dies under the handles. The other differences are visible in what the properties
say, or in what they leave out:

* A whisper can be forwarded twice when the whisper connection fails while
  another connection's copy waits; the role passes to that one
  (`client/event_loop.rs:483-490`, against the comment at 54-56). `WhisperExactlyOnce`
  states what does hold: without failures and panics no whisper comes twice, and none is
  missing after the first that came.
* An attempt to connect that fails gives its permit back at once, one that
  succeeds when the period has elapsed since it connected
  (`connection/event_loop.rs:129-153`); by `config.rs:42-43` the period counts from
  taking the permit. Openings are still spaced (`ConnectionsSpaced`), attempts are
  not.
* `last_message_finished` is never assigned (`pool_connection.rs:94`), so a burst is
  taken to be worked through in the time of one message (comments at 97 and 103).
* `as_raw_irc` is "guaranteed to parse to the same value" (`message/mod.rs:74`). It
  does, for messages that were received, but for one: `@; FOO` has a tag with
  neither key nor value, which is written as no tag at all. `SentOnUnchanged`
  names this exception. A message made by hand can lose more: parameters after one
  that must be written as the trailing one (the TODO at `mod.rs:287`), or the user
  of a prefix with a user and no host.
* "An error here (failing to parse to a ServerMessage) will not result in a
  connection abort. This is by design" (`connection/event_loop.rs:548-549`). In three
  cases a value of a tag makes `try_from` panic, and the connection's loop with it:
  a colour with a character of several bytes in every build, and where arithmetic is
  checked an emote range or the minutes of followers-only mode that overflow.
  `PanicsOnlyOnDisorder` states them and that there is no other, which is proved for
  every message; `DeliveredAsMeant` says that every other message arrives.
* A whisper connection whose loop has panicked keeps its role, for its `StateClosed`
  never comes (`client/event_loop.rs:483-490`): whispers of other connections are
  ignored until a send to it ends the client loop. `WhisperExactlyOnce` does not
  speak of this case.
* A panic of the login leaves a connection that neither opens nor closes, and whose
  callers wait until the pool ends. `EveryRequestAnswered` and `ClientContract` except
  these callers, `EventuallyJoined` the channels of such a connection.

## What is proved

The proofs assume only the `ASSUME`s of the modules: `ConstantsAssumption`
(requests are not control messages; the bounds are natural numbers),
`PoolAssumption` (finitely many channels; natural bounds), `RateAssumption`s,
`PingerAssumption` (above), `LoginAssumption` (positive lifetimes; names),
`HandleAssumption` (finitely many callers, at least one), `IrcMessageAssumption`
(the characters the code names are characters, and its separators are neither
letters nor digits), `FieldsAssumption` (each digit has one of ten values, a character
of several bytes is no hexadecimal digit, the limits of the machine integers are
natural numbers) and `FlowAssumption` (a server means messages that a line can carry
and that have their type before a tag is changed; all texts are of those characters). Each safety theorem goes by an inductive
invariant: it holds initially, each action keeps it, it implies the property.

* **ConnectionLoop.** `TypeCorrect`: `TypeOK` is inductive once it says that a
  closed state has a reason. `NeverUnreachableCorrect`: the branch depends on
  which commands can be in the channel in which state, so `LoopInv` adds that the
  report of the init task is there at most once and only while Initializing, that a
  task which has panicked sends none, and that in this state no other task exists and
  only requests and the report are queued. `ClosedOnceAndLastCorrect`: `ReportInv` adds that nothing is said before
  opening and that an open connection has said so first.
  `ContractImplemented` uses these: each action maps to a step of the contract or
  leaves the phase and the events as they are.
  `LoginComesFirstCorrect`: `LoginInv` looks at the messages written followed by
  those in the forwarder's channel. That sequence only grows at its end
  (`TrafficGrows`), begins with the login once the connection has opened, and is
  empty before.
  `AnswersAreTrueCorrect`: `PlaceInv` says that a request is in the channel of the
  main loop once and nowhere else at the same time, because every step but the
  pool's own takes requests along one way (`Advances`). A request answered with the
  cause of the closing is therefore in no queue, so it is never written later
  (`SettledForGood`); `LifeInv` (a reason is given once, and the pool removes only
  closed connections) gives the rest. A reply sender is dropped in three steps: by
  the loop that ends, when the handle is gone, by the loop that panics, and by the
  pool's loop that panics over its send.
  `RequestsInOrderCorrect`: `OrderInv` says of each place a request passes (the main
  loop's channel, the queue of the Initializing state, the forwarder's channel, the
  messages written) that what precedes a request, there and in the places further
  on, is what was issued before it: order as sets of predecessors, which a step
  changes one request at a time, where a filtered sequence would need an induction
  of its own. A loop that panics drops its channel, the place furthest behind, and
  what the pool sends later never arrives, so that nothing is skipped.
* **ClientLoop**, what is wanted. `WantedOnceCorrect`: `PoolInv` adds that a
  connection not in the deque wants nothing, that the deque has no duplicates and
  only ids already assigned, and `PoolTypeOK` the part of the types this needs.
  `WantedAsAskedCorrect`: `AskedInv` relates the wanted set, minus what is still to
  be parted and plus what is still to be joined, to `asked`; that a part removes the
  channel altogether needs `WantedOnce`.
* **ClientLoop**, the pool. `PoolAccountedCorrect`: `DequeInv` counts the
  deque, which needs its ids to be distinct and below `next_connection_id`.
  `NoUnwrapFailsCorrect`: `EventsInv` adds that a connection with an event on its
  way is still in the pool, since `StateClosed`, which takes it out, is the last
  event it sends and comes once. `StaysConnectedCorrect` and
  `WhisperConnectionLivesCorrect` go by `RoleInv`, which covers the middle of a
  rejoin. `LimitRespectedCorrect`: a `join` takes a connection with room or a fresh
  one, whose wanted set is empty because its id was never assigned; a limit of zero
  still gives one channel to a fresh connection, as in the code.
  `GaugesCurrentCorrect`: every path that changes the pool sets the gauges.
  `TrafficMatchesWantedCorrect` and `MirrorsServerCorrect` rest on lemmas about
  `After` (the last message about a channel decides; the first may as well have
  taken effect already). `TrafficInv` states both properties of every id whose
  connection has neither closed nor panicked, made or not, so that making one needs no case of its
  own; `EventsInv` gives that an id once closed is not used again and that the
  connection whose `StateClosed` empties its wanted set has closed.
  `WhisperExactlyOnceCorrect`: `WhisperInv` says that as long as nothing failed or panicked every
  connection's queue holds an unbroken rising run of whispers up to the newest
  (`QueuesHold`), and that once the role is given the queue of its holder and what
  was forwarded make up all whispers since the first (`Chosen`); before, nothing was
  forwarded (`NoneChosen`).
* **ConnectionRateLimit.** `PermitsAccountedCorrect` counts the holders through every
  step. `ConnectionsSpacedCorrect`: a connection younger than the period still holds
  its permit, so there are at most as many as permits.
* **MessageRate.** `TrimIsHarmlessCorrect`: `RateInv` says that what is remembered is
  the end of what was sent and that times grow. A message dropped leaves as many
  behind it as the limit, all no older; if the loop over the deque stops at one
  of them the connection is busy by those alone.
* **Pinger.** `HealthyStaysOpenCorrect` and `DeadPeerNoticedCorrect`, for all periods
  that `PingerAssumption` admits. `PingerInv` adds that the ticks come in turn, each
  handled before the next is due; that a PING in flight or a PONG in the channel
  precedes the check (`AnswerComes`); and, for a dead peer, that once every answer
  has arrived no PONG can follow the last PING (`SilenceFound`).
* **LoginCredentials.** `TokenInv`: the holder of the storage's mutex has the token
  that is stored (`Loaded`), or the newest on its way there (`Fetched`). It gives
  `RefreshTokenUnusedCorrect`, `TokenKeptCorrect` and `HandsOutStoredCorrect`;
  `TypeCorrect` includes that exactly the call between taking and leaving a mutex
  holds it.
* **ClientHandle.** `UnwrapsFailOnlyAfterCrashCorrect`: until a connection's loop has
  panicked a held handle means a running loop (`PoolServed`), for only a send to such
  a connection makes the client loop panic (`FaultsTraced`); a connection whose end is
  reported has closed, so that removing it loses no reply (`ReportsAreTrue`); and
  every command was posted by a caller (`CallsMade`). `ContractCorrect` is the safety part of
  `ClientContract`: each step maps to one of its steps or a stutter, a panic to
  `ConnectionPanics`, `Break` or `FallOut` and a stuck login to `Strand`. That a call the
  loop still has is not stranded is `SeenInv`.

* **Messages** (`MessageFlow_proofs`), for any characters and texts of any length.
  *Induction.* The library's induction theorems take an operator, which no prover
  here can supply. The module proves its own, over numbers, sequences and finite
  sets, for the SET of those that have the property: a set of numbers that lacks one
  has a least it lacks (`LeastNumber`, `Induction`). The folds of the community
  modules choose a function by its equation, so that such a function has to be shown
  to exist (`FoldExists`); from it each fold gets a trace with one step for each
  element (`SplitTrace`, `ConcatTrace`, `DecodeTrace`, `MapTrace`), and from the trace
  the equations the proofs use (`SplitAtFirst`, `ConcatAppend`, `DecodeAppend`,
  `TagsOfCons`).
  *Parser after formatter.* `TagValuesSurvive` (escapes), `TagsSurvive` (every order of
  the keys), `PrefixSurvives` and `ParamsSurvive` (the trailing parameter) give
  `MessagesSurvive`: `parse(as_raw_irc(m)) = m` for every message `m` a line can
  carry. `ParsedIsMessage` is the converse: whatever a line has, what is parsed of it
  is such a message. Together they are the guarantee at `message/mod.rs:74`, without
  the one message named above.
  *The flow.* `DeliveredAsMeant` and `SentOnUnchanged` speak of the state after everything was read; the
  invariant `FlowInv` has to say what leads there. A message is carried (`Carries`)
  if the bytes on their way are read as that message alone, or, when nothing is on
  its way, if it is what was handed out. `Delivery` says this of the message meant,
  `Relayed` of the message that was sent on, whatever line it came from; `Underway`
  that nothing else was handed out meanwhile, and `FlowTypes` that all that is handed
  out has a message that was parsed (`Handing`), which is why it can be written again.
  `SentOnUnchangedCorrect` follows, and `DeliveredAsMeantCorrect` with the proof that only
  `Disordered` values panic (`FlowPanics`): what was handed out is the message meant, and
  where it is a panic the message meant has such a value. A message the client
  itself sends is one that a line can carry when its channel passes
  `validate_login` and its text has no line break (`SaidIsMeant`). `TypeCorrect` needs
  no more than that whatever is written is a text (`FormatType`).
  *The types.* `ReadsHarmless` goes through the fields of every command: each is
  accepted, refused, or overflows with the result of the wrapped number, and panics or
  overflows only on a value that `Disordered` names. For a colour that is
  counting bytes: seven of them without a character of several bytes are seven
  characters, whose pairs cut through none. `PanicsOnlyOnDisorderCorrect` follows, for
  whatever was received, and needs only that it was parsed from a text. `TypedExactly`
  turns the fallback around: a message has its type exactly when each of its fields is
  fine. So `TypedWithout` can show, field by field, that a message that had its type
  keeps it without a tag it need not have (the field then is the empty option, and an
  event of `USERNOTICE` stays the same event), and
  `TypedWithoutOptionalsCorrect` goes by the invariant `TypedSoFar`: what the server
  means has its type as long as only such tags were left out.
  `EmotesCutTheTextCorrect` is about results: that a tag was read means each part and
  each range of it was, `Concat` puts them in the order of the tag (`EachTogether`),
  `Emote` computes the range and its characters from the two numbers (`EmotesAre`), and
  sorting only permutes them. That a sequence of emotes can be put in order at all,
  without which the sort of the model would be any permutation, is an induction of its
  own (`OrderExists`, `SortedIs`).

Only model-checked: the liveness properties (`EveryRequestAnswered`, `TasksEnd`,
`FailedWriteCloses`, `SettlesLikeContract`, `EventuallyJoined`, `EveryAttemptEnds`,
`EveryCallEnds`, `EverythingEnds`) and the fairness of `ClientContract` in the
`ImplementsContract` of `ClientHandle`: liveness and ENABLED are out of the prover's
reach. Every invariant that a passing run checks is proved.

## What is not modelled

* Connecting a socket and TLS; the failures of connecting, reading and writing are
  in `ConnectionLoop`.
* Two clients on one metrics registry; the counters of messages by command.
* The wrap-around of `next_connection_id` after 2^64 connections.
* A caller who closes the shared semaphore.
* `StaticLoginCredentials`, configuration constructors and defaults, the crate root
  and the examples: constants, re-exports and uses of the library.
* Tracing, `Display` and `Debug`, serialization with serde.

## Plan

What is left, in order of worth:

1. `ClientLoop` with `ConnectionContract` as its connections, by instance rather
   than by description.
2. The names of the fields of typed messages, so that a value read from the wrong
   tag would show; now only the emotes are compared with what was sent.

## Running

```
tlc -workers 2 -config ConnectionLoop_requests.cfg MCConnectionLoop
tlapm ConnectionLoop_proofs.tla
```
