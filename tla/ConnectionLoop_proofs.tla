----------------------- MODULE ConnectionLoop_proofs -----------------------
(***************************************************************************)
(* Theorems about `ConnectionLoop`, for every set of requests and every    *)
(* bound.                                                                  *)
(***************************************************************************)
EXTENDS ConnectionLoop, TLAPS

\* Answering keeps replies a function of the requests.
LEMMA ReplyType ==
    ASSUME replies \in [Requests -> Cause \union {"pending", "ok", "dropped"}],
           NEW ms, NEW outcome \in Cause \union {"ok", "dropped"}
    PROVE  Reply(ms, outcome) \in [Requests -> Cause \union {"pending", "ok", "dropped"}]
BY DEF Reply

\* A posted command is a command like the others in the channel.
LEMMA PostType ==
    ASSUME connection_loop_rx \in Seq(CommandSet),
           NEW command \in CommandSet, Post(<<command>>)
    PROVE  connection_loop_rx' \in Seq(CommandSet)
<1>1. connection_loop_rx' \in {connection_loop_rx, connection_loop_rx \o <<command>>}
  BY DEF Post
<1> QED BY <1>1

(***************************************************************************)
(* The variables a branch of the main loop may change, and the branches    *)
(* all handlers are built from.                                            *)
(***************************************************************************)
BranchTypeOK ==
    /\ state \in {"Initializing", "Open", "Closed", "Ended", "Panicked", "Unreachable"}
    /\ reason_for_closure \in Cause \union {NoCause}
    /\ state = "Closed" => reason_for_closure \in Cause
    /\ commands_queue \in Seq(Requests)
    /\ pong_received \in BOOLEAN
    /\ incoming_task \in TaskStates
    /\ ping_task \in TaskStates
    /\ outgoing_task \in TaskStates \ {"killed"}
    /\ outgoing_rx \in Seq(Message)
    /\ connection_incoming \in Seq(EventSet)
    /\ replies \in [Requests -> Cause \union {"pending", "ok", "dropped"}]

\* Every branch keeps the types, whichever command it answers.
LEMMA BranchType ==
    ASSUME BranchTypeOK
    PROVE  /\ Ignored => BranchTypeOK'
           /\ Unreachable => BranchTypeOK'
           /\ \A c \in Cause : InitializingToClosed(c) => BranchTypeOK'
           /\ \A c \in Cause, events \in Seq(EventSet) :
                 OpenToClosed(events, c) => BranchTypeOK'
           /\ \A events \in Seq(EventSet), messages \in Seq(Message), pong \in BOOLEAN :
                 StayOpen(events, messages, pong) => BranchTypeOK'
           /\ \A r \in InitResults : InitializingToOpen(r) => BranchTypeOK'
<1> USE DEF BranchTypeOK, TaskStates
<1>1. Ignored => BranchTypeOK'
  BY DEF Ignored, worker_vars
<1>2. Unreachable => BranchTypeOK'
  BY DEF Unreachable
<1>3. ASSUME NEW c \in Cause PROVE StateClosed(c) \in EventSet
  BY DEF EventSet
<1>4. ASSUME NEW c \in Cause, InitializingToClosed(c) PROVE BranchTypeOK'
  <2>1. connection_incoming' \in Seq(EventSet)
    BY <1>3, <1>4 DEF InitializingToClosed, Emit
  <2>2. replies' \in [Requests -> Cause \union {"pending", "ok", "dropped"}]
    BY <1>4, ReplyType DEF InitializingToClosed
  <2> QED BY <1>4, <2>1, <2>2 DEF InitializingToClosed
<1>5. ASSUME NEW c \in Cause, NEW events \in Seq(EventSet), OpenToClosed(events, c)
      PROVE  BranchTypeOK'
  <2>1. connection_incoming' \in Seq(EventSet)
    BY <1>3, <1>5 DEF OpenToClosed, Emit
  <2> QED BY <1>5, <2>1 DEF OpenToClosed, Killed
<1>6. ASSUME NEW events \in Seq(EventSet), NEW messages \in Seq(Message),
             NEW pong \in BOOLEAN, StayOpen(events, messages, pong)
      PROVE  BranchTypeOK'
  BY <1>6 DEF StayOpen, Emit
<1>7. ASSUME NEW r \in InitResults, InitializingToOpen(r) PROVE BranchTypeOK'
  <2>1. connection_incoming' \in Seq(EventSet)
    <3> DEFINE events == IF Metrics THEN <<StateOpen>> ELSE <<>>
    <3>1. events \in Seq(EventSet)
      <4>1. StateOpen \in EventSet
        BY DEF EventSet
      <4>2. <<>> \in Seq(EventSet) /\ <<StateOpen>> \in Seq(EventSet)
        BY <4>1
      <4> QED BY <4>2, Zenon
    <3>2. connection_incoming' = connection_incoming \o events
      BY <1>7 DEF InitializingToOpen, Emit
    <3>3. \A s, t \in Seq(EventSet) : s \o t \in Seq(EventSet)
      OBVIOUS
    <3>4. connection_incoming \in Seq(EventSet)
      OBVIOUS
    <3> HIDE DEF events, BranchTypeOK
    <3> QED BY <3>1, <3>2, <3>3, <3>4
  <2>2. commands_queue \in Seq(Message)
    <3>1. \A j \in 1..Len(commands_queue) : commands_queue[j] \in Message
      BY DEF Message
    <3> QED BY <3>1
  <2>3. Handshake(r) \in Seq(Message)
    <3>1. {"CAP", "PASS", "NICK"} \subseteq Message
      BY DEF Message, Control, Login
    <3>2. <<"CAP", "PASS", "NICK">> \in Seq(Message) /\ <<"CAP", "NICK">> \in Seq(Message)
      BY <3>1
    <3> QED BY <3>2 DEF Handshake
  <2>4. outgoing_rx' \in Seq(Message)
    BY <1>7, <2>2, <2>3 DEF InitializingToOpen
  <2>5. commands_queue' \in Seq(Requests)
    BY <1>7 DEF InitializingToOpen
  <2> QED BY <1>7, <2>1, <2>4, <2>5 DEF InitializingToOpen
<1> QED BY <1>1, <1>2, <1>4, <1>5, <1>6, <1>7

-----------------------------------------------------------------------------
\* Every variable keeps its type, through every task and every command.
THEOREM TypeCorrect == Spec => []TypeOK
<1>1. Init => TypeOK
  <2> SUFFICES ASSUME Init PROVE TypeOK
    OBVIOUS
  <2> USE DEF Init
  <2>1. replies \in [Requests -> Cause \union {"pending", "ok", "dropped"}]
    OBVIOUS
  <2>2. ticks \in [Ticks -> Nat] /\ failures \in Nat /\ received \in Nat
    OBVIOUS
  <2>3. /\ commands_queue \in Seq(Requests) /\ issued \in Seq(Requests)
        /\ connection_loop_rx \in Seq(CommandSet)
        /\ connection_incoming \in Seq(EventSet)
        /\ outgoing_rx \in Seq(Message)
        /\ wire \in Seq([message : Message, accepted : BOOLEAN])
    OBVIOUS
  <2> QED BY <2>1, <2>2, <2>3 DEF TypeOK, TaskStates
<1>2. TypeOK /\ [Next]_vars => TypeOK'
  <2> SUFFICES ASSUME TypeOK, [Next]_vars PROVE TypeOK'
    OBVIOUS
  <2> USE DEF TypeOK
  <2>1. ASSUME Pool PROVE TypeOK'
    <3>1. ASSUME NEW m \in Requests, PoolSend(m) PROVE TypeOK'
      <4>1. Command("SendMessage", m) \in CommandSet
        BY DEF CommandSet
      <4>2. connection_loop_rx' \in Seq(CommandSet)
        BY <3>1, <4>1, PostType DEF PoolSend
      <4> QED BY <3>1, <4>2 DEF PoolSend, worker_vars, task_vars, out_vars, bound_vars
    <3>s. ASSUME NEW m \in Requests, PoolSendPanics(m) PROVE TypeOK'
      <4>1. replies' \in [Requests -> Cause \union {"pending", "ok", "dropped"}]
        BY <3>s, ReplyType DEF PoolSendPanics
      <4>2. issued' \in Seq(Requests) /\ handle' = "pool_gone"
        BY <3>s DEF PoolSendPanics
      <4>3. UNCHANGED <<worker_vars, connection_loop_rx, task_vars, out_vars,
                        connection_incoming, bound_vars>>
        BY <3>s DEF PoolSendPanics
      <4> QED BY <4>1, <4>2, <4>3 DEF worker_vars, task_vars, out_vars, bound_vars
    <3>2. ASSUME PoolRemove \/ PoolGone PROVE TypeOK'
      BY <3>2 DEF PoolRemove, PoolGone, worker_vars, task_vars, out_vars, bound_vars
    <3> QED BY <2>1, <3>1, <3>s, <3>2 DEF Pool
  <2>2. ASSUME Tasks PROVE TypeOK'
    <3> USE DEF worker_vars, task_vars, out_vars, pool_vars, bound_vars, TaskStates
    <3>1. ASSUME NEW r \in InitResults, run_init_task(r) PROVE TypeOK'
      <4>1. Command("TransportInitFinished", r) \in CommandSet
        BY DEF CommandSet
      <4>2. connection_loop_rx' \in Seq(CommandSet)
        BY <3>1, <4>1, PostType DEF run_init_task
      <4> QED BY <3>1, <4>2 DEF run_init_task
    <3>2. ASSUME NEW i \in Items, run_incoming_forward_task(i)
          PROVE  TypeOK'
      <4>1. Command("IncomingMessage", i) \in CommandSet
        BY DEF CommandSet
      <4>2. connection_loop_rx' \in Seq(CommandSet)
        BY <3>2, <4>1, PostType DEF run_incoming_forward_task
      <4> QED BY <3>2, <4>2 DEF run_incoming_forward_task
    <3>3. ASSUME NEW t \in Ticks, run_ping_task(t) PROVE TypeOK'
      <4>1. Command(t, "None") \in CommandSet
        BY DEF CommandSet, Ticks
      <4>2. connection_loop_rx' \in Seq(CommandSet)
        BY <3>3, <4>1, PostType DEF run_ping_task
      <4> QED BY <3>3, <4>2 DEF run_ping_task
    <3>4. ASSUME NEW accepted \in BOOLEAN, run_outgoing_forward_task(accepted)
          PROVE  TypeOK'
      <4>1. Command("SendError", "None") \in CommandSet
        BY DEF CommandSet
      <4>2. replies' \in [Requests -> Cause \union {"pending", "ok", "dropped"}]
        BY <3>4, ReplyType DEF run_outgoing_forward_task, Cause
      <4>3. wire' \in Seq([message : Message, accepted : BOOLEAN])
        BY <3>4 DEF run_outgoing_forward_task
      <4>4. connection_loop_rx' \in Seq(CommandSet)
        BY <3>4, <4>1, PostType DEF run_outgoing_forward_task
      <4>5. outgoing_rx' \in Seq(Message) /\ failures' \in Nat
        BY <3>4 DEF run_outgoing_forward_task
      <4>6. UNCHANGED <<worker_vars, task_vars, pool_vars, connection_incoming, received, ticks>>
        BY <3>4 DEF run_outgoing_forward_task
      <4> QED BY <4>2, <4>3, <4>4, <4>5, <4>6
    <3>5. ASSUME IncomingTaskStops \/ PingTaskStops \/ OutgoingTaskStops PROVE TypeOK'
      BY <3>5 DEF IncomingTaskStops, PingTaskStops, OutgoingTaskStops
    <3>6. ASSUME InitTaskPanics PROVE TypeOK'
      BY <3>6 DEF InitTaskPanics
    <3> QED BY <2>2, <3>1, <3>2, <3>3, <3>4, <3>5, <3>6 DEF Tasks
  <2>3. ASSUME process_command PROVE TypeOK'
    <3>1. BranchTypeOK
      BY DEF BranchTypeOK
    <3>2. ASSUME NEW kind, NEW arg, Receive(kind, arg), BranchTypeOK' PROVE TypeOK'
      BY <3>2 DEF Receive, BranchTypeOK, pool_vars, bound_vars
    <3> HIDE DEF TypeOK
    <3>e. <<>> \in Seq(EventSet) /\ <<>> \in Seq(Message)
      OBVIOUS
    <3>3. ASSUME NEW m \in Requests, send_message(m) PROVE BranchTypeOK'
      <4>1. CASE state = "Closed"
        <5>1. Reply({m}, reason_for_closure) \in
                 [Requests -> Cause \union {"pending", "ok", "dropped"}]
          <6>1. reason_for_closure \in Cause
            BY <3>1, <4>1 DEF BranchTypeOK
          <6> QED BY <3>1, <6>1, ReplyType DEF BranchTypeOK
        <5> QED BY <3>1, <3>3, <4>1, <5>1 DEF send_message, Queue, Refuse, BranchTypeOK, worker_vars
      <4>2. CASE state = "Open"
        <5>1. <<m>> \in Seq(Message) /\ pong_received \in BOOLEAN
          BY <3>1 DEF BranchTypeOK, Message
        <5> QED BY <3>1, <3>3, <3>e, <4>2, <5>1, BranchType DEF send_message, Queue, Refuse
      <4>3. CASE state = "Initializing"
        <5>1. commands_queue' \in Seq(Requests)
          <6>1. commands_queue \in Seq(Requests)
            BY <3>1 DEF BranchTypeOK
          <6>2. commands_queue' = Append(commands_queue, m)
            BY <3>3, <4>3 DEF send_message, Queue, Refuse
          <6> QED BY <6>1, <6>2
        <5>2. /\ state' \in {"Initializing", "Open", "Closed", "Ended", "Panicked", "Unreachable"}
              /\ state' # "Closed"
          BY <3>3, <4>3 DEF send_message, Queue, Refuse
        <5>3. UNCHANGED <<reason_for_closure, pong_received, incoming_task, ping_task,
                          outgoing_task, outgoing_rx, connection_incoming, replies>>
          BY <3>3, <4>3 DEF send_message, Queue, Refuse
        <5> QED BY <3>1, <5>1, <5>2, <5>3, Zenon DEF BranchTypeOK
      <4> QED BY <3>3, <4>1, <4>2, <4>3 DEF send_message, Queue, Refuse
    <3>4. ASSUME NEW r \in InitResults, on_transport_init_finished(r) PROVE BranchTypeOK'
      BY <3>1, <3>4, BranchType DEF on_transport_init_finished, InitErrors, Cause
    <3>5. ASSUME on_send_error PROVE BranchTypeOK'
      BY <3>1, <3>5, <3>e, BranchType DEF on_send_error, Cause
    <3>6. ASSUME NEW i \in Items, on_incoming_message(i)
          PROVE  BranchTypeOK'
      <4>1. i \in StreamEnds => EndCause(i) \in Cause
        BY DEF StreamEnds, EndCause, Cause
      <4>2. i \in ServerMessages => <<IncomingMessage(i)>> \in Seq(EventSet)
        BY DEF EventSet
      <4>3. (IF i = "Ping" THEN <<"PONG">> ELSE <<>>) \in Seq(Message)
        <5>1. "PONG" \in Message
          BY DEF Message, Control
        <5> QED BY <5>1
      <4>4. "ReconnectCmd" \in Cause /\ "Reconnect" \in ServerMessages
        BY DEF Cause, ServerMessages
      <4>5. (i = "Pong" \/ pong_received) \in BOOLEAN
        BY <3>1 DEF BranchTypeOK
      <4>6. CASE state = "Open" /\ i \in StreamEnds /\ OpenToClosed(<<>>, EndCause(i))
        BY <3>1, <3>e, <4>1, <4>6, BranchType
      <4>7. CASE i = "Reconnect" /\ OpenToClosed(<<IncomingMessage(i)>>, "ReconnectCmd")
        BY <3>1, <4>2, <4>4, <4>7, BranchType
      <4>8. CASE /\ i \in ServerMessages
                 /\ StayOpen(<<IncomingMessage(i)>>,
                             IF i = "Ping" THEN <<"PONG">> ELSE <<>>,
                             i = "Pong" \/ pong_received)
        BY <3>1, <4>2, <4>3, <4>5, <4>8, BranchType
      <4>9. CASE Unreachable \/ Ignored
        BY <3>1, <4>9, BranchType
      <4> QED BY <3>6, <4>6, <4>7, <4>8, <4>9 DEF on_incoming_message
    <3>7. ASSUME send_ping PROVE BranchTypeOK'
      <4>1. <<"PING">> \in Seq(Message)
        BY DEF Message, Control
      <4> QED BY <3>1, <3>7, <3>e, <4>1, BranchType DEF send_ping
    <3>8. ASSUME check_pong PROVE BranchTypeOK'
      BY <3>1, <3>8, <3>e, BranchType DEF check_pong, Cause
    <3> QED BY <2>3, <3>2, <3>3, <3>4, <3>5, <3>6, <3>7, <3>8 DEF process_command
  <2>4. ASSUME WorkerEnds PROVE TypeOK'
    <3>1. replies' \in [Requests -> Cause \union {"pending", "ok", "dropped"}]
      BY <2>4, ReplyType DEF WorkerEnds
    <3> QED BY <2>4, <3>1 DEF WorkerEnds, Killed, TaskStates, out_vars, pool_vars, bound_vars
  <2>5. CASE UNCHANGED vars
    BY <2>5 DEF vars, worker_vars, task_vars, out_vars, pool_vars, bound_vars
  <2>6. ASSUME try_from_panics PROVE TypeOK'
    <3>1. replies' \in [Requests -> Cause \union {"pending", "ok", "dropped"}]
      BY <2>6, ReplyType DEF try_from_panics
    <3> QED BY <2>6, <3>1
            DEF try_from_panics, Killed, TaskStates, out_vars, pool_vars, bound_vars
  <2> QED BY <2>1, <2>2, <2>3, <2>4, <2>5, <2>6 DEF Next
<1> QED BY <1>1, <1>2, PTL DEF Spec

-----------------------------------------------------------------------------
(* The loop never runs into an unreachable!() *)

\* A command posted by a running task keeps the invariant.
LEMMA PostLoopInv ==
    ASSUME TypeOK, LoopInv, NEW command \in CommandSet,
           command.command = "SendMessage" \/ state \notin {"Initializing", "Ended"},
           command.command # "TransportInitFinished",
           Post(<<command>>),
           UNCHANGED <<state, handle, init_task, outgoing_task>>,
           state = "Initializing" => UNCHANGED <<incoming_task, ping_task>>
    PROVE  LoopInv'
<1>0. CASE state = "Panicked"
  BY <1>0 DEF Post, LoopInv, NeverUnreachable
<1>s. SUFFICES ASSUME state # "Panicked" PROVE LoopInv'
  BY <1>0
<1>1. /\ DOMAIN connection_loop_rx' = 1..(Len(connection_loop_rx) + 1)
      /\ DOMAIN connection_loop_rx = 1..Len(connection_loop_rx)
      /\ Len(connection_loop_rx) \in Nat
      /\ \A i \in 1..Len(connection_loop_rx) : connection_loop_rx'[i] = connection_loop_rx[i]
      /\ connection_loop_rx'[Len(connection_loop_rx) + 1] = command
  BY <1>s DEF Post, TypeOK
<1> QED BY <1>1, <1>s DEF LoopInv, NeverUnreachable

\* Taking a command that does not end the Initializing state keeps the invariant.
LEMMA ReceiveLoopInv ==
    ASSUME TypeOK, LoopInv, NEW kind, NEW arg, Receive(kind, arg),
           kind # "TransportInitFinished",
           state' = state \/ (state = "Open" /\ state' = "Closed"),
           state = "Initializing" => UNCHANGED <<incoming_task, ping_task, outgoing_task>>
    PROVE  LoopInv'
<1>1. /\ DOMAIN connection_loop_rx' = 1..(Len(connection_loop_rx) - 1)
      /\ DOMAIN connection_loop_rx = 1..Len(connection_loop_rx)
      /\ Len(connection_loop_rx) \in Nat \ {0}
      /\ \A i \in 1..(Len(connection_loop_rx) - 1) :
            connection_loop_rx'[i] = connection_loop_rx[i + 1]
  BY DEF Receive, TypeOK
<1>2. UNCHANGED <<init_task, handle>>
  BY DEF Receive, pool_vars
<1>3. ASSUME NEW i \in DOMAIN connection_loop_rx',
             connection_loop_rx'[i].command = "TransportInitFinished"
      PROVE  /\ init_task' = "ended" /\ state' = "Initializing"
             /\ \A j \in DOMAIN connection_loop_rx' :
                   connection_loop_rx'[j].command = "TransportInitFinished" => i = j
  <2>1. /\ i + 1 \in DOMAIN connection_loop_rx
        /\ connection_loop_rx[i + 1].command = "TransportInitFinished"
    BY <1>1, <1>3
  <2>2. init_task = "ended" /\ state = "Initializing"
    BY <2>1 DEF LoopInv
  <2>3. ASSUME NEW j \in DOMAIN connection_loop_rx',
               connection_loop_rx'[j].command = "TransportInitFinished"
        PROVE  i = j
    <3>1. /\ j + 1 \in DOMAIN connection_loop_rx
          /\ connection_loop_rx[j + 1].command = "TransportInitFinished"
      BY <1>1, <2>3
    <3>2. i + 1 = j + 1
      BY <2>1, <3>1 DEF LoopInv
    <3> QED BY <1>1, <3>2
  <2> QED BY <1>2, <2>2, <2>3
<1>4. state' = "Initializing" =>
         /\ incoming_task' = "none" /\ ping_task' = "none" /\ outgoing_task' = "none"
         /\ \A i \in DOMAIN connection_loop_rx' :
               connection_loop_rx'[i].command \in {"SendMessage", "TransportInitFinished"}
  BY <1>1 DEF LoopInv
<1>5. (init_task' = "running" => state' \in {"Initializing", "Ended"}) /\ NeverUnreachable'
  BY <1>2 DEF LoopInv, NeverUnreachable
<1>6. state' = "Ended" => handle' # "held"
  BY <1>2 DEF LoopInv
<1> QED BY <1>3, <1>4, <1>5, <1>6 DEF LoopInv

\* The first command of the channel is one the invariant allows in this state.
LEMMA ReceiveAllowed ==
    ASSUME TypeOK, LoopInv, NEW kind, NEW arg, Receive(kind, arg)
    PROVE  /\ state = "Initializing" => kind \in {"SendMessage", "TransportInitFinished"}
           /\ kind = "TransportInitFinished" => state = "Initializing"
<1>1. /\ 1 \in DOMAIN connection_loop_rx
      /\ connection_loop_rx[1].command = kind
  BY DEF Receive, TypeOK, Command
<1> QED BY <1>1 DEF LoopInv

LEMMA InitLoopInv == Init => LoopInv
BY DEF Init, LoopInv, NeverUnreachable

LEMMA StepLoopInv == TypeOK /\ LoopInv /\ [Next]_vars => LoopInv'
<1> SUFFICES ASSUME TypeOK, LoopInv, [Next]_vars PROVE LoopInv'
  OBVIOUS
<1> USE DEF worker_vars, task_vars, out_vars, pool_vars, bound_vars
<1>1. ASSUME NEW m \in Requests, PoolSend(m) PROVE LoopInv'
  <2>1. /\ Command("SendMessage", m) \in CommandSet
        /\ Command("SendMessage", m).command = "SendMessage"
    BY DEF CommandSet, Command
  <2> QED BY <1>1, <2>1, PostLoopInv DEF PoolSend
<1>2. ASSUME PoolRemove \/ PoolGone \/ InitTaskPanics
             \/ \E m \in Requests : PoolSendPanics(m)
      PROVE  LoopInv'
  <2>1. UNCHANGED <<state, connection_loop_rx, incoming_task, ping_task, outgoing_task>>
    BY <1>2 DEF PoolRemove, PoolGone, InitTaskPanics, PoolSendPanics
  <2>2. /\ init_task' \in {init_task, "panicked"} /\ (init_task = "ended" => init_task' = "ended")
        /\ (handle # "held" => handle' # "held")
    BY <1>2 DEF PoolRemove, PoolGone, InitTaskPanics, PoolSendPanics
  <2> QED BY <2>1, <2>2 DEF LoopInv, NeverUnreachable
<1>3. ASSUME NEW r \in InitResults, run_init_task(r) PROVE LoopInv'
  <2>1. CASE handle = "held"
    <3>1. state = "Initializing" /\ UNCHANGED state /\ state # "Panicked"
      BY <1>3, <2>1 DEF LoopInv, run_init_task
    <3>2. \A i \in DOMAIN connection_loop_rx :
             connection_loop_rx[i].command = "SendMessage"
      BY <1>3, <3>1 DEF LoopInv, run_init_task
    <3>3. connection_loop_rx' =
             connection_loop_rx \o <<Command("TransportInitFinished", r)>>
      BY <1>3, <2>1, <3>1 DEF run_init_task, Post, Upgrades
    <3>4. /\ DOMAIN connection_loop_rx' = 1..(Len(connection_loop_rx) + 1)
          /\ DOMAIN connection_loop_rx = 1..Len(connection_loop_rx)
          /\ Len(connection_loop_rx) \in Nat
          /\ \A i \in 1..Len(connection_loop_rx) :
                connection_loop_rx'[i] = connection_loop_rx[i]
          /\ connection_loop_rx'[Len(connection_loop_rx) + 1].command
                = "TransportInitFinished"
      BY <3>3 DEF TypeOK, Command
    <3> QED BY <1>3, <3>1, <3>2, <3>4 DEF LoopInv, NeverUnreachable, run_init_task
  <2>2. CASE handle # "held"
    BY <1>3, <2>2 DEF run_init_task, Upgrades, LoopInv, NeverUnreachable
  <2> QED BY <2>1, <2>2
<1>4. ASSUME NEW i \in Items, run_incoming_forward_task(i)
      PROVE  LoopInv'
  <2>1. /\ Command("IncomingMessage", i) \in CommandSet
        /\ Command("IncomingMessage", i).command = "IncomingMessage"
    BY DEF CommandSet, Command
  <2>2. state # "Initializing"
    BY <1>4 DEF LoopInv, run_incoming_forward_task
  <2>3. CASE handle = "held"
    BY <1>4, <2>1, <2>2, <2>3, PostLoopInv DEF run_incoming_forward_task, LoopInv, Upgrades
  <2>4. CASE handle # "held"
    BY <1>4, <2>2, <2>4 DEF run_incoming_forward_task, LoopInv, NeverUnreachable, Upgrades
  <2> QED BY <2>3, <2>4
<1>5. ASSUME NEW t \in Ticks, run_ping_task(t) PROVE LoopInv'
  <2>1. /\ Command(t, "None") \in CommandSet
        /\ Command(t, "None").command \in {"SendPing", "CheckPong"}
    BY DEF CommandSet, Command, Ticks
  <2>2. state # "Initializing"
    BY <1>5 DEF LoopInv, run_ping_task
  <2>3. CASE handle = "held"
    BY <1>5, <2>1, <2>2, <2>3, PostLoopInv DEF run_ping_task, LoopInv, Upgrades
  <2>4. CASE handle # "held"
    BY <1>5, <2>2, <2>4 DEF run_ping_task, LoopInv, NeverUnreachable, Upgrades
  <2> QED BY <2>3, <2>4
<1>6. ASSUME NEW accepted \in BOOLEAN, run_outgoing_forward_task(accepted) PROVE LoopInv'
  <2>1. /\ Command("SendError", "None") \in CommandSet
        /\ Command("SendError", "None").command = "SendError"
    BY DEF CommandSet, Command
  <2>2. state # "Initializing"
    BY <1>6 DEF LoopInv, run_outgoing_forward_task
  <2>3. CASE handle = "held" /\ ~accepted
    BY <1>6, <2>1, <2>2, <2>3, PostLoopInv
       DEF run_outgoing_forward_task, LoopInv, Upgrades
  <2>4. CASE handle # "held" \/ accepted
    BY <1>6, <2>2, <2>4 DEF run_outgoing_forward_task, LoopInv, NeverUnreachable, Upgrades
  <2> QED BY <2>3, <2>4
<1>7. ASSUME IncomingTaskStops \/ PingTaskStops \/ OutgoingTaskStops PROVE LoopInv'
  BY <1>7 DEF IncomingTaskStops, PingTaskStops, OutgoingTaskStops, LoopInv, NeverUnreachable
<1>8. ASSUME process_command PROVE LoopInv'
  <2>1. ASSUME NEW m \in Requests, Receive("SendMessage", m), send_message(m) PROVE LoopInv'
    BY <2>1, ReceiveLoopInv DEF send_message, Queue, Refuse, StayOpen
  <2>2. ASSUME NEW r \in InitResults, Receive("TransportInitFinished", r),
               on_transport_init_finished(r)
        PROVE  LoopInv'
    <3>1. /\ 1 \in DOMAIN connection_loop_rx
          /\ connection_loop_rx[1].command = "TransportInitFinished"
          /\ Len(connection_loop_rx) \in Nat
          /\ DOMAIN connection_loop_rx = 1..Len(connection_loop_rx)
          /\ DOMAIN connection_loop_rx' = 1..(Len(connection_loop_rx) - 1)
          /\ \A i \in 1..(Len(connection_loop_rx) - 1) :
                connection_loop_rx'[i] = connection_loop_rx[i + 1]
      BY <2>2 DEF Receive, TypeOK, Command
    <3>2. init_task = "ended" /\ state = "Initializing"
      BY <3>1 DEF LoopInv
    <3>3. \A i \in DOMAIN connection_loop_rx' :
             connection_loop_rx'[i].command # "TransportInitFinished"
      BY <3>1 DEF LoopInv
    <3>4. state' \in {"Open", "Closed"} /\ UNCHANGED init_task
      BY <2>2, <3>2 DEF Receive, on_transport_init_finished, InitializingToOpen,
                        InitializingToClosed
    <3> QED BY <3>2, <3>3, <3>4 DEF LoopInv, NeverUnreachable
  <2>3. ASSUME Receive("SendError", "None"), on_send_error PROVE LoopInv'
    <3>1. state # "Initializing"
      BY <2>3, ReceiveAllowed
    <3> QED BY <2>3, <3>1, ReceiveLoopInv DEF on_send_error, OpenToClosed, Ignored
  <2>4. ASSUME NEW i \in Items, Receive("IncomingMessage", i),
               on_incoming_message(i)
        PROVE  LoopInv'
    <3>1. state # "Initializing"
      BY <2>4, ReceiveAllowed
    <3>2. state' = state \/ (state = "Open" /\ state' = "Closed")
      BY <2>4, <3>1 DEF on_incoming_message, OpenToClosed, StayOpen, Ignored
    <3> QED BY <2>4, <3>1, <3>2, ReceiveLoopInv
  <2>5. ASSUME Receive("SendPing", "None"), send_ping PROVE LoopInv'
    <3>1. state # "Initializing"
      BY <2>5, ReceiveAllowed
    <3> QED BY <2>5, <3>1, ReceiveLoopInv DEF send_ping, StayOpen, Ignored
  <2>6. ASSUME Receive("CheckPong", "None"), check_pong PROVE LoopInv'
    <3>1. state # "Initializing"
      BY <2>6, ReceiveAllowed
    <3> QED BY <2>6, <3>1, ReceiveLoopInv DEF check_pong, OpenToClosed, Ignored
  <2> QED BY <1>8, <2>1, <2>2, <2>3, <2>4, <2>5, <2>6 DEF process_command
<1>9. ASSUME WorkerEnds PROVE LoopInv'
  BY <1>9 DEF WorkerEnds, LoopInv, NeverUnreachable, Upgrades
<1>10. CASE UNCHANGED vars
  BY <1>10 DEF vars, LoopInv, NeverUnreachable
<1>11. ASSUME try_from_panics PROVE LoopInv'
  <2>1. /\ state = "Open" /\ state' = "Panicked" /\ UNCHANGED init_task
        /\ connection_loop_rx' = <<>>
    BY <1>11 DEF try_from_panics
  <2> QED BY <2>1 DEF LoopInv, NeverUnreachable
<1> QED BY <1>1, <1>2, <1>3, <1>4, <1>5, <1>6, <1>7, <1>8, <1>9, <1>10, <1>11
        DEF Next, Pool, Tasks

\* However the tasks interleave, the main loop never takes one of the branches its
\* author marked unreachable!().
THEOREM NeverUnreachableCorrect == Spec => []NeverUnreachable
<1>1. Spec => []LoopInv
  BY InitLoopInv, StepLoopInv, TypeCorrect, PTL DEF Spec
<1>2. LoopInv => NeverUnreachable
  BY DEF LoopInv
<1> QED BY <1>1, <1>2, PTL

-----------------------------------------------------------------------------
(* The connection reports its closing once, as its last event *)

\* What a branch of the main loop sends keeps the invariant.
LEMMA BranchReport ==
    ASSUME TypeOK, ReportInv
    PROVE  /\ Ignored => ReportInv'
           /\ \A c \in Cause :
                 state = "Initializing" /\ InitializingToClosed(c) => ReportInv'
           /\ \A c \in Cause : state = "Open" /\ OpenToClosed(<<>>, c) => ReportInv'
           /\ \A c \in Cause, m \in ServerMessages :
                 state = "Open" /\ OpenToClosed(<<IncomingMessage(m)>>, c) => ReportInv'
           /\ \A messages, pong :
                 state = "Open" /\ StayOpen(<<>>, messages, pong) => ReportInv'
           /\ \A messages, pong : \A m \in ServerMessages :
                 state = "Open" /\ StayOpen(<<IncomingMessage(m)>>, messages, pong)
                     => ReportInv'
           /\ \A r : state = "Initializing" /\ InitializingToOpen(r) => ReportInv'
<1> DEFINE n == Len(connection_incoming)
<1>1. n \in Nat /\ DOMAIN connection_incoming = 1..n /\ connection_incoming \in Seq(EventSet)
  BY DEF TypeOK
<1>2. Ignored => ReportInv'
  BY DEF Ignored, worker_vars, ReportInv, ClosedOnceAndLast
<1>3. ASSUME NEW c \in Cause, state = "Initializing", InitializingToClosed(c) PROVE ReportInv'
  <2>1. connection_incoming' = <<StateClosed(c)>> /\ state' = "Closed"
    BY <1>3 DEF InitializingToClosed, Emit, ReportInv
  <2> QED BY <2>1 DEF ReportInv, ClosedOnceAndLast, StateClosed, Event
<1>4. ASSUME state = "Open"
      PROVE  \A i \in 1..n : /\ connection_incoming[i].event # "StateClosed"
                             /\ connection_incoming[i].event = "StateOpen" => i = 1
  BY <1>1, <1>4 DEF ReportInv, ClosedOnceAndLast
<1>5. ASSUME NEW c \in Cause, state = "Open", OpenToClosed(<<>>, c) PROVE ReportInv'
  <2>1. connection_incoming' = Append(connection_incoming, StateClosed(c))
    BY <1>1, <1>5 DEF OpenToClosed, Emit
  <2>2. /\ DOMAIN connection_incoming' = 1..(n + 1) /\ Len(connection_incoming') = n + 1
        /\ \A i \in 1..n : connection_incoming'[i] = connection_incoming[i]
        /\ connection_incoming'[n + 1] = StateClosed(c)
    BY <1>1, <2>1
  <2>3. Metrics => n > 0 /\ connection_incoming[1] = StateOpen
    BY <1>1, <1>5 DEF ReportInv
  <2>4. state' = "Closed"
    BY <1>5 DEF OpenToClosed
  <2> HIDE DEF n
  <2> QED BY <1>1, <1>4, <1>5, <2>2, <2>3, <2>4
          DEF ReportInv, ClosedOnceAndLast, StateClosed, Event
<1>6. ASSUME NEW c \in Cause, NEW m \in ServerMessages, state = "Open",
             OpenToClosed(<<IncomingMessage(m)>>, c)
      PROVE  ReportInv'
  <2> DEFINE said == <<IncomingMessage(m)>> \o <<StateClosed(c)>>
  <2>1. connection_incoming' = connection_incoming \o said
    BY <1>6 DEF OpenToClosed, Emit
  <2>2. /\ DOMAIN connection_incoming' = 1..(n + 2) /\ Len(connection_incoming') = n + 2
        /\ \A i \in 1..n : connection_incoming'[i] = connection_incoming[i]
        /\ connection_incoming'[n + 1] = IncomingMessage(m)
        /\ connection_incoming'[n + 2] = StateClosed(c)
    <3>1. IncomingMessage(m) \in EventSet /\ StateClosed(c) \in EventSet
      BY DEF EventSet
    <3>2. /\ said \in Seq(EventSet) /\ Len(said) = 2
          /\ said[1] = IncomingMessage(m) /\ said[2] = StateClosed(c)
      BY <3>1
    <3>3. \A s, t \in Seq(EventSet) :
             /\ s \o t \in Seq(EventSet) /\ Len(s \o t) = Len(s) + Len(t)
             /\ \A i \in 1..Len(s) : (s \o t)[i] = s[i]
             /\ \A i \in 1..Len(t) : (s \o t)[Len(s) + i] = t[i]
      OBVIOUS
    <3> HIDE DEF said
    <3>4. /\ connection_incoming' \in Seq(EventSet) /\ Len(connection_incoming') = n + 2
          /\ \A i \in 1..n : connection_incoming'[i] = connection_incoming[i]
          /\ \A i \in 1..2 : connection_incoming'[n + i] = said[i]
      <4>1. connection_incoming \in Seq(EventSet) /\ said \in Seq(EventSet)
        BY <1>1, <3>2
      <4>2. /\ connection_incoming \o said \in Seq(EventSet)
            /\ Len(connection_incoming \o said) = Len(connection_incoming) + Len(said)
            /\ \A i \in 1..Len(connection_incoming) :
                  (connection_incoming \o said)[i] = connection_incoming[i]
            /\ \A i \in 1..Len(said) :
                  (connection_incoming \o said)[Len(connection_incoming) + i] = said[i]
        BY <3>3, <4>1
      <4> QED BY <2>1, <3>2, <4>2, Zenon
    <3>5. DOMAIN connection_incoming' = 1..Len(connection_incoming')
      BY <3>4
    <3> QED BY <3>2, <3>4, <3>5
  <2>3. Metrics => n > 0 /\ connection_incoming[1] = StateOpen
    BY <1>1, <1>6 DEF ReportInv
  <2>4. state' = "Closed"
    BY <1>6 DEF OpenToClosed
  <2> HIDE DEF n
  <2>5. /\ IncomingMessage(m).event = "IncomingMessage"
        /\ StateClosed(c).event = "StateClosed"
    BY DEF IncomingMessage, StateClosed, Event
  <2>6. Metrics => connection_incoming'[1] = StateOpen
    BY <1>1, <2>2, <2>3
  <2>7. ASSUME NEW i \in DOMAIN connection_incoming'
        PROVE  /\ connection_incoming'[i].event = "StateClosed" => i = n + 2
               /\ connection_incoming'[i].event = "StateOpen" => i = 1
    <3>1. CASE i \in 1..n
      BY <1>4, <1>6, <2>2, <3>1
    <3>2. CASE i = n + 1
      BY <2>2, <2>5, <3>2
    <3>3. CASE i = n + 2
      BY <2>2, <2>5, <3>3
    <3> QED BY <1>1, <2>2, <3>1, <3>2, <3>3
  <2> QED BY <2>2, <2>4, <2>6, <2>7 DEF ReportInv, ClosedOnceAndLast
<1>7. ASSUME NEW messages, NEW pong, state = "Open", StayOpen(<<>>, messages, pong)
      PROVE  ReportInv'
  <2>1. UNCHANGED <<connection_incoming, state>>
    BY <1>1, <1>7 DEF StayOpen, Emit
  <2> QED BY <2>1 DEF ReportInv, ClosedOnceAndLast
<1>8. ASSUME NEW messages, NEW pong, NEW m \in ServerMessages, state = "Open",
             StayOpen(<<IncomingMessage(m)>>, messages, pong)
      PROVE  ReportInv'
  <2>1. connection_incoming' = Append(connection_incoming, IncomingMessage(m))
    BY <1>1, <1>8 DEF StayOpen, Emit
  <2>2. /\ DOMAIN connection_incoming' = 1..(n + 1) /\ Len(connection_incoming') = n + 1
        /\ \A i \in 1..n : connection_incoming'[i] = connection_incoming[i]
        /\ connection_incoming'[n + 1] = IncomingMessage(m)
    BY <1>1, <2>1
  <2>3. Metrics => n > 0 /\ connection_incoming[1] = StateOpen
    BY <1>1, <1>8 DEF ReportInv
  <2>4. state' = "Open"
    BY <1>8 DEF StayOpen
  <2> HIDE DEF n
  <2> QED BY <1>1, <1>4, <1>8, <2>2, <2>3, <2>4
          DEF ReportInv, ClosedOnceAndLast, IncomingMessage, Event
<1>9. ASSUME NEW r, state = "Initializing", InitializingToOpen(r) PROVE ReportInv'
  <2>1. /\ connection_incoming' = IF Metrics THEN <<StateOpen>> ELSE <<>>
        /\ state' = "Open"
    BY <1>9 DEF InitializingToOpen, Emit, ReportInv
  <2> QED BY <2>1 DEF ReportInv, ClosedOnceAndLast, StateOpen, Event
<1> QED BY <1>2, <1>3, <1>5, <1>6, <1>7, <1>8, <1>9

LEMMA StepReportInv == TypeOK /\ LoopInv /\ LoopInv' /\ ReportInv /\ [Next]_vars => ReportInv'
<1> SUFFICES ASSUME TypeOK, LoopInv, LoopInv', ReportInv, [Next]_vars PROVE ReportInv'
  OBVIOUS
<1>1. CASE UNCHANGED <<state, connection_incoming>>
  BY <1>1 DEF ReportInv, ClosedOnceAndLast
<1>2. Pool \/ Tasks \/ UNCHANGED vars => UNCHANGED <<state, connection_incoming>>
  BY DEF Pool, Tasks, vars, worker_vars, PoolSend, PoolSendPanics, PoolRemove, PoolGone,
         InitTaskPanics, run_init_task,
         run_incoming_forward_task, IncomingTaskStops, run_ping_task, PingTaskStops,
         run_outgoing_forward_task, OutgoingTaskStops
<1>3. ASSUME WorkerEnds \/ try_from_panics PROVE ReportInv'
  BY <1>3 DEF WorkerEnds, try_from_panics, ReportInv, ClosedOnceAndLast
<1>4. ASSUME process_command PROVE ReportInv'
  <2>0. ~Unreachable
    BY DEF Unreachable, LoopInv, NeverUnreachable
  <2>1. ASSUME NEW m \in Requests, send_message(m) PROVE ReportInv'
    BY <1>1, <2>1, BranchReport DEF send_message, Queue, Refuse, worker_vars
  <2>2. ASSUME NEW r \in InitResults, on_transport_init_finished(r) PROVE ReportInv'
    BY <2>0, <2>2, BranchReport DEF on_transport_init_finished, Cause
  <2>3. ASSUME on_send_error PROVE ReportInv'
    BY <2>3, BranchReport DEF on_send_error, Cause
  <2>4. ASSUME NEW i \in Items, on_incoming_message(i)
        PROVE  ReportInv'
    <3>1. i \in StreamEnds => EndCause(i) \in Cause
      BY DEF StreamEnds, EndCause, Cause
    <3>2. "ReconnectCmd" \in Cause /\ "Reconnect" \in ServerMessages
      BY DEF Cause, ServerMessages
    <3>3. CASE state = "Open" /\ i \in StreamEnds /\ OpenToClosed(<<>>, EndCause(i))
      BY <3>1, <3>3, BranchReport
    <3>4. CASE /\ state = "Open" /\ i = "Reconnect"
               /\ OpenToClosed(<<IncomingMessage(i)>>, "ReconnectCmd")
      BY <3>2, <3>4, BranchReport
    <3>5. CASE /\ state = "Open" /\ i \in ServerMessages
               /\ StayOpen(<<IncomingMessage(i)>>,
                           IF i = "Ping" THEN <<"PONG">> ELSE <<>>,
                           i = "Pong" \/ pong_received)
      <4> DEFINE messages == IF i = "Ping" THEN <<"PONG">> ELSE <<>>
                 pong == i = "Pong" \/ pong_received
      <4>1. StayOpen(<<IncomingMessage(i)>>, messages, pong)
        BY <3>5
      <4> HIDE DEF messages, pong
      <4> QED BY <3>5, <4>1, BranchReport
    <3>6. CASE Ignored
      BY <3>6, BranchReport
    <3> QED BY <2>0, <2>4, <3>3, <3>4, <3>5, <3>6 DEF on_incoming_message
  <2>5. ASSUME send_ping PROVE ReportInv'
    BY <2>0, <2>5, BranchReport DEF send_ping
  <2>6. ASSUME check_pong PROVE ReportInv'
    BY <2>0, <2>6, BranchReport DEF check_pong, Cause
  <2> QED BY <1>4, <2>1, <2>2, <2>3, <2>4, <2>5, <2>6 DEF process_command
<1> QED BY <1>1, <1>2, <1>3, <1>4 DEF Next

\* The assertion of the pool (client/event_loop.rs:455-456), that it sees the closing of
\* a connection once and nothing after it, holds of every connection.
THEOREM ClosedOnceAndLastCorrect == Spec => []ClosedOnceAndLast
<1>1. Init => ReportInv
  BY DEF Init, ReportInv, ClosedOnceAndLast
<1>2. Spec => []ReportInv
  BY <1>1, InitLoopInv, StepLoopInv, StepReportInv, TypeCorrect, PTL DEF Spec
<1>3. ReportInv => ClosedOnceAndLast
  BY DEF ReportInv
<1> QED BY <1>2, <1>3, PTL

-----------------------------------------------------------------------------
(* The connection implements its contract *)

LEMMA PhaseIs ==
    /\ state \in {"Open", "Closed", "Panicked"} => phase = state
    /\ state = "Initializing" /\ init_task # "panicked" => phase = state
    /\ state = "Initializing" /\ init_task = "panicked" => phase = "Stuck"
    /\ state = "Ended" => phase = "Abandoned"
BY DEF phase

LEMMA PhaseIsNext ==
    /\ state' \in {"Open", "Closed", "Panicked"} => phase' = state'
    /\ state' = "Initializing" /\ init_task' = "panicked" => phase' = "Stuck"
    /\ state' = "Ended" => phase' = "Abandoned"
BY DEF phase

\* Each branch of the main loop is a step of the contract.
LEMMA BranchContract ==
    ASSUME TypeOK, UNCHANGED init_task
    PROVE  /\ Ignored => UNCHANGED <<phase, connection_incoming>>
           /\ \A c \in Cause :
                 state = "Initializing" /\ init_task # "panicked" /\ InitializingToClosed(c)
                     => Contract!Next
           /\ \A c \in Cause : state = "Open" /\ OpenToClosed(<<>>, c) => Contract!Next
           /\ \A c \in Cause, m \in ServerMessages :
                 state = "Open" /\ OpenToClosed(<<IncomingMessage(m)>>, c) => Contract!Next
           /\ \A messages, pong :
                 StayOpen(<<>>, messages, pong) => UNCHANGED <<phase, connection_incoming>>
           /\ \A messages, pong : \A m \in ServerMessages :
                 state = "Open" /\ StayOpen(<<IncomingMessage(m)>>, messages, pong)
                     => Contract!Next
           /\ \A r :
                 state = "Initializing" /\ init_task # "panicked" /\ InitializingToOpen(r)
                     => Contract!Next
<1> USE DEF Emit, Contract!Next
<1>0. connection_incoming \in Seq(EventSet)
  BY DEF TypeOK
<1>1. Ignored => UNCHANGED <<phase, connection_incoming>>
  BY DEF Ignored, worker_vars, phase
<1>2. \A x : connection_incoming \o <<x>> = Append(connection_incoming, x)
  BY <1>0
<1>3. \A c : StateClosed(c) = Contract!StateClosed(c)
  BY DEF StateClosed, Event, Contract!StateClosed, Contract!Event
<1>4. \A m : IncomingMessage(m) = Contract!IncomingMessage(m)
  BY DEF IncomingMessage, Event, Contract!IncomingMessage, Contract!Event
<1>5. ASSUME NEW c \in Cause, state = "Initializing", init_task # "panicked",
             InitializingToClosed(c)
      PROVE  Contract!Next
  <2>1. Contract!Close(c)
    BY <1>2, <1>3, <1>5, PhaseIs, PhaseIsNext DEF InitializingToClosed, Contract!Close
  <2> QED BY <2>1
<1>6. ASSUME NEW c \in Cause, state = "Open", OpenToClosed(<<>>, c) PROVE Contract!Next
  <2>1. connection_incoming' = Append(connection_incoming, StateClosed(c))
    BY <1>0, <1>6 DEF OpenToClosed
  <2>2. Contract!Close(c)
    BY <1>3, <1>6, <2>1, PhaseIs, PhaseIsNext DEF OpenToClosed, Contract!Close
  <2> QED BY <2>2
<1>7. ASSUME NEW c \in Cause, NEW m \in ServerMessages, state = "Open",
             OpenToClosed(<<IncomingMessage(m)>>, c)
      PROVE  Contract!Next
  <2>1. Contract!DeliverAndClose(m, c)
    BY <1>3, <1>4, <1>7, PhaseIs, PhaseIsNext DEF OpenToClosed, Contract!DeliverAndClose
  <2> QED BY <2>1
<1>8. ASSUME NEW messages, NEW pong, StayOpen(<<>>, messages, pong)
      PROVE  UNCHANGED <<phase, connection_incoming>>
  BY <1>0, <1>8 DEF StayOpen, phase
<1>9. ASSUME NEW messages, NEW pong, NEW m \in ServerMessages, state = "Open",
             StayOpen(<<IncomingMessage(m)>>, messages, pong)
      PROVE  Contract!Next
  <2>1. Contract!Deliver(m)
    BY <1>2, <1>4, <1>9, PhaseIs, PhaseIsNext DEF StayOpen, Contract!Deliver
  <2> QED BY <2>1
<1>10. ASSUME NEW r, state = "Initializing", init_task # "panicked", InitializingToOpen(r)
       PROVE  Contract!Next
  <2>1. connection_incoming' = IF Metrics THEN Append(connection_incoming, StateOpen)
                               ELSE connection_incoming
    BY <1>0, <1>10 DEF InitializingToOpen
  <2>2. StateOpen = Contract!StateOpen
    BY DEF StateOpen, Event, Contract!StateOpen, Contract!Event
  <2>3. Contract!Open
    BY <1>10, <2>1, <2>2, PhaseIs, PhaseIsNext DEF InitializingToOpen, Contract!Open
  <2> QED BY <2>3
<1> QED BY <1>1, <1>5, <1>6, <1>7, <1>8, <1>9, <1>10

LEMMA StepContract ==
    TypeOK /\ LoopInv /\ LoopInv' /\ [Next]_vars => [Contract!Next]_<<phase, connection_incoming>>
<1> SUFFICES ASSUME TypeOK, LoopInv, LoopInv', [Next]_vars
             PROVE  Contract!Next \/ UNCHANGED <<phase, connection_incoming>>
  OBVIOUS
<1>0. Pool \/ Tasks \/ UNCHANGED vars => UNCHANGED <<state, connection_incoming>>
  BY DEF Pool, Tasks, vars, worker_vars, PoolSend, PoolSendPanics, PoolRemove, PoolGone,
         InitTaskPanics, run_init_task,
         run_incoming_forward_task, IncomingTaskStops, run_ping_task, PingTaskStops,
         run_outgoing_forward_task, OutgoingTaskStops
<1>2. UNCHANGED <<state, init_task, connection_incoming>> => UNCHANGED <<phase, connection_incoming>>
  BY DEF phase
<1>1. ASSUME Pool \/ Tasks \/ UNCHANGED vars
      PROVE  Contract!Next \/ UNCHANGED <<phase, connection_incoming>>
  <2>1. CASE InitTaskPanics
    <3>1. init_task = "running" /\ state' = state /\ init_task' = "panicked"
      BY <1>0, <1>1, <2>1 DEF InitTaskPanics
    <3>2. CASE state = "Initializing"
      <4>1. Contract!Stick
        BY <1>0, <1>1, <3>1, <3>2, PhaseIs, PhaseIsNext DEF Contract!Stick
      <4> QED BY <4>1 DEF Contract!Next
    <3>3. CASE state # "Initializing"
      BY <1>0, <1>1, <3>1, <3>3 DEF phase
    <3> QED BY <3>2, <3>3
  <2>2. CASE \E r \in InitResults : run_init_task(r)
    <3>1. init_task = "running" /\ init_task' = "ended"
      BY <2>2 DEF run_init_task
    <3> QED BY <1>0, <1>1, <3>1 DEF phase
  <2>3. CASE ~InitTaskPanics /\ ~\E r \in InitResults : run_init_task(r)
    <3>1. UNCHANGED init_task
      BY <1>1, <2>3 DEF Pool, Tasks, vars, task_vars, PoolSend, PoolSendPanics, PoolRemove,
         PoolGone, run_incoming_forward_task, IncomingTaskStops, run_ping_task, PingTaskStops,
         run_outgoing_forward_task, OutgoingTaskStops
    <3> QED BY <1>0, <1>1, <1>2, <3>1
  <2> QED BY <2>1, <2>2, <2>3
<1>3. ASSUME WorkerEnds PROVE Contract!Next
  <2>1. Contract!Abandon
    BY <1>3, PhaseIs, PhaseIsNext DEF WorkerEnds, Running, Contract!Abandon
  <2> QED BY <2>1 DEF Contract!Next
<1>5. ASSUME try_from_panics PROVE Contract!Next
  <2>1. Contract!Panic
    BY <1>5, PhaseIs, PhaseIsNext DEF try_from_panics, Contract!Panic
  <2> QED BY <2>1 DEF Contract!Next
<1>4. ASSUME process_command
      PROVE  Contract!Next \/ UNCHANGED <<phase, connection_incoming>>
  <2>0. ~Unreachable
    BY DEF Unreachable, LoopInv, NeverUnreachable
  <2>u. UNCHANGED init_task
    BY <1>4 DEF process_command, Receive
  <2>1. ASSUME NEW m \in Requests, send_message(m)
        PROVE  UNCHANGED <<phase, connection_incoming>>
    BY <1>2, <2>u, <2>1, BranchContract DEF send_message, Queue, Refuse, worker_vars
  <2>2. ASSUME NEW r \in InitResults, Receive("TransportInitFinished", r),
               on_transport_init_finished(r)
        PROVE  Contract!Next \/ UNCHANGED <<phase, connection_incoming>>
    <3>1. init_task = "ended"
      <4>1. /\ 1 \in DOMAIN connection_loop_rx
            /\ connection_loop_rx[1].command = "TransportInitFinished"
        BY <2>2 DEF Receive, TypeOK, Command
      <4> QED BY <4>1 DEF LoopInv
    <3> QED BY <2>0, <2>u, <2>2, <3>1, BranchContract DEF on_transport_init_finished, Cause
  <2>3. ASSUME Receive("SendError", "None"), on_send_error
        PROVE  Contract!Next \/ UNCHANGED <<phase, connection_incoming>>
    <3>1. state # "Initializing"
      BY <2>3, ReceiveAllowed
    <3> QED BY <2>u, <2>3, <3>1, BranchContract DEF on_send_error, Cause
  <2>4. ASSUME NEW i \in Items, on_incoming_message(i)
        PROVE  Contract!Next \/ UNCHANGED <<phase, connection_incoming>>
    <3>1. i \in StreamEnds => EndCause(i) \in Cause
      BY DEF StreamEnds, EndCause, Cause
    <3>2. "ReconnectCmd" \in Cause /\ "Reconnect" \in ServerMessages
      BY DEF Cause, ServerMessages
    <3>3. CASE state = "Open" /\ i \in StreamEnds /\ OpenToClosed(<<>>, EndCause(i))
      BY <3>1, <2>u, <3>3, BranchContract
    <3>4. CASE /\ state = "Open" /\ i = "Reconnect"
               /\ OpenToClosed(<<IncomingMessage(i)>>, "ReconnectCmd")
      BY <3>2, <2>u, <3>4, BranchContract
    <3>5. CASE /\ state = "Open" /\ i \in ServerMessages
               /\ StayOpen(<<IncomingMessage(i)>>,
                           IF i = "Ping" THEN <<"PONG">> ELSE <<>>,
                           i = "Pong" \/ pong_received)
      <4> DEFINE messages == IF i = "Ping" THEN <<"PONG">> ELSE <<>>
                 pong == i = "Pong" \/ pong_received
      <4>1. StayOpen(<<IncomingMessage(i)>>, messages, pong)
        BY <3>5
      <4> HIDE DEF messages, pong
      <4> QED BY <3>5, <4>1, <2>u, BranchContract
    <3>6. CASE Ignored
      BY <2>u, <3>6, BranchContract
    <3> QED BY <2>0, <2>4, <3>3, <3>4, <3>5, <3>6 DEF on_incoming_message
  <2>5. ASSUME send_ping PROVE UNCHANGED <<phase, connection_incoming>>
    BY <2>0, <2>u, <2>5, BranchContract DEF send_ping
  <2>6. ASSUME check_pong
        PROVE  Contract!Next \/ UNCHANGED <<phase, connection_incoming>>
    BY <2>0, <2>u, <2>6, BranchContract DEF check_pong, Cause
  <2> QED BY <1>4, <2>1, <2>2, <2>3, <2>4, <2>5, <2>6 DEF process_command
<1> QED BY <1>1, <1>3, <1>4, <1>5 DEF Next

\* The pool may rely on the contract: every behaviour of the connection's tasks, seen
\* through its event channel, is a behaviour of ConnectionContract.
THEOREM ContractImplemented == Spec => ImplementsContract
<1>1. Init => Contract!Init
  BY PhaseIs DEF Init, Contract!Init
<1>2. Spec => []LoopInv
  BY InitLoopInv, StepLoopInv, TypeCorrect, PTL DEF Spec
<1>3. TypeOK /\ LoopInv /\ LoopInv' /\ [Next]_vars => [Contract!Next]_(Contract!contractVars)
  BY StepContract DEF Contract!contractVars
<1> QED BY <1>1, <1>2, <1>3, TypeCorrect, PTL DEF Spec, ImplementsContract, Contract!Contract

-----------------------------------------------------------------------------
(* What one command does to the messages on their way *)

\* What the main loop may do about a command.
Branch(kind, arg) ==
    \/ kind = "SendMessage" /\ arg \in Requests /\ send_message(arg)
    \/ /\ kind # "SendMessage"
       /\ \/ Ignored
          \/ state = "Initializing" /\ \E r \in InitResults : InitializingToOpen(r)
          \/ state = "Initializing" /\ \E c \in Cause : InitializingToClosed(c)
          \/ state = "Open" /\ \E c \in Cause : \E events : OpenToClosed(events, c)
          \/ /\ state = "Open"
             /\ \E m \in {"None", "PING", "PONG"} : \E events, pong :
                   StayOpen(events, IF m = "None" THEN <<>> ELSE <<m>>, pong)

LEMMA Branches ==
    ASSUME LoopInv', process_command
    PROVE  \E kind, arg : Receive(kind, arg) /\ Branch(kind, arg)
<1>0. ~Unreachable
  BY DEF Unreachable, LoopInv, NeverUnreachable
<1>1. ASSUME NEW m \in Requests, send_message(m) PROVE Branch("SendMessage", m)
  BY <1>1 DEF Branch
<1>2. ASSUME NEW r \in InitResults, on_transport_init_finished(r)
      PROVE  Branch("TransportInitFinished", r)
  BY <1>0, <1>2 DEF on_transport_init_finished, Branch, Cause
<1>3. ASSUME on_send_error PROVE Branch("SendError", "None")
  BY <1>3 DEF on_send_error, Branch, Cause
<1>4. ASSUME NEW i \in Items, on_incoming_message(i)
      PROVE  Branch("IncomingMessage", i)
  <2>1. i \in StreamEnds => EndCause(i) \in Cause
    BY DEF StreamEnds, EndCause, Cause
  <2>2. CASE i \in StreamEnds /\ state = "Open" /\ OpenToClosed(<<>>, EndCause(i))
    BY <2>1, <2>2 DEF Branch
  <2>3. CASE state = "Open" /\ OpenToClosed(<<IncomingMessage(i)>>, "ReconnectCmd")
    BY <2>3 DEF Branch, Cause
  <2>4. CASE /\ state = "Open"
             /\ StayOpen(<<IncomingMessage(i)>>, IF i = "Ping" THEN <<"PONG">> ELSE <<>>,
                         i = "Pong" \/ pong_received)
    <3> DEFINE m == IF i = "Ping" THEN "PONG" ELSE "None"
    <3>1. /\ m \in {"None", "PING", "PONG"}
          /\ (IF i = "Ping" THEN <<"PONG">> ELSE <<>>) = IF m = "None" THEN <<>> ELSE <<m>>
      OBVIOUS
    <3> HIDE DEF m
    <3>2. \E events, pong : StayOpen(events, IF m = "None" THEN <<>> ELSE <<m>>, pong)
      BY <2>4, <3>1
    <3> QED BY <2>4, <3>1, <3>2 DEF Branch
  <2> QED BY <1>0, <1>4, <2>2, <2>3, <2>4 DEF on_incoming_message, Branch
<1>5. ASSUME send_ping PROVE Branch("SendPing", "None")
  <2>1. CASE state = "Open" /\ StayOpen(<<>>, <<"PING">>, FALSE)
    <3>1. StayOpen(<<>>, IF "PING" = "None" THEN <<>> ELSE <<"PING">>, FALSE)
      BY <2>1
    <3> QED BY <2>1, <3>1 DEF Branch
  <2> QED BY <1>0, <1>5, <2>1 DEF send_ping, Branch
<1>6. ASSUME check_pong PROVE Branch("CheckPong", "None")
  BY <1>0, <1>6 DEF check_pong, Branch, Cause
<1> QED BY <1>1, <1>2, <1>3, <1>4, <1>5, <1>6 DEF process_command

\* Everything but a command and the end of the loop leaves the main loop as it is.
LEMMA OthersKeepLoop ==
    ASSUME Pool \/ Tasks \/ UNCHANGED vars PROVE UNCHANGED worker_vars
BY DEF Pool, Tasks, vars, PoolSend, PoolSendPanics, PoolRemove, PoolGone,
         InitTaskPanics, run_init_task,
       run_incoming_forward_task, IncomingTaskStops, run_ping_task, PingTaskStops,
       run_outgoing_forward_task, OutgoingTaskStops

\* The forwarder moves the first message of its channel to the transport.
Forwards(accepted) ==
    /\ outgoing_rx # <<>> /\ outgoing_task # "none"
    /\ outgoing_rx' = Tail(outgoing_rx)
    /\ wire' = Append(wire, [message |-> Head(outgoing_rx), accepted |-> accepted])

LEMMA OthersKeepTraffic ==
    ASSUME Pool \/ Tasks \/ WorkerEnds \/ try_from_panics \/ UNCHANGED vars
    PROVE  /\ UNCHANGED out_vars \/ \E accepted \in BOOLEAN : Forwards(accepted)
           /\ outgoing_task' = outgoing_task \/ (outgoing_task = "running" /\ outgoing_task' = "ended")
BY DEF Pool, Tasks, vars, out_vars, task_vars, PoolSend, PoolSendPanics, PoolRemove, PoolGone,
         InitTaskPanics, run_init_task,
       run_incoming_forward_task, IncomingTaskStops, run_ping_task, PingTaskStops, Forwards,
       run_outgoing_forward_task, OutgoingTaskStops, WorkerEnds, try_from_panics

-----------------------------------------------------------------------------
(* Nothing is written before the login *)

\* The messages written so far and those in the forwarder's channel, in their order.
Sent == Len(wire) + Len(outgoing_rx)
Traffic(i) == IF i <= Len(wire) THEN wire[i].message ELSE outgoing_rx[i - Len(wire)]

StartsWithLogin ==
    \E k \in 2..Sent : /\ Traffic(1) = "CAP" /\ Traffic(k) = "NICK"
                       /\ \A i \in 1..(k - 1) : Traffic(i) \in Login

LoginInv ==
    /\ state = "Open" => outgoing_task # "none"
    /\ state # "Initializing" => commands_queue = <<>>
    /\ outgoing_task = "none" => wire = <<>> /\ outgoing_rx = <<>>
    /\ outgoing_task = "none" \/ StartsWithLogin

\* Messages are added to the end of the traffic only.
TrafficGrows == Sent' \in Nat /\ Sent' >= Sent /\ \A i \in 1..Sent : Traffic(i)' = Traffic(i)

LEMMA GrowingKeepsLogin ==
    ASSUME TypeOK, StartsWithLogin, TrafficGrows PROVE StartsWithLogin'
<1>1. Sent \in Nat /\ Sent' \in Nat /\ Sent' >= Sent /\ \A i \in 1..Sent : Traffic(i)' = Traffic(i)
  BY DEF TypeOK, Sent, TrafficGrows
<1>2. PICK k \in 2..Sent : /\ Traffic(1) = "CAP" /\ Traffic(k) = "NICK"
                           /\ \A i \in 1..(k - 1) : Traffic(i) \in Login
  BY DEF StartsWithLogin
<1>3. 1 \in 1..Sent /\ k \in 1..Sent /\ \A i \in 1..(k - 1) : i \in 1..Sent
  BY <1>1
<1>4. Traffic(1)' = "CAP" /\ Traffic(k)' = "NICK" /\ \A i \in 1..(k - 1) : Traffic(i)' \in Login
  BY <1>1, <1>2, <1>3
<1>5. k \in 2..Sent'
  BY <1>1
<1> QED BY <1>4, <1>5 DEF StartsWithLogin

LEMMA ForwardGrows ==
    ASSUME TypeOK, NEW accepted \in BOOLEAN, Forwards(accepted) PROVE TrafficGrows
<1> DEFINE n == Len(wire)
           l == Len(outgoing_rx)
<1>1. /\ n \in Nat /\ l \in Nat /\ l >= 1 /\ Len(wire') = n + 1 /\ Len(outgoing_rx') = l - 1
      /\ \A i \in 1..n : wire'[i] = wire[i]
      /\ wire'[n + 1].message = outgoing_rx[1]
      /\ \A i \in 1..(l - 1) : outgoing_rx'[i] = outgoing_rx[i + 1]
  BY DEF Forwards, TypeOK
<1> HIDE DEF n, l
<1>2. ASSUME NEW i \in 1..(n + l) PROVE Traffic(i)' = Traffic(i)
  <2>1. CASE i <= n
    BY <1>1, <2>1 DEF Traffic, n
  <2>2. CASE i = n + 1
    BY <1>1, <2>2 DEF Traffic, n
  <2>3. CASE i > n + 1
    <3>1. i - (n + 1) \in 1..(l - 1) /\ (i - (n + 1)) + 1 = i - n /\ ~(i <= n) /\ ~(i <= n + 1)
      BY <1>1, <2>3
    <3> QED BY <1>1, <3>1 DEF Traffic, n
  <2> QED BY <1>1, <2>1, <2>2, <2>3
<1> QED BY <1>1, <1>2 DEF TrafficGrows, Sent, n, l

LEMMA AppendGrows ==
    ASSUME TypeOK, NEW messages \in Seq(Message), outgoing_rx' = outgoing_rx \o messages,
           UNCHANGED wire
    PROVE  TrafficGrows
<1> DEFINE n == Len(wire)
           l == Len(outgoing_rx)
<1>1. /\ n \in Nat /\ l \in Nat /\ Len(wire') = n /\ Len(outgoing_rx') = l + Len(messages)
      /\ Len(messages) \in Nat
      /\ \A i \in 1..l : outgoing_rx'[i] = outgoing_rx[i]
  BY DEF TypeOK
<1> HIDE DEF n, l
<1>2. ASSUME NEW i \in 1..(n + l) PROVE Traffic(i)' = Traffic(i)
  <2>1. CASE i <= n
    BY <1>1, <2>1 DEF Traffic, n
  <2>2. CASE i > n
    <3>1. i - n \in 1..l /\ ~(i <= n)
      BY <1>1, <2>2
    <3> QED BY <1>1, <3>1 DEF Traffic, n
  <2> QED BY <1>1, <2>1, <2>2
<1> QED BY <1>1, <1>2 DEF TrafficGrows, Sent, n, l

\* The Open state begins with the login in the forwarder's channel.
LEMMA OpeningStartsWithLogin ==
    ASSUME TypeOK, LoginInv, outgoing_task = "none", NEW r \in InitResults, InitializingToOpen(r),
           UNCHANGED wire
    PROVE  StartsWithLogin'
<1> DEFINE h == Handshake(r)
<1>1. wire' = <<>> /\ Len(wire') = 0 /\ outgoing_rx' = h \o commands_queue
  BY DEF LoginInv, InitializingToOpen
<1>2. commands_queue \in Seq(Message)
  <2>1. commands_queue \in Seq(Requests) /\ Requests \subseteq Message
    BY DEF TypeOK, Message
  <2> QED BY <2>1
<1>3. \E k \in {2, 3} : /\ h \in Seq(Message) /\ Len(h) = k /\ h[1] = "CAP" /\ h[k] = "NICK"
                        /\ \A i \in 1..(k - 1) : h[i] \in Login
  <2>1. {"CAP", "PASS", "NICK"} \subseteq Message
    BY DEF Message, Control, Login
  <2>2. CASE r = "token"
    <3>1. h = <<"CAP", "PASS", "NICK">>
      BY <2>2 DEF Handshake
    <3> HIDE DEF h
    <3>2. h \in Seq(Message) /\ Len(h) = 3 /\ h[1] = "CAP" /\ h[2] = "PASS" /\ h[3] = "NICK"
      BY <2>1, <3>1
    <3>3. \A i \in 1..(3 - 1) : h[i] \in Login
      BY <3>2 DEF Login
    <3> QED BY <3>2, <3>3
  <2>3. CASE r # "token"
    <3>1. h = <<"CAP", "NICK">>
      BY <2>3 DEF Handshake
    <3> HIDE DEF h
    <3>2. h \in Seq(Message) /\ Len(h) = 2 /\ h[1] = "CAP" /\ h[2] = "NICK"
      BY <2>1, <3>1
    <3>3. \A i \in 1..(2 - 1) : h[i] \in Login
      BY <3>2 DEF Login
    <3> QED BY <3>2, <3>3
  <2> QED BY <2>2, <2>3
<1> HIDE DEF h
<1>4. PICK k \in {2, 3} : /\ h \in Seq(Message) /\ Len(h) = k /\ h[1] = "CAP" /\ h[k] = "NICK"
                          /\ \A i \in 1..(k - 1) : h[i] \in Login
  BY <1>3
<1>5. /\ Len(outgoing_rx') = k + Len(commands_queue) /\ Len(commands_queue) \in Nat
      /\ \A i \in 1..k : outgoing_rx'[i] = h[i]
  BY <1>1, <1>2, <1>4
<1>6. \A i \in 1..k : Traffic(i)' = h[i]
  <2> SUFFICES ASSUME NEW i \in 1..k PROVE Traffic(i)' = h[i]
    OBVIOUS
  <2>1. ~(i <= 0) /\ i - 0 = i
    BY <1>4
  <2> QED BY <1>1, <1>5, <2>1 DEF Traffic
<1>7. k \in 2..Sent'
  BY <1>1, <1>4, <1>5 DEF Sent
<1>8. Traffic(1)' = "CAP" /\ Traffic(k)' = "NICK" /\ \A i \in 1..(k - 1) : Traffic(i)' \in Login
  BY <1>4, <1>6
<1> QED BY <1>7, <1>8 DEF StartsWithLogin

LEMMA StepLoginInv == TypeOK /\ LoopInv /\ LoopInv' /\ LoginInv /\ [Next]_vars => LoginInv'
<1> SUFFICES ASSUME TypeOK, LoopInv, LoopInv', LoginInv, [Next]_vars PROVE LoginInv'
  OBVIOUS
<1>1. ASSUME UNCHANGED out_vars PROVE TrafficGrows
  <2>1. wire' = wire /\ outgoing_rx' = outgoing_rx
    BY <1>1 DEF out_vars
  <2>2. Sent \in Nat /\ Sent' = Sent
    BY <2>1 DEF TypeOK, Sent
  <2>3. ASSUME NEW i \in 1..Sent PROVE Traffic(i)' = Traffic(i)
    BY <2>1, Zenon DEF Traffic
  <2> QED BY <2>2, <2>3 DEF TrafficGrows
<1>2. ASSUME Pool \/ Tasks \/ WorkerEnds \/ try_from_panics \/ UNCHANGED vars PROVE LoginInv'
  <2>1. \/ state' = state /\ commands_queue' = commands_queue
        \/ state' = "Ended" /\ commands_queue' = <<>>
        \/ state = "Open" /\ state' = "Panicked" /\ commands_queue' = commands_queue
    BY <1>2, OthersKeepLoop DEF worker_vars, WorkerEnds, try_from_panics
  <2>2. /\ UNCHANGED out_vars \/ \E accepted \in BOOLEAN : Forwards(accepted)
        /\ outgoing_task' = outgoing_task \/ (outgoing_task = "running" /\ outgoing_task' = "ended")
    BY <1>2, OthersKeepTraffic
  <2>3. outgoing_task # "none" => StartsWithLogin'
    BY <1>1, <2>2, ForwardGrows, GrowingKeepsLogin DEF LoginInv
  <2>4. outgoing_task = "none" => UNCHANGED out_vars
    BY <2>2 DEF Forwards
  <2> QED BY <2>1, <2>2, <2>3, <2>4 DEF LoginInv, out_vars
<1>3. ASSUME process_command PROVE LoginInv'
  <2>1. PICK kind, arg : Receive(kind, arg) /\ Branch(kind, arg)
    BY <1>3, Branches
  <2>2. UNCHANGED wire /\ state \in {"Initializing", "Open", "Closed"}
    BY <2>1 DEF Receive, Running
  <2>3. ASSUME NEW messages \in Seq(Message), NEW events, NEW pong, state = "Open",
               StayOpen(events, messages, pong)
        PROVE  LoginInv'
    <3>1. TrafficGrows /\ UNCHANGED <<state, commands_queue, outgoing_task>>
      BY <2>2, <2>3, AppendGrows DEF StayOpen
    <3> QED BY <2>3, <3>1, GrowingKeepsLogin DEF LoginInv
  <2>4. ASSUME UNCHANGED <<outgoing_rx, outgoing_task>>,
               state' = "Open" => state = "Open",
               \/ state' = "Initializing"
               \/ commands_queue' = <<>>
               \/ state # "Initializing" /\ UNCHANGED commands_queue
        PROVE  LoginInv'
    BY <1>1, <2>2, <2>4, GrowingKeepsLogin DEF LoginInv, out_vars
  <2>5. ASSUME NEW m \in Requests, send_message(m) PROVE LoginInv'
    <3>1. <<m>> \in Seq(Message)
      BY DEF Message
    <3>2. CASE state = "Open"
      BY <2>3, <2>5, <3>1, <3>2 DEF send_message
    <3>3. CASE state # "Open"
      BY <2>2, <2>4, <2>5, <3>3 DEF send_message, Queue, Refuse, worker_vars
    <3> QED BY <3>2, <3>3
  <2>6. ASSUME Ignored PROVE LoginInv'
    BY <2>2, <2>4, <2>6 DEF Ignored, worker_vars
  <2>7. ASSUME NEW r \in InitResults, state = "Initializing", InitializingToOpen(r) PROVE LoginInv'
    <3>1. outgoing_task = "none"
      BY <2>7 DEF LoopInv
    <3> QED BY <2>2, <2>7, <3>1, OpeningStartsWithLogin DEF InitializingToOpen, LoginInv
  <2>8. ASSUME NEW c \in Cause, state = "Initializing", InitializingToClosed(c) PROVE LoginInv'
    BY <2>4, <2>8 DEF InitializingToClosed
  <2>9. ASSUME NEW c \in Cause, NEW events, state = "Open", OpenToClosed(events, c) PROVE LoginInv'
    BY <2>4, <2>9 DEF OpenToClosed
  <2>10. ASSUME NEW m \in {"None", "PING", "PONG"}, NEW events, NEW pong, state = "Open",
                StayOpen(events, IF m = "None" THEN <<>> ELSE <<m>>, pong)
         PROVE  LoginInv'
    <3> DEFINE messages == IF m = "None" THEN <<>> ELSE <<m>>
    <3>1. messages \in Seq(Message)
      <4>1. {"PING", "PONG"} \subseteq Message
        BY DEF Message, Control
      <4> QED BY <4>1
    <3>2. StayOpen(events, messages, pong)
      BY <2>10
    <3> HIDE DEF messages
    <3> QED BY <2>3, <2>10, <3>1, <3>2
  <2> QED BY <2>1, <2>5, <2>6, <2>7, <2>8, <2>9, <2>10 DEF Branch
<1> QED BY <1>2, <1>3 DEF Next

LEMMA InitLoginInv == Init => LoginInv
BY DEF Init, LoginInv

\* However the queue of the Initializing state fills, and whatever the pinger and the
\* server do meanwhile, CAP is the first message written and no request, PING or PONG is
\* written before NICK (event_loop.rs:419-430).
THEOREM LoginComesFirstCorrect == Spec => []LoginComesFirst
<1>1. TypeOK /\ LoginInv => LoginComesFirst
  <2> SUFFICES ASSUME TypeOK, LoginInv, NEW i \in DOMAIN wire
               PROVE  /\ Written[i] \notin Login => \E j \in 1..(i - 1) : Written[j] = "NICK"
                      /\ Written[i] # "CAP" => Written[1] = "CAP"
    BY DEF LoginComesFirst
  <2>1. DOMAIN wire = 1..Len(wire) /\ Len(wire) \in Nat /\ Len(outgoing_rx) \in Nat
    BY DEF TypeOK
  <2>2. \A j \in 1..Len(wire) : Written[j] = Traffic(j)
    BY <2>1 DEF Written, Traffic
  <2>3. wire # <<>>
    BY <2>1
  <2>4. PICK k \in 2..Sent : /\ Traffic(1) = "CAP" /\ Traffic(k) = "NICK"
                             /\ \A j \in 1..(k - 1) : Traffic(j) \in Login
    BY <2>3 DEF LoginInv, StartsWithLogin
  <2>5. Written[1] = "CAP"
    <3>1. 1 \in 1..Len(wire)
      BY <2>1
    <3> QED BY <2>2, <2>4, <3>1
  <2>6. ASSUME Written[i] \notin Login PROVE \E j \in 1..(i - 1) : Written[j] = "NICK"
    <3>1. ~(i \in 1..(k - 1)) /\ i # k
      BY <2>1, <2>2, <2>4, <2>6 DEF Login
    <3>2. k \in 1..(i - 1) /\ k \in 1..Len(wire)
      BY <2>1, <3>1
    <3> QED BY <2>2, <2>4, <3>2
  <2> QED BY <2>5, <2>6
<1>2. Spec => []LoginInv
  BY InitLoopInv, StepLoopInv, InitLoginInv, StepLoginInv, TypeCorrect, PTL DEF Spec
<1> QED BY <1>1, <1>2, TypeCorrect, PTL

-----------------------------------------------------------------------------
(* Where a request is, from the pool to the transport *)

LEMMA AppendSet ==
    ASSUME NEW S, NEW s \in Seq(S), NEW e \in S
    PROVE  ToSet(Append(s, e)) = ToSet(s) \union {e}
<1> DEFINE n == Len(s)
           longer == Append(s, e)
<1>1. /\ n \in Nat /\ DOMAIN s = 1..n /\ DOMAIN longer = 1..(n + 1)
      /\ \A i \in 1..n : longer[i] = s[i]
      /\ longer[n + 1] = e
  OBVIOUS
<1> HIDE DEF longer, n
<1>2. \A i : i \in 1..(n + 1) <=> i \in 1..n \/ i = n + 1
  BY <1>1
<1>3. ToSet(longer) = ToSet(s) \union {e}
  BY <1>1, <1>2 DEF ToSet
<1> QED BY <1>3 DEF longer

LEMMA ConcatSet ==
    ASSUME NEW S, NEW s \in Seq(S), NEW t \in Seq(S)
    PROVE  ToSet(s \o t) = ToSet(s) \union ToSet(t)
<1> DEFINE n == Len(s)
           l == Len(t)
           both == s \o t
<1>1. /\ n \in Nat /\ l \in Nat /\ DOMAIN s = 1..n /\ DOMAIN t = 1..l /\ DOMAIN both = 1..(n + l)
      /\ \A i \in 1..n : both[i] = s[i]
      /\ \A i \in 1..l : both[n + i] = t[i]
  OBVIOUS
<1> HIDE DEF both, n, l
<1>2. ASSUME NEW i \in 1..(n + l) PROVE both[i] \in ToSet(s) \union ToSet(t)
  <2>1. CASE i \in 1..n
    BY <1>1, <2>1 DEF ToSet
  <2>2. CASE i \notin 1..n
    <3>1. i - n \in 1..l /\ n + (i - n) = i
      BY <1>1, <2>2
    <3>2. both[i] = t[i - n]
      BY <1>1, <3>1
    <3> QED BY <1>1, <3>1, <3>2 DEF ToSet
  <2> QED BY <2>1, <2>2
<1>3. ASSUME NEW i \in 1..n PROVE s[i] \in ToSet(both)
  <2>1. i \in 1..(n + l)
    BY <1>1
  <2> QED BY <1>1, <2>1 DEF ToSet
<1>4. ASSUME NEW i \in 1..l PROVE t[i] \in ToSet(both)
  <2>1. n + i \in 1..(n + l)
    BY <1>1
  <2> QED BY <1>1, <2>1 DEF ToSet
<1>5. ToSet(both) = ToSet(s) \union ToSet(t)
  BY <1>1, <1>2, <1>3, <1>4 DEF ToSet
<1> QED BY <1>5 DEF both

LEMMA TailSet ==
    ASSUME NEW S, NEW s \in Seq(S), s # <<>>
    PROVE  Head(s) \in ToSet(s) /\ ToSet(Tail(s)) \subseteq ToSet(s)
<1> DEFINE n == Len(s)
<1>1. /\ n \in Nat /\ n >= 1 /\ DOMAIN s = 1..n /\ DOMAIN Tail(s) = 1..(n - 1) /\ Head(s) = s[1]
      /\ \A i \in 1..(n - 1) : Tail(s)[i] = s[i + 1]
  OBVIOUS
<1> HIDE DEF n
<1>2. 1 \in 1..n /\ \A i \in 1..(n - 1) : i + 1 \in 1..n
  BY <1>1
<1> QED BY <1>1, <1>2 DEF ToSet

\* The requests in the channel of the main loop, in the queue of its Initializing state,
\* in the forwarder's channel and at the transport.
IsRequest(i, r) == connection_loop_rx[i] = Command("SendMessage", r)
InChannel == {r \in Requests : \E i \in 1..Len(connection_loop_rx) : IsRequest(i, r)}
AtTransport == {wire[i].message : i \in 1..Len(wire)}
Taken == ToSet(commands_queue) \union ToSet(outgoing_rx) \union AtTransport

\* A request is in the channel once, and nowhere else while it is there.
ChannelOnce ==
    \A r \in Requests, i, j \in 1..Len(connection_loop_rx) : IsRequest(i, r) /\ IsRequest(j, r) => i = j
PlaceInv ==
    /\ ChannelOnce
    /\ InChannel \subseteq ToSet(issued) \ Taken
    /\ Taken \cap Requests \subseteq ToSet(issued)

\* What every step but PoolSend does: requests leave the channel and what was taken
\* was in the channel.
Advances ==
    /\ ChannelOnce' /\ InChannel' \subseteq InChannel /\ UNCHANGED issued
    /\ Taken' \cap Requests \subseteq Taken \union (InChannel \ InChannel')

LEMMA AdvancingKeepsPlace == PlaceInv /\ Advances => PlaceInv'
<1> SUFFICES ASSUME PlaceInv, Advances PROVE PlaceInv'
  OBVIOUS
<1>1. InChannel' \subseteq Requests
  BY DEF InChannel
<1> HIDE DEF InChannel, Taken
<1>2. ASSUME NEW r \in InChannel' PROVE r \in ToSet(issued') /\ r \notin Taken'
  BY <1>1, <1>2 DEF PlaceInv, Advances
<1>3. ASSUME NEW r \in Taken' \cap Requests PROVE r \in ToSet(issued')
  BY <1>3 DEF PlaceInv, Advances
<1> QED BY <1>2, <1>3 DEF PlaceInv, Advances

\* Commands that are no requests change nothing in the channel.
LEMMA PostedOther ==
    ASSUME TypeOK, ChannelOnce, NEW command, command.command # "SendMessage", Post(<<command>>)
    PROVE  ChannelOnce' /\ InChannel' = InChannel
<1>0. CASE state = "Panicked"
  <2>1. connection_loop_rx' = connection_loop_rx
    BY <1>0 DEF Post
  <2> QED BY <2>1 DEF ChannelOnce, InChannel, IsRequest
<1>s. SUFFICES ASSUME state # "Panicked" PROVE ChannelOnce' /\ InChannel' = InChannel
  BY <1>0
<1> DEFINE n == Len(connection_loop_rx)
<1>1. /\ n \in Nat /\ Len(connection_loop_rx') = n + 1
      /\ \A i \in 1..n : connection_loop_rx'[i] = connection_loop_rx[i]
      /\ connection_loop_rx'[n + 1] = command
  BY <1>s DEF Post, TypeOK
<1> HIDE DEF n
<1>2. \A i : i \in 1..(n + 1) <=> i \in 1..n \/ i = n + 1
  BY <1>1
<1>3. \A r : connection_loop_rx'[n + 1] # Command("SendMessage", r)
  BY <1>1 DEF Command
<1>4. \A r : \A i \in 1..n : IsRequest(i, r)' <=> IsRequest(i, r)
  BY <1>1 DEF IsRequest
<1>5. ChannelOnce'
  BY <1>1, <1>2, <1>3, <1>4 DEF ChannelOnce, IsRequest, n
<1> QED BY <1>1, <1>2, <1>3, <1>4, <1>5 DEF InChannel, IsRequest, n

LEMMA PostedRequest ==
    ASSUME TypeOK, ChannelOnce, NEW m \in Requests, m \notin InChannel, state # "Panicked",
           Post(<<Command("SendMessage", m)>>)
    PROVE  ChannelOnce' /\ InChannel' = InChannel \union {m}
<1> DEFINE n == Len(connection_loop_rx)
<1>1. /\ n \in Nat /\ Len(connection_loop_rx') = n + 1
      /\ \A i \in 1..n : connection_loop_rx'[i] = connection_loop_rx[i]
      /\ connection_loop_rx'[n + 1] = Command("SendMessage", m)
  BY DEF Post, TypeOK
<1> HIDE DEF n
<1>2. \A i : i \in 1..(n + 1) <=> i \in 1..n \/ i = n + 1
  BY <1>1
<1>3. \A r : connection_loop_rx'[n + 1] = Command("SendMessage", r) <=> r = m
  BY <1>1 DEF Command
<1>4. \A r : \A i \in 1..n : IsRequest(i, r)' <=> IsRequest(i, r)
  BY <1>1 DEF IsRequest
<1>5. \A i \in 1..n : ~IsRequest(i, m)
  BY DEF InChannel, n
<1>6. ChannelOnce'
  BY <1>1, <1>2, <1>3, <1>4, <1>5 DEF ChannelOnce, IsRequest, n
<1>7. InChannel' = InChannel \union {m}
  BY <1>1, <1>2, <1>3, <1>4 DEF InChannel, IsRequest, n
<1> QED BY <1>6, <1>7

LEMMA ReceivedCommand ==
    ASSUME TypeOK, ChannelOnce, NEW kind, NEW arg, Receive(kind, arg)
    PROVE  /\ ChannelOnce' /\ InChannel' \subseteq InChannel
           /\ kind = "SendMessage" /\ arg \in Requests => arg \in InChannel \ InChannel'
<1> DEFINE n == Len(connection_loop_rx)
<1>1. /\ n \in Nat /\ n >= 1 /\ Len(connection_loop_rx') = n - 1
      /\ \A i \in 1..(n - 1) : connection_loop_rx'[i] = connection_loop_rx[i + 1]
      /\ connection_loop_rx[1] = Command(kind, arg)
  BY DEF Receive, TypeOK
<1> HIDE DEF n
<1>2. \A i \in 1..(n - 1) : i + 1 \in 1..n /\ i + 1 # 1 /\ \A j \in 1..(n - 1) : i + 1 = j + 1 => i = j
  BY <1>1
<1>3. \A r : \A i \in 1..(n - 1) : IsRequest(i, r)' <=> IsRequest(i + 1, r)
  BY <1>1 DEF IsRequest
<1>4. 1 \in 1..n /\ (kind = "SendMessage" => IsRequest(1, arg))
  BY <1>1 DEF IsRequest
<1>5. ChannelOnce'
  BY <1>1, <1>2, <1>3 DEF ChannelOnce, n
<1>6. InChannel' \subseteq InChannel
  BY <1>1, <1>2, <1>3 DEF InChannel, n
<1>7. ASSUME kind = "SendMessage", arg \in Requests PROVE arg \in InChannel \ InChannel'
  <2>1. arg \in InChannel
    BY <1>4, <1>7 DEF InChannel, n
  <2>2. ASSUME NEW i \in 1..(n - 1) PROVE ~IsRequest(i, arg)'
    BY <1>2, <1>3, <1>4, <1>7 DEF ChannelOnce, n
  <2> QED BY <1>1, <2>1, <2>2 DEF InChannel
<1> QED BY <1>5, <1>6, <1>7

LEMMA ForwardPlaces ==
    ASSUME TypeOK, NEW accepted \in BOOLEAN, Forwards(accepted), NEW m, m = Head(outgoing_rx)
    PROVE  /\ m \in ToSet(outgoing_rx) /\ ToSet(outgoing_rx') \subseteq ToSet(outgoing_rx)
           /\ AtTransport' = AtTransport \union {m}
           /\ \A r, a : WrittenTo(r, a) => WrittenTo(r, a)'
           /\ WrittenTo(m, accepted)'
<1> DEFINE n == Len(wire)
<1>1. /\ n \in Nat /\ DOMAIN wire = 1..n /\ DOMAIN wire' = 1..(n + 1) /\ Len(wire') = n + 1
      /\ \A i \in 1..n : wire'[i] = wire[i]
      /\ wire'[n + 1] = [message |-> m, accepted |-> accepted]
  <2>1. m \in Message
    BY DEF Forwards, TypeOK
  <2> QED BY <2>1 DEF Forwards, TypeOK
<1>2. m \in ToSet(outgoing_rx) /\ ToSet(outgoing_rx') \subseteq ToSet(outgoing_rx)
  BY TailSet DEF Forwards, TypeOK
<1> HIDE DEF n
<1>3. \A i : i \in 1..(n + 1) <=> i \in 1..n \/ i = n + 1
  BY <1>1
<1>4. AtTransport' = AtTransport \union {m}
  BY <1>1, <1>3 DEF AtTransport, n
<1>5. \A r, a : WrittenTo(r, a) => WrittenTo(r, a)'
  BY <1>1, <1>3 DEF WrittenTo
<1>6. WrittenTo(m, accepted)'
  <2>1. n + 1 \in DOMAIN wire'
    BY <1>1
  <2> QED BY <1>1, <2>1 DEF WrittenTo
<1> QED BY <1>2, <1>4, <1>5, <1>6

-----------------------------------------------------------------------------
(* What a caller is told is true *)

\* Only a closed connection has a reason, and the pool removes no other.
LifeInv ==
    /\ state \in {"Initializing", "Open"} => reason_for_closure = NoCause
    /\ handle = "removed" => state \notin {"Initializing", "Open"}

LEMMA StepLifeInv ==
    TypeOK /\ LoopInv' /\ ReportInv /\ LifeInv /\ [Next]_vars => LifeInv'
<1> SUFFICES ASSUME TypeOK, LoopInv', ReportInv, LifeInv, [Next]_vars PROVE LifeInv'
  OBVIOUS
<1>1. ASSUME PoolRemove PROVE LifeInv'
  BY <1>1 DEF PoolRemove, LifeInv, ReportInv, ClosedOnceAndLast, worker_vars
<1>2. ASSUME \/ \E m \in Requests : PoolSend(m) \/ PoolSendPanics(m)
             \/ PoolGone \/ Tasks \/ UNCHANGED vars
      PROVE  LifeInv'
  <2>1. UNCHANGED <<state, reason_for_closure>> /\ (handle' = handle \/ handle' = "pool_gone")
    BY <1>2 DEF PoolSend, PoolSendPanics, PoolGone, Tasks, vars, worker_vars, pool_vars,
         InitTaskPanics, run_init_task, run_incoming_forward_task, IncomingTaskStops, run_ping_task, PingTaskStops,
         run_outgoing_forward_task, OutgoingTaskStops
  <2> QED BY <2>1 DEF LifeInv
<1>3. ASSUME WorkerEnds PROVE LifeInv'
  BY <1>3 DEF WorkerEnds, LifeInv
<1>5. ASSUME try_from_panics PROVE LifeInv'
  BY <1>5 DEF try_from_panics, pool_vars, LifeInv
<1>4. ASSUME process_command PROVE LifeInv'
  <2>1. PICK kind, arg : Receive(kind, arg) /\ Branch(kind, arg)
    BY <1>4, Branches
  <2>2. UNCHANGED handle
    BY <2>1 DEF Receive, pool_vars
  <2>3. \/ UNCHANGED <<state, reason_for_closure>>
        \/ state = "Initializing" /\ state' = "Open" /\ UNCHANGED reason_for_closure
        \/ state' = "Closed"
    <3>1. ASSUME NEW m \in Requests, send_message(m) PROVE UNCHANGED <<state, reason_for_closure>>
      BY <3>1 DEF send_message, Queue, StayOpen, Refuse, worker_vars
    <3>2. ASSUME NEW r \in InitResults, InitializingToOpen(r)
          PROVE  state' = "Open" /\ UNCHANGED reason_for_closure
      BY <3>2 DEF InitializingToOpen
    <3>3. ASSUME NEW c, InitializingToClosed(c) PROVE state' = "Closed"
      BY <3>3 DEF InitializingToClosed
    <3>4. ASSUME NEW c, NEW events, OpenToClosed(events, c) PROVE state' = "Closed"
      BY <3>4 DEF OpenToClosed
    <3>5. ASSUME NEW messages, NEW events, NEW pong, StayOpen(events, messages, pong)
          PROVE  UNCHANGED <<state, reason_for_closure>>
      BY <3>5 DEF StayOpen
    <3>6. Ignored => UNCHANGED <<state, reason_for_closure>>
      BY DEF Ignored, worker_vars
    <3> QED BY <2>1, <3>1, <3>2, <3>3, <3>4, <3>5, <3>6, Zenon DEF Branch
  <2> QED BY <2>2, <2>3 DEF LifeInv
<1> QED BY <1>1, <1>2, <1>3, <1>4, <1>5 DEF Next, Pool

\* A branch of the main loop takes no request but the one it was sent.
LEMMA BranchTakes ==
    ASSUME TypeOK, NEW kind, NEW arg, Receive(kind, arg), Branch(kind, arg)
    PROVE  Taken' \cap Requests \subseteq Taken \union (IF kind = "SendMessage" THEN {arg} ELSE {})
<1>0. AtTransport' = AtTransport
  <2>1. wire' = wire
    BY DEF Receive
  <2> QED BY <2>1 DEF AtTransport
<1>t. commands_queue \in Seq(Requests) /\ outgoing_rx \in Seq(Message) /\ commands_queue \in Seq(Message)
  <2>1. Requests \subseteq Message
    BY DEF Message
  <2> QED BY <2>1 DEF TypeOK
<1>e. ToSet(<<>>) = {} /\ \A x : ToSet(<<x>>) = {x}
  BY DEF ToSet
<1>1. ASSUME UNCHANGED <<commands_queue, outgoing_rx>> PROVE Taken' = Taken
  BY <1>0, <1>1 DEF Taken
<1>2. ASSUME NEW m \in Requests, send_message(m) PROVE Taken' = Taken \union {m} \/ Taken' = Taken
  <2>1. CASE Queue(m)
    <3>1. ToSet(commands_queue') = ToSet(commands_queue) \union {m}
      BY <1>t, <2>1, AppendSet DEF Queue
    <3> QED BY <1>0, <2>1, <3>1 DEF Taken, Queue
  <2>2. CASE StayOpen(<<>>, <<m>>, pong_received)
    <3>1. <<m>> \in Seq(Message)
      BY DEF Message
    <3>2. outgoing_rx' = Append(outgoing_rx, m) /\ m \in Message
      BY <1>t, <2>2, <3>1 DEF StayOpen, Message
    <3>3. ToSet(outgoing_rx') = ToSet(outgoing_rx) \union {m}
      BY <1>t, <3>2, AppendSet
    <3> QED BY <1>0, <2>2, <3>3 DEF Taken, StayOpen
  <2>3. CASE Refuse(m)
    BY <1>1, <2>3 DEF Refuse, worker_vars
  <2> QED BY <1>2, <2>1, <2>2, <2>3 DEF send_message
<1>3. ASSUME NEW r \in InitResults, state = "Initializing", InitializingToOpen(r)
      PROVE  Taken' \cap Requests \subseteq Taken
  <2>1. Handshake(r) \in Seq(Message) /\ ToSet(Handshake(r)) \subseteq Login
    <3>1. {"CAP", "PASS", "NICK"} \subseteq Message
      BY DEF Message, Control, Login
    <3>2. <<"CAP", "PASS", "NICK">> \in Seq(Message) /\ <<"CAP", "NICK">> \in Seq(Message)
      BY <3>1
    <3>3. ToSet(<<"CAP", "PASS", "NICK">>) \subseteq Login /\ ToSet(<<"CAP", "NICK">>) \subseteq Login
      BY DEF ToSet, Login
    <3> QED BY <3>2, <3>3 DEF Handshake
  <2>2. ToSet(outgoing_rx') = ToSet(Handshake(r)) \union ToSet(commands_queue)
    BY <1>3, <1>t, <2>1, ConcatSet DEF InitializingToOpen
  <2>3. ToSet(commands_queue') = {}
    BY <1>e, <1>3 DEF InitializingToOpen
  <2>4. ToSet(Handshake(r)) \cap Requests = {}
    BY <2>1, ConstantsAssumption DEF Control
  <2> QED BY <1>0, <2>2, <2>3, <2>4 DEF Taken
<1>4. ASSUME NEW c, InitializingToClosed(c) PROVE Taken' \subseteq Taken
  BY <1>0, <1>e, <1>4 DEF InitializingToClosed, Taken
<1>5. ASSUME NEW c, NEW events, OpenToClosed(events, c) PROVE Taken' = Taken
  BY <1>1, <1>5 DEF OpenToClosed
<1>6. ASSUME NEW m \in {"None", "PING", "PONG"}, NEW events, NEW pong,
             StayOpen(events, IF m = "None" THEN <<>> ELSE <<m>>, pong)
      PROVE  Taken' \cap Requests \subseteq Taken
  <2> DEFINE messages == IF m = "None" THEN <<>> ELSE <<m>>
  <2>1. messages \in Seq(Message) /\ ToSet(messages) \subseteq {"PING", "PONG"}
    <3>1. {"PING", "PONG"} \subseteq Message
      BY DEF Message, Control
    <3>2. m # "None" => <<m>> \in Seq(Message)
      BY <3>1
    <3> QED BY <1>e, <3>2
  <2>2. outgoing_rx' = outgoing_rx \o messages /\ UNCHANGED commands_queue
    BY <1>6 DEF StayOpen
  <2> HIDE DEF messages
  <2>3. ToSet(outgoing_rx') = ToSet(outgoing_rx) \union ToSet(messages)
    BY <1>t, <2>1, <2>2, ConcatSet
  <2>4. ToSet(messages) \cap Requests = {}
    BY <2>1, ConstantsAssumption DEF Control
  <2> QED BY <1>0, <2>2, <2>3, <2>4 DEF Taken
<1>7. Ignored => Taken' = Taken
  BY <1>1 DEF Ignored, worker_vars
<1> HIDE DEF Taken
<1>8. CASE kind = "SendMessage"
  BY <1>2, <1>8 DEF Branch
<1>9. CASE kind # "SendMessage"
  <2>1. Taken' \cap Requests \subseteq Taken
    BY <1>3, <1>4, <1>5, <1>6, <1>7, <1>9 DEF Branch
  <2> QED BY <2>1
<1> QED BY <1>8, <1>9

\* The commands of the tasks are no requests.
LEMMA OthersPost ==
    ASSUME PoolRemove \/ PoolGone \/ Tasks \/ UNCHANGED vars
    PROVE  /\ UNCHANGED <<issued, commands_queue>>
           /\ \/ UNCHANGED connection_loop_rx
              \/ \E command : command.command # "SendMessage" /\ Post(<<command>>)
<1>1. \A kind \in {"TransportInitFinished", "IncomingMessage", "SendError"} \union Ticks :
         \A arg : Command(kind, arg).command # "SendMessage"
  BY DEF Command, Ticks
<1>2. ASSUME NEW r \in InitResults, run_init_task(r)
      PROVE  UNCHANGED connection_loop_rx \/ Post(<<Command("TransportInitFinished", r)>>)
  BY <1>2 DEF run_init_task
<1>3. ASSUME NEW i \in Items, run_incoming_forward_task(i)
      PROVE  UNCHANGED connection_loop_rx \/ Post(<<Command("IncomingMessage", i)>>)
  BY <1>3 DEF run_incoming_forward_task
<1>4. ASSUME NEW t \in Ticks, run_ping_task(t)
      PROVE  UNCHANGED connection_loop_rx \/ Post(<<Command(t, "None")>>)
  BY <1>4 DEF run_ping_task
<1>5. ASSUME NEW accepted \in BOOLEAN, run_outgoing_forward_task(accepted)
      PROVE  UNCHANGED connection_loop_rx \/ Post(<<Command("SendError", "None")>>)
  BY <1>5 DEF run_outgoing_forward_task
<1>6. ASSUME PoolRemove \/ PoolGone \/ IncomingTaskStops \/ PingTaskStops \/ OutgoingTaskStops
             \/ InitTaskPanics \/ UNCHANGED vars
      PROVE  UNCHANGED connection_loop_rx
  BY <1>6 DEF PoolRemove, PoolGone, InitTaskPanics, IncomingTaskStops, PingTaskStops, OutgoingTaskStops, vars
<1>7. UNCHANGED <<issued, commands_queue>>
  BY DEF PoolRemove, PoolGone, Tasks, vars, worker_vars, pool_vars, InitTaskPanics,
         run_init_task, run_incoming_forward_task, IncomingTaskStops, run_ping_task, PingTaskStops,
         run_outgoing_forward_task, OutgoingTaskStops
<1> QED BY <1>1, <1>2, <1>3, <1>4, <1>5, <1>6, <1>7 DEF Tasks

\* Every step but a request of the pool moves requests along their way, if at all, and
\* no write is forgotten.
LEMMA StepAdvances ==
    ASSUME TypeOK, LoopInv', PlaceInv, Next \/ UNCHANGED vars,
           \A m \in Requests : ~PoolSend(m) /\ ~PoolSendPanics(m)
    PROVE  Advances /\ \A r, a : WrittenTo(r, a) => WrittenTo(r, a)'
<1>0. ChannelOnce
  BY DEF PlaceInv
<1>1. ASSUME UNCHANGED wire
      PROVE  AtTransport' = AtTransport /\ \A r, a : WrittenTo(r, a) => WrittenTo(r, a)'
  BY <1>1 DEF AtTransport, WrittenTo
<1>2. ASSUME UNCHANGED connection_loop_rx PROVE ChannelOnce' /\ InChannel' = InChannel
  BY <1>0, <1>2 DEF ChannelOnce, InChannel, IsRequest
<1>3. ASSUME PoolRemove \/ PoolGone \/ Tasks \/ UNCHANGED vars
      PROVE  Advances /\ \A r, a : WrittenTo(r, a) => WrittenTo(r, a)'
  <2>1. UNCHANGED <<issued, commands_queue>> /\ ChannelOnce' /\ InChannel' = InChannel
    BY <1>0, <1>2, <1>3, OthersPost, PostedOther
  <2>2. CASE UNCHANGED out_vars
    <3>1. outgoing_rx' = outgoing_rx /\ wire' = wire
      BY <2>2 DEF out_vars
    <3>2. Taken' = Taken
      BY <1>1, <2>1, <3>1 DEF Taken
    <3> QED BY <1>1, <2>1, <3>1, <3>2 DEF Advances
  <2>3. ASSUME NEW accepted \in BOOLEAN, Forwards(accepted)
        PROVE  Advances /\ \A r, a : WrittenTo(r, a) => WrittenTo(r, a)'
    <3>1. PICK m : m = Head(outgoing_rx)
      OBVIOUS
    <3>2. /\ m \in ToSet(outgoing_rx) /\ ToSet(outgoing_rx') \subseteq ToSet(outgoing_rx)
          /\ AtTransport' = AtTransport \union {m}
          /\ \A r, a : WrittenTo(r, a) => WrittenTo(r, a)'
      BY <2>3, <3>1, ForwardPlaces
    <3>3. Taken' \subseteq Taken
      BY <2>1, <3>2 DEF Taken
    <3> QED BY <2>1, <3>2, <3>3 DEF Advances
  <2>4. UNCHANGED out_vars \/ \E accepted \in BOOLEAN : Forwards(accepted)
    BY <1>3, OthersKeepTraffic DEF Pool
  <2> QED BY <2>2, <2>3, <2>4
<1>4. ASSUME WorkerEnds PROVE Advances /\ \A r, a : WrittenTo(r, a) => WrittenTo(r, a)'
  <2>1. UNCHANGED <<connection_loop_rx, issued, wire, outgoing_rx>> /\ commands_queue' = <<>>
    BY <1>4 DEF WorkerEnds, out_vars, pool_vars
  <2>2. ToSet(commands_queue') = {}
    BY <2>1 DEF ToSet
  <2>3. Taken' \subseteq Taken
    BY <1>1, <2>1, <2>2 DEF Taken
  <2> QED BY <1>1, <1>2, <2>1, <2>3 DEF Advances
<1>5. ASSUME process_command PROVE Advances /\ \A r, a : WrittenTo(r, a) => WrittenTo(r, a)'
  <2>1. PICK kind, arg : Receive(kind, arg) /\ Branch(kind, arg)
    BY <1>5, Branches
  <2>2. UNCHANGED <<issued, wire>>
    BY <2>1 DEF Receive, pool_vars
  <2>3. /\ ChannelOnce' /\ InChannel' \subseteq InChannel
        /\ kind = "SendMessage" /\ arg \in Requests => arg \in InChannel \ InChannel'
    BY <1>0, <2>1, ReceivedCommand
  <2>4. Taken' \cap Requests \subseteq Taken \union (IF kind = "SendMessage" THEN {arg} ELSE {})
    BY <2>1, BranchTakes
  <2>5. Taken' \cap Requests \subseteq Taken \union (InChannel \ InChannel')
    BY <2>3, <2>4
  <2> QED BY <1>1, <2>2, <2>3, <2>5 DEF Advances
<1>6. ASSUME try_from_panics PROVE Advances /\ \A r, a : WrittenTo(r, a) => WrittenTo(r, a)'
  <2>1. UNCHANGED <<issued, wire, outgoing_rx, commands_queue>> /\ connection_loop_rx' = <<>>
    BY <1>6 DEF try_from_panics, out_vars, pool_vars
  <2>2. ChannelOnce' /\ InChannel' = {}
    BY <2>1 DEF ChannelOnce, InChannel
  <2>3. Taken' = Taken
    BY <1>1, <2>1 DEF Taken
  <2> QED BY <1>1, <2>1, <2>2, <2>3 DEF Advances
<1> QED BY <1>3, <1>4, <1>5, <1>6 DEF Next, Pool

LEMMA StepPlaceInv == TypeOK /\ LoopInv' /\ PlaceInv /\ [Next]_vars => PlaceInv'
<1> SUFFICES ASSUME TypeOK, LoopInv', PlaceInv, [Next]_vars PROVE PlaceInv'
  OBVIOUS
<1>1. ASSUME NEW m \in Requests, PoolSend(m) PROVE PlaceInv'
  <2>1. ToSet(issued') = ToSet(issued) \union {m} /\ m \notin ToSet(issued)
    BY <1>1, AppendSet DEF PoolSend, TypeOK
  <2>2. Taken' = Taken
    BY <1>1 DEF PoolSend, Taken, AtTransport, worker_vars, out_vars
  <2>3. ChannelOnce' /\ InChannel' = InChannel \union {m}
    BY <1>1, <2>1, PostedRequest DEF PoolSend, PlaceInv
  <2> HIDE DEF Taken, InChannel
  <2>4. m \notin Taken
    BY <2>1 DEF PlaceInv
  <2>5. InChannel' \subseteq ToSet(issued') \ Taken'
    BY <2>1, <2>2, <2>3, <2>4 DEF PlaceInv
  <2>6. Taken' \cap Requests \subseteq ToSet(issued')
    BY <2>1, <2>2 DEF PlaceInv
  <2> QED BY <2>3, <2>5, <2>6 DEF PlaceInv
<1>2. ASSUME \A m \in Requests : ~PoolSend(m) /\ ~PoolSendPanics(m) PROVE PlaceInv'
  BY <1>2, StepAdvances, AdvancingKeepsPlace
<1>3. ASSUME NEW m \in Requests, PoolSendPanics(m) PROVE PlaceInv'
  <2>1. ToSet(issued') = ToSet(issued) \union {m}
    BY <1>3, AppendSet DEF PoolSendPanics, TypeOK
  <2>2. m \notin ToSet(issued)
    BY <1>3 DEF PoolSendPanics
  <2>3. Taken' = Taken /\ InChannel' = InChannel /\ ChannelOnce'
    BY <1>3 DEF PoolSendPanics, Taken, AtTransport, InChannel, IsRequest, ChannelOnce, PlaceInv,
                worker_vars, out_vars
  <2> HIDE DEF Taken, InChannel
  <2> QED BY <2>1, <2>3 DEF PlaceInv
<1> QED BY <1>1, <1>2, <1>3

\* A request the pool has sent and that is nowhere any more, nor was it written.
Settled(r) == r \in ToSet(issued) \ (InChannel \union Taken)

\* The answer of one caller.
Truthful(r) ==
    /\ replies[r] = "ok" => WrittenTo(r, TRUE)
    /\ replies[r] = "OutgoingError" => WrittenTo(r, FALSE) \/ reason_for_closure = "OutgoingError"
    /\ replies[r] \in Cause \ {"OutgoingError"} => replies[r] = reason_for_closure /\ Settled(r)
    /\ replies[r] = "dropped" => handle = "pool_gone" \/ state = "Panicked"
AnswersInv == \A r \in Requests : Truthful(r)

LEMMA SettledForGood ==
    ASSUME TypeOK, LoopInv', PlaceInv, [Next]_vars, NEW r \in Requests, Settled(r)
    PROVE  Settled(r)'
<1>1. ASSUME NEW m \in Requests, PoolSend(m) PROVE Settled(r)'
  <2>1. ToSet(issued') = ToSet(issued) \union {m} /\ m \notin ToSet(issued)
    BY <1>1, AppendSet DEF PoolSend, TypeOK
  <2>2. Taken' = Taken
    BY <1>1 DEF PoolSend, Taken, AtTransport, worker_vars, out_vars
  <2>3. InChannel' = InChannel \union {m}
    BY <1>1, <2>1, PostedRequest DEF PoolSend, PlaceInv
  <2> HIDE DEF Taken, InChannel
  <2> QED BY <2>1, <2>2, <2>3 DEF Settled
<1>2. ASSUME \A m \in Requests : ~PoolSend(m) /\ ~PoolSendPanics(m) PROVE Settled(r)'
  <2>1. Advances
    BY <1>2, StepAdvances
  <2> HIDE DEF Taken, InChannel
  <2> QED BY <2>1 DEF Advances, Settled
<1>3. ASSUME NEW m \in Requests, PoolSendPanics(m) PROVE Settled(r)'
  <2>1. ToSet(issued') = ToSet(issued) \union {m}
    BY <1>3, AppendSet DEF PoolSendPanics, TypeOK
  <2>2. Taken' = Taken /\ InChannel' = InChannel
    BY <1>3 DEF PoolSendPanics, Taken, AtTransport, InChannel, IsRequest, worker_vars, out_vars
  <2> HIDE DEF Taken, InChannel
  <2> QED BY <2>1, <2>2 DEF Settled
<1> QED BY <1>1, <1>2, <1>3

\* The reason of a closed connection, the end of the pool and a panic are final.
LEMMA FinalFacts ==
    ASSUME LoopInv', LifeInv, [Next]_vars
    PROVE  /\ reason_for_closure' = reason_for_closure \/ reason_for_closure = NoCause
           /\ handle = "pool_gone" => handle' = "pool_gone"
           /\ state = "Panicked" => state' = "Panicked"
<1>1. CASE Pool \/ Tasks \/ UNCHANGED vars
  <2>1. UNCHANGED reason_for_closure /\ UNCHANGED state
    BY <1>1, OthersKeepLoop DEF worker_vars
  <2>2. handle = "pool_gone" => handle' = "pool_gone"
    BY <1>1 DEF Pool, PoolSend, PoolSendPanics, PoolRemove, PoolGone, Tasks, vars, pool_vars,
         InitTaskPanics, run_init_task,
         run_incoming_forward_task, IncomingTaskStops, run_ping_task, PingTaskStops,
         run_outgoing_forward_task, OutgoingTaskStops
  <2> QED BY <2>1, <2>2
<1>2. CASE WorkerEnds \/ try_from_panics
  BY <1>2 DEF WorkerEnds, Running, try_from_panics, pool_vars
<1>3. CASE process_command
  <2>1. PICK kind, arg : Receive(kind, arg) /\ Branch(kind, arg)
    BY <1>3, Branches
  <2>2. UNCHANGED handle /\ state # "Panicked"
    BY <2>1 DEF Receive, Running, pool_vars
  <2>3. state \in {"Initializing", "Open"} \/ UNCHANGED reason_for_closure
    BY <2>1 DEF Branch, send_message, Queue, StayOpen, Refuse, worker_vars, Ignored
  <2> QED BY <2>2, <2>3 DEF LifeInv
<1> QED BY <1>1, <1>2, <1>3 DEF Next

\* An answer that is not given again stays true.
LEMMA AnswerStaysTrue ==
    ASSUME TypeOK, LoopInv', LifeInv, PlaceInv, [Next]_vars, NEW r \in Requests,
           \A a : WrittenTo(r, a) => WrittenTo(r, a)', Truthful(r), replies'[r] = replies[r]
    PROVE  Truthful(r)'
<1>1. /\ reason_for_closure' = reason_for_closure \/ reason_for_closure = NoCause
      /\ handle = "pool_gone" => handle' = "pool_gone"
      /\ state = "Panicked" => state' = "Panicked"
  BY FinalFacts
<1>2. Settled(r) => Settled(r)'
  BY SettledForGood
<1>3. NoCause \notin Cause
  BY DEF NoCause, Cause, InitErrors
<1>4. replies[r] = "OutgoingError" => WrittenTo(r, FALSE)' \/ reason_for_closure' = "OutgoingError"
  BY <1>1 DEF Truthful, NoCause
<1>5. replies[r] \in Cause \ {"OutgoingError"} => replies[r] = reason_for_closure' /\ Settled(r)'
  BY <1>1, <1>2, <1>3 DEF Truthful
<1> HIDE DEF WrittenTo, Settled
<1> QED BY <1>1, <1>4, <1>5 DEF Truthful

\* Every answer that is given is true when it is given.
LEMMA NewAnswersAreTrue ==
    ASSUME TypeOK, LoopInv, LoopInv', LoginInv, LifeInv, PlaceInv, [Next]_vars, NEW r \in Requests,
           replies'[r] # replies[r]
    PROVE  Truthful(r)'
<1>c. "ok" \notin Cause /\ "dropped" \notin Cause /\ "OutgoingError" \in Cause
  BY DEF Cause, InitErrors
<1>1. \A ms, outcome : replies' = Reply(ms, outcome) => r \in ms /\ replies'[r] = outcome
  BY DEF Reply, TypeOK
<1>2. ASSUME NEW accepted \in BOOLEAN, run_outgoing_forward_task(accepted) PROVE Truthful(r)'
  <2>1. r = Head(outgoing_rx) /\ replies'[r] = IF accepted THEN "ok" ELSE "OutgoingError"
    <3> DEFINE outcome == IF accepted THEN "ok" ELSE "OutgoingError"
    <3>1. replies' = Reply({Head(outgoing_rx)}, outcome)
      BY <1>2 DEF run_outgoing_forward_task
    <3> HIDE DEF outcome
    <3>2. r \in {Head(outgoing_rx)} /\ replies'[r] = outcome
      BY <1>1, <3>1
    <3> QED BY <3>2 DEF outcome
  <2>2. Forwards(accepted)
    BY <1>2 DEF run_outgoing_forward_task, Forwards
  <2>3. WrittenTo(r, accepted)'
    BY <2>1, <2>2, ForwardPlaces
  <2> HIDE DEF WrittenTo, Settled
  <2>4. CASE accepted
    <3>1. WrittenTo(r, TRUE)' /\ replies'[r] = "ok"
      BY <2>1, <2>3, <2>4, Zenon
    <3> QED BY <1>c, <3>1 DEF Truthful
  <2>5. CASE ~accepted
    <3>1. WrittenTo(r, FALSE)' /\ replies'[r] = "OutgoingError"
      <4>1. accepted = FALSE
        BY <2>5
      <4> QED BY <2>1, <2>3, <4>1, Zenon
    <3> QED BY <1>c, <3>1 DEF Truthful
  <2> QED BY <2>4, <2>5
<1>3. ASSUME replies'[r] \in Cause, replies'[r] = reason_for_closure', Settled(r)' PROVE Truthful(r)'
  BY <1>c, <1>3 DEF Truthful
<1>4. ASSUME process_command PROVE Truthful(r)'
  <2>1. PICK kind, arg : Receive(kind, arg) /\ Branch(kind, arg)
    BY <1>4, Branches
  <2>2. UNCHANGED <<issued, wire>>
    BY <2>1 DEF Receive, pool_vars
  <2>3. /\ InChannel' \subseteq InChannel
        /\ kind = "SendMessage" /\ arg \in Requests => arg \in InChannel \ InChannel'
    BY <2>1, ReceivedCommand DEF PlaceInv
  <2>4. \/ kind = "SendMessage" /\ arg \in Requests /\ state = "Closed" /\ Refuse(arg)
        \/ state = "Initializing" /\ \E c \in Cause : InitializingToClosed(c)
    BY <2>1 DEF Branch, send_message, Queue, StayOpen, Ignored, InitializingToOpen, OpenToClosed
  <2>5. CASE kind = "SendMessage" /\ arg \in Requests /\ state = "Closed" /\ Refuse(arg)
    <3>1. r = arg /\ replies'[r] = reason_for_closure
      BY <1>1, <2>5 DEF Refuse
    <3>2. reason_for_closure \in Cause /\ UNCHANGED reason_for_closure
      BY <2>5 DEF Refuse, worker_vars, TypeOK
    <3>3. Taken' = Taken
      BY <2>2, <2>5 DEF Refuse, worker_vars, Taken, AtTransport
    <3> HIDE DEF Taken, InChannel
    <3>4. Settled(r)'
      BY <2>2, <2>3, <2>5, <3>1, <3>3 DEF PlaceInv, Settled
    <3> QED BY <1>3, <3>1, <3>2, <3>4
  <2>6. ASSUME NEW c \in Cause, state = "Initializing", InitializingToClosed(c) PROVE Truthful(r)'
    <3>1. r \in ToSet(commands_queue) /\ replies'[r] = c /\ reason_for_closure' = c
      BY <1>1, <2>6 DEF InitializingToClosed
    <3>2. wire' = <<>> /\ outgoing_rx' = <<>> /\ commands_queue' = <<>>
      BY <2>2, <2>6 DEF InitializingToClosed, LoopInv, LoginInv
    <3>3. Taken' = {}
      BY <3>2 DEF Taken, AtTransport, ToSet
    <3>4. r \in Taken
      BY <3>1 DEF Taken
    <3> HIDE DEF Taken, InChannel
    <3>5. Settled(r)'
      BY <2>2, <2>3, <3>3, <3>4 DEF PlaceInv, Settled
    <3> QED BY <1>3, <3>1, <3>5
  <2> QED BY <2>4, <2>5, <2>6
<1>5. ASSUME WorkerEnds PROVE Truthful(r)'
  <2>1. r \in ToSet(commands_queue) /\ replies'[r] = "dropped"
    BY <1>1, <1>5 DEF WorkerEnds
  <2>2. state = "Initializing"
    BY <2>1 DEF LoginInv, ToSet
  <2>3. handle' = "pool_gone"
    BY <1>5, <2>2 DEF WorkerEnds, pool_vars, Upgrades, LifeInv, TypeOK
  <2> QED BY <1>c, <2>1, <2>3 DEF Truthful
<1>7. ASSUME try_from_panics PROVE Truthful(r)'
  <2> DEFINE waiting == {m \in Requests : Command("SendMessage", m) \in ToSet(connection_loop_rx)}
  <2>1. replies' = Reply(waiting, "dropped") /\ state' = "Panicked"
    BY <1>7 DEF try_from_panics
  <2> HIDE DEF waiting
  <2>2. replies'[r] = "dropped"
    BY <1>1, <2>1
  <2> QED BY <1>c, <2>1, <2>2 DEF Truthful
<1>8. ASSUME NEW m \in Requests, PoolSendPanics(m) PROVE Truthful(r)'
  <2>1. replies' = Reply({m}, "dropped") /\ handle' = "pool_gone"
    BY <1>8 DEF PoolSendPanics
  <2>2. replies'[r] = "dropped"
    BY <1>1, <2>1
  <2> QED BY <1>c, <2>1, <2>2 DEF Truthful
<1>6. \/ process_command \/ WorkerEnds \/ try_from_panics
      \/ \E m \in Requests : PoolSendPanics(m)
      \/ \E accepted \in BOOLEAN : run_outgoing_forward_task(accepted)
  BY DEF Next, Pool, PoolSend, PoolRemove, PoolGone, Tasks, vars, InitTaskPanics, run_init_task,
         run_incoming_forward_task, IncomingTaskStops, run_ping_task, PingTaskStops,
         OutgoingTaskStops
<1> QED BY <1>2, <1>4, <1>5, <1>6, <1>7, <1>8

LEMMA StepAnswersInv ==
    TypeOK /\ LoopInv /\ LoopInv' /\ LoginInv /\ LifeInv /\ PlaceInv /\ AnswersInv /\ [Next]_vars
        => AnswersInv'
<1> SUFFICES ASSUME TypeOK, LoopInv, LoopInv', LoginInv, LifeInv, PlaceInv, AnswersInv, [Next]_vars,
                    NEW r \in Requests
             PROVE  Truthful(r)'
  BY DEF AnswersInv
<1>1. \A a : WrittenTo(r, a) => WrittenTo(r, a)'
  <2>1. ASSUME NEW m \in Requests, PoolSend(m) \/ PoolSendPanics(m)
        PROVE  \A a : WrittenTo(r, a) => WrittenTo(r, a)'
    BY <2>1 DEF PoolSend, PoolSendPanics, out_vars, WrittenTo
  <2> QED BY <2>1, StepAdvances
<1>2. Truthful(r)
  BY DEF AnswersInv
<1>3. CASE replies'[r] = replies[r]
  BY <1>1, <1>2, <1>3, AnswerStaysTrue
<1>4. CASE replies'[r] # replies[r]
  BY <1>4, NewAnswersAreTrue
<1> QED BY <1>3, <1>4

\* No caller is told Ok for a message the transport did not take, nor given the cause of
\* the closing for one that went out, and no reply sender is dropped unanswered before the
\* pool's loop has ended or the connection's own has panicked over a message
\* (event_loop.rs:341-394, 548-572).
THEOREM AnswersAreTrueCorrect == Spec => []AnswersAreTrue
<1>1. Init => ReportInv /\ LifeInv /\ PlaceInv /\ AnswersInv
  <2> SUFFICES ASSUME Init PROVE ReportInv /\ LifeInv /\ PlaceInv /\ AnswersInv
    OBVIOUS
  <2>1. ReportInv /\ LifeInv
    BY DEF Init, ReportInv, ClosedOnceAndLast, LifeInv
  <2>2. InChannel = {} /\ Taken = {} /\ ChannelOnce
    BY DEF Init, InChannel, Taken, AtTransport, ToSet, ChannelOnce
  <2>3. AnswersInv
    BY DEF Init, AnswersInv, Truthful, Cause, InitErrors
  <2> HIDE DEF Taken, InChannel
  <2> QED BY <2>1, <2>2, <2>3 DEF PlaceInv
<1>2. TypeOK /\ ConstantsAssumption /\ AnswersInv => AnswersAreTrue
  <2> SUFFICES ASSUME TypeOK, AnswersInv, NEW r \in Awaited
               PROVE  /\ replies[r] = "ok" => WrittenTo(r, TRUE)
                      /\ replies[r] = "OutgoingError" =>
                            WrittenTo(r, FALSE) \/ reason_for_closure = "OutgoingError"
                      /\ replies[r] \in Cause \ {"OutgoingError"} =>
                            /\ replies[r] = reason_for_closure
                            /\ ~WrittenTo(r, TRUE) /\ ~WrittenTo(r, FALSE)
                      /\ replies[r] = "dropped" => handle = "pool_gone" \/ state = "Panicked"
    BY DEF AnswersAreTrue
  <2>1. Truthful(r)
    BY ConstantsAssumption DEF AnswersInv
  <2>2. ASSUME NEW a, WrittenTo(r, a) PROVE ~Settled(r)
    <3>1. PICK i \in DOMAIN wire : wire[i] = [message |-> r, accepted |-> a]
      BY <2>2 DEF WrittenTo
    <3>2. i \in 1..Len(wire) /\ wire[i].message = r
      BY <3>1 DEF TypeOK
    <3>3. r \in AtTransport
      BY <3>2 DEF AtTransport
    <3> QED BY <3>3 DEF Settled, Taken
  <2> HIDE DEF WrittenTo, Settled
  <2> QED BY <2>1, <2>2 DEF Truthful
<1>3. Spec => [](LoopInv /\ LoginInv)
  BY InitLoopInv, StepLoopInv, InitLoginInv, StepLoginInv, TypeCorrect, PTL DEF Spec
<1>4. Spec => []ReportInv
  BY <1>1, <1>3, StepReportInv, TypeCorrect, PTL DEF Spec
<1>5. Spec => [](LifeInv /\ PlaceInv)
  BY <1>1, <1>3, <1>4, StepLifeInv, StepPlaceInv, TypeCorrect, PTL DEF Spec
<1>6. Spec => []AnswersInv
  BY <1>1, <1>3, <1>5, StepAnswersInv, TypeCorrect, PTL DEF Spec
<1> QED BY <1>2, <1>6, ConstantsAssumption, TypeCorrect, PTL

-----------------------------------------------------------------------------
(* Requests are written in the order they were issued *)

\* the requests of the traffic ahead of position i, and of the main loop's channel
TrafficBefore(i) == {Traffic(j) : j \in 1..(i - 1)} \cap Requests
RequestTraffic == {Traffic(j) : j \in 1..Sent} \cap Requests
QueueBefore(i) == {commands_queue[j] : j \in 1..(i - 1)}
ChannelBefore(i) == {r \in Requests : \E j \in 1..(i - 1) : IsRequest(j, r)}

\* what the loop has accepted, as long as it accepts
Accepted == ToSet(commands_queue) \union RequestTraffic

\* the requests ahead of r are those issued before it
InPlace(r, ahead) == r \in ToSet(issued) /\ ahead = IssuedBefore(r)

TrafficOrdered ==
    \A i \in 1..Sent : Traffic(i) \in Requests => InPlace(Traffic(i), TrafficBefore(i))
QueueOrdered ==
    \A i \in 1..Len(commands_queue) : InPlace(commands_queue[i], QueueBefore(i))
\* What waits in the channel follows all that was accepted, and with it is all
\* that was issued.
ChannelOrdered ==
    /\ \A r \in Requests, i \in 1..Len(connection_loop_rx) :
          IsRequest(i, r) => InPlace(r, ChannelBefore(i) \union Accepted)
    /\ ToSet(issued) = InChannel \union Accepted

OrderInv ==
    /\ TrafficOrdered
    /\ QueueOrdered
    /\ state \in {"Initializing", "Open"} => ChannelOrdered

LEMMA IssuedGrows ==
    ASSUME TypeOK, NEW m \in Requests, m \notin ToSet(issued), issued' = Append(issued, m)
    PROVE  /\ ToSet(issued') = ToSet(issued) \union {m}
           /\ \A r \in ToSet(issued) : IssuedBefore(r)' = IssuedBefore(r)
           /\ IssuedBefore(m)' = ToSet(issued)
<1> DEFINE n == Len(issued)
<1>1. /\ n \in Nat /\ DOMAIN issued = 1..n /\ DOMAIN issued' = 1..(n + 1)
      /\ \A i \in 1..n : issued'[i] = issued[i]
      /\ issued'[n + 1] = m
  BY DEF TypeOK
<1>2. ToSet(issued') = ToSet(issued) \union {m}
  BY AppendSet DEF TypeOK
<1> HIDE DEF n
<1>3. \A i : i \in 1..(n + 1) <=> i \in 1..n \/ i = n + 1
  BY <1>1
<1>4. \A k, l \in 1..(n + 1) : k < l => k \in 1..n
  BY <1>1
<1>5. ASSUME NEW r \in ToSet(issued) PROVE IssuedBefore(r)' = IssuedBefore(r)
  <2>1. r # m
    BY <1>5
  <2>2. \A k \in 1..(n + 1) :
           (\E l \in 1..(n + 1) : k < l /\ issued'[l] = r)
               <=> k \in 1..n /\ \E l \in 1..n : k < l /\ issued[l] = r
    BY <1>1, <1>3, <1>4, <2>1
  <2> QED BY <1>1, <1>3, <2>2 DEF IssuedBefore
<1>6. IssuedBefore(m)' = ToSet(issued)
  <2>1. \A l \in 1..n : issued[l] # m
    BY <1>1 DEF ToSet
  <2>2. \A k \in 1..(n + 1) :
           (\E l \in 1..(n + 1) : k < l /\ issued'[l] = m) <=> k \in 1..n
    BY <1>1, <1>3, <2>1
  <2> QED BY <1>1, <1>3, <2>2 DEF IssuedBefore, ToSet
<1> QED BY <1>2, <1>5, <1>6

\* The traffic as a whole stays, or one message joins it at the end.
SameTraffic == Sent \in Nat /\ Sent' = Sent /\ \A i \in 1..Sent : Traffic(i)' = Traffic(i)
TrafficGains(m) ==
    /\ Sent \in Nat /\ Sent' = Sent + 1
    /\ \A i \in 1..(Sent + 1) : Traffic(i)' = IF i <= Sent THEN Traffic(i) ELSE m

LEMMA SameTrafficOrdered ==
    ASSUME SameTraffic, TrafficOrdered, UNCHANGED issued
    PROVE  TrafficOrdered' /\ RequestTraffic' = RequestTraffic
<1>1. Sent \in Nat /\ Sent' = Sent /\ \A i \in 1..Sent : Traffic(i)' = Traffic(i)
  BY DEF SameTraffic
<1>2. \A r : IssuedBefore(r)' = IssuedBefore(r)
  BY DEF IssuedBefore
<1>3. ASSUME NEW i \in 1..(Sent + 1) PROVE TrafficBefore(i)' = TrafficBefore(i)
  <2>1. \A j \in 1..(i - 1) : j \in 1..Sent
    BY <1>1
  <2> QED BY <1>1, <2>1 DEF TrafficBefore
<1>4. TrafficOrdered'
  BY <1>1, <1>2, <1>3 DEF TrafficOrdered, InPlace
<1>5. RequestTraffic' = RequestTraffic
  BY <1>1 DEF RequestTraffic
<1> QED BY <1>4, <1>5

LEMMA GainedTrafficOrdered ==
    ASSUME NEW m, TrafficGains(m), TrafficOrdered, UNCHANGED issued,
           m \in Requests => InPlace(m, RequestTraffic)
    PROVE  /\ TrafficOrdered'
           /\ RequestTraffic' = RequestTraffic \union ({m} \cap Requests)
<1>3. PICK s : s = Sent
  OBVIOUS
<1>1. /\ s \in Nat /\ Sent' = s + 1 /\ \A i \in 1..s : Traffic(i)' = Traffic(i)
      /\ Traffic(s + 1)' = m
  BY <1>3 DEF TrafficGains
<1>2. \A r : IssuedBefore(r)' = IssuedBefore(r)
  BY DEF IssuedBefore
<1>4. ASSUME NEW i \in 1..(s + 1) PROVE TrafficBefore(i)' = TrafficBefore(i)
  <2>1. \A j \in 1..(i - 1) : j \in 1..s
    BY <1>1, <1>3
  <2> QED BY <1>1, <1>3, <2>1 DEF TrafficBefore
<1>5. \A i : i \in 1..(s + 1) <=> i \in 1..s \/ i = s + 1
  BY <1>1, <1>3
<1>6. TrafficOrdered'
  <2> SUFFICES ASSUME NEW i \in 1..(s + 1), Traffic(i)' \in Requests
               PROVE  InPlace(Traffic(i), TrafficBefore(i))'
    BY <1>1, <1>3 DEF TrafficOrdered
  <2>0. PICK r : r = Traffic(i)'
    OBVIOUS
  <2>1. r \in ToSet(issued) /\ TrafficBefore(i) = IssuedBefore(r)
    <3>1. CASE i \in 1..s
      <4>1. r = Traffic(i) /\ r \in Requests
        BY <1>1, <2>0, <3>1
      <4> QED BY <1>3, <3>1, <4>1 DEF TrafficOrdered, InPlace
    <3>2. CASE i = s + 1
      <4>1. r = m /\ r \in Requests
        BY <1>1, <2>0, <3>2
      <4>2. TrafficBefore(i) = RequestTraffic
        <5>1. i - 1 = Sent
          BY <1>1, <1>3, <3>2
        <5> QED BY <5>1 DEF TrafficBefore, RequestTraffic
      <4> QED BY <4>1, <4>2 DEF InPlace
    <3> QED BY <1>5, <3>1, <3>2
  <2>2. r \in ToSet(issued)' /\ TrafficBefore(i)' = IssuedBefore(r)'
    BY <1>2, <1>4, <2>1
  <2> QED BY <2>0, <2>2 DEF InPlace, IssuedBefore
<1>7. RequestTraffic' = RequestTraffic \union ({m} \cap Requests)
  BY <1>1, <1>3, <1>5 DEF RequestTraffic
<1> QED BY <1>3, <1>6, <1>7

LEMMA ForwardKeepsTraffic ==
    ASSUME TypeOK, NEW accepted \in BOOLEAN, Forwards(accepted) PROVE SameTraffic
<1>1. TrafficGrows
  BY ForwardGrows
<1>2. Sent' = Sent /\ Sent \in Nat
  BY DEF Forwards, TypeOK, Sent
<1> QED BY <1>1, <1>2 DEF TrafficGrows, SameTraffic

LEMMA AppendGains ==
    ASSUME TypeOK, NEW m \in Message, outgoing_rx' = outgoing_rx \o <<m>>, UNCHANGED wire
    PROVE  TrafficGains(m)
<1>1. <<m>> \in Seq(Message)
  OBVIOUS
<1>2. TrafficGrows
  BY <1>1, AppendGrows
<1>3. outgoing_rx' = Append(outgoing_rx, m)
  BY DEF TypeOK
<1>4. /\ Len(wire) \in Nat /\ Len(outgoing_rx) \in Nat /\ wire' = wire
      /\ Len(outgoing_rx') = Len(outgoing_rx) + 1
      /\ outgoing_rx'[Len(outgoing_rx) + 1] = m
  BY <1>3 DEF TypeOK
<1>5. Sent' = Sent + 1 /\ Sent \in Nat
  BY <1>4 DEF Sent
<1>6. ASSUME NEW i, i = Sent + 1 PROVE Traffic(i)' = m
  <2>1. ~(i <= Len(wire)) /\ i - Len(wire) = Len(outgoing_rx) + 1
    BY <1>4, <1>6 DEF Sent
  <2> QED BY <1>4, <2>1 DEF Traffic
<1>7. \A i \in 1..(Sent + 1) : Traffic(i)' = IF i <= Sent THEN Traffic(i) ELSE m
  BY <1>2, <1>5, <1>6 DEF TrafficGrows
<1> QED BY <1>5, <1>7 DEF TrafficGains

-----------------------------------------------------------------------------
\* Steps that issue nothing and accept nothing: what they post is no request.
LEMMA OtherCommandsKeepOrder ==
    ASSUME TypeOK, ChannelOnce, ChannelOrdered, UNCHANGED issued, Accepted' = Accepted,
           \/ UNCHANGED connection_loop_rx
           \/ \E command : command.command # "SendMessage" /\ Post(<<command>>)
    PROVE  ChannelOrdered'
<1> DEFINE n == Len(connection_loop_rx)
<1>1. \A r : IssuedBefore(r)' = IssuedBefore(r)
  BY DEF IssuedBefore
<1>2. CASE UNCHANGED connection_loop_rx
  BY <1>1, <1>2 DEF ChannelOrdered, ChannelBefore, InChannel, IsRequest, InPlace
<1>4. CASE state = "Panicked" /\ \E command : Post(<<command>>)
  BY <1>2, <1>4 DEF Post
<1>3. ASSUME NEW command, command.command # "SendMessage", Post(<<command>>), state # "Panicked"
      PROVE  ChannelOrdered'
  <2>1. /\ n \in Nat /\ Len(connection_loop_rx') = n + 1
        /\ \A i \in 1..n : connection_loop_rx'[i] = connection_loop_rx[i]
        /\ connection_loop_rx'[n + 1] = command
    BY <1>3 DEF Post, TypeOK
  <2>2. InChannel' = InChannel
    BY <1>3, PostedOther
  <2> HIDE DEF n
  <2>3. \A r : ~(command = Command("SendMessage", r))
    BY <1>3 DEF Command
  <2>4. ASSUME NEW r \in Requests, NEW i \in 1..(n + 1), IsRequest(i, r)'
        PROVE  /\ i \in 1..n /\ IsRequest(i, r)
               /\ ChannelBefore(i)' = ChannelBefore(i)
    <3>1. i \in 1..n
      BY <2>1, <2>3, <2>4 DEF IsRequest
    <3>2. \A j \in 1..(i - 1) : connection_loop_rx'[j] = connection_loop_rx[j]
      BY <2>1, <3>1
    <3> QED BY <2>1, <2>4, <3>1, <3>2 DEF IsRequest, ChannelBefore
  <2> HIDE DEF InChannel, Accepted, ChannelBefore, IssuedBefore, IsRequest
  <2>5. \A r \in Requests, i \in 1..n :
           IsRequest(i, r) => r \in ToSet(issued) /\ ChannelBefore(i) \union Accepted = IssuedBefore(r)
    BY DEF ChannelOrdered, InPlace, n
  <2>6. \A r \in Requests, i \in 1..(n + 1) :
           IsRequest(i, r)' =>
              r \in ToSet(issued)' /\ (ChannelBefore(i) \union Accepted)' = IssuedBefore(r)'
    BY <1>1, <2>4, <2>5
  <2>7. ToSet(issued)' = (InChannel \union Accepted)'
    BY <2>2 DEF ChannelOrdered
  <2> QED BY <2>1, <2>6, <2>7 DEF ChannelOrdered, InPlace
<1> QED BY <1>2, <1>3, <1>4

\* Taking a command: a request that is accepted is the one that was due.
LEMMA ReceivingKeepsOrder ==
    ASSUME TypeOK, ChannelOnce, ChannelOrdered, UNCHANGED issued, NEW kind, NEW arg,
           Receive(kind, arg), kind = "SendMessage" => arg \in Requests
    PROVE  /\ kind = "SendMessage" => InPlace(arg, Accepted)
           /\ Accepted' = Accepted \union (IF kind = "SendMessage" THEN {arg} ELSE {})
                 => ChannelOrdered'
<1> DEFINE n == Len(connection_loop_rx)
           taken == IF kind = "SendMessage" THEN {arg} ELSE {}
<1>1. /\ n \in Nat /\ n >= 1 /\ Len(connection_loop_rx') = n - 1
      /\ \A i \in 1..(n - 1) : connection_loop_rx'[i] = connection_loop_rx[i + 1]
      /\ connection_loop_rx[1] = Command(kind, arg)
  BY DEF Receive, TypeOK
<1>2. \A r : IssuedBefore(r)' = IssuedBefore(r)
  BY DEF IssuedBefore
<1> HIDE DEF n
<1>3. \A r \in Requests : IsRequest(1, r) <=> r \in taken
  BY <1>1 DEF IsRequest, Command
<1>4. \A r : \A i \in 1..(n - 1) : IsRequest(i, r)' <=> IsRequest(i + 1, r)
  BY <1>1 DEF IsRequest
<1>5. taken \subseteq Requests
  OBVIOUS
<1> HIDE DEF taken
<1>6. ASSUME kind = "SendMessage" PROVE InPlace(arg, Accepted)
  <2>1. IsRequest(1, arg) /\ ChannelBefore(1) = {} /\ 1 \in 1..n
    BY <1>1, <1>6 DEF IsRequest, ChannelBefore
  <2>2. InPlace(arg, ChannelBefore(1) \union Accepted)
    BY <1>6, <2>1 DEF ChannelOrdered, n
  <2>3. ChannelBefore(1) \union Accepted = Accepted
    BY <2>1
  <2> QED BY <2>2, <2>3 DEF InPlace
<1>7. ASSUME NEW i \in 1..(n - 1) PROVE ChannelBefore(i)' \union taken = ChannelBefore(i + 1)
  <2>1. \A j : j \in 1..((i + 1) - 1) <=> j = 1 \/ (j - 1 \in 1..(i - 1) /\ j \in Int)
    BY <1>1
  <2>2. \A j \in 1..(i - 1) : j \in 1..(n - 1) /\ (j + 1) \in 1..((i + 1) - 1) /\ (j + 1) - 1 = j
    BY <1>1
  <2>3. \A r \in Requests :
           (\E j \in 1..((i + 1) - 1) : IsRequest(j, r))
              <=> IsRequest(1, r) \/ (\E j \in 1..(i - 1) : IsRequest(j + 1, r))
    <3>1. ASSUME NEW r, NEW j \in 1..((i + 1) - 1), IsRequest(j, r), j # 1
          PROVE  \E k \in 1..(i - 1) : IsRequest(k + 1, r)
      <4>1. j - 1 \in 1..(i - 1) /\ (j - 1) + 1 = j
        BY <1>1, <3>1
      <4> QED BY <3>1, <4>1
    <3>2. 1 \in 1..((i + 1) - 1)
      BY <1>1
    <3> QED BY <2>2, <3>1, <3>2
  <2>4. \A r \in Requests :
           (\E j \in 1..(i - 1) : IsRequest(j, r)') <=> (\E j \in 1..(i - 1) : IsRequest(j + 1, r))
    BY <1>4, <2>2
  <2> HIDE DEF IsRequest
  <2> QED BY <1>3, <1>5, <2>3, <2>4 DEF ChannelBefore
<1>8. InChannel' \union taken = InChannel
  <2>1. ASSUME NEW r, NEW j \in 1..n, IsRequest(j, r), j # 1
        PROVE  \E k \in 1..(n - 1) : IsRequest(k + 1, r)
    <3>1. j - 1 \in 1..(n - 1) /\ (j - 1) + 1 = j
      BY <1>1, <2>1
    <3> QED BY <2>1, <3>1
  <2>2. \A k \in 1..(n - 1) : k + 1 \in 1..n
    BY <1>1
  <2>3. 1 \in 1..n
    BY <1>1
  <2>4. \A r \in Requests :
           (\E j \in 1..n : IsRequest(j, r))
              <=> r \in taken \/ (\E j \in 1..(n - 1) : IsRequest(j, r)')
    BY <1>3, <1>4, <2>1, <2>2, <2>3
  <2> QED BY <1>1, <1>5, <2>4 DEF InChannel, n
<1>9. ASSUME Accepted' = Accepted \union taken PROVE ChannelOrdered'
  <2>1. ASSUME NEW r \in Requests, NEW i \in 1..(n - 1), IsRequest(i, r)'
        PROVE  r \in ToSet(issued) /\ (ChannelBefore(i) \union Accepted)' = IssuedBefore(r)
    <3>1. i + 1 \in 1..n /\ IsRequest(i + 1, r)
      BY <1>1, <1>4, <2>1
    <3>2. r \in ToSet(issued) /\ ChannelBefore(i + 1) \union Accepted = IssuedBefore(r)
      BY <3>1 DEF ChannelOrdered, InPlace, n
    <3> HIDE DEF ChannelBefore, Accepted, IssuedBefore
    <3> QED BY <1>7, <1>9, <3>2
  <2> HIDE DEF ChannelBefore, Accepted, IssuedBefore, InChannel
  <2>2. ToSet(issued) = (InChannel \union Accepted)'
    BY <1>8, <1>9 DEF ChannelOrdered
  <2> QED BY <1>1, <1>2, <2>1, <2>2 DEF ChannelOrdered, InPlace
<1> QED BY <1>6, <1>9 DEF taken

\* A request that never reached the panicked loop comes after all that was written.
LEMMA FailedIssueKeepsOrder ==
    ASSUME TypeOK, OrderInv, NEW m \in Requests, PoolSendPanics(m)
    PROVE  OrderInv'
<1>1. UNCHANGED <<commands_queue, wire, outgoing_rx>> /\ state' = "Panicked"
  BY DEF PoolSendPanics, worker_vars, out_vars
<1>2. m \notin ToSet(issued) /\ issued' = Append(issued, m)
  BY DEF PoolSendPanics
<1>3. /\ ToSet(issued') = ToSet(issued) \union {m}
      /\ \A r \in ToSet(issued) : IssuedBefore(r)' = IssuedBefore(r)
  BY <1>2, IssuedGrows
<1>4. Sent' = Sent /\ \A i : Traffic(i)' = Traffic(i)
  BY <1>1 DEF Sent, Traffic
<1>5. \A i : TrafficBefore(i)' = TrafficBefore(i) /\ QueueBefore(i)' = QueueBefore(i)
  BY <1>1, <1>4 DEF TrafficBefore, QueueBefore
<1> HIDE DEF IssuedBefore
<1>6. TrafficOrdered'
  BY <1>3, <1>4, <1>5 DEF OrderInv, TrafficOrdered, InPlace
<1>7. QueueOrdered'
  BY <1>1, <1>3, <1>5 DEF OrderInv, QueueOrdered, InPlace
<1> QED BY <1>1, <1>6, <1>7 DEF OrderInv

\* The pool issues a request: all that is accepted or waits was issued before it.
LEMMA IssuingKeepsOrder ==
    ASSUME TypeOK, PlaceInv, OrderInv, NEW m \in Requests, PoolSend(m)
    PROVE  OrderInv'
<1>1. UNCHANGED <<state, commands_queue, wire, outgoing_rx>>
  BY DEF PoolSend, worker_vars, out_vars
<1>2. m \notin ToSet(issued) /\ issued' = Append(issued, m) /\ Post(<<Command("SendMessage", m)>>)
      /\ state # "Panicked"
  BY DEF PoolSend
<1>3. /\ ToSet(issued') = ToSet(issued) \union {m}
      /\ \A r \in ToSet(issued) : IssuedBefore(r)' = IssuedBefore(r)
      /\ IssuedBefore(m)' = ToSet(issued)
  BY <1>2, IssuedGrows
<1>4. Sent' = Sent /\ \A i : Traffic(i)' = Traffic(i)
  BY <1>1 DEF Sent, Traffic
<1>5. /\ RequestTraffic' = RequestTraffic /\ Accepted' = Accepted
      /\ \A i : TrafficBefore(i)' = TrafficBefore(i) /\ QueueBefore(i)' = QueueBefore(i)
  BY <1>1, <1>4 DEF RequestTraffic, Accepted, TrafficBefore, QueueBefore
<1> HIDE DEF IssuedBefore, Accepted
<1>6. TrafficOrdered'
  BY <1>3, <1>4, <1>5 DEF OrderInv, TrafficOrdered, InPlace
<1>7. QueueOrdered'
  BY <1>1, <1>3, <1>5 DEF OrderInv, QueueOrdered, InPlace
<1>8. ASSUME ChannelOrdered PROVE ChannelOrdered'
  <2> DEFINE n == Len(connection_loop_rx)
  <2>1. /\ n \in Nat /\ Len(connection_loop_rx') = n + 1
        /\ \A i \in 1..n : connection_loop_rx'[i] = connection_loop_rx[i]
        /\ connection_loop_rx'[n + 1] = Command("SendMessage", m)
    BY <1>2 DEF Post, TypeOK
  <2>2. InChannel' = InChannel \union {m}
    BY <1>2, PostedRequest DEF PlaceInv
  <2>p. PICK q : q = n + 1
    OBVIOUS
  <2>3. ChannelBefore(q)' = InChannel
    <3>1. q - 1 = n /\ \A j \in 1..n : \A r : IsRequest(j, r)' <=> IsRequest(j, r)
      BY <2>1, <2>p DEF IsRequest
    <3> HIDE DEF n
    <3> QED BY <3>1 DEF ChannelBefore, InChannel, n
  <2>4. ASSUME NEW i \in 1..n PROVE ChannelBefore(i)' = ChannelBefore(i)
    <3>1. \A j \in 1..(i - 1) : connection_loop_rx'[j] = connection_loop_rx[j]
      BY <2>1, <2>4
    <3> QED BY <3>1 DEF ChannelBefore, IsRequest
  <2>5. \A r \in Requests : \A i \in 1..n : IsRequest(i, r)' <=> IsRequest(i, r)
    BY <2>1 DEF IsRequest
  <2>6. \A r \in Requests : IsRequest(q, r)' <=> r = m
    BY <2>1, <2>p DEF IsRequest, Command
  <2> HIDE DEF n, InChannel, ChannelBefore, IsRequest
  <2>7. ASSUME NEW r \in Requests, NEW i \in 1..q, IsRequest(i, r)'
        PROVE  r \in ToSet(issued') /\ (ChannelBefore(i) \union Accepted)' = IssuedBefore(r)'
    <3>1. CASE i \in 1..n
      <4>1. r \in ToSet(issued) /\ ChannelBefore(i) \union Accepted = IssuedBefore(r)
        BY <1>8, <2>5, <2>7, <3>1 DEF ChannelOrdered, InPlace, n
      <4> QED BY <1>3, <1>5, <2>4, <3>1, <4>1
    <3>2. CASE i = q
      <4>1. r = m
        BY <2>6, <2>7, <3>2
      <4>2. ToSet(issued) = InChannel \union Accepted
        BY <1>8 DEF ChannelOrdered
      <4> QED BY <1>3, <1>5, <2>3, <3>2, <4>1, <4>2
    <3> QED BY <2>1, <2>p, <3>1, <3>2
  <2>8. ToSet(issued') = (InChannel \union Accepted)'
    BY <1>3, <1>5, <1>8, <2>2 DEF ChannelOrdered
  <2>9. Len(connection_loop_rx') = q
    BY <2>1, <2>p
  <2> QED BY <2>7, <2>8, <2>9 DEF ChannelOrdered, InPlace
<1> QED BY <1>1, <1>6, <1>7, <1>8 DEF OrderInv

\* The handshake is no request, so the queue follows the login in its own order.
LEMMA OpeningKeepsOrder ==
    ASSUME TypeOK, LoginInv, OrderInv, outgoing_task = "none", UNCHANGED <<wire, issued>>,
           NEW r \in InitResults, InitializingToOpen(r)
    PROVE  TrafficOrdered' /\ QueueOrdered' /\ Accepted' = Accepted
<1> DEFINE h == Handshake(r)
           q == Len(commands_queue)
<1>1. /\ wire = <<>> /\ outgoing_rx = <<>> /\ wire' = <<>> /\ outgoing_rx' = h \o commands_queue
      /\ commands_queue' = <<>>
  BY DEF LoginInv, InitializingToOpen
<1>2. commands_queue \in Seq(Message) /\ commands_queue \in Seq(Requests)
  <2>1. commands_queue \in Seq(Requests) /\ Requests \subseteq Message
    BY DEF TypeOK, Message
  <2> QED BY <2>1
<1>3. h \in Seq(Message) /\ \A i \in 1..Len(h) : h[i] \notin Requests
  <2>1. {"CAP", "PASS", "NICK"} \subseteq Message /\ {"CAP", "PASS", "NICK"} \cap Requests = {}
    BY ConstantsAssumption DEF Message, Control, Login
  <2>2. CASE h = <<"CAP", "PASS", "NICK">>
    <3> HIDE DEF h
    <3>1. h \in Seq(Message) /\ Len(h) = 3 /\ h[1] = "CAP" /\ h[2] = "PASS" /\ h[3] = "NICK"
      BY <2>1, <2>2
    <3>2. \A i \in 1..3 : i = 1 \/ i = 2 \/ i = 3
      OBVIOUS
    <3> QED BY <2>1, <3>1, <3>2
  <2>3. CASE h = <<"CAP", "NICK">>
    <3> HIDE DEF h
    <3>1. h \in Seq(Message) /\ Len(h) = 2 /\ h[1] = "CAP" /\ h[2] = "NICK"
      BY <2>1, <2>3
    <3>2. \A i \in 1..2 : i = 1 \/ i = 2
      OBVIOUS
    <3> QED BY <2>1, <3>1, <3>2
  <2> QED BY <2>2, <2>3 DEF Handshake
<1> HIDE DEF h
<1>4. PICK k : k = Len(h)
  OBVIOUS
<1>5. /\ k \in Nat /\ q \in Nat /\ Len(outgoing_rx') = k + q
      /\ \A i \in 1..k : outgoing_rx'[i] = h[i]
      /\ \A i \in 1..q : outgoing_rx'[k + i] = commands_queue[i]
      /\ \A i \in 1..q : commands_queue[i] \in Requests
  BY <1>1, <1>2, <1>3, <1>4
<1>6. PICK n : n = Len(commands_queue)
  OBVIOUS
<1>7. Sent' = k + n /\ Sent = 0
  BY <1>1, <1>5, <1>6 DEF Sent
<1>8. \A i \in 1..(k + n) : Traffic(i)' = outgoing_rx'[i]
  <2> SUFFICES ASSUME NEW i \in 1..(k + n) PROVE Traffic(i)' = outgoing_rx'[i]
    OBVIOUS
  <2>1. ~(i <= 0) /\ i - 0 = i /\ Len(wire') = 0
    BY <1>1, <1>5, <1>6
  <2> QED BY <2>1 DEF Traffic
<1> HIDE DEF q
<1>9. /\ \A i \in 1..k : Traffic(i)' \notin Requests
      /\ \A i \in 1..n : Traffic(k + i)' = commands_queue[i] /\ commands_queue[i] \in Requests
  <2>1. \A i \in 1..k : i \in 1..(k + n)
    BY <1>5, <1>6 DEF q
  <2>2. \A i \in 1..n : k + i \in 1..(k + n)
    BY <1>5, <1>6 DEF q
  <2>3. \A i \in 1..k : Traffic(i)' \notin Requests
    BY <1>3, <1>4, <1>5, <1>8, <2>1
  <2>4. \A i \in 1..n : Traffic(k + i)' = outgoing_rx'[k + i]
    <3> SUFFICES ASSUME NEW i \in 1..n, NEW p, p = k + i PROVE Traffic(p)' = outgoing_rx'[p]
      OBVIOUS
    <3> QED BY <1>8, <2>2
  <2> QED BY <1>5, <1>6, <2>3, <2>4 DEF q
<1>10. \A r0 : IssuedBefore(r0)' = IssuedBefore(r0)
  BY DEF IssuedBefore
<1>11. ASSUME NEW i \in 1..(k + n), i \notin 1..k
       PROVE  \E l \in 1..n : i = k + l
  <2>1. i - k \in 1..n /\ k + (i - k) = i
    BY <1>5, <1>6, <1>11 DEF q
  <2> QED BY <2>1
<1>n. n \in Nat
  BY <1>5, <1>6 DEF q
<1>12. ASSUME NEW i \in 1..(k + n), NEW l \in 1..n, i = k + l
       PROVE  TrafficBefore(i)' = QueueBefore(l)
  <2>1. \A j : j \in 1..(i - 1) <=> j \in 1..k \/ (j - k \in 1..(l - 1) /\ j \in Int)
    BY <1>5, <1>n, <1>12
  <2>2. \A j \in 1..(l - 1) : j \in 1..n /\ k + j \in 1..(i - 1)
    BY <1>5, <1>n, <1>12
  <2>3. ASSUME NEW x \in TrafficBefore(i)' PROVE x \in QueueBefore(l)
    <3>1. PICK j \in 1..(i - 1) : x = Traffic(j)' /\ x \in Requests
      BY <2>3 DEF TrafficBefore
    <3>0. j \notin 1..k
      BY <1>9, <3>1
    <3>2. j - k \in 1..(l - 1) /\ k + (j - k) = j /\ j \in Int
      <4>1. j - k \in 1..(l - 1) /\ j \in Int
        BY <2>1, <3>0
      <4>2. k \in Nat
        BY <1>5
      <4> QED BY <4>1, <4>2
    <3>3. x = commands_queue[j - k]
      BY <1>9, <2>2, <3>1, <3>2
    <3> QED BY <3>2, <3>3 DEF QueueBefore
  <2>4. ASSUME NEW x \in QueueBefore(l) PROVE x \in TrafficBefore(i)'
    <3>1. PICK j \in 1..(l - 1) : x = commands_queue[j]
      BY <2>4 DEF QueueBefore
    <3>2. PICK p : p = k + j
      OBVIOUS
    <3>3. p \in 1..(i - 1) /\ x = Traffic(p)' /\ x \in Requests
      BY <1>9, <2>2, <3>1, <3>2
    <3> QED BY <3>3 DEF TrafficBefore
  <2> QED BY <2>3, <2>4
<1>13. TrafficOrdered'
  <2> SUFFICES ASSUME NEW i \in 1..(k + n), Traffic(i)' \in Requests
               PROVE  InPlace(Traffic(i), TrafficBefore(i))'
    BY <1>7 DEF TrafficOrdered
  <2>1. PICK l \in 1..n : i = k + l
    BY <1>9, <1>11
  <2>2. PICK x : x = Traffic(i)'
    OBVIOUS
  <2>3. x = commands_queue[l] /\ TrafficBefore(i)' = QueueBefore(l)
    BY <1>9, <1>12, <2>1, <2>2
  <2>4. InPlace(x, QueueBefore(l))
    BY <1>6, <2>3 DEF OrderInv, QueueOrdered
  <2>5. x \in ToSet(issued)' /\ TrafficBefore(i)' = IssuedBefore(x)'
    BY <1>10, <2>3, <2>4 DEF InPlace
  <2> QED BY <2>2, <2>5 DEF InPlace, IssuedBefore
<1>14. QueueOrdered'
  BY <1>1 DEF QueueOrdered
<1>15. Accepted' = Accepted
  <2>1. ToSet(commands_queue') = {} /\ RequestTraffic = {}
    BY <1>1, <1>7 DEF ToSet, RequestTraffic
  <2>2. ToSet(commands_queue) = {commands_queue[i] : i \in 1..n}
    BY <1>2, <1>6 DEF ToSet
  <2>3. RequestTraffic' = {commands_queue[i] : i \in 1..n}
    <3>1. RequestTraffic' = {Traffic(j)' : j \in 1..(k + n)} \cap Requests
      BY <1>7 DEF RequestTraffic
    <3>2. \A i \in 1..n : k + i \in 1..(k + n)
      BY <1>5, <1>n
    <3>3. ASSUME NEW x \in RequestTraffic' PROVE x \in {commands_queue[i] : i \in 1..n}
      BY <1>9, <1>11, <3>1, <3>3
    <3>4. ASSUME NEW i \in 1..n PROVE commands_queue[i] \in RequestTraffic'
      <4>1. PICK p : p = k + i
        OBVIOUS
      <4>2. p \in 1..(k + n) /\ commands_queue[i] = Traffic(p)' /\ commands_queue[i] \in Requests
        BY <1>9, <3>2, <4>1
      <4> QED BY <3>1, <4>2
    <3> QED BY <3>3, <3>4
  <2> QED BY <2>1, <2>2, <2>3 DEF Accepted
<1> QED BY <1>13, <1>14, <1>15

LEMMA StepOrderInv ==
    TypeOK /\ LoopInv /\ LoopInv' /\ LoginInv /\ PlaceInv /\ OrderInv /\ [Next]_vars => OrderInv'
<1> SUFFICES ASSUME TypeOK, LoopInv, LoopInv', LoginInv, PlaceInv, OrderInv, [Next]_vars
             PROVE  OrderInv'
  OBVIOUS
<1>c. ChannelOnce
  BY DEF PlaceInv
<1>k. TrafficOrdered /\ QueueOrdered
  BY DEF OrderInv
<1>1. ASSUME UNCHANGED out_vars PROVE SameTraffic
  <2>1. wire' = wire /\ outgoing_rx' = outgoing_rx
    BY <1>1 DEF out_vars
  <2>2. Sent \in Nat /\ Sent' = Sent
    BY <2>1 DEF TypeOK, Sent
  <2>3. ASSUME NEW i \in 1..Sent PROVE Traffic(i)' = Traffic(i)
    BY <2>1, Zenon DEF Traffic
  <2> QED BY <2>2, <2>3 DEF SameTraffic
<1>2. ASSUME UNCHANGED <<commands_queue, issued>> PROVE QueueOrdered'
  <2>1. \A i : QueueBefore(i)' = QueueBefore(i)
    BY <1>2 DEF QueueBefore
  <2>2. \A r : IssuedBefore(r)' = IssuedBefore(r)
    BY <1>2 DEF IssuedBefore
  <2> QED BY <1>2, <1>k, <2>1, <2>2 DEF QueueOrdered, InPlace
<1>3. commands_queue' = <<>> => QueueOrdered'
  BY DEF QueueOrdered
<1>4. ASSUME PoolRemove \/ PoolGone \/ Tasks \/ UNCHANGED vars PROVE OrderInv'
  <2>1. UNCHANGED <<state, commands_queue, issued>>
    BY <1>4, OthersPost, OthersKeepLoop DEF Pool, worker_vars
  <2>2. SameTraffic
    BY <1>1, <1>4, OthersKeepTraffic, ForwardKeepsTraffic DEF Pool
  <2>3. TrafficOrdered' /\ RequestTraffic' = RequestTraffic /\ QueueOrdered'
    BY <1>2, <1>k, <2>1, <2>2, SameTrafficOrdered
  <2>4. Accepted' = Accepted
    BY <2>1, <2>3 DEF Accepted
  <2>5. ChannelOrdered => ChannelOrdered'
    BY <1>4, <1>c, <2>1, <2>4, OthersPost, OtherCommandsKeepOrder
  <2> QED BY <2>1, <2>3, <2>5 DEF OrderInv
<1>7. ASSUME try_from_panics PROVE OrderInv'
  <2>1. UNCHANGED out_vars /\ UNCHANGED <<issued, commands_queue>> /\ state' = "Panicked"
    BY <1>7 DEF try_from_panics, pool_vars
  <2>2. TrafficOrdered'
    BY <1>1, <1>k, <2>1, SameTrafficOrdered
  <2> QED BY <1>2, <2>1, <2>2 DEF OrderInv
<1>8. ASSUME NEW m \in Requests, PoolSendPanics(m) PROVE OrderInv'
  BY <1>8, FailedIssueKeepsOrder
<1>5. ASSUME WorkerEnds PROVE OrderInv'
  <2>1. UNCHANGED out_vars /\ UNCHANGED issued /\ state' = "Ended" /\ commands_queue' = <<>>
    BY <1>5 DEF WorkerEnds, pool_vars
  <2>2. TrafficOrdered'
    BY <1>1, <1>k, <2>1, SameTrafficOrdered
  <2> QED BY <1>3, <2>1, <2>2 DEF OrderInv
<1>6. ASSUME process_command PROVE OrderInv'
  <2>1. PICK kind, arg : Receive(kind, arg) /\ Branch(kind, arg)
    BY <1>6, Branches
  <2>2. UNCHANGED <<issued, wire>> /\ state \in {"Initializing", "Open", "Closed"}
    BY <2>1 DEF Receive, pool_vars, Running
  <2>3. kind = "SendMessage" => arg \in Requests
    BY <2>1 DEF Branch
  <2>4. ASSUME ChannelOrdered
        PROVE  /\ kind = "SendMessage" => InPlace(arg, Accepted)
               /\ kind = "SendMessage" /\ Accepted' = Accepted \union {arg} => ChannelOrdered'
               /\ kind # "SendMessage" /\ Accepted' = Accepted => ChannelOrdered'
    BY <1>c, <2>1, <2>2, <2>3, <2>4, ReceivingKeepsOrder
  <2>5. state = "Initializing" => RequestTraffic = {}
    BY DEF LoopInv, LoginInv, RequestTraffic, Sent
  <2>6. state = "Open" => commands_queue = <<>> /\ ToSet(commands_queue) = {}
    BY DEF LoginInv, ToSet
  <2>7. ASSUME UNCHANGED outgoing_rx
        PROVE  TrafficOrdered' /\ RequestTraffic' = RequestTraffic
    BY <1>1, <1>k, <2>2, <2>7, SameTrafficOrdered DEF out_vars
  <2>8. ASSUME UNCHANGED <<state, commands_queue, outgoing_rx>>, kind # "SendMessage" PROVE OrderInv'
    <3>1. Accepted' = Accepted
      BY <2>7, <2>8 DEF Accepted
    <3> QED BY <1>2, <2>2, <2>4, <2>7, <2>8, <3>1 DEF OrderInv
  <2>9. ASSUME state = "Initializing", kind = "SendMessage", Queue(arg) PROVE OrderInv'
    <3>1. UNCHANGED <<state, outgoing_rx>> /\ commands_queue' = Append(commands_queue, arg)
      BY <2>9 DEF Queue
    <3>2. ToSet(commands_queue') = ToSet(commands_queue) \union {arg}
      BY <2>3, <2>9, <3>1, AppendSet DEF TypeOK
    <3>3. Accepted' = Accepted \union {arg}
      BY <2>7, <3>1, <3>2 DEF Accepted
    <3>4. ChannelOrdered
      BY <2>9 DEF OrderInv
    <3>5. ChannelOrdered' /\ InPlace(arg, Accepted)
      BY <2>4, <2>9, <3>3, <3>4
    <3>6. Accepted = ToSet(commands_queue)
      BY <2>5, <2>9 DEF Accepted
    <3>7. QueueOrdered'
      <4>1. PICK n : n = Len(commands_queue)
        OBVIOUS
      <4>2. /\ n \in Nat /\ Len(commands_queue') = n + 1
            /\ \A i \in 1..n : commands_queue'[i] = commands_queue[i]
            /\ commands_queue'[n + 1] = arg
            /\ DOMAIN commands_queue = 1..n
        BY <2>3, <2>9, <3>1, <4>1 DEF TypeOK
      <4>3. ASSUME NEW i \in 1..(n + 1) PROVE QueueBefore(i)' = QueueBefore(i)
        <5>1. \A j \in 1..(i - 1) : j \in 1..n
          BY <4>2
        <5> QED BY <4>2, <5>1 DEF QueueBefore
      <4>4. \A r : IssuedBefore(r)' = IssuedBefore(r)
        BY <2>2 DEF IssuedBefore
      <4>5. ASSUME NEW i \in 1..n PROVE InPlace(commands_queue[i], QueueBefore(i))
        BY <1>k, <4>1, <4>5 DEF QueueOrdered
      <4>6. QueueBefore(n + 1) = Accepted
        <5>1. (n + 1) - 1 = n
          BY <4>2
        <5> QED BY <3>6, <4>2, <5>1 DEF QueueBefore, ToSet
      <4>7. ASSUME NEW i \in 1..(n + 1) PROVE InPlace(commands_queue[i], QueueBefore(i))'
        <5>1. PICK x : x = commands_queue'[i]
          OBVIOUS
        <5>2. InPlace(x, QueueBefore(i))
          <6>1. CASE i \in 1..n
            BY <4>2, <4>5, <5>1, <6>1
          <6>2. CASE i = n + 1
            BY <3>5, <4>2, <4>6, <5>1, <6>2
          <6> QED BY <4>2, <6>1, <6>2
        <5>3. x \in ToSet(issued)' /\ QueueBefore(i)' = IssuedBefore(x)'
          BY <2>2, <4>3, <4>4, <5>2 DEF InPlace
        <5> QED BY <5>1, <5>3 DEF InPlace, IssuedBefore
      <4> QED BY <4>2, <4>7 DEF QueueOrdered
    <3> QED BY <2>7, <3>1, <3>5, <3>7 DEF OrderInv
  <2>10. ASSUME state = "Open", kind = "SendMessage", StayOpen(<<>>, <<arg>>, pong_received)
         PROVE  OrderInv'
    <3>1. /\ UNCHANGED <<state, commands_queue>> /\ outgoing_rx' = outgoing_rx \o <<arg>>
          /\ arg \in Message
      BY <2>3, <2>10 DEF StayOpen, Message
    <3>2. TrafficGains(arg)
      BY <2>2, <3>1, AppendGains
    <3>3. ChannelOrdered /\ Accepted = RequestTraffic
      BY <2>6, <2>10 DEF OrderInv, Accepted
    <3>4. InPlace(arg, RequestTraffic)
      BY <2>4, <2>10, <3>3
    <3>5. TrafficOrdered' /\ RequestTraffic' = RequestTraffic \union {arg}
      BY <1>k, <2>2, <2>3, <2>10, <3>2, <3>4, GainedTrafficOrdered
    <3>6. Accepted' = Accepted \union {arg}
      BY <3>1, <3>5 DEF Accepted
    <3> QED BY <1>2, <2>2, <2>4, <2>10, <3>1, <3>3, <3>5, <3>6 DEF OrderInv
  <2>11. ASSUME state = "Closed", Refuse(arg) PROVE OrderInv'
    <3>1. UNCHANGED <<state, commands_queue, outgoing_rx>>
      BY <2>11 DEF Refuse, worker_vars
    <3> QED BY <1>2, <2>2, <2>7, <2>11, <3>1 DEF OrderInv
  <2>12. ASSUME NEW r \in InitResults, state = "Initializing", InitializingToOpen(r),
                kind # "SendMessage"
         PROVE  OrderInv'
    <3>1. outgoing_task = "none"
      BY <2>12 DEF LoopInv
    <3>2. TrafficOrdered' /\ QueueOrdered' /\ Accepted' = Accepted
      BY <2>2, <2>12, <3>1, OpeningKeepsOrder
    <3> QED BY <2>4, <2>12, <3>2 DEF OrderInv
  <2>13. ASSUME NEW c, InitializingToClosed(c) PROVE OrderInv'
    <3>1. state' = "Closed" /\ commands_queue' = <<>> /\ UNCHANGED outgoing_rx
      BY <2>13 DEF InitializingToClosed
    <3> QED BY <1>3, <2>7, <3>1 DEF OrderInv
  <2>14. ASSUME NEW c, NEW events, OpenToClosed(events, c) PROVE OrderInv'
    <3>1. state' = "Closed" /\ UNCHANGED <<commands_queue, outgoing_rx>>
      BY <2>14 DEF OpenToClosed
    <3> QED BY <1>2, <2>2, <2>7, <3>1 DEF OrderInv
  <2>15. ASSUME NEW m \in {"None", "PING", "PONG"}, NEW events, NEW pong, state = "Open",
                StayOpen(events, IF m = "None" THEN <<>> ELSE <<m>>, pong), kind # "SendMessage"
         PROVE  OrderInv'
    <3>1. CASE m = "None"
      <4>1. UNCHANGED <<state, commands_queue>> /\ outgoing_rx' = outgoing_rx \o <<>>
        BY <2>15, <3>1 DEF StayOpen
      <4>2. UNCHANGED outgoing_rx
        BY <4>1 DEF TypeOK
      <4> QED BY <2>8, <2>15, <4>1, <4>2
    <3>2. CASE m # "None"
      <4>1. UNCHANGED <<state, commands_queue>> /\ outgoing_rx' = outgoing_rx \o <<m>>
        BY <2>15, <3>2 DEF StayOpen
      <4>2. m \in Message /\ m \notin Requests
        BY <2>15, <3>2, ConstantsAssumption DEF Message, Control
      <4>3. TrafficGains(m)
        BY <2>2, <4>1, <4>2, AppendGains
      <4>4. TrafficOrdered' /\ RequestTraffic' = RequestTraffic
        BY <1>k, <2>2, <4>2, <4>3, GainedTrafficOrdered
      <4>5. Accepted' = Accepted
        BY <4>1, <4>4 DEF Accepted
      <4> QED BY <1>2, <2>2, <2>4, <2>15, <4>1, <4>4, <4>5 DEF OrderInv
    <3> QED BY <3>1, <3>2
  <2>16. ASSUME Ignored, kind # "SendMessage" PROVE OrderInv'
    BY <2>8, <2>16 DEF Ignored, worker_vars
  <2>17. CASE kind = "SendMessage"
    BY <2>1, <2>9, <2>10, <2>11, <2>17 DEF Branch, send_message
  <2>18. CASE kind # "SendMessage"
    BY <2>1, <2>12, <2>13, <2>14, <2>15, <2>16, <2>18 DEF Branch
  <2> QED BY <2>17, <2>18
<1> QED BY <1>4, <1>5, <1>6, <1>7, <1>8, IssuingKeepsOrder DEF Next, Pool

\* Through the queue of the Initializing state, the switch to the Open state and the
\* forwarder's channel, requests keep the order in which the pool issued them; none is
\* overtaken, skipped or written twice (event_loop.rs:356-361, 419-430, 286-313).
THEOREM RequestsInOrderCorrect == Spec => []RequestsInOrder
<1>1. Init => PlaceInv /\ OrderInv
  <2> SUFFICES ASSUME Init PROVE PlaceInv /\ OrderInv
    OBVIOUS
  <2>1. InChannel = {} /\ Taken = {} /\ ChannelOnce
    BY DEF Init, InChannel, Taken, AtTransport, ToSet, ChannelOnce
  <2>2. RequestTraffic = {} /\ Sent = 0 /\ ToSet(commands_queue) = {} /\ ToSet(issued) = {}
    BY DEF Init, RequestTraffic, Sent, ToSet
  <2>3. OrderInv
    BY <2>1, <2>2 DEF Init, OrderInv, TrafficOrdered, QueueOrdered, ChannelOrdered, Accepted
  <2> HIDE DEF Taken, InChannel
  <2> QED BY <2>1, <2>3 DEF PlaceInv
<1>2. TypeOK /\ OrderInv => RequestsInOrder
  <2> SUFFICES ASSUME TypeOK, OrderInv, NEW i \in DOMAIN wire, Written[i] \in Requests
               PROVE  /\ Written[i] \in ToSet(issued)
                      /\ {Written[j] : j \in 1..(i - 1)} \cap Requests = IssuedBefore(Written[i])
    BY DEF RequestsInOrder
  <2>1. DOMAIN wire = 1..Len(wire) /\ Len(wire) \in Nat /\ Len(outgoing_rx) \in Nat
    BY DEF TypeOK
  <2>2. \A j \in 1..Len(wire) : Written[j] = Traffic(j)
    BY <2>1 DEF Written, Traffic
  <2>3. i \in 1..Sent /\ \A j \in 1..(i - 1) : j \in 1..Len(wire)
    BY <2>1 DEF Sent
  <2>4. InPlace(Traffic(i), TrafficBefore(i))
    BY <2>1, <2>2, <2>3 DEF OrderInv, TrafficOrdered
  <2>5. TrafficBefore(i) = {Written[j] : j \in 1..(i - 1)} \cap Requests
    BY <2>2, <2>3 DEF TrafficBefore
  <2> QED BY <2>1, <2>2, <2>4, <2>5 DEF InPlace
<1>3. Spec => [](LoopInv /\ LoginInv)
  BY InitLoopInv, StepLoopInv, InitLoginInv, StepLoginInv, TypeCorrect, PTL DEF Spec
<1>4. Spec => []PlaceInv
  BY <1>1, <1>3, StepPlaceInv, TypeCorrect, PTL DEF Spec
<1>5. Spec => []OrderInv
  BY <1>1, <1>3, <1>4, StepOrderInv, TypeCorrect, PTL DEF Spec
<1> QED BY <1>2, <1>5, TypeCorrect, PTL
=============================================================================
