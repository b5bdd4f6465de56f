------------------------------- MODULE Pinger -------------------------------
(***************************************************************************)
(* The pinger of an open connection over time (run_ping_task, send_ping    *)
(* and check_pong of src/src/connection/event_loop.rs). ConnectionLoop     *)
(* lets the ticks of the pinger come in any order; here they come from two *)
(* tokio intervals of the same period, one CheckAfter behind the other,    *)
(* which keep their deadlines when they are served late (the default       *)
(* MissedTickBehavior::Burst). One unit of time is a second.               *)
(***************************************************************************)
EXTENDS Integers, Sequences

CONSTANTS PingEvery,   \* period of both intervals (30 in the code)
          CheckAfter,  \* delay of the check after the PING (5 in the code)
          MaxDelay,    \* longest time from a PING written to its PONG posted
          MaxLate,     \* longest time a ready task waits for its turn
          MaxFlight    \* bound: PINGs on their way when the caller adds one

\* The network and the runtime are fast enough for a check to be meaningful: the
\* pinger and the loop may each be late before the PING is out.
ASSUME PingerAssumption ==
    /\ PingEvery \in Nat /\ CheckAfter \in Nat /\ MaxDelay \in Nat /\ MaxLate \in Nat
    /\ MaxFlight \in Nat
    /\ 2 * MaxLate + MaxDelay < CheckAfter
    /\ CheckAfter + 2 * MaxLate < PingEvery

VARIABLES open,          \* the connection is in the Open state
          pong_received, \* a PONG came since the last PING of the pinger
          sendIn,        \* time until the next tick of send_ping_interval is due
          checkIn,       \* time until the next tick of check_pong_interval is due
          commands,      \* connection_loop_rx: what the loop has to handle
          waited,        \* how long the loop has had something to handle
          flight,        \* ages of the PINGs that are not answered, oldest first
          alive,         \* the peer answers
          silent         \* time since it stopped answering

vars == <<open, pong_received, sendIn, checkIn, commands, waited, flight, alive, silent>>

Commands == {"SendPing", "CheckPong", "Pong"}

\* mutant: interval(period) in place of interval_at(start, period) for the check
ChecksFirst ==
    /\ open = TRUE
    /\ pong_received = FALSE
    /\ sendIn = PingEvery
    /\ checkIn = CheckAfter
    /\ commands = <<>>
    /\ waited = 0
    /\ flight = <<>>
    /\ alive = TRUE
    /\ silent = 0

\* interval_at: the first PING after a period, the first check CheckAfter later.
Init ==
    /\ open = TRUE
    /\ pong_received = FALSE
    /\ sendIn = PingEvery
    /\ checkIn = PingEvery + CheckAfter
    /\ commands = <<>>
    /\ waited = 0
    /\ flight = <<>>
    /\ alive = TRUE
    /\ silent = 0

\* A command for the loop: it starts to wait if the loop had nothing to do.
Post(c) == commands' = Append(commands, c) /\ UNCHANGED waited

\* The loop takes the oldest command.
Take(c) ==
    /\ open
    /\ commands # <<>> /\ Head(commands) = c
    /\ commands' = Tail(commands)
    /\ waited' = IF Len(commands) = 1 THEN 0 ELSE waited

---------------------------------------------------------------------------
(* The pinger task. An interval that is served late keeps its schedule.    *)

SendPingTick ==
    /\ open /\ sendIn <= 0
    /\ sendIn' = sendIn + PingEvery
    /\ Post("SendPing")
    /\ UNCHANGED <<open, pong_received, checkIn, flight, alive, silent>>

\* mutant: only every other PING is checked
CheckEveryOther ==
    /\ open /\ checkIn <= 0
    /\ checkIn' = checkIn + 2 * PingEvery
    /\ Post("CheckPong")
    /\ UNCHANGED <<open, pong_received, sendIn, flight, alive, silent>>

CheckPongTick ==
    /\ open /\ checkIn <= 0
    /\ checkIn' = checkIn + PingEvery
    /\ Post("CheckPong")
    /\ UNCHANGED <<open, pong_received, sendIn, flight, alive, silent>>

---------------------------------------------------------------------------
(* The loop, in the Open state.                                            *)

\* A PING to a peer that is dead finds nobody.
send_ping ==
    /\ Take("SendPing")
    /\ pong_received' = FALSE
    /\ flight' = IF alive THEN Append(flight, 0) ELSE flight
    /\ UNCHANGED <<open, sendIn, checkIn, alive, silent>>

\* Without a PONG the connection is closed with Error::PingTimeout, and the
\* pinger is told to stop.
check_pong ==
    /\ Take("CheckPong")
    /\ open' = pong_received
    /\ UNCHANGED <<pong_received, sendIn, checkIn, flight, alive, silent>>

on_pong ==
    /\ Take("Pong")
    /\ pong_received' = TRUE
    /\ UNCHANGED <<open, sendIn, checkIn, flight, alive, silent>>

---------------------------------------------------------------------------
(* The peer, the caller and the clock.                                     *)

\* TwitchIRCClient::ping: a PING the pinger does not know of.
CallerPings ==
    /\ open /\ alive /\ Len(flight) + Len(commands) < MaxFlight
    /\ flight' = Append(flight, 0)
    /\ UNCHANGED <<open, pong_received, sendIn, checkIn, commands, waited, alive, silent>>

\* The answer to the oldest PING reaches the incoming forward task.
PongArrives ==
    /\ open /\ flight # <<>>
    /\ flight' = Tail(flight)
    /\ Post("Pong")
    /\ UNCHANGED <<open, pong_received, sendIn, checkIn, alive, silent>>

\* The peer stops without closing the transport; the answers to the first n
\* PINGs are on their way.
PeerDies ==
    /\ open /\ alive
    /\ alive' = FALSE
    /\ \E n \in 0..Len(flight) : flight' = SubSeq(flight, 1, n)
    /\ UNCHANGED <<open, pong_received, sendIn, checkIn, commands, waited, silent>>

\* A second passes, unless a task or an answer would be later than it may.
Tick ==
    /\ open
    /\ -sendIn < MaxLate /\ -checkIn < MaxLate
    /\ commands = <<>> \/ waited < MaxLate
    /\ \A i \in 1..Len(flight) : flight[i] < MaxDelay
    /\ sendIn' = sendIn - 1
    /\ checkIn' = checkIn - 1
    /\ waited' = IF commands = <<>> THEN 0 ELSE waited + 1
    /\ flight' = [i \in 1..Len(flight) |-> flight[i] + 1]
    /\ silent' = IF alive THEN 0 ELSE silent + 1
    /\ UNCHANGED <<open, pong_received, commands, alive>>

\* A connection that is closed stays so.
Ended == ~open /\ UNCHANGED vars

Loop == send_ping \/ check_pong \/ on_pong
Pings == SendPingTick \/ CheckPongTick
Next == Pings \/ Loop \/ CallerPings \/ PongArrives \/ PeerDies \/ Tick \/ Ended

Spec == Init /\ [][Next]_vars

\* Time passes, the two tasks run and answers arrive; callers and the death of
\* the peer are not forced.
FairSpec == Spec /\ WF_vars(Tick) /\ WF_vars(Pings) /\ WF_vars(Loop) /\ WF_vars(PongArrives)

---------------------------------------------------------------------------
(* Properties.                                                             *)

\* Types, with the phases of the two intervals: neither is further behind than
\* the runtime allows, and they stay exactly CheckAfter apart however late their
\* ticks are served (event_loop.rs:322-324).
TypeOK ==
    /\ open \in BOOLEAN /\ pong_received \in BOOLEAN /\ alive \in BOOLEAN
    /\ sendIn \in Int /\ checkIn \in Int
    /\ -MaxLate <= sendIn /\ -MaxLate <= checkIn
    /\ checkIn - sendIn \in {CheckAfter, CheckAfter - PingEvery}
    /\ commands \in Seq(Commands)
    /\ waited \in 0..MaxLate
    /\ flight \in Seq(0..MaxDelay)
    /\ silent \in Nat

\* A connection whose peer answers every PING in time is never closed by the
\* pinger, although the intervals, the loop and the answers are each late by
\* their bound and callers send PINGs of their own.
HealthyStaysOpen == alive => open

\* A peer that stops answering is noticed within one round of the intervals and
\* the delays of an answer that was on its way, which may hide its end from one
\* check (send_ping resets pong_received, event_loop.rs:598-611).
DeadPeerNoticed ==
    open => silent <= PingEvery + CheckAfter + MaxDelay + 2 * MaxLate
=============================================================================
