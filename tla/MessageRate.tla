---------------------------- MODULE MessageRate ----------------------------
(***************************************************************************)
(* Which connections of the pool are busy: `message_send_times`,           *)
(* `register_sent_message` and `not_busy` of                               *)
(* src/src/client/pool_connection.rs, for one connection of the pool.      *)
(* `ClientLoop` leaves open what not_busy() says; here it is computed.     *)
(*                                                                         *)
(* Messages of callers go to the connection only while it is not busy;     *)
(* JOINs and PARTs are sent without that check but registered all the      *)
(* same (client/event_loop.rs:268-269).                                    *)
(***************************************************************************)
EXTENDS Naturals, Sequences, FiniteSets

CONSTANTS
    MaxWaiting,      \* config.max_waiting_messages_per_connection
    TimePerMessage,  \* config.time_per_message, in ticks
    MaxTime,         \* bound: how long the clock runs
    MaxMessages      \* bound: how many messages are sent

ASSUME RateAssumption ==
    {MaxWaiting, TimePerMessage, MaxTime, MaxMessages} \subseteq Nat

VARIABLES
    now,                 \* Instant::now()
    message_send_times,  \* oldest first
    sent                 \* history: all send times, of which the former keeps the last

vars == <<now, message_send_times, sent>>

Init ==
    /\ now = 0
    /\ message_send_times = <<>>
    /\ sent = <<>>

-----------------------------------------------------------------------------
\* mutant: the oldest time is kept, the new one is dropped
KeepOldest(times) ==
    IF Len(times) > 2 * MaxWaiting THEN SubSeq(times, 1, Len(times) - 1) ELSE times

\* one time too many: the oldest is dropped
Trimmed(times) == IF Len(times) > 2 * MaxWaiting THEN Tail(times) ELSE times

register_sent_message ==
    /\ message_send_times' = Trimmed(Append(message_send_times, now))
    /\ sent' = Append(sent, now)
    /\ Len(sent) < MaxMessages

\* The messages at the front that are finished: `last_message_finished` stays None, so
\* that each is taken to start when it was sent.
Finished(times) == {i \in DOMAIN times : \A j \in 1..i : times[j] + TimePerMessage < now}

NotBusy(times) == Len(times) - Cardinality(Finished(times)) < MaxWaiting

not_busy == NotBusy(message_send_times)

-----------------------------------------------------------------------------
\* the pool picks this connection for a message of a caller, or makes it for one, in
\* which case it is not asked whether it is busy
SendMessage ==
    /\ not_busy \/ sent = <<>>
    /\ register_sent_message
    /\ UNCHANGED now

\* join() and part()
JoinOrPart ==
    /\ register_sent_message
    /\ UNCHANGED now

Tick ==
    /\ now < MaxTime
    /\ now' = now + 1
    /\ UNCHANGED <<message_send_times, sent>>

Next == SendMessage \/ JoinOrPart \/ Tick

Spec == Init /\ [][Next]_vars

-----------------------------------------------------------------------------
(* Properties *)

TypeOK ==
    /\ now \in Nat
    /\ message_send_times \in Seq(Nat)
    /\ Len(message_send_times) <= 2 * MaxWaiting
    /\ sent \in Seq(Nat)

\* Dropping old send times never changes the answer: the connection is busy exactly when
\* its complete history says so, though JOINs may be many more than are remembered.
TrimIsHarmless == not_busy <=> NotBusy(sent)
=============================================================================
