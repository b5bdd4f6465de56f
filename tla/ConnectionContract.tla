------------------------- MODULE ConnectionContract -------------------------
(***************************************************************************)
(* What one connection promises to the pool that owns it, seen through the *)
(* channel `connection_incoming_tx` alone (src/src/connection/mod.rs).  A  *)
(* connection is initializing, then perhaps open, then closed for good; it *)
(* reports its opening first, the received messages while it is open, and  *)
(* its closing once, as the very last thing it ever says.  Two panics      *)
(* leave it silent instead: of its main loop over a message, when it is    *)
(* open, and of its login, when it never gets any further.                 *)
(* `ConnectionLoop` implements this specification, and `ClientLoop` builds *)
(* its environment from it.                                                *)
(***************************************************************************)
EXTENDS Naturals, Sequences

CONSTANTS Causes,     \* the errors a connection can be closed with
          Messages,   \* the kinds of server message
          Metrics     \* is the feature metrics-collection, hence StateOpen, compiled in?

VARIABLES phase,      \* "Initializing", "Open", "Closed", "Abandoned", "Panicked" or "Stuck"
          events      \* everything sent on connection_incoming_tx so far

contractVars == <<phase, events>>

Event(kind, arg) == [event |-> kind, arg |-> arg]
StateOpen == Event("StateOpen", "None")
StateClosed(cause) == Event("StateClosed", cause)
IncomingMessage(m) == Event("IncomingMessage", m)

Init == phase = "Initializing" /\ events = <<>>

Open ==
    /\ phase = "Initializing"
    /\ phase' = "Open"
    /\ events' = IF Metrics THEN Append(events, StateOpen) ELSE events

Deliver(m) ==
    /\ phase = "Open"
    /\ events' = Append(events, IncomingMessage(m))
    /\ UNCHANGED phase

Close(cause) ==
    /\ phase \in {"Initializing", "Open"}
    /\ phase' = "Closed"
    /\ events' = Append(events, StateClosed(cause))

\* A RECONNECT message is passed on and closes the connection in one step.
DeliverAndClose(m, cause) ==
    /\ phase = "Open"
    /\ phase' = "Closed"
    /\ events' = events \o <<IncomingMessage(m), StateClosed(cause)>>

\* The main loop panics over a message it received: no closing is reported.
Panic ==
    /\ phase = "Open"
    /\ phase' = "Panicked"
    /\ UNCHANGED events

\* The init task panics: the connection waits for its transport for ever.
Stick ==
    /\ phase = "Initializing"
    /\ phase' = "Stuck"
    /\ UNCHANGED events

\* The pool let go of the connection; it says nothing any more.
Abandon ==
    /\ phase # "Abandoned"
    /\ phase' = "Abandoned"
    /\ UNCHANGED events

Next ==
    \/ Open
    \/ Panic
    \/ Stick
    \/ Abandon
    \/ \E m \in Messages : Deliver(m)
    \/ \E c \in Causes : Close(c)
    \/ \E m \in Messages, c \in Causes : DeliverAndClose(m, c)

Settle == Open \/ Stick \/ Abandon \/ \E c \in Causes : Close(c)

Contract == Init /\ [][Next]_contractVars
FairContract == Contract /\ WF_contractVars(phase = "Initializing" /\ Settle)
=============================================================================
