------------------------ MODULE ConnectionRateLimit ------------------------
(***************************************************************************)
(* How fast connections are opened: the body of `run_init_task` in         *)
(* src/src/connection/event_loop.rs with the semaphore                     *)
(* `connection_rate_limiter` of src/src/config.rs, which the init tasks of *)
(* every connection, and of every client the config's Arc was shared with, *)
(* contend for.  `ConnectionLoop` has the same task as one step that ends  *)
(* in one of its results; here are the steps before it.                    *)
(*                                                                         *)
(* Time is a Tick that ages every attempt; ages stop counting at Horizon,  *)
(* beyond which no timer looks, so that time itself is not bounded.        *)
(***************************************************************************)
EXTENDS Naturals, Sequences, FiniteSets, SequencesExt

CONSTANTS
    Tasks,               \* the init tasks, one per connection
    Permits,             \* permits the semaphore is made with
    NewConnectionEvery,  \* config.new_connection_every, in ticks
    ConnectTimeout       \* config.connect_timeout, in ticks

ASSUME RateAssumption ==
    /\ IsFiniteSet(Tasks)
    /\ Permits \in Nat /\ NewConnectionEvery \in Nat /\ ConnectTimeout \in Nat

Horizon == NewConnectionEvery + ConnectTimeout

VARIABLES
    task,       \* "login", "queued", "connecting", "failed", or connected: "cooling"
                \* while its release_permit_task sleeps, then "done"
    queue,      \* the semaphore's waiters, first come first served
    available,  \* permits in the semaphore
    permit_age, \* ticks since the task was given its permit
    open_age    \* ticks since its transport was connected

vars == <<task, queue, available, permit_age, open_age>>

-----------------------------------------------------------------------------
Init ==
    /\ task = [t \in Tasks |-> "login"]
    /\ queue = <<>>
    /\ available = Permits
    /\ permit_age = [t \in Tasks |-> Horizon]
    /\ open_age = [t \in Tasks |-> Horizon]

Becomes(t, from, to) ==
    /\ task[t] = from
    /\ task' = [task EXCEPT ![t] = to]

\* get_credentials() returns, with a token or with the error that ends the task
GetCredentials(t) ==
    /\ Becomes(t, "login", "queued")
    /\ queue' = Append(queue, t)
    /\ UNCHANGED <<available, permit_age, open_age>>

LoginFails(t) ==
    /\ Becomes(t, "login", "failed")
    /\ UNCHANGED <<queue, available, permit_age, open_age>>

\* acquire_owned() of the first waiter returns
Acquire(t) ==
    /\ Becomes(t, "queued", "connecting")
    /\ available > 0
    /\ queue # <<>> /\ Head(queue) = t
    /\ queue' = Tail(queue)
    /\ available' = available - 1
    /\ permit_age' = [permit_age EXCEPT ![t] = 0]
    /\ UNCHANGED open_age

\* mutant: the permit is given back at once, not after new_connection_every
ConnectsAndReleases(t) ==
    /\ Becomes(t, "connecting", "done")
    /\ available' = available + 1
    /\ open_age' = [open_age EXCEPT ![t] = 0]
    /\ UNCHANGED <<queue, permit_age>>

\* T::new() succeeds, perhaps after the timeout has passed: select! takes either branch.
\* The permit moves into the release_permit_task.
Connects(t) ==
    /\ Becomes(t, "connecting", "cooling")
    /\ open_age' = [open_age EXCEPT ![t] = 0]
    /\ UNCHANGED <<queue, available, permit_age>>

\* T::new() fails: `?` leaves the block and drops the permit with it
ConnectFails(t) ==
    /\ Becomes(t, "connecting", "failed")
    /\ available' = available + 1
    /\ UNCHANGED <<queue, permit_age, open_age>>

\* mutant: the permit of an attempt that timed out is leaked
TimesOutWithPermit(t) ==
    /\ Becomes(t, "connecting", "failed")
    /\ permit_age[t] >= ConnectTimeout
    /\ UNCHANGED <<queue, available, permit_age, open_age>>

TimesOut(t) ==
    /\ Becomes(t, "connecting", "failed")
    /\ permit_age[t] >= ConnectTimeout
    /\ available' = available + 1
    /\ UNCHANGED <<queue, permit_age, open_age>>

\* release_permit_task
ReleasePermit(t) ==
    /\ Becomes(t, "cooling", "done")
    /\ open_age[t] >= NewConnectionEvery
    /\ available' = available + 1
    /\ UNCHANGED <<queue, permit_age, open_age>>

Older(ages) == [t \in Tasks |-> IF ages[t] < Horizon THEN ages[t] + 1 ELSE ages[t]]

Tick ==
    /\ permit_age' = Older(permit_age)
    /\ open_age' = Older(open_age)
    /\ UNCHANGED <<task, queue, available>>

Next ==
    \/ \E t \in Tasks :
          \/ GetCredentials(t) \/ LoginFails(t) \/ Acquire(t)
          \/ Connects(t) \/ ConnectFails(t) \/ TimesOut(t) \/ ReleasePermit(t)
    \/ Tick

Spec == Init /\ [][Next]_vars

(***************************************************************************)
(* Timers fire and woken tasks are polled.  That the login answers is      *)
(* assumed; that a connect attempt does is not, the timeout is for that.   *)
(***************************************************************************)
Fairness ==
    /\ WF_vars(Tick)
    /\ \A t \in Tasks : /\ WF_vars(GetCredentials(t) \/ LoginFails(t))
                        /\ WF_vars(Acquire(t))
                        /\ WF_vars(TimesOut(t))
                        /\ WF_vars(ReleasePermit(t))

FairSpec == Spec /\ Fairness

-----------------------------------------------------------------------------
(* Properties *)

TypeOK ==
    /\ task \in [Tasks -> {"login", "queued", "connecting", "failed", "cooling", "done"}]
    /\ queue \in Seq(Tasks)
    /\ available \in Nat
    /\ permit_age \in [Tasks -> 0..Horizon]
    /\ open_age \in [Tasks -> 0..Horizon]

Holders == {t \in Tasks : task[t] \in {"connecting", "cooling"}}

\* No path through the init task, by success, error or timeout, loses a permit or gives
\* one back twice: the semaphore never dries up and never grows.
PermitsAccounted == available + Cardinality(Holders) = Permits

\* What the limiter is for (config.rs:38-40): of all clients sharing it, no more
\* connections than there are permits are opened within new_connection_every.
ConnectionsSpaced ==
    Cardinality({t \in Tasks : /\ task[t] \in {"cooling", "done"}
                               /\ open_age[t] < NewConnectionEvery}) <= Permits

\* A connection does not wait for its permit forever, though others before it fail, time
\* out or are never answered by their peer.
EveryAttemptEnds ==
    \A t \in Tasks : <>(task[t] \in {"failed", "cooling", "done"})
=============================================================================
