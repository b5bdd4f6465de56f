--------------------------- MODULE LoginCredentials ---------------------------
(***************************************************************************)
(* RefreshingLoginCredentials::get_credentials (src/src/login.rs), called  *)
(* by the init tasks of several connections at once (run_init_task). The   *)
(* token storage, the OAuth endpoint and the users endpoint may fail at    *)
(* each step, the process may crash and the clock may be set back.         *)
(***************************************************************************)
EXTENDS Integers, FiniteSets

CONSTANTS Tasks,       \* init tasks, each of which calls get_credentials once
          None,        \* no lock holder, no login name
          Endless,     \* expires_at of a token that never expires
          Lifetimes,   \* lifetimes the OAuth endpoint grants (or Endless)
          Day,         \* age at which an endless token counts as expired
          Configured,  \* user_login of init_with_username, or None
          Names,       \* login names the account may have
          Steps,       \* bound: amounts by which the clock advances
          MaxTime,     \* bound: of the clock
          MaxFaults    \* bound: faults of storage, endpoints, process and clock

ASSUME LoginAssumption ==
    /\ None \notin Tasks \cup Names
    /\ Endless \notin Nat
    /\ Lifetimes \subseteq (Nat \ {0}) \cup {Endless} /\ Day \in Nat \ {0}
    /\ Configured \in Names \cup {None}
    /\ Steps \subseteq Nat \ {0} /\ MaxTime \in Nat /\ MaxFaults \in Nat

VARIABLES clock,      \* Utc::now()
          stored,     \* the token in the TokenStorage
          newest,     \* the only token whose refresh token the endpoint accepts
          lost,       \* that token never reached the storage
          name,       \* the login name of the account
          storage,    \* task that holds the mutex token_storage
          account,    \* task that holds the mutex user_login
          user_login, \* the cached login name
          pc,         \* where each call is
          token,      \* current_token of each call
          login,      \* login of the credentials of each call
          faults      \* faults so far

server == <<newest, name>>
locks == <<storage, account>>
vars == <<clock, stored, server, lost, locks, user_login, pc, token, login, faults>>

Token == [id : Nat, created : Nat, lifetime : Lifetimes \cup {Endless}]

\* Waiting for a lock, at an await, or ended.
Ended == {"ok", "used", "failed", "panicked", "gone"}
UnderStorage == {"load", "refresh", "store", "login", "account"}
Places == {"idle", "lock"} \cup UnderStorage \cup Ended

\* From<GetAccessTokenResponse>: the token is created now.
Issued(id, d) == [id |-> id, created |-> clock, lifetime |-> d]

Init ==
    /\ clock = 0
    /\ newest = 0 /\ lost = FALSE
    /\ stored \in {Issued(0, d) : d \in Lifetimes}
    /\ name \in Names
    /\ storage = None /\ account = None
    /\ user_login = Configured
    /\ pc = [t \in Tasks |-> "idle"]
    /\ token = [t \in Tasks |-> stored]
    /\ login = [t \in Tasks |-> None]
    /\ faults = 0

Fault == faults < MaxFaults /\ faults' = faults + 1

\* SHOULD_REFRESH_AFTER_FACTOR: nine tenths of the lifetime.
ExpiresAfter(k) == IF k.lifetime = Endless THEN Day ELSE k.lifetime
ShouldRefresh(k) == 10 * (clock - k.created) >= 9 * ExpiresAfter(k)

\* The call returns or panics: the guards of its mutexes are dropped.
Ends(t, how) ==
    /\ pc' = [pc EXCEPT ![t] = how]
    /\ storage' = IF storage = t THEN None ELSE storage
    /\ account' = IF account = t THEN None ELSE account

Goes(t, to) == pc' = [pc EXCEPT ![t] = to] /\ UNCHANGED locks

---------------------------------------------------------------------------
(* The steps of a call.                                                    *)

Calls(t) ==
    /\ pc[t] = "idle"
    /\ Goes(t, "lock")
    /\ UNCHANGED <<clock, stored, server, lost, user_login, token, login, faults>>

LocksStorage(t) ==
    /\ pc[t] = "lock" /\ storage = None
    /\ storage' = t
    /\ pc' = [pc EXCEPT ![t] = "load"]
    /\ UNCHANGED <<clock, stored, server, lost, account, user_login, token, login, faults>>

LoadFails(t) ==
    /\ pc[t] = "load"
    /\ Fault
    /\ Ends(t, "failed")
    /\ UNCHANGED <<clock, stored, server, lost, user_login, token, login>>

\* mutant: the mutex is held while loading only
LoadAndUnlock(t) ==
    /\ pc[t] = "load"
    /\ token' = [token EXCEPT ![t] = stored]
    /\ pc' = [pc EXCEPT ![t] = IF clock < stored.created THEN "panicked"
                               ELSE IF ShouldRefresh(stored) THEN "refresh" ELSE "login"]
    /\ storage' = None
    /\ UNCHANGED <<clock, stored, server, lost, account, user_login, login, faults>>

\* to_std().unwrap() panics on an age below zero.
Loads(t) ==
    /\ pc[t] = "load"
    /\ token' = [token EXCEPT ![t] = stored]
    /\ CASE clock < stored.created -> Ends(t, "panicked")
         [] clock >= stored.created /\ ShouldRefresh(stored) -> Goes(t, "refresh")
         [] OTHER -> Goes(t, "login")
    /\ UNCHANGED <<clock, stored, server, lost, user_login, login, faults>>

\* The endpoint uses the old refresh token up and issues the next token.
Refreshes(t) ==
    /\ pc[t] = "refresh" /\ token[t].id = newest
    /\ \E d \in Lifetimes : token' = [token EXCEPT ![t] = Issued(newest + 1, d)]
    /\ newest' = newest + 1
    /\ Goes(t, "store")
    /\ UNCHANGED <<clock, stored, name, lost, user_login, login, faults>>

\* mutant: a rejected refresh is tried again
RetriesRejected(t) ==
    /\ pc[t] = "refresh" /\ token[t].id # newest
    /\ Goes(t, "load")
    /\ UNCHANGED <<clock, stored, server, lost, user_login, token, login, faults>>

RefreshRejected(t) ==
    /\ pc[t] = "refresh" /\ token[t].id # newest
    /\ Ends(t, "failed")
    /\ UNCHANGED <<clock, stored, server, lost, user_login, token, login, faults>>

\* The request fails before the endpoint acts on it, or its answer is lost.
RefreshFails(t) ==
    /\ pc[t] = "refresh"
    /\ Fault
    /\ \/ UNCHANGED <<newest, lost>>
       \/ token[t].id = newest /\ newest' = newest + 1 /\ lost' = TRUE
    /\ Ends(t, "failed")
    /\ UNCHANGED <<clock, stored, name, user_login, token, login>>

\* mutant: the new token is used but not stored
KeepsInMemory(t) ==
    /\ pc[t] = "store"
    /\ Goes(t, "login")
    /\ UNCHANGED <<clock, stored, server, lost, user_login, token, login, faults>>

\* mutant: the mutex of the storage is released once the token is stored
StoresAndUnlocks(t) ==
    /\ pc[t] = "store"
    /\ stored' = token[t]
    /\ storage' = None
    /\ pc' = [pc EXCEPT ![t] = "login"]
    /\ UNCHANGED <<clock, server, lost, account, user_login, token, login, faults>>

Stores(t) ==
    /\ pc[t] = "store"
    /\ stored' = token[t]
    /\ Goes(t, "login")
    /\ UNCHANGED <<clock, server, lost, user_login, token, login, faults>>

UpdateFails(t) ==
    /\ pc[t] = "store"
    /\ Fault
    /\ lost' = TRUE
    /\ Ends(t, "failed")
    /\ UNCHANGED <<clock, stored, server, user_login, token, login>>

\* The second mutex, taken under the first.
LocksAccount(t) ==
    /\ pc[t] = "login" /\ account = None
    /\ account' = t
    /\ pc' = [pc EXCEPT ![t] = "account"]
    /\ UNCHANGED <<clock, stored, server, lost, storage, user_login, token, login, faults>>

Succeeds(t, n) ==
    /\ login' = [login EXCEPT ![t] = n]
    /\ Ends(t, "ok")

UsesCachedLogin(t) ==
    /\ pc[t] = "account" /\ user_login # None
    /\ Succeeds(t, user_login)
    /\ UNCHANGED <<clock, stored, server, lost, user_login, token, faults>>

FetchesLogin(t) ==
    /\ pc[t] = "account" /\ user_login = None
    /\ user_login' = name
    /\ Succeeds(t, name)
    /\ UNCHANGED <<clock, stored, server, lost, token, faults>>

\* An error of the request, or an answer without users, which is unwrapped.
FetchFails(t) ==
    /\ pc[t] = "account" /\ user_login = None
    /\ Fault
    /\ Ends(t, "failed") \/ Ends(t, "panicked")
    /\ UNCHANGED <<clock, stored, server, lost, user_login, token, login>>

\* run_init_task waits for the permit and the transport before the connection
\* logs in with the credentials.
LogsIn(t) ==
    /\ pc[t] = "ok"
    /\ Goes(t, "used")
    /\ UNCHANGED <<clock, stored, server, lost, user_login, token, login, faults>>

---------------------------------------------------------------------------
(* Clock, account and process.                                             *)

Tick ==
    /\ \E d \in Steps : clock' = clock + d /\ clock' <= MaxTime
    /\ UNCHANGED <<stored, server, lost, locks, user_login, pc, token, login, faults>>

ClockSetBack ==
    /\ Fault
    /\ \E d \in Steps : clock' = clock - d /\ clock' >= 0
    /\ UNCHANGED <<stored, server, lost, locks, user_login, pc, token, login>>

\* The user renames the account.
Renamed ==
    /\ \E n \in Names \ {name} : name' = n
    /\ Fault
    /\ UNCHANGED <<clock, stored, newest, lost, locks, user_login, pc, token, login>>

\* A restart keeps the storage only: calls, locks and the cached name are gone.
Crash ==
    /\ Fault
    /\ lost' = (lost \/ \E t \in Tasks : pc[t] = "store")
    /\ pc' = [t \in Tasks |-> IF pc[t] = "idle" THEN "idle" ELSE "gone"]
    /\ storage' = None /\ account' = None
    /\ user_login' = Configured
    /\ UNCHANGED <<clock, stored, server, token, login>>

Terminated == (\A t \in Tasks : pc[t] \in Ended) /\ UNCHANGED vars

Continues(t) ==
    \/ LocksStorage(t) \/ Loads(t) \/ Refreshes(t) \/ RefreshRejected(t) \/ Stores(t)
    \/ LocksAccount(t) \/ UsesCachedLogin(t) \/ FetchesLogin(t)
Fails(t) == LoadFails(t) \/ RefreshFails(t) \/ UpdateFails(t) \/ FetchFails(t)
Next ==
    \/ \E t \in Tasks : Calls(t) \/ Continues(t) \/ Fails(t) \/ LogsIn(t)
    \/ Tick \/ ClockSetBack \/ Renamed \/ Crash \/ Terminated

Spec == Init /\ [][Next]_vars

\* Requests are answered, well or with an error, and mutexes are handed on.
FairSpec == Spec /\ \A t \in Tasks : WF_vars(Continues(t))

---------------------------------------------------------------------------
(* Properties.                                                             *)

\* Types, with who holds the mutexes: exactly the call that is between taking
\* one and its end, on every error path and panic (login.rs:309, 353).
TypeOK ==
    /\ clock \in Nat /\ newest \in Nat /\ faults \in 0..MaxFaults /\ lost \in BOOLEAN
    /\ stored \in Token /\ token \in [Tasks -> Token]
    /\ name \in Names /\ user_login \in Names \cup {None}
    /\ login \in [Tasks -> Names \cup {None}]
    /\ pc \in [Tasks -> Places]
    /\ storage \in Tasks \cup {None} /\ account \in Tasks \cup {None}
    /\ \A t \in Tasks : /\ storage = t <=> pc[t] \in UnderStorage
                        /\ account = t <=> pc[t] = "account"

\* A refresh token is sent to the endpoint once only: as long as no fault has
\* lost a token, the one about to be sent is the newest (login.rs:309-345).
RefreshTokenUnused ==
    ~lost => \A t \in Tasks : pc[t] = "refresh" => token[t].id = newest

\* The newest token is in the storage or on its way there: only a lost answer, a
\* failed update or a crash can lose it (login.rs:341-350).
TokenKept ==
    lost \/ stored.id = newest \/ \E t \in Tasks : pc[t] = "store" /\ token[t].id = newest

\* What a call is about to return is the token in the storage: no other call has
\* replaced it while this one fetched the login name (login.rs:353-391).
HandsOutStored == \A t \in Tasks : pc[t] \in {"login", "account"} => token[t] = stored

\* Every call comes to its end: mutexes are not left locked by the calls that
\* failed, and a token that was lost fails the call (login.rs:308-392).
EveryCallEnds == \A t \in Tasks : pc[t] = "lock" ~> pc[t] \in Ended
=============================================================================
