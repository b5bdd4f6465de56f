----------------------- MODULE LoginCredentials_proofs -----------------------
(***************************************************************************)
(* The tokens of LoginCredentials, for any number of init tasks, tokens,   *)
(* faults and crashes and any clock: the types with the mutual exclusion   *)
(* of the two mutexes, and where the newest token is.                      *)
(***************************************************************************)
EXTENDS LoginCredentials, TLAPS

\* What a call that holds token_storage has in current_token: the token in the
\* storage until it refreshes, then the newest one until that is stored.
Loaded == \A t \in Tasks : pc[t] \in {"refresh", "login", "account"} => token[t] = stored
Fetched == \A t \in Tasks : pc[t] = "store" => token[t].id = newest

TokenInv == TypeOK /\ TokenKept /\ Loaded /\ Fetched

---------------------------------------------------------------------------
(* The steps that end a call, or leave it at another place under its locks. *)

LEMMA IssuedIsToken ==
    ASSUME TypeOK, NEW id \in Nat, NEW d \in Lifetimes
    PROVE  Issued(id, d) \in Token
BY DEF TypeOK, Issued, Token

\* Ending a call keeps the relation of the mutexes to the places of the calls.
LEMMA EndsKeepsLocks ==
    ASSUME TypeOK, NEW t \in Tasks, NEW how \in Ended, Ends(t, how)
    PROVE  /\ pc' \in [Tasks -> Places]
           /\ storage' \in Tasks \cup {None} /\ account' \in Tasks \cup {None}
           /\ \A u \in Tasks : /\ storage' = u <=> pc'[u] \in UnderStorage
                               /\ account' = u <=> pc'[u] = "account"
BY LoginAssumption DEF TypeOK, Ends, Ended, UnderStorage, Places

\* A call that holds token_storage only, before and after a step.
LEMMA GoesKeepsLocks ==
    ASSUME TypeOK, NEW t \in Tasks, NEW to \in Places, Goes(t, to),
           \/ /\ pc[t] \in UnderStorage \ {"account"}
              /\ to \in UnderStorage \ {"account"}
           \/ /\ pc[t] \notin UnderStorage
              /\ to \notin UnderStorage
    PROVE  /\ pc' \in [Tasks -> Places]
           /\ storage' \in Tasks \cup {None} /\ account' \in Tasks \cup {None}
           /\ \A u \in Tasks : /\ storage' = u <=> pc'[u] \in UnderStorage
                               /\ account' = u <=> pc'[u] = "account"
BY LoginAssumption DEF TypeOK, Goes, locks, UnderStorage, Places, Ended

---------------------------------------------------------------------------
(* Types.                                                                  *)

LEMMA TypeOKInit == Init => TypeOK
<1> SUFFICES ASSUME Init PROVE TypeOK
    OBVIOUS
<1>1. stored \in Token
    BY LoginAssumption DEF Init, Issued, Token
<1>2. \A t \in Tasks : storage # t /\ account # t /\ pc[t] = "idle"
    BY LoginAssumption DEF Init
<1>3. pc \in [Tasks -> Places] /\ token \in [Tasks -> Token] /\ login \in [Tasks -> Names \cup {None}]
    BY <1>1 DEF Init, Places
<1>4. lost \in BOOLEAN
    BY DEF Init
<1>5. /\ clock \in Nat /\ newest \in Nat /\ faults \in 0..MaxFaults
      /\ name \in Names /\ user_login \in Names \cup {None}
      /\ storage \in Tasks \cup {None} /\ account \in Tasks \cup {None}
    BY LoginAssumption DEF Init
<1> QED
    BY <1>1, <1>2, <1>3, <1>4, <1>5 DEF TypeOK, UnderStorage

LEMMA TypeOKStep == TypeOK /\ [Next]_vars => TypeOK'
<1> SUFFICES ASSUME TypeOK, [Next]_vars PROVE TypeOK'
    OBVIOUS
<1> USE LoginAssumption
<1> DEFINE LocksOK == /\ pc' \in [Tasks -> Places]
                      /\ storage' \in Tasks \cup {None} /\ account' \in Tasks \cup {None}
                      /\ \A u \in Tasks : /\ storage' = u <=> pc'[u] \in UnderStorage
                                          /\ account' = u <=> pc'[u] = "account"
<1>1. ASSUME NEW t \in Tasks, Calls(t) PROVE TypeOK'
    <2>1. LocksOK
        BY <1>1, GoesKeepsLocks DEF Calls, UnderStorage, Places
    <2> QED
        BY <1>1, <2>1 DEF Calls, TypeOK, server
<1>2. ASSUME NEW t \in Tasks, LocksStorage(t) PROVE TypeOK'
    <2>1. LocksOK
        BY <1>2 DEF LocksStorage, TypeOK, UnderStorage, Places, Ended
    <2> QED
        BY <1>2, <2>1 DEF LocksStorage, TypeOK, server
<1>3. ASSUME NEW t \in Tasks, Loads(t) PROVE TypeOK'
    <2>1. LocksOK
        <3>1. CASE Ends(t, "panicked")
            BY <3>1, EndsKeepsLocks DEF Ended
        <3>2. CASE Goes(t, "refresh") \/ Goes(t, "login")
            BY <1>3, <3>2, GoesKeepsLocks DEF Loads, UnderStorage, Places
        <3> QED
            BY <1>3, <3>1, <3>2 DEF Loads
    <2>2. token' \in [Tasks -> Token]
        BY <1>3 DEF Loads, TypeOK
    <2> QED
        BY <1>3, <2>1, <2>2 DEF Loads, TypeOK, server
<1>4. ASSUME NEW t \in Tasks, Refreshes(t) PROVE TypeOK'
    <2>1. LocksOK
        BY <1>4, GoesKeepsLocks DEF Refreshes, UnderStorage, Places
    <2>2. token' \in [Tasks -> Token] /\ newest' \in Nat
        <3>1. newest + 1 \in Nat
            BY DEF TypeOK
        <3> QED
            BY <1>4, <3>1, IssuedIsToken DEF Refreshes, TypeOK
    <2> QED
        BY <1>4, <2>1, <2>2 DEF Refreshes, TypeOK
<1>5. ASSUME NEW t \in Tasks, RefreshRejected(t) PROVE TypeOK'
    <2>1. LocksOK
        BY <1>5, EndsKeepsLocks DEF RefreshRejected, Ended
    <2> QED
        BY <1>5, <2>1 DEF RefreshRejected, TypeOK, server
<1>6. ASSUME NEW t \in Tasks, Stores(t) PROVE TypeOK'
    <2>1. LocksOK
        BY <1>6, GoesKeepsLocks DEF Stores, UnderStorage, Places
    <2> QED
        BY <1>6, <2>1 DEF Stores, TypeOK, server
<1>7. ASSUME NEW t \in Tasks, LocksAccount(t) PROVE TypeOK'
    <2>1. LocksOK
        BY <1>7 DEF LocksAccount, TypeOK, UnderStorage, Places, Ended
    <2> QED
        BY <1>7, <2>1 DEF LocksAccount, TypeOK, server
<1>8. ASSUME NEW t \in Tasks, UsesCachedLogin(t) \/ FetchesLogin(t) PROVE TypeOK'
    <2>1. LocksOK
        BY <1>8, EndsKeepsLocks DEF UsesCachedLogin, FetchesLogin, Succeeds, Ended
    <2>2. user_login' \in Names \cup {None} /\ login' \in [Tasks -> Names \cup {None}]
        BY <1>8 DEF UsesCachedLogin, FetchesLogin, Succeeds, TypeOK
    <2> QED
        BY <1>8, <2>1, <2>2 DEF UsesCachedLogin, FetchesLogin, TypeOK, server
<1>9. ASSUME NEW t \in Tasks, Fails(t) PROVE TypeOK'
    <2>1. LocksOK
        BY <1>9, EndsKeepsLocks DEF Fails, LoadFails, RefreshFails, UpdateFails, FetchFails, Ended
    <2>2. faults' \in 0..MaxFaults
        BY <1>9 DEF Fails, LoadFails, RefreshFails, UpdateFails, FetchFails, Fault, TypeOK
    <2>3. newest' \in Nat
        BY <1>9 DEF Fails, LoadFails, RefreshFails, UpdateFails, FetchFails, TypeOK, server
    <2>4. lost' = lost \/ lost' = TRUE
        BY <1>9 DEF Fails, LoadFails, RefreshFails, UpdateFails, FetchFails
    <2>5. lost' \in BOOLEAN
        BY <2>4, Zenon DEF TypeOK
    <2>6. UNCHANGED <<clock, stored, name, user_login, token, login>>
        BY <1>9 DEF Fails, LoadFails, RefreshFails, UpdateFails, FetchFails, server
    <2> QED
        BY <2>1, <2>2, <2>3, <2>5, <2>6 DEF TypeOK
<1>10. ASSUME NEW t \in Tasks, LogsIn(t) PROVE TypeOK'
    <2>1. LocksOK
        BY <1>10, GoesKeepsLocks DEF LogsIn, UnderStorage, Places, Ended
    <2> QED
        BY <1>10, <2>1 DEF LogsIn, TypeOK, server
<1>11. CASE Tick \/ ClockSetBack \/ Renamed
    <2>1. clock' \in Nat
        BY <1>11 DEF Tick, ClockSetBack, Renamed, TypeOK
    <2>2. faults' \in 0..MaxFaults
        BY <1>11 DEF Tick, ClockSetBack, Renamed, Fault, TypeOK
    <2> QED
        BY <1>11, <2>1, <2>2 DEF Tick, ClockSetBack, Renamed, TypeOK, server, locks
<1>12. CASE Crash
    <2>1. LocksOK
        BY <1>12 DEF Crash, TypeOK, UnderStorage, Places, Ended
    <2>2. faults' \in 0..MaxFaults /\ lost' \in BOOLEAN
        BY <1>12 DEF Crash, Fault, TypeOK
    <2> QED
        BY <1>12, <2>1, <2>2 DEF Crash, TypeOK, server
<1>13. CASE UNCHANGED vars
    BY <1>13 DEF vars, server, locks, TypeOK
<1> QED
    BY <1>1, <1>2, <1>3, <1>4, <1>5, <1>6, <1>7, <1>8, <1>9, <1>10, <1>11, <1>12, <1>13
    DEF Next, Continues, Terminated

\* In every reachable state the variables have their types, and a mutex is held by
\* exactly the call that is between taking it and its end (login.rs:309, 353).
THEOREM TypeCorrect == Spec => []TypeOK
BY TypeOKInit, TypeOKStep, PTL DEF Spec

---------------------------------------------------------------------------
(* Where the newest token is.                                              *)

\* At most one call is between taking token_storage and its end.
LEMMA OneUnderStorage ==
    ASSUME TypeOK, NEW t \in Tasks, NEW u \in Tasks,
           pc[t] \in UnderStorage, pc[u] \in UnderStorage
    PROVE  t = u
BY DEF TypeOK

LEMMA TokenInvInit == Init => TokenInv
<1> SUFFICES ASSUME Init PROVE TokenInv
    OBVIOUS
<1>1. stored.id = newest
    BY DEF Init, Issued
<1>2. \A t \in Tasks : pc[t] = "idle"
    BY DEF Init
<1> QED
    BY <1>1, <1>2, TypeOKInit DEF TokenInv, TokenKept, Loaded, Fetched

\* A step that leaves tokens alone and brings no call to where it has one to keep.
LEMMA TokensUntouched ==
    ASSUME TokenInv, UNCHANGED <<stored, newest, token>>, lost => lost',
           \A t \in Tasks : pc'[t] \in {"refresh", "login", "account", "store"}
                => \/ pc'[t] = pc[t]
                   \/ pc[t] \in {"login", "account"} /\ pc'[t] \in {"login", "account"},
           \/ lost'
           \/ \A t \in Tasks : pc[t] = "store" => pc'[t] = "store"
    PROVE  TokenKept' /\ Loaded' /\ Fetched'
<1>1. TokenKept'
    BY DEF TokenInv, TokenKept
<1>2. Loaded'
    BY DEF TokenInv, Loaded
<1>3. Fetched'
    BY DEF TokenInv, Fetched
<1> QED
    BY <1>1, <1>2, <1>3

LEMMA TokenInvStep == TokenInv /\ [Next]_vars => TokenInv'
<1> SUFFICES ASSUME TokenInv, [Next]_vars PROVE TokenKept' /\ Loaded' /\ Fetched'
    BY TypeOKStep DEF TokenInv
<1> USE LoginAssumption
<1>0. TypeOK /\ pc \in [Tasks -> Places] /\ token \in [Tasks -> Token]
    BY DEF TokenInv, TypeOK
<1>1. ASSUME NEW t \in Tasks, Loads(t) PROVE TokenKept' /\ Loaded' /\ Fetched'
    <2>1. /\ pc' \in {[pc EXCEPT ![t] = "panicked"], [pc EXCEPT ![t] = "refresh"], [pc EXCEPT ![t] = "login"]}
          /\ token' = [token EXCEPT ![t] = stored]
          /\ pc[t] = "load" /\ UNCHANGED <<stored, newest, lost>>
        BY <1>1 DEF Loads, Ends, Goes, server
    <2>2. \A u \in Tasks \ {t} : pc'[u] = pc[u] /\ token'[u] = token[u]
        BY <1>0, <2>1
    <2>3. pc'[t] # "store" /\ token'[t] = stored
        BY <1>0, <2>1
    <2>4. TokenKept'
        BY <2>1, <2>2 DEF TokenInv, TokenKept
    <2>5. Loaded' /\ Fetched'
        BY <2>1, <2>2, <2>3 DEF TokenInv, Loaded, Fetched
    <2> QED
        BY <2>4, <2>5
<1>2. ASSUME NEW t \in Tasks, Refreshes(t) PROVE TokenKept' /\ Loaded' /\ Fetched'
    <2>1. PICK d \in Lifetimes : token' = [token EXCEPT ![t] = Issued(newest + 1, d)]
        BY <1>2 DEF Refreshes
    <2>2. /\ pc' = [pc EXCEPT ![t] = "store"] /\ pc[t] = "refresh"
          /\ newest' = newest + 1 /\ UNCHANGED <<stored, lost>>
        BY <1>2 DEF Refreshes, Goes
    <2>3. pc'[t] = "store" /\ token'[t].id = newest'
        BY <1>0, <2>1, <2>2 DEF Issued
    <2>4. \A u \in Tasks \ {t} : pc'[u] = pc[u] /\ token'[u] = token[u] /\ pc[u] \notin UnderStorage
        BY <1>0, <2>1, <2>2, OneUnderStorage DEF UnderStorage
    <2> QED
        BY <2>2, <2>3, <2>4 DEF TokenInv, TokenKept, Loaded, Fetched, UnderStorage
<1>3. ASSUME NEW t \in Tasks, Stores(t) PROVE TokenKept' /\ Loaded' /\ Fetched'
    <2>1. /\ pc' = [pc EXCEPT ![t] = "login"] /\ pc[t] = "store"
          /\ stored' = token[t] /\ UNCHANGED <<newest, lost, token>>
        BY <1>3 DEF Stores, Goes, server
    <2>2. \A u \in Tasks \ {t} : pc'[u] = pc[u] /\ pc[u] \notin UnderStorage
        BY <1>0, <2>1, OneUnderStorage DEF UnderStorage
    <2>3. pc'[t] = "login" /\ stored'.id = newest'
        BY <1>0, <2>1 DEF TokenInv, Fetched
    <2> QED
        BY <2>1, <2>2, <2>3 DEF TokenKept, Loaded, Fetched, UnderStorage
<1>4. ASSUME NEW t \in Tasks, RefreshFails(t) PROVE TokenKept' /\ Loaded' /\ Fetched'
    <2>1. pc' = [pc EXCEPT ![t] = "failed"] /\ pc[t] = "refresh" /\ UNCHANGED <<stored, token>>
        BY <1>4 DEF RefreshFails, Ends
    <2>2. \A u \in Tasks \ {t} : pc'[u] = pc[u] /\ pc[u] \notin UnderStorage
        BY <1>0, <2>1, OneUnderStorage DEF UnderStorage
    <2>3. pc'[t] = "failed"
        BY <1>0, <2>1
    <2>4. lost' \/ UNCHANGED <<newest, lost>>
        BY <1>4 DEF RefreshFails
    <2>5. TokenKept'
        BY <2>1, <2>2, <2>4 DEF TokenInv, TokenKept, UnderStorage
    <2> QED
        BY <2>1, <2>2, <2>3, <2>5 DEF Loaded, Fetched, UnderStorage
<1>5. ASSUME NEW t \in Tasks, NEW how \in Ended \cup {"lock", "load", "account"},
             pc' = [pc EXCEPT ![t] = how], how = "account" => pc[t] = "login",
             lost => lost', pc[t] = "store" => lost',
             UNCHANGED <<stored, newest, token>>
      PROVE  TokenKept' /\ Loaded' /\ Fetched'
    <2>1. \A u \in Tasks \ {t} : pc'[u] = pc[u]
        BY <1>0, <1>5
    <2>2. pc'[t] = how
        BY <1>0, <1>5
    <2> QED
        BY <1>5, <2>1, <2>2, TokensUntouched DEF Ended
<1>6. ASSUME NEW t \in Tasks, Calls(t) \/ LocksStorage(t) \/ LogsIn(t) \/ LocksAccount(t)
      PROVE  TokenKept' /\ Loaded' /\ Fetched'
    <2>1. PICK how \in {"lock", "load", "used", "account"} :
            /\ pc' = [pc EXCEPT ![t] = how] /\ (how = "account" => pc[t] = "login")
            /\ pc[t] # "store" /\ UNCHANGED <<stored, newest, token, lost>>
        BY <1>6 DEF Calls, LocksStorage, LogsIn, LocksAccount, Goes, server
    <2> QED
        BY <1>5, <2>1 DEF Ended
<1>7. ASSUME NEW t \in Tasks, RefreshRejected(t) \/ UsesCachedLogin(t) \/ FetchesLogin(t)
                                \/ LoadFails(t) \/ UpdateFails(t) \/ FetchFails(t)
      PROVE  TokenKept' /\ Loaded' /\ Fetched'
    <2>1. PICK how \in Ended : pc' = [pc EXCEPT ![t] = how]
        BY <1>7 DEF RefreshRejected, UsesCachedLogin, FetchesLogin, LoadFails, UpdateFails,
                    FetchFails, Succeeds, Ends, Ended
    <2>2. UNCHANGED <<stored, newest, token>>
        BY <1>7 DEF RefreshRejected, UsesCachedLogin, FetchesLogin, LoadFails, UpdateFails,
                    FetchFails, server
    <2>3. (lost => lost') /\ (pc[t] = "store" => lost')
        BY <1>7 DEF RefreshRejected, UsesCachedLogin, FetchesLogin, LoadFails, UpdateFails,
                    FetchFails
    <2>4. how # "account"
        BY <2>1 DEF Ended
    <2> QED
        BY <1>5, <2>1, <2>2, <2>3, <2>4
<1>8. CASE Crash
    <2>1. /\ pc' = [t \in Tasks |-> IF pc[t] = "idle" THEN "idle" ELSE "gone"]
          /\ UNCHANGED <<stored, newest, token>>
        BY <1>8 DEF Crash, server
    <2>2. (lost => lost') /\ (lost' \/ \A t \in Tasks : pc[t] # "store")
        BY <1>8 DEF Crash
    <2> QED
        BY <2>1, <2>2, TokensUntouched
<1>9. CASE Tick \/ ClockSetBack \/ Renamed \/ UNCHANGED vars
    <2>1. UNCHANGED <<stored, newest, token, pc, lost>>
        BY <1>9 DEF Tick, ClockSetBack, Renamed, vars, server
    <2> QED
        BY <2>1, TokensUntouched
<1> QED
    BY <1>1, <1>2, <1>3, <1>4, <1>6, <1>7, <1>8, <1>9 DEF Next, Continues, Fails, Terminated

\* As long as no fault has lost a token, the refresh token that is about to be sent to
\* the endpoint is the one it accepts: none is sent twice (login.rs:309-345).
THEOREM RefreshTokenUnusedCorrect == Spec => []RefreshTokenUnused
<1>1. TokenInv => RefreshTokenUnused
    <2> SUFFICES ASSUME TokenInv, ~lost, NEW t \in Tasks, pc[t] = "refresh"
                 PROVE  token[t].id = newest
        BY DEF RefreshTokenUnused
    <2>1. ASSUME NEW u \in Tasks, pc[u] = "store" PROVE FALSE
        BY <2>1, OneUnderStorage DEF TokenInv, UnderStorage
    <2>2. stored.id = newest
        BY <2>1 DEF TokenInv, TokenKept
    <2> QED
        BY <2>2 DEF TokenInv, Loaded
<1> QED
    BY <1>1, TokenInvInit, TokenInvStep, PTL DEF Spec

\* Only a lost answer, a failed update or a crash loses the newest token: otherwise it
\* is in the storage, or with the call that is about to store it (login.rs:341-350).
THEOREM TokenKeptCorrect == Spec => []TokenKept
<1>1. TokenInv => TokenKept
    BY DEF TokenInv
<1> QED
    BY <1>1, TokenInvInit, TokenInvStep, PTL DEF Spec

\* What a call is about to return is the token in the storage (login.rs:353-391).
THEOREM HandsOutStoredCorrect == Spec => []HandsOutStored
<1>1. TokenInv => HandsOutStored
    BY DEF TokenInv, Loaded, HandsOutStored
<1> QED
    BY <1>1, TokenInvInit, TokenInvStep, PTL DEF Spec
=============================================================================
