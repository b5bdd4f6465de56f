--------------------- MODULE ConnectionRateLimit_proofs ---------------------
(***************************************************************************)
(* Theorems about `ConnectionRateLimit`, for every number of init tasks    *)
(* and permits and all durations.                                          *)
(***************************************************************************)
EXTENDS ConnectionRateLimit, FiniteSetTheorems, TLAPS

\* A release task that is done has waited for its time.
RateInv == /\ TypeOK
           /\ PermitsAccounted
           /\ \A t \in Tasks : task[t] = "done" => open_age[t] >= NewConnectionEvery

LEMMA HorizonType == Horizon \in Nat /\ NewConnectionEvery <= Horizon
BY RateAssumption DEF Horizon

LEMMA HoldersFinite == IsFiniteSet(Holders) /\ Cardinality(Holders) \in Nat
<1>1. IsFiniteSet(Holders)
  BY RateAssumption, FS_Subset DEF Holders
<1> QED BY <1>1, FS_CardinalityType

\* One permit less in the semaphore, one task more that holds one.
LEMMA TakesPermit ==
    ASSUME PermitsAccounted, NEW t \in Tasks, t \notin Holders, Holders' = Holders \union {t},
           available \in Nat, available' = available - 1
    PROVE  PermitsAccounted'
<1>1. Cardinality(Holders \union {t}) = Cardinality(Holders) + 1
  BY HoldersFinite, FS_AddElement
<1> QED BY <1>1, HoldersFinite DEF PermitsAccounted

LEMMA GivesPermitBack ==
    ASSUME PermitsAccounted, NEW t \in Holders, Holders' = Holders \ {t},
           available \in Nat, available' = available + 1
    PROVE  PermitsAccounted'
<1>1. Cardinality(Holders \ {t}) = Cardinality(Holders) - 1
  BY HoldersFinite, FS_RemoveElement
<1> QED BY <1>1, HoldersFinite DEF PermitsAccounted

LEMMA InitRate == Init => RateInv
<1> SUFFICES ASSUME Init PROVE RateInv
  OBVIOUS
<1>1. Holders = {}
  BY DEF Init, Holders
<1>2. PermitsAccounted
  BY <1>1, FS_EmptySet, RateAssumption DEF Init, PermitsAccounted
<1> QED BY <1>2, HorizonType, RateAssumption DEF Init, RateInv, TypeOK

LEMMA StepRate == RateInv /\ [Next]_vars => RateInv'
<1> SUFFICES ASSUME RateInv, [Next]_vars PROVE RateInv'
  OBVIOUS
<1> USE HorizonType
<1>1. ASSUME NEW t \in Tasks, GetCredentials(t) PROVE RateInv'
  <2>1. Holders' = Holders
    BY <1>1 DEF GetCredentials, Becomes, Holders, RateInv, TypeOK
  <2> QED BY <1>1, <2>1 DEF GetCredentials, Becomes, RateInv, TypeOK, PermitsAccounted
<1>2. ASSUME NEW t \in Tasks, LoginFails(t) PROVE RateInv'
  <2>1. Holders' = Holders
    BY <1>2 DEF LoginFails, Becomes, Holders, RateInv, TypeOK
  <2> QED BY <1>2, <2>1 DEF LoginFails, Becomes, RateInv, TypeOK, PermitsAccounted
<1>3. ASSUME NEW t \in Tasks, Acquire(t) PROVE RateInv'
  <2>1. t \notin Holders /\ Holders' = Holders \union {t}
    BY <1>3 DEF Acquire, Becomes, Holders, RateInv, TypeOK
  <2>2. PermitsAccounted'
    BY <1>3, <2>1, TakesPermit DEF Acquire, RateInv, TypeOK
  <2>3. Tail(queue) \in Seq(Tasks)
    BY <1>3 DEF Acquire, RateInv, TypeOK
  <2> QED BY <1>3, <2>2, <2>3 DEF Acquire, Becomes, RateInv, TypeOK
<1>4. ASSUME NEW t \in Tasks, Connects(t) PROVE RateInv'
  <2>1. Holders' = Holders
    BY <1>4 DEF Connects, Becomes, Holders, RateInv, TypeOK
  <2>2. TypeOK'
    BY <1>4 DEF Connects, Becomes, RateInv, TypeOK
  <2>3. \A u \in Tasks : task'[u] = "done" => u # t /\ task[u] = "done"
    BY <1>4 DEF Connects, Becomes, RateInv, TypeOK
  <2>4. \A u \in Tasks : u # t => open_age'[u] = open_age[u]
    BY <1>4 DEF Connects, RateInv, TypeOK
  <2>5. PermitsAccounted'
    BY <1>4, <2>1 DEF Connects, RateInv, PermitsAccounted
  <2> QED BY <2>2, <2>3, <2>4, <2>5 DEF RateInv
<1>5. ASSUME NEW t \in Tasks, ConnectFails(t) \/ TimesOut(t) PROVE RateInv'
  <2>1. t \in Holders /\ Holders' = Holders \ {t}
    BY <1>5 DEF ConnectFails, TimesOut, Becomes, Holders, RateInv, TypeOK
  <2>2. PermitsAccounted'
    BY <1>5, <2>1, GivesPermitBack DEF ConnectFails, TimesOut, RateInv, TypeOK
  <2>3. /\ available' = available + 1 /\ UNCHANGED <<queue, permit_age, open_age>>
        /\ task' = [task EXCEPT ![t] = "failed"]
    BY <1>5 DEF ConnectFails, TimesOut, Becomes
  <2>4. TypeOK'
    BY <2>3 DEF RateInv, TypeOK
  <2>5. \A u \in Tasks : task'[u] = "done" => task[u] = "done"
    BY <2>3 DEF RateInv, TypeOK
  <2> QED BY <2>2, <2>3, <2>4, <2>5 DEF RateInv
<1>6. ASSUME NEW t \in Tasks, ReleasePermit(t) PROVE RateInv'
  <2>1. t \in Holders /\ Holders' = Holders \ {t}
    BY <1>6 DEF ReleasePermit, Becomes, Holders, RateInv, TypeOK
  <2>2. PermitsAccounted'
    BY <1>6, <2>1, GivesPermitBack DEF ReleasePermit, RateInv, TypeOK
  <2> QED BY <1>6, <2>2 DEF ReleasePermit, Becomes, RateInv, TypeOK
<1>7. ASSUME Tick PROVE RateInv'
  <2>1. \A ages \in [Tasks -> 0..Horizon] :
           /\ Older(ages) \in [Tasks -> 0..Horizon]
           /\ \A t \in Tasks : Older(ages)[t] >= ages[t]
    <3> SUFFICES ASSUME NEW ages \in [Tasks -> 0..Horizon], NEW t \in Tasks
                 PROVE  Older(ages)[t] \in 0..Horizon /\ Older(ages)[t] >= ages[t]
      BY DEF Older
    <3>1. ages[t] \in 0..Horizon
      OBVIOUS
    <3>2. Older(ages)[t] = IF ages[t] < Horizon THEN ages[t] + 1 ELSE ages[t]
      BY DEF Older
    <3> QED BY <3>1, <3>2
  <2>2. Holders' = Holders
    BY <1>7 DEF Tick, Holders
  <2>3. TypeOK'
    BY <1>7, <2>1 DEF Tick, RateInv, TypeOK
  <2>4. \A t \in Tasks : open_age'[t] >= open_age[t] /\ open_age[t] \in Nat /\ open_age'[t] \in Nat
    <3>1. open_age \in [Tasks -> 0..Horizon] /\ open_age' = Older(open_age)
      BY <1>7 DEF Tick, RateInv, TypeOK
    <3>2. /\ Older(open_age) \in [Tasks -> 0..Horizon]
          /\ \A t \in Tasks : Older(open_age)[t] >= open_age[t]
      BY <2>1, <3>1
    <3> QED BY <3>1, <3>2
  <2>5. ASSUME NEW t \in Tasks, task'[t] = "done" PROVE open_age'[t] >= NewConnectionEvery
    <3>1. open_age[t] >= NewConnectionEvery
      BY <1>7, <2>5 DEF Tick, RateInv
    <3> QED BY <2>4, <3>1, RateAssumption
  <2>6. PermitsAccounted'
    BY <1>7, <2>2 DEF Tick, RateInv, PermitsAccounted
  <2> QED BY <2>3, <2>5, <2>6 DEF RateInv
<1>8. CASE UNCHANGED vars
  BY <1>8 DEF vars, RateInv, TypeOK, PermitsAccounted, Holders
<1> QED BY <1>1, <1>2, <1>3, <1>4, <1>5, <1>6, <1>7, <1>8 DEF Next

LEMMA RateAlways == Spec => []RateInv
BY InitRate, StepRate, PTL DEF Spec

\* Every path of the init task gives its permit back exactly once: permits in the
\* semaphore and permits held always add up to those it was made with.
THEOREM PermitsAccountedCorrect == Spec => []PermitsAccounted
<1>1. RateInv => PermitsAccounted
  BY DEF RateInv
<1> QED BY <1>1, RateAlways, PTL

\* However many connections, of however many clients, want to connect: no more than
\* Permits of them are opened within any span of new_connection_every.
THEOREM ConnectionsSpacedCorrect == Spec => []ConnectionsSpaced
<1>1. RateInv => ConnectionsSpaced
  <2> SUFFICES ASSUME RateInv PROVE ConnectionsSpaced
    OBVIOUS
  <2> DEFINE recent == {t \in Tasks : /\ task[t] \in {"cooling", "done"}
                                      /\ open_age[t] < NewConnectionEvery}
  <2>1. \A t \in Tasks : open_age[t] \in Nat
    BY HorizonType DEF RateInv, TypeOK
  <2>2. recent \subseteq Holders
    BY <2>1, RateAssumption DEF RateInv, Holders
  <2>3. Cardinality(recent) <= Cardinality(Holders) /\ Cardinality(recent) \in Nat
    BY <2>2, HoldersFinite, FS_Subset, FS_CardinalityType
  <2>4. Cardinality(recent) <= Permits
    BY <2>3, HoldersFinite, RateAssumption DEF RateInv, TypeOK, PermitsAccounted
  <2> QED BY <2>4 DEF ConnectionsSpaced
<1> QED BY <1>1, RateAlways, PTL
=============================================================================
