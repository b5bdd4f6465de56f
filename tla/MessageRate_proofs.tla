------------------------- MODULE MessageRate_proofs -------------------------
(***************************************************************************)
(* `TrimIsHarmless` for every limit, every number of messages and every    *)
(* running time: the send times that are remembered are the last ones of   *)
(* the history, and none is dropped unless twice as many as may wait are   *)
(* left.  Send times grow, so once one of those has been processed, every  *)
(* one that was dropped has been too.                                      *)
(***************************************************************************)
EXTENDS MessageRate, FiniteSetTheorems, TLAPS

\* what is remembered is the end of the history, and shorter than it only when full
EndOf(history, times) ==
    /\ Len(times) <= Len(history)
    /\ Len(times) < Len(history) => Len(times) = 2 * MaxWaiting
    /\ \A i \in 1..Len(times) : times[i] = history[Len(history) - Len(times) + i]

Window == EndOf(sent, message_send_times)

\* send times grow
Ordered ==
    /\ \A i \in 1..Len(sent) : sent[i] <= now
    /\ \A i, j \in 1..Len(sent) : i <= j => sent[i] <= sent[j]

RateInv == TypeOK /\ Window /\ Ordered

-----------------------------------------------------------------------------
(* The invariant *)

LEMMA AppendFacts ==
    ASSUME NEW s \in Seq(Nat), NEW t \in Nat
    PROVE  /\ Append(s, t) \in Seq(Nat) /\ Len(s) \in Nat /\ Len(Append(s, t)) = Len(s) + 1
           /\ \A i \in 1..Len(s) : Append(s, t)[i] = s[i]
           /\ Append(s, t)[Len(s) + 1] = t
OBVIOUS

LEMMA TailFacts ==
    ASSUME NEW s \in Seq(Nat), Len(s) > 0
    PROVE  /\ Tail(s) \in Seq(Nat) /\ Len(Tail(s)) = Len(s) - 1
           /\ \A i \in 1..Len(Tail(s)) : Tail(s)[i] = s[i + 1]
OBVIOUS

LEMMA EndIs ==
    ASSUME NEW q, NEW h, NEW n, NEW m, Len(q) = n, Len(h) = m, n <= m,
           n < m => n = 2 * MaxWaiting, \A i \in 1..n : q[i] = h[m - n + i]
    PROVE  EndOf(h, q)
BY DEF EndOf

\* A longer window onto a longer history.
LEMMA WindowGrows ==
    ASSUME RateInv, register_sent_message, UNCHANGED now
    PROVE  RateInv'
<1> DEFINE q == Append(message_send_times, now)
           h == Append(sent, now)
           n == Len(message_send_times)
           m == Len(sent)
<1>1. /\ MaxWaiting \in Nat /\ now \in Nat /\ n \in Nat /\ m \in Nat
      /\ message_send_times \in Seq(Nat) /\ sent \in Seq(Nat)
      /\ n <= 2 * MaxWaiting /\ n <= m /\ (n < m => n = 2 * MaxWaiting)
  BY RateAssumption DEF RateInv, TypeOK, Window, EndOf
<1>2. /\ q \in Seq(Nat) /\ Len(q) = n + 1 /\ q[n + 1] = now
      /\ \A i \in 1..n : q[i] = message_send_times[i]
  BY <1>1, AppendFacts
<1>3. /\ h \in Seq(Nat) /\ Len(h) = m + 1 /\ h[m + 1] = now
      /\ \A i \in 1..m : h[i] = sent[i]
  BY <1>1, AppendFacts
<1>4. sent' = h /\ message_send_times' = Trimmed(q) /\ now' = now
  BY DEF register_sent_message
<1>5. \A i \in 1..n : message_send_times[i] = sent[m - n + i]
  BY DEF RateInv, Window, EndOf
<1> HIDE DEF q, h, n, m
<1>6. \A i \in 1..(n + 1) : q[i] = h[m - n + i]
  <2> SUFFICES ASSUME NEW i \in 1..(n + 1) PROVE q[i] = h[m - n + i]
    OBVIOUS
  <2>1. CASE i \in 1..n
    <3>1. m - n + i \in 1..m
      BY <1>1, <2>1
    <3> QED BY <1>2, <1>3, <1>5, <2>1, <3>1
  <2>2. CASE i = n + 1
    <3>1. m - n + i = m + 1
      BY <1>1, <2>2
    <3> QED BY <1>2, <1>3, <2>2, <3>1
  <2> QED BY <1>1, <2>1, <2>2
<1>7. Ordered'
  <2>1. \A i \in 1..(m + 1) : i \in 1..m \/ i = m + 1
    BY <1>1
  <2>2. \A i \in 1..m : sent[i] <= now /\ \A j \in 1..m : i <= j => sent[i] <= sent[j]
    BY DEF RateInv, Ordered, m
  <2>3. \A i \in 1..(m + 1) : h[i] <= now
    BY <1>1, <1>3, <2>1, <2>2
  <2>4. ASSUME NEW i \in 1..(m + 1), NEW j \in 1..(m + 1), i <= j PROVE h[i] <= h[j]
    <3>1. CASE j = m + 1
      BY <1>3, <2>3, <3>1
    <3>2. CASE j \in 1..m
      <4>1. i \in 1..m
        BY <1>1, <2>4, <3>2
      <4> QED BY <1>3, <2>2, <2>4, <3>2, <4>1
    <3> QED BY <2>1, <3>1, <3>2
  <2> QED BY <1>3, <1>4, <2>3, <2>4 DEF Ordered
<1>8. CASE n < 2 * MaxWaiting
  <2>1. ~(Len(q) > 2 * MaxWaiting) /\ n + 1 <= 2 * MaxWaiting /\ n = m
    BY <1>1, <1>2, <1>8
  <2>2. message_send_times' = q
    BY <1>4, <2>1 DEF Trimmed
  <2>3. TypeOK'
    BY <1>1, <1>2, <1>3, <1>4, <2>1, <2>2 DEF TypeOK
  <2>4. n + 1 <= m + 1 /\ ~(n + 1 < m + 1) /\ \A i \in 1..(n + 1) : (m + 1) - (n + 1) + i = m - n + i
    BY <1>1, <2>1
  <2>5. Window'
    <3>1. \A i \in 1..(n + 1) : q[i] = h[(m + 1) - (n + 1) + i]
      BY <1>6, <2>4
    <3>2. EndOf(h, q)
      BY <1>1, <1>2, <1>3, <2>4, <3>1 DEF EndOf
    <3> QED BY <1>4, <2>2, <3>2 DEF Window
  <2> QED BY <1>7, <2>3, <2>5 DEF RateInv
<1>9. CASE n = 2 * MaxWaiting
  <2>1. Len(q) > 2 * MaxWaiting /\ Len(q) > 0
    BY <1>1, <1>2, <1>9
  <2>2. message_send_times' = Tail(q)
    BY <1>4, <2>1 DEF Trimmed
  <2>3. /\ Tail(q) \in Seq(Nat) /\ Len(Tail(q)) = n
        /\ \A i \in 1..n : Tail(q)[i] = q[i + 1]
    <3>1. /\ Tail(q) \in Seq(Nat) /\ Len(Tail(q)) = Len(q) - 1
          /\ \A i \in 1..Len(Tail(q)) : Tail(q)[i] = q[i + 1]
      BY <1>2, <2>1, TailFacts
    <3>2. Len(Tail(q)) = n
      BY <1>1, <1>2, <3>1
    <3> QED BY <3>1, <3>2
  <2>4. \A i \in 1..n : i + 1 \in 1..(n + 1) /\ m - n + (i + 1) = (m + 1) - n + i
    BY <1>1
  <2>5. \A i \in 1..n : Tail(q)[i] = h[(m + 1) - n + i]
    BY <1>6, <2>3, <2>4
  <2>6. n <= m + 1
    BY <1>1
  <2>7. Window'
    <3>1. EndOf(h, Tail(q))
      <4> DEFINE r == Tail(q)
                 k == m + 1
      <4>1. Len(r) = n /\ Len(h) = k /\ n <= k /\ n = 2 * MaxWaiting
        BY <1>3, <1>9, <2>3, <2>6
      <4>2. \A i \in 1..n : r[i] = h[k - n + i]
        BY <2>5
      <4> HIDE DEF r, k
      <4>3. EndOf(h, r)
        BY <4>1, <4>2, EndIs
      <4> QED BY <4>3 DEF r
    <3> QED BY <1>4, <2>2, <3>1 DEF Window
  <2>8. TypeOK'
    BY <1>1, <1>3, <1>4, <2>2, <2>3 DEF TypeOK
  <2> QED BY <1>7, <2>7, <2>8 DEF RateInv
<1> QED BY <1>1, <1>8, <1>9

LEMMA InitRate == Init => RateInv
BY RateAssumption DEF Init, RateInv, TypeOK, Window, EndOf, Ordered

LEMMA StepRate == RateInv /\ [Next]_vars => RateInv'
<1>1. RateInv /\ UNCHANGED vars => RateInv'
  BY DEF RateInv, TypeOK, Window, EndOf, Ordered, vars
<1>2. RateInv /\ Tick => RateInv'
  <2> SUFFICES ASSUME RateInv, Tick PROVE RateInv'
    OBVIOUS
  <2>1. /\ now \in Nat /\ now' = now + 1 /\ sent \in Seq(Nat)
        /\ UNCHANGED <<message_send_times, sent>>
    BY DEF RateInv, TypeOK, Tick
  <2>2. \A i \in 1..Len(sent) : sent[i] \in Nat /\ sent[i] <= now
    BY <2>1 DEF RateInv, Ordered
  <2>3. \A i \in 1..Len(sent) : sent[i] <= now + 1
    BY <2>1, <2>2
  <2>4. now + 1 \in Nat
    BY <2>1
  <2> QED BY <2>1, <2>3, <2>4 DEF RateInv, TypeOK, Window, EndOf, Ordered
<1>3. RateInv /\ (SendMessage \/ JoinOrPart) => RateInv'
  BY WindowGrows DEF SendMessage, JoinOrPart
<1> QED BY <1>1, <1>2, <1>3 DEF Next

-----------------------------------------------------------------------------
(* Counting *)

LEMMA UpTo == \A n \in Nat : IsFiniteSet(1..n) /\ Cardinality(1..n) = n
<1> SUFFICES ASSUME NEW n \in Nat PROVE IsFiniteSet(1..n) /\ Cardinality(1..n) = n
  OBVIOUS
<1>1. IsFiniteSet(1..n) /\ Cardinality(1..n) = IF 1 > n THEN 0 ELSE (n - 1) + 1
  BY FS_Interval
<1>2. (IF 1 > n THEN 0 ELSE (n - 1) + 1) = n
  OBVIOUS
<1> QED BY <1>1, <1>2

LEMMA FinishedFinite ==
    ASSUME NEW s \in Seq(Nat)
    PROVE  /\ Finished(s) \subseteq 1..Len(s) /\ IsFiniteSet(Finished(s))
           /\ Cardinality(Finished(s)) \in Nat /\ Cardinality(Finished(s)) <= Len(s)
<1>1. Len(s) \in Nat /\ DOMAIN s = 1..Len(s)
  OBVIOUS
<1>2. IsFiniteSet(1..Len(s)) /\ Cardinality(1..Len(s)) = Len(s)
  BY <1>1, UpTo
<1>3. Finished(s) \subseteq 1..Len(s)
  BY <1>1 DEF Finished
<1> QED BY <1>2, <1>3, FS_Subset, FS_CardinalityType

\* As many as F, but k further on.
Moved(F, k) == {k + i : i \in F}

LEMMA MovedCount ==
    ASSUME NEW k \in Nat, NEW n \in Nat, NEW F \in SUBSET (1..n)
    PROVE  /\ IsFiniteSet((1..k) \union Moved(F, k))
           /\ Cardinality((1..k) \union Moved(F, k)) = k + Cardinality(F)
           /\ Cardinality(F) \in Nat
<1>1. IsFiniteSet(1..k) /\ Cardinality(1..k) = k /\ IsFiniteSet(1..n)
  BY UpTo
<1>2. IsFiniteSet(F) /\ Cardinality(F) \in Nat
  BY <1>1, FS_Subset, FS_CardinalityType
<1>3. IsFiniteSet(Moved(F, k)) /\ Cardinality(Moved(F, k)) = Cardinality(F)
  <2> DEFINE f == [i \in F |-> k + i]
  <2>1. f \in [F -> Moved(F, k)] /\ \A y \in Moved(F, k) : \E i \in F : f[i] = y
    BY DEF Moved
  <2>2. \A i, j \in F : f[i] = f[j] => i = j
    <3>1. \A i \in F : i \in Nat
      OBVIOUS
    <3> QED BY <3>1
  <2>3. f \in Bijection(F, Moved(F, k))
    BY <2>1, <2>2 DEF Bijection, Injection, Surjection, IsInjective
  <2> QED BY <1>2, <2>3, FS_Bijection DEF ExistsBijection
<1>4. (1..k) \cap Moved(F, k) = {}
  BY DEF Moved
<1>5. Cardinality((1..k) \cap Moved(F, k)) = 0
  BY <1>4, FS_EmptySet
<1>6. /\ IsFiniteSet((1..k) \union Moved(F, k))
      /\ Cardinality((1..k) \union Moved(F, k)) =
            Cardinality(1..k) + Cardinality(Moved(F, k)) - Cardinality((1..k) \cap Moved(F, k))
  BY <1>1, <1>3, FS_Union
<1>7. k + Cardinality(F) - 0 = k + Cardinality(F)
  BY <1>2
<1> QED BY <1>1, <1>2, <1>3, <1>5, <1>6, <1>7

LEMMA Offset == \A a, b \in Nat : b <= a => a - b \in Nat /\ a - b + b = a
OBVIOUS

LEMMA TrimHarmless == RateInv => TrimIsHarmless
<1> SUFFICES ASSUME RateInv PROVE TrimIsHarmless
  OBVIOUS
<1> DEFINE times == message_send_times
           n == Len(times)
           m == Len(sent)
           k == m - n
           F == Finished(times)
           G == Finished(sent)
<1>1. /\ times \in Seq(Nat) /\ sent \in Seq(Nat) /\ n \in Nat /\ m \in Nat /\ n <= m
      /\ MaxWaiting \in Nat /\ TimePerMessage \in Nat /\ now \in Nat
      /\ DOMAIN times = 1..n /\ DOMAIN sent = 1..m
      /\ n < m => n = 2 * MaxWaiting
  BY RateAssumption DEF RateInv, TypeOK, Window, EndOf
<1>2. /\ F = {i \in 1..n : \A j \in 1..i : times[j] + TimePerMessage < now}
      /\ G = {i \in 1..m : \A j \in 1..i : sent[j] + TimePerMessage < now}
  BY <1>1 DEF Finished
<1>3. \A i \in 1..n : times[i] = sent[k + i]
  BY DEF RateInv, Window, EndOf
<1>4. \A i, j \in 1..m : i <= j => sent[i] <= sent[j]
  BY DEF RateInv, Ordered
<1>5. \A i \in 1..m : sent[i] \in Nat
  <2>1. \A s \in Seq(Nat) : \A i \in 1..Len(s) : s[i] \in Nat
    OBVIOUS
  <2> QED BY <1>1, <2>1
<1>6. /\ F \subseteq 1..n /\ Cardinality(F) \in Nat /\ Cardinality(F) <= n
      /\ G \subseteq 1..m /\ IsFiniteSet(G) /\ Cardinality(G) \in Nat /\ Cardinality(G) <= m
  BY <1>1, FinishedFinite
<1>7. TrimIsHarmless <=> (n - Cardinality(F) < MaxWaiting <=> m - Cardinality(G) < MaxWaiting)
  BY DEF TrimIsHarmless, not_busy, NotBusy
<1>8. k \in Nat /\ k + n = m
  BY <1>1, Offset
<1> HIDE DEF times, n, m, k, F, G
<1>9. /\ IsFiniteSet((1..k) \union Moved(F, k))
      /\ Cardinality((1..k) \union Moved(F, k)) = k + Cardinality(F)
  BY <1>1, <1>6, <1>8, MovedCount
<1>10. k > 0 => n = 2 * MaxWaiting
  BY <1>1, <1>8
<1>11. \A i \in 1..n : k + i \in 1..m
  BY <1>1, <1>8
\* what the history has finished is finished in the window, or older than it
<1>12. G \subseteq (1..k) \union Moved(F, k)
  <2> SUFFICES ASSUME NEW g \in G, g \notin 1..k PROVE g \in Moved(F, k)
    OBVIOUS
  <2>1. g \in 1..m /\ g - k \in 1..n /\ k + (g - k) = g
    BY <1>1, <1>6, <1>8
  <2>2. ASSUME NEW j \in 1..(g - k) PROVE times[j] + TimePerMessage < now
    <3>1. j \in 1..n /\ k + j \in 1..g
      BY <1>1, <1>8, <2>1
    <3>2. sent[k + j] + TimePerMessage < now
      BY <1>2, <3>1
    <3> QED BY <1>3, <3>1, <3>2
  <2>3. g - k \in F
    BY <1>2, <2>1, <2>2
  <2> QED BY <2>1, <2>3 DEF Moved
<1>13. Cardinality(G) <= k + Cardinality(F)
  BY <1>9, <1>12, FS_Subset
\* once something in the window is finished, all that is older is
<1>14. ASSUME F # {} PROVE Cardinality(G) = k + Cardinality(F)
  <2>1. PICK f \in F : TRUE
    BY <1>14
  <2>2. 1 \in 1..n /\ times[1] + TimePerMessage < now
    <3>1. f \in 1..n /\ 1 \in 1..f
      BY <1>1, <1>8, <1>6, <2>1
    <3>2. 1 \in 1..n
      BY <1>1, <1>8, <3>1
    <3> QED BY <1>2, <2>1, <3>1, <3>2
  <2>3. k + 1 \in 1..m /\ sent[k + 1] + TimePerMessage < now
    BY <1>3, <1>11, <2>2
  <2>4. ASSUME NEW i \in 1..(k + 1) PROVE sent[i] + TimePerMessage < now
    <3>1. i \in 1..m /\ i <= k + 1
      BY <1>1, <1>8, <2>3
    <3>2. sent[i] <= sent[k + 1]
      BY <1>4, <2>3, <3>1
    <3>3. sent[i] \in Nat /\ sent[k + 1] \in Nat
      BY <1>5, <2>3, <3>1
    <3> QED BY <1>1, <1>8, <2>3, <3>2, <3>3
  <2>5. ASSUME NEW i \in 1..k PROVE i \in G
    <3>1. i \in 1..m
      BY <1>1, <1>8
    <3>2. \A j \in 1..i : j \in 1..(k + 1)
      BY <1>1, <1>8
    <3> QED BY <1>2, <2>4, <3>1, <3>2
  <2>6. ASSUME NEW i \in F PROVE k + i \in G
    <3>1. i \in 1..n /\ k + i \in 1..m /\ \A j \in 1..i : times[j] + TimePerMessage < now
      BY <1>2, <1>11, <2>6
    <3>2. ASSUME NEW j \in 1..(k + i) PROVE sent[j] + TimePerMessage < now
      <4>1. CASE j <= k
        BY <1>1, <1>8, <2>4, <3>2, <4>1
      <4>2. CASE ~(j <= k)
        <5>1. j - k \in 1..i /\ j - k \in 1..n /\ k + (j - k) = j
          BY <1>1, <1>8, <3>1, <4>2
        <5>2. times[j - k] + TimePerMessage < now /\ times[j - k] = sent[k + (j - k)]
          BY <1>3, <3>1, <5>1
        <5> QED BY <5>1, <5>2
      <4> QED BY <4>1, <4>2
    <3> QED BY <1>2, <3>1, <3>2
  <2>7. G = (1..k) \union Moved(F, k)
    BY <1>12, <2>5, <2>6 DEF Moved
  <2> QED BY <1>9, <2>7
<1>15. CASE F # {}
  BY <1>1, <1>6, <1>7, <1>8, <1>14, <1>15
<1>16. CASE k = 0
  <2>1. n - Cardinality(F) <= m - Cardinality(G)
    BY <1>1, <1>6, <1>8, <1>13
  <2>2. F = {} => G = {}
    BY <1>12, <1>16 DEF Moved
  <2>3. CASE F = {}
    <3>1. Cardinality(F) = 0 /\ Cardinality(G) = 0
      BY <2>2, <2>3, FS_EmptySet
    <3> QED BY <1>1, <1>8, <1>7, <1>8, <1>16, <3>1
  <2> QED BY <1>15, <2>3
<1>17. CASE F = {} /\ k # 0
  <2>1. Cardinality(F) = 0 /\ n = 2 * MaxWaiting
    BY <1>8, <1>17, <1>10, FS_EmptySet
  <2>2. ~(n - Cardinality(F) < MaxWaiting)
    BY <1>1, <1>8, <2>1
  <2>3. m - Cardinality(G) >= n - Cardinality(F)
    BY <1>1, <1>6, <1>8, <1>13
  <2>4. ~(m - Cardinality(G) < MaxWaiting)
    BY <1>1, <1>8, <1>6, <2>2, <2>3
  <2> QED BY <1>7, <2>2, <2>4
<1> QED BY <1>15, <1>16, <1>17

\* Dropping send times (pool_connection.rs:73-81) never changes what not_busy() answers, for
\* any max_waiting_messages_per_connection and time_per_message and any number of JOINs.
THEOREM TrimIsHarmlessCorrect == Spec => []TrimIsHarmless
BY InitRate, StepRate, TrimHarmless, PTL DEF Spec
=============================================================================
