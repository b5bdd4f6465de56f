------------------------- MODULE MessageFlow_proofs -------------------------
(***************************************************************************)
(* Theorems about `IrcMessage` and `MessageFlow`: that a message a program *)
(* can build reads back as it was written, whatever its texts; and that    *)
(* what a server meant, or a client sent, arrives as it was meant at       *)
(* whoever reads it, over every transport, through every splitting of the  *)
(* bytes and however often a program sends it on; and what the typed       *)
(* messages read of it: when they are refused, when they panic, and what   *)
(* they make of its emotes.                                                *)
(*                                                                         *)
(* The library's induction theorems take an operator, so the inductions    *)
(* here take the SET of the numbers, sequences or finite sets that have a  *)
(* property, and rest on its least element.                                *)
(***************************************************************************)
EXTENDS MessageFlow, SequenceTheorems, FiniteSetTheorems, WellFoundedInduction, TLAPS

(***************************************************************************)
(* Induction over numbers, sequences and finite sets, with sets for        *)
(* properties                                                              *)
(***************************************************************************)

\* The order of the numbers is well-founded: what the library says of it,
\* without its operator.
LEMMA NatOrder == \E R : IsWellFoundedOn(R, Nat) /\ \A x, y \in Nat : x < y => <<x, y>> \in R
<1> DEFINE R == OpToRel(<, Nat)
<1>1. IsWellFoundedOn(R, Nat)
  BY NatLessThanWellFounded
<1>2. R = {ss \in Nat \X Nat : ss[1] < ss[2]}
  BY DEF OpToRel
<1>3. \A x, y \in Nat : x < y => <<x, y>> \in R
  BY <1>2
<1> QED BY <1>1, <1>3

\* Every nonempty set of numbers has a least one.
LEMMA LeastNumber ==
    ASSUME NEW T, T \subseteq Nat, T # {}
    PROVE  \E x \in T : \A y \in T : x <= y
<1>1. PICK R : IsWellFoundedOn(R, Nat) /\ \A x, y \in Nat : x < y => <<x, y>> \in R
  BY NatOrder
<1>2. PICK x \in T : \A y \in T : ~(<<y, x>> \in R)
  <2>1. IsWellFoundedOn(R, Nat)
    BY <1>1
  <2> QED BY ONLY <2>1, T \subseteq Nat, T # {}, WFMin, Zenon
<1>3. ASSUME NEW y \in T PROVE x <= y
  <2>1. x \in Nat /\ y \in Nat /\ ~(y < x)
    BY <1>1, <1>2
  <2> QED BY <2>1
<1> QED BY <1>3

\* A set that has 0 and with every number the next has every number.
LEMMA Induction ==
    ASSUME NEW S, 0 \in S, \A n \in Nat : n \in S => n + 1 \in S
    PROVE  \A n \in Nat : n \in S
<1> SUFFICES ASSUME NEW k \in Nat, k \notin S PROVE FALSE
  OBVIOUS
<1> DEFINE T == {n \in Nat : n \notin S}
<1>3. PICK x \in T : \A y \in T : x <= y
  <2>1. T \subseteq Nat /\ T # {}
    OBVIOUS
  <2> HIDE DEF T
  <2> QED BY <2>1, LeastNumber
<1>4. x # 0 /\ x - 1 \in Nat /\ x - 1 < x /\ x - 1 + 1 = x
  OBVIOUS
<1>5. x - 1 \notin T
  BY <1>3, <1>4
<1> QED BY <1>4, <1>5

\* The same for a range of numbers, from its end down.
LEMMA InductionDown ==
    ASSUME NEW n \in Nat, NEW S, n + 1 \in S, \A i \in 1..n : i + 1 \in S => i \in S
    PROVE  \A i \in 1..(n + 1) : i \in S
<1> DEFINE D == {k \in Nat : k <= n => n + 1 - k \in S}
<1>1. 0 \in D
  OBVIOUS
<1>2. \A k \in Nat : k \in D => k + 1 \in D
  <2> SUFFICES ASSUME NEW k \in Nat, k \in D, k + 1 <= n PROVE n + 1 - (k + 1) \in S
    OBVIOUS
  <2>1. n - k \in 1..n /\ n + 1 - k = (n - k) + 1 /\ n + 1 - (k + 1) = n - k
    OBVIOUS
  <2> QED BY <2>1
<1> HIDE DEF D
<1>3. \A k \in Nat : k \in D
  BY <1>1, <1>2, Induction
<1> USE DEF D
<1> SUFFICES ASSUME NEW i \in 1..(n + 1) PROVE i \in S
  OBVIOUS
<1>4. n + 1 - i \in Nat /\ n + 1 - i <= n /\ n + 1 - (n + 1 - i) = i
  OBVIOUS
<1>5. n + 1 - i \in D
  BY <1>3, <1>4
<1> QED BY <1>4, <1>5

\* A set of sequences that has the empty one and, with every one, those that put an
\* element in front, has all.
LEMMA SequenceInduction ==
    ASSUME NEW A, NEW S, << >> \in S,
           \A x \in A, s \in Seq(A) : s \in S => << x >> \o s \in S
    PROVE  Seq(A) \subseteq S
<1> DEFINE D == {n \in Nat : \A s \in Seq(A) : Len(s) = n => s \in S}
<1>1. 0 \in D
  BY EmptySeq
<1>2. \A n \in Nat : n \in D => n + 1 \in D
  <2> SUFFICES ASSUME NEW n \in Nat, n \in D, NEW s \in Seq(A), Len(s) = n + 1 PROVE s \in S
    OBVIOUS
  <2>1. s # << >> /\ Head(s) \in A /\ Tail(s) \in Seq(A) /\ Len(Tail(s)) = n
    OBVIOUS
  <2>2. s = << Head(s) >> \o Tail(s)
    BY <2>1
  <2> QED BY <2>1, <2>2
<1> HIDE DEF D
<1>3. \A n \in Nat : n \in D
  BY <1>1, <1>2, Induction
<1> USE DEF D
<1> QED BY <1>3

\* The same with an element at the end.
LEMMA SequenceInductionAtEnd ==
    ASSUME NEW A, NEW S, << >> \in S,
           \A x \in A, s \in Seq(A) : s \in S => Append(s, x) \in S
    PROVE  Seq(A) \subseteq S
<1> DEFINE D == {n \in Nat : \A s \in Seq(A) : Len(s) = n => s \in S}
<1>1. 0 \in D
  BY EmptySeq
<1>2. \A n \in Nat : n \in D => n + 1 \in D
  <2> SUFFICES ASSUME NEW n \in Nat, n \in D, NEW s \in Seq(A), Len(s) = n + 1 PROVE s \in S
    OBVIOUS
  <2>1. PICK t \in Seq(A), x \in A : s = Append(t, x)
    BY SequenceEmptyOrAppend
  <2>2. Len(t) = n
    BY <2>1
  <2> QED BY <2>1, <2>2
<1> HIDE DEF D
<1>3. \A n \in Nat : n \in D
  BY <1>1, <1>2, Induction
<1> USE DEF D
<1> QED BY <1>3

(***************************************************************************)
(* What the folds of the community modules compute. Their definition       *)
(* chooses a function on the subsets of the sequence's domain: there is    *)
(* one, and it goes from one end of the sequence to the other.             *)
(***************************************************************************)

\* The least number of a range, which `FoldFunction` takes first.
LEMMA MinOfRange ==
    ASSUME NEW i \in Nat, NEW n \in Nat, i <= n
    PROVE  Min(i..n) = i /\ (i..n) \ {i} = (i + 1)..n /\ i..n # {}
<1>1. i \in i..n /\ \A y \in i..n : i <= y
  OBVIOUS
<1>2. \A x \in i..n : (\A y \in i..n : x <= y) => x = i
  BY <1>1
<1>3. Min(i..n) = i
  BY <1>1, <1>2 DEF Min
<1> QED BY <1>3

\* A set of positions has a least one.
LEMMA MinIsLeast ==
    ASSUME NEW n \in Nat, NEW t \in SUBSET (1..n), t # {}
    PROVE  Min(t) \in t /\ \A y \in t : Min(t) <= y
<1> SUFFICES \E x \in t : \A y \in t : x <= y
  BY DEF Min
<1>1. t \subseteq Nat
  OBVIOUS
<1> QED BY <1>1, LeastNumber

\* ch takes an element of a set; G makes a result of an element and a result; f folds the
\* subsets of K.
TakesFrom(K, ch) == \A t \in SUBSET K : t # {} => ch[t] \in t

ResultsIn(K, V, G) == \A x \in K, v \in V : G[<<x, v>>] \in V

Folds(K, V, base, G, ch, f) ==
    /\ f \in [SUBSET K -> V]
    /\ \A t \in SUBSET K : f[t] = IF t = {} THEN base ELSE G[<<ch[t], f[t \ {ch[t]}]>>]

\* Whatever element is taken of a set next, and whatever is made of it and the result for
\* the rest, there is a function that does so for every subset of a finite set.
LEMMA FoldExists ==
    ASSUME NEW K, IsFiniteSet(K), NEW V, NEW base \in V,
           NEW G, ResultsIn(K, V, G), NEW ch, TakesFrom(K, ch)
    PROVE  \E f : Folds(K, V, base, G, ch, f)
<1> USE DEF TakesFrom, ResultsIn
<1> DEFINE UpTo(m) == {t \in SUBSET K : Cardinality(t) <= m}
           D == {m \in Nat : \E f \in [UpTo(m) -> V] :
                    \A t \in UpTo(m) : f[t] = IF t = {} THEN base ELSE G[<<ch[t], f[t \ {ch[t]}]>>]}
<1>1. ASSUME NEW t \in SUBSET K
      PROVE  /\ IsFiniteSet(t) /\ Cardinality(t) \in Nat
             /\ t # {} => ch[t] \in t /\ t \ {ch[t]} \in SUBSET K
                          /\ Cardinality(t \ {ch[t]}) = Cardinality(t) - 1
             /\ t = {} <=> Cardinality(t) = 0
  <2>1. IsFiniteSet(t) /\ Cardinality(t) \in Nat
    BY FS_Subset, FS_CardinalityType
  <2>2. t = {} <=> Cardinality(t) = 0
    BY <2>1, FS_EmptySet
  <2>3. t # {} => Cardinality(t \ {ch[t]}) = Cardinality(t) - 1
    BY <2>1, FS_RemoveElement
  <2> QED BY <2>1, <2>2, <2>3
<1>2. 0 \in D
  <2> DEFINE f == [t \in UpTo(0) |-> base]
  <2>1. ASSUME NEW t \in UpTo(0) PROVE t = {}
    <3>1. t \in SUBSET K /\ Cardinality(t) <= 0
      OBVIOUS
    <3>2. Cardinality(t) \in Nat /\ (t = {} <=> Cardinality(t) = 0)
      BY <1>1, <3>1
    <3> QED BY <3>1, <3>2
  <2>2. f \in [UpTo(0) -> V] /\ \A t \in UpTo(0) : f[t] = base
    OBVIOUS
  <2> QED BY <2>1, <2>2
<1>3. \A m \in Nat : m \in D => m + 1 \in D
  <2> SUFFICES ASSUME NEW m \in Nat, m \in D PROVE m + 1 \in D
    OBVIOUS
  <2>1. PICK f \in [UpTo(m) -> V] :
           \A t \in UpTo(m) : f[t] = IF t = {} THEN base ELSE G[<<ch[t], f[t \ {ch[t]}]>>]
    OBVIOUS
  <2> DEFINE g == [t \in UpTo(m + 1) |-> IF t \in UpTo(m) THEN f[t] ELSE G[<<ch[t], f[t \ {ch[t]}]>>]]
  <2>2. ASSUME NEW t \in UpTo(m + 1), t # {}
        PROVE  ch[t] \in K /\ t \ {ch[t]} \in UpTo(m)
    <3>1. t \in SUBSET K /\ Cardinality(t) \in Nat /\ Cardinality(t) <= m + 1
      BY <1>1
    <3>2. t \ {ch[t]} \in SUBSET K /\ Cardinality(t \ {ch[t]}) = Cardinality(t) - 1 /\ ch[t] \in t
      BY <1>1, <2>2, <3>1
    <3>3. Cardinality(t \ {ch[t]}) <= m
      BY <3>1, <3>2
    <3> QED BY <3>1, <3>2, <3>3
  <2>3. UpTo(m) \subseteq UpTo(m + 1) /\ {} \in UpTo(m)
    <3>1. ASSUME NEW t \in UpTo(m) PROVE t \in UpTo(m + 1)
      <4>1. t \in SUBSET K /\ Cardinality(t) \in Nat /\ Cardinality(t) <= m
        BY <1>1
      <4>2. Cardinality(t) <= m + 1
        BY <4>1
      <4> QED BY <4>1, <4>2
    <3>2. Cardinality({}) = 0 /\ {} \in SUBSET K
      BY <1>1
    <3> QED BY <3>1, <3>2
  <2>4. \A t \in UpTo(m) : g[t] = f[t]
    BY <2>3
  <2>5. \A t \in UpTo(m + 1) : t \notin UpTo(m) => g[t] = G[<<ch[t], f[t \ {ch[t]}]>>] /\ t # {}
    BY <2>3
  <2> DEFINE N == UpTo(m + 1)
             M == UpTo(m)
  <2>6. g \in [N -> V]
    <3>1. ASSUME NEW t \in N, t \notin M PROVE f[t \ {ch[t]}] \in V /\ ch[t] \in K
      BY <2>1, <2>2, <2>5, <3>1
    <3>2. \A t \in N : g[t] \in V
      BY <2>1, <2>4, <2>5, <3>1
    <3> QED BY <3>2
  <2> HIDE DEF g, N, M, UpTo
  <2>7. ASSUME NEW t \in N
        PROVE  g[t] = IF t = {} THEN base ELSE G[<<ch[t], g[t \ {ch[t]}]>>]
    <3>1. t # {} => g[t \ {ch[t]}] = f[t \ {ch[t]}]
      BY <2>2, <2>4 DEF N
    <3> QED BY <2>1, <2>4, <2>5, <3>1 DEF N
  <2>8. \E f2 \in [N -> V] : \A t \in N : f2[t] = IF t = {} THEN base ELSE G[<<ch[t], f2[t \ {ch[t]}]>>]
    BY <2>6, <2>7
  <2>9. m + 1 \in Nat
    OBVIOUS
  <2> QED BY <2>8, <2>9, Zenon DEF N
<1> HIDE DEF D
<1>4. Cardinality(K) \in Nat /\ Cardinality(K) \in D
  BY <1>2, <1>3, FS_CardinalityType, Induction
<1>5. UpTo(Cardinality(K)) = SUBSET K
  BY <1>1, FS_Subset
<1> QED BY <1>4, <1>5 DEF D, Folds

\* One more element in front moves the others by one.
LEMMA OneMore ==
    ASSUME NEW B, NEW x \in B, NEW s \in Seq(B)
    PROVE  /\ << x >> \o s \in Seq(B) /\ Len(<< x >> \o s) = Len(s) + 1 /\ (<< x >> \o s)[1] = x
           /\ \A i \in 1..Len(s) : (<< x >> \o s)[i + 1] = s[i]
OBVIOUS

(***************************************************************************)
(* Splitting a text                                                        *)
(***************************************************************************)

\* What one more character in front makes of the parts of a text.
SplitStep(c, x, parts) ==
    IF x = c THEN << << >> >> \o parts ELSE [parts EXCEPT ![1] = << x >> \o @]

Texts(A) == Seq(Seq(A)) \ {<< >>}

\* v is what x in front makes of the parts.
SteppedTo(c, x, parts, v) ==
    /\ x = c => /\ Len(v) = Len(parts) + 1 /\ v[1] = << >>
                /\ \A i \in 2..(Len(parts) + 1) : v[i] = parts[i - 1]
    /\ x # c => /\ Len(v) = Len(parts) /\ v[1] = << x >> \o parts[1]
                /\ \A i \in 2..Len(parts) : v[i] = parts[i]

\* One more character in front of a text that was split is a split text again.
LEMMA SplitStepType ==
    ASSUME NEW A, NEW c, NEW x \in A, NEW parts \in Texts(A)
    PROVE  SplitStep(c, x, parts) \in Texts(A) /\ SteppedTo(c, x, parts, SplitStep(c, x, parts))
<1>1. parts \in Seq(Seq(A)) /\ Len(parts) \in Nat \ {0} /\ 1 \in 1..Len(parts) /\ parts[1] \in Seq(A)
  BY DEF Texts
<1>2. CASE x = c
  <2> DEFINE e == << << >> >>
             p == e \o parts
  <2>1. e \in Seq(Seq(A)) /\ Len(e) = 1 /\ e[1] = << >>
    OBVIOUS
  <2> HIDE DEF e
  <2>2. /\ p \in Seq(Seq(A)) /\ Len(p) = 1 + Len(parts)
        /\ \A i \in 1..(1 + Len(parts)) : p[i] = IF i <= 1 THEN e[i] ELSE parts[i - 1]
    <3>1. /\ p \in Seq(Seq(A)) /\ Len(p) = Len(e) + Len(parts)
          /\ \A i \in 1..(Len(e) + Len(parts)) :
                p[i] = IF i <= Len(e) THEN e[i] ELSE parts[i - Len(e)]
      BY <1>1, <2>1, ConcatProperties, Zenon
    <3> HIDE DEF p
    <3> QED BY <1>1, <2>1, <3>1
  <2>3. p[1] = << >> /\ p # << >> /\ \A i \in 2..(Len(parts) + 1) : p[i] = parts[i - 1]
    BY <1>1, <2>1, <2>2
  <2>4. SplitStep(c, x, parts) = p
    BY <1>2 DEF SplitStep, e
  <2> HIDE DEF p
  <2> QED BY <1>2, <2>2, <2>3, <2>4 DEF Texts, SteppedTo
<1>3. CASE x # c
  <2> DEFINE w == << x >> \o parts[1]
             p == [parts EXCEPT ![1] = w]
  <2>1. w \in Seq(A)
    BY <1>1
  <2>2. SplitStep(c, x, parts) = p
    BY <1>3 DEF SplitStep
  <2> HIDE DEF w
  <2>3. p \in Seq(Seq(A)) /\ Len(p) = Len(parts) /\ \A j \in 1..Len(parts) : p[j] = IF j = 1 THEN w ELSE parts[j]
    BY <1>1, <2>1, ExceptSeq
  <2>4. p[1] = w /\ p # << >> /\ \A i \in 2..Len(parts) : p[i] = parts[i]
    BY <1>1, <2>3
  <2> HIDE DEF p
  <2> QED BY <1>3, <2>2, <2>3, <2>4 DEF Texts, SteppedTo, w
<1> QED BY <1>2, <1>3

\* r[i] is the split of what begins at i.
SplitsOf(A, s, c, r) ==
    /\ r \in [1..(Len(s) + 1) -> Texts(A)]
    /\ r[Len(s) + 1] = << << >> >>
    /\ \A i \in 1..Len(s) : r[i] = SplitStep(c, s[i], r[i + 1])

\* `Split` is the last of a trace with one step for each character, from the
\* right.
LEMMA SplitTrace ==
    ASSUME NEW A, NEW s \in Seq(A), NEW c
    PROVE  \E r : SplitsOf(A, s, c, r) /\ Split(s, c) = r[1]
<1> DEFINE n == Len(s)
           V == Texts(A)
           base == << << >> >>
           G == [p \in (1..n) \X V |-> SplitStep(c, s[p[1]], p[2])]
           ch == [t \in SUBSET (1..n) |-> Min(t)]
           it == CHOOSE f : f = [t \in SUBSET (DOMAIN s) |->
                                   IF t = {} THEN base
                                   ELSE SplitStep(c, s[Min(t)], f[t \ {Min(t)}])]
<1>1. Split(s, c) = it[DOMAIN s]
  BY DEF Split, FoldRight, MapThenFoldSet, SplitStep
<1>2. n \in Nat /\ DOMAIN s = 1..n /\ \A i \in 1..n : s[i] \in A
  OBVIOUS
<1>3. base \in V
  BY DEF Texts
<1>4. \A i \in 1..n, v \in V : G[<<i, v>>] = SplitStep(c, s[i], v) /\ G[<<i, v>>] \in V
  BY <1>2, SplitStepType
<1>5. \A t \in SUBSET (1..n) : t # {} => ch[t] = Min(t) /\ ch[t] \in t
  BY <1>2, MinIsLeast
<1> HIDE DEF n, V, base, G, ch
<1>6. PICK f : Folds(1..n, V, base, G, ch, f)
  <2> DEFINE K == 1..n
  <2>1. ResultsIn(K, V, G)
    BY <1>4 DEF ResultsIn
  <2>2. TakesFrom(K, ch)
    BY <1>5 DEF TakesFrom
  <2>3. IsFiniteSet(K)
    <3>1. 1 \in Int /\ n \in Int
      BY <1>2
    <3> QED BY <3>1, FS_Interval
  <2> HIDE DEF K
  <2> QED BY <1>3, <2>1, <2>2, <2>3, FoldExists DEF K
<1>7. f = [t \in SUBSET (DOMAIN s) |->
             IF t = {} THEN base ELSE SplitStep(c, s[Min(t)], f[t \ {Min(t)}])]
  <2>1. ASSUME NEW t \in SUBSET (1..n), t # {}
        PROVE  G[<<ch[t], f[t \ {ch[t]}]>>] = SplitStep(c, s[Min(t)], f[t \ {Min(t)}])
    <3>1. ch[t] = Min(t) /\ Min(t) \in 1..n
      BY <1>5, <2>1
    <3>2. f[t \ {Min(t)}] \in V
      BY <1>6 DEF Folds
    <3> QED BY <1>4, <3>1, <3>2
  <2> QED BY <1>2, <1>6, <2>1 DEF Folds
<1>8. it = [t \in SUBSET (DOMAIN s) |->
              IF t = {} THEN base ELSE SplitStep(c, s[Min(t)], it[t \ {Min(t)}])]
  BY <1>7, Zenon
<1> HIDE DEF it
<1> DEFINE r == [i \in 1..(n + 1) |-> it[i..n]]
<1>9. r[n + 1] = base /\ \A i \in 1..n : r[i] = SplitStep(c, s[i], r[i + 1])
  <2>1. (n + 1)..n = {} /\ {} \in SUBSET (DOMAIN s) /\ r[n + 1] = it[(n + 1)..n]
    BY <1>2
  <2>2. r[n + 1] = base
    BY <1>8, <2>1
  <2>3. ASSUME NEW i \in 1..n PROVE r[i] = SplitStep(c, s[i], r[i + 1])
    <3>1. r[i] = it[i..n] /\ r[i + 1] = it[(i + 1)..n] /\ i..n \in SUBSET (DOMAIN s)
      BY <1>2
    <3>2. Min(i..n) = i /\ (i..n) \ {i} = (i + 1)..n /\ i..n # {}
      <4>1. i \in Nat /\ i <= n
        BY <1>2
      <4> QED BY <1>2, <4>1, MinOfRange
    <3>3. it[i..n] = IF i..n = {} THEN base ELSE SplitStep(c, s[Min(i..n)], it[(i..n) \ {Min(i..n)}])
      BY <1>8, <3>1
    <3> QED BY <3>1, <3>2, <3>3
  <2> QED BY <2>2, <2>3
<1>10. r[1] = it[DOMAIN s]
  BY <1>2
<1> DEFINE T == {i \in 1..(n + 1) : r[i] \in V}
<1>11. n + 1 \in T /\ \A i \in 1..n : i + 1 \in T => i \in T
  <2>1. n + 1 \in 1..(n + 1) /\ \A i \in 1..n : i \in 1..(n + 1)
    BY <1>2
  <2>2. ASSUME NEW i \in 1..n, r[i + 1] \in V PROVE r[i] \in V
    <3>1. r[i] = SplitStep(c, s[i], r[i + 1]) /\ G[<<i, r[i + 1]>>] = SplitStep(c, s[i], r[i + 1])
          /\ G[<<i, r[i + 1]>>] \in V
      BY <1>4, <1>9, <2>2
    <3> QED BY <3>1
  <2> QED BY <1>3, <1>9, <2>1, <2>2
<1>12. r = [i \in 1..(n + 1) |-> r[i]]
  OBVIOUS
<1> HIDE DEF r
<1>13. \A i \in 1..(n + 1) : i \in T
  <2> HIDE DEF T
  <2> QED BY <1>2, <1>11, InductionDown
<1>14. r \in [1..(n + 1) -> V]
  BY <1>12, <1>13
<1> QED BY <1>1, <1>9, <1>10, <1>14 DEF SplitsOf, n, V, base

\* Splitting a text gives at least one text.
LEMMA SplitType ==
    ASSUME NEW A, NEW s \in Seq(A), NEW c
    PROVE  Split(s, c) \in Texts(A)
<1>1. PICK r : SplitsOf(A, s, c, r) /\ Split(s, c) = r[1]
  BY SplitTrace
<1>2. 1 \in 1..(Len(s) + 1)
  OBVIOUS
<1> QED BY <1>1, <1>2 DEF SplitsOf

\* The empty text has one part, which is empty.
LEMMA SplitEmpty == ASSUME NEW c PROVE Split(<< >>, c) = << << >> >>
<1>1. << >> \in Seq({}) /\ Len(<< >>) = 0
  OBVIOUS
<1>2. PICK r : SplitsOf({}, << >>, c, r) /\ Split(<< >>, c) = r[1]
  BY <1>1, SplitTrace
<1> QED BY <1>1, <1>2 DEF SplitsOf

\* The split of a text with one more character in front.
LEMMA SplitCons ==
    ASSUME NEW A, NEW s \in Seq(A), NEW c, NEW x \in A
    PROVE  Split(<< x >> \o s, c) = SplitStep(c, x, Split(s, c))
<1> DEFINE xs == << x >> \o s
           n == Len(s)
<1>1. xs \in Seq(A) /\ Len(xs) = n + 1 /\ xs[1] = x /\ n \in Nat /\ \A i \in 1..n : xs[i + 1] = s[i]
  <2>1. n \in Nat
    OBVIOUS
  <2> QED BY <2>1, OneMore
<1> HIDE DEF xs
<1>2. PICK r : SplitsOf(A, xs, c, r) /\ Split(xs, c) = r[1]
  BY <1>1, SplitTrace
<1>3. PICK q : SplitsOf(A, s, c, q) /\ Split(s, c) = q[1]
  BY SplitTrace
<1> DEFINE T == {i \in 1..(n + 1) : r[i + 1] = q[i]}
<1>4. n + 1 \in T
  <2>1. r[n + 1 + 1] = << << >> >>
    BY <1>1, <1>2 DEF SplitsOf
  <2>2. q[n + 1] = << << >> >>
    BY <1>1, <1>3 DEF SplitsOf
  <2>3. n + 1 \in 1..(n + 1)
    BY <1>1
  <2> QED BY <2>1, <2>2, <2>3
<1>5. \A i \in 1..n : i + 1 \in T => i \in T
  <2> SUFFICES ASSUME NEW i \in 1..n, r[i + 1 + 1] = q[i + 1] PROVE r[i + 1] = q[i]
    BY <1>1
  <2>1. i + 1 \in 1..Len(xs) /\ xs[i + 1] = s[i]
    BY <1>1
  <2> QED BY <1>2, <1>3, <2>1 DEF SplitsOf
<1>6. 1 \in T
  <2> HIDE DEF T
  <2> QED BY <1>1, <1>4, <1>5, InductionDown
<1>7. r[1] = SplitStep(c, x, r[2])
  <2>1. 1 \in 1..Len(xs) /\ 1 + 1 = 2
    BY <1>1
  <2> QED BY <1>1, <1>2, <2>1 DEF SplitsOf
<1> QED BY <1>2, <1>3, <1>6, <1>7 DEF xs

(***************************************************************************)
(* Joining texts                                                           *)
(***************************************************************************)

\* r[i] is what the texts from i on are joined to.
ConcatsOf(A, texts, r) ==
    /\ r \in [1..(Len(texts) + 1) -> Seq(A)]
    /\ r[Len(texts) + 1] = << >>
    /\ \A i \in 1..Len(texts) : r[i] = texts[i] \o r[i + 1]

\* `Concat` is the last of a trace with one step for each text, from the right.
LEMMA ConcatTrace ==
    ASSUME NEW A, NEW texts \in Seq(Seq(A))
    PROVE  \E r : ConcatsOf(A, texts, r) /\ Concat(texts) = r[1]
<1> DEFINE n == Len(texts)
           V == Seq(A)
           G == [p \in (1..n) \X V |-> texts[p[1]] \o p[2]]
           ch == [t \in SUBSET (1..n) |-> Min(t)]
           it == CHOOSE f : f = [t \in SUBSET (DOMAIN texts) |->
                                   IF t = {} THEN << >> ELSE texts[Min(t)] \o f[t \ {Min(t)}]]
<1>1. Concat(texts) = it[DOMAIN texts]
  BY DEF Concat, FoldRight, MapThenFoldSet
<1>2. n \in Nat /\ DOMAIN texts = 1..n /\ \A i \in 1..n : texts[i] \in V
  OBVIOUS
<1>3. << >> \in V
  OBVIOUS
<1>4. ASSUME NEW i \in 1..n, NEW v \in V
      PROVE  G[<<i, v>>] = texts[i] \o v /\ G[<<i, v>>] \in V
  <2>1. G[<<i, v>>] = texts[i] \o v
    OBVIOUS
  <2>2. texts[i] \in Seq(A) /\ v \in Seq(A)
    BY <1>2
  <2>3. texts[i] \o v \in Seq(A)
    BY <2>2
  <2> QED BY <2>1, <2>3
<1>5. \A t \in SUBSET (1..n) : t # {} => ch[t] = Min(t) /\ ch[t] \in t
  BY <1>2, MinIsLeast
<1> HIDE DEF n, V, G, ch
<1>6. PICK f : Folds(1..n, V, << >>, G, ch, f)
  <2> DEFINE K == 1..n
  <2>1. ResultsIn(K, V, G)
    BY <1>4 DEF ResultsIn
  <2>2. TakesFrom(K, ch)
    BY <1>5 DEF TakesFrom
  <2>3. IsFiniteSet(K)
    <3>1. 1 \in Int /\ n \in Int
      BY <1>2
    <3> QED BY <3>1, FS_Interval
  <2> HIDE DEF K
  <2> QED BY <1>3, <2>1, <2>2, <2>3, FoldExists DEF K
<1>7. f = [t \in SUBSET (DOMAIN texts) |->
             IF t = {} THEN << >> ELSE texts[Min(t)] \o f[t \ {Min(t)}]]
  <2>1. ASSUME NEW t \in SUBSET (1..n), t # {}
        PROVE  G[<<ch[t], f[t \ {ch[t]}]>>] = texts[Min(t)] \o f[t \ {Min(t)}]
    <3>1. ch[t] = Min(t) /\ Min(t) \in 1..n
      BY <1>5, <2>1
    <3>2. f[t \ {Min(t)}] \in V
      BY <1>6 DEF Folds
    <3> QED BY <1>4, <3>1, <3>2
  <2> QED BY <1>2, <1>6, <2>1 DEF Folds
<1>8. it = [t \in SUBSET (DOMAIN texts) |->
              IF t = {} THEN << >> ELSE texts[Min(t)] \o it[t \ {Min(t)}]]
  BY <1>7, Zenon
<1> HIDE DEF it
<1> DEFINE r == [i \in 1..(n + 1) |-> it[i..n]]
<1>9. r[n + 1] = << >> /\ \A i \in 1..n : r[i] = texts[i] \o r[i + 1]
  <2>1. (n + 1)..n = {} /\ {} \in SUBSET (DOMAIN texts) /\ r[n + 1] = it[(n + 1)..n]
    BY <1>2
  <2>2. r[n + 1] = << >>
    BY <1>8, <2>1
  <2>3. ASSUME NEW i \in 1..n PROVE r[i] = texts[i] \o r[i + 1]
    <3>1. r[i] = it[i..n] /\ r[i + 1] = it[(i + 1)..n] /\ i..n \in SUBSET (DOMAIN texts)
      BY <1>2
    <3>2. Min(i..n) = i /\ (i..n) \ {i} = (i + 1)..n /\ i..n # {}
      <4>1. i \in Nat /\ i <= n
        BY <1>2
      <4> QED BY <1>2, <4>1, MinOfRange
    <3>3. it[i..n] = IF i..n = {} THEN << >> ELSE texts[Min(i..n)] \o it[(i..n) \ {Min(i..n)}]
      BY <1>8, <3>1
    <3> QED BY <3>1, <3>2, <3>3
  <2> QED BY <2>2, <2>3
<1>10. r[1] = it[DOMAIN texts]
  BY <1>2
<1> DEFINE T == {i \in 1..(n + 1) : r[i] \in V}
<1>11. n + 1 \in T /\ \A i \in 1..n : i + 1 \in T => i \in T
  <2>1. n + 1 \in 1..(n + 1) /\ \A i \in 1..n : i \in 1..(n + 1)
    BY <1>2
  <2>2. ASSUME NEW i \in 1..n, r[i + 1] \in V PROVE r[i] \in V
    <3>1. /\ r[i] = texts[i] \o r[i + 1] /\ G[<<i, r[i + 1]>>] = texts[i] \o r[i + 1]
          /\ G[<<i, r[i + 1]>>] \in V
      BY <1>4, <1>9, <2>2
    <3> QED BY <3>1
  <2> QED BY <1>3, <1>9, <2>1, <2>2
<1>12. r = [i \in 1..(n + 1) |-> r[i]]
  OBVIOUS
<1> HIDE DEF r
<1>13. \A i \in 1..(n + 1) : i \in T
  <2> HIDE DEF T
  <2> QED BY <1>2, <1>11, InductionDown
<1>14. r \in [1..(n + 1) -> V]
  BY <1>12, <1>13
<1> QED BY <1>1, <1>9, <1>10, <1>14 DEF ConcatsOf, n, V

\* Texts put together are a text.
LEMMA ConcatType ==
    ASSUME NEW A, NEW texts \in Seq(Seq(A))
    PROVE  Concat(texts) \in Seq(A)
<1>1. PICK r : ConcatsOf(A, texts, r) /\ Concat(texts) = r[1]
  BY ConcatTrace
<1>2. 1 \in 1..(Len(texts) + 1)
  OBVIOUS
<1> QED BY <1>1, <1>2 DEF ConcatsOf

\* No texts make the empty text.
LEMMA ConcatNone == Concat(<< >>) = << >>
<1>1. << >> \in Seq(Seq({})) /\ Len(<< >>) = 0
  OBVIOUS
<1>2. PICK r : ConcatsOf({}, << >>, r) /\ Concat(<< >>) = r[1]
  BY <1>1, ConcatTrace
<1> QED BY <1>1, <1>2 DEF ConcatsOf

\* The first text comes first.
LEMMA ConcatCons ==
    ASSUME NEW A, NEW texts \in Seq(Seq(A)), NEW t \in Seq(A)
    PROVE  Concat(<< t >> \o texts) = t \o Concat(texts)
<1> DEFINE xs == << t >> \o texts
           n == Len(texts)
<1>1. xs \in Seq(Seq(A)) /\ Len(xs) = n + 1 /\ xs[1] = t /\ n \in Nat /\ \A i \in 1..n : xs[i + 1] = texts[i]
  OBVIOUS
<1> HIDE DEF xs
<1>2. PICK r : ConcatsOf(A, xs, r) /\ Concat(xs) = r[1]
  BY <1>1, ConcatTrace
<1>3. PICK q : ConcatsOf(A, texts, q) /\ Concat(texts) = q[1]
  BY ConcatTrace
<1> DEFINE T == {i \in 1..(n + 1) : r[i + 1] = q[i]}
<1>4. n + 1 \in T
  BY <1>1, <1>2, <1>3 DEF ConcatsOf
<1>5. \A i \in 1..n : i + 1 \in T => i \in T
  <2> SUFFICES ASSUME NEW i \in 1..n, r[i + 1 + 1] = q[i + 1] PROVE r[i + 1] = q[i]
    BY <1>1
  <2>1. i + 1 \in 1..Len(xs) /\ xs[i + 1] = texts[i]
    BY <1>1
  <2> QED BY <1>2, <1>3, <2>1 DEF ConcatsOf
<1>6. r[2] = q[1]
  <2> HIDE DEF T
  <2>1. \A i \in 1..(n + 1) : i \in T
    BY <1>1, <1>4, <1>5, InductionDown
  <2>2. 1 \in T
    BY <1>1, <2>1
  <2> QED BY <2>2 DEF T
<1>7. r[1] = t \o r[2]
  <2>1. 1 \in 1..Len(xs) /\ 1 + 1 = 2
    BY <1>1
  <2> QED BY <1>1, <1>2, <2>1 DEF ConcatsOf
<1> QED BY <1>2, <1>3, <1>6, <1>7 DEF xs

\* Texts joined one after the other are joined as a whole.
LEMMA ConcatAppend ==
    ASSUME NEW A, NEW texts \in Seq(Seq(A)), NEW t \in Seq(A)
    PROVE  Concat(Append(texts, t)) = Concat(texts) \o t
<1> DEFINE S == {ts \in Seq(Seq(A)) : Concat(Append(ts, t)) = Concat(ts) \o t}
<1>1. << >> \in S
  <2>1. Append(<< >>, t) = << t >> \o << >> /\ << >> \in Seq(Seq(A))
    OBVIOUS
  <2>2. Concat(Append(<< >>, t)) = t \o << >>
    BY <2>1, ConcatCons, ConcatNone
  <2> QED BY <2>1, <2>2, ConcatNone
<1>2. ASSUME NEW x \in Seq(A), NEW ts \in Seq(Seq(A)), ts \in S PROVE << x >> \o ts \in S
  <2>1. Append(<< x >> \o ts, t) = << x >> \o Append(ts, t)
    OBVIOUS
  <2>2. Append(ts, t) \in Seq(Seq(A)) /\ << x >> \o ts \in Seq(Seq(A))
    OBVIOUS
  <2>3. Concat(Append(<< x >> \o ts, t)) = x \o (Concat(ts) \o t)
    BY <1>2, <2>1, <2>2, ConcatCons
  <2>4. Concat(<< x >> \o ts) \o t = (x \o Concat(ts)) \o t
    BY ConcatCons
  <2>5. (x \o Concat(ts)) \o t = x \o (Concat(ts) \o t)
    <3>1. Concat(ts) \in Seq(A)
      BY ConcatType
    <3> HIDE DEF S
    <3> QED BY <3>1, ConcatAssociative
  <2> QED BY <2>2, <2>3, <2>4, <2>5
<1> HIDE DEF S
<1>3. Seq(Seq(A)) \subseteq S
  BY <1>1, <1>2, SequenceInduction
<1> QED BY <1>3 DEF S

(***************************************************************************)
(* The characters of a text, and cutting it                                *)
(***************************************************************************)

\* The characters of a text are those at its positions.
LEMMA CharactersOf ==
    ASSUME NEW A, NEW s \in Seq(A)
    PROVE  /\ ToSet(s) \subseteq A
           /\ \A x : x \in ToSet(s) <=> \E i \in 1..Len(s) : s[i] = x
BY DEF ToSet

\* The empty text has no characters.
LEMMA NoCharacters == ToSet(<< >>) = {}
BY DEF ToSet

\* Two texts one after the other have the characters of both.
LEMMA JoinedCharacters ==
    ASSUME NEW A, NEW s \in Seq(A), NEW t \in Seq(A)
    PROVE  s \o t \in Seq(A) /\ ToSet(s \o t) = ToSet(s) \cup ToSet(t)
<1> DEFINE q == s \o t
<1>1. q \in Seq(A) /\ Len(q) = Len(s) + Len(t) /\ Len(s) \in Nat /\ Len(t) \in Nat
  OBVIOUS
<1>2. /\ \A i \in 1..Len(s) : i \in 1..Len(q) /\ q[i] = s[i]
      /\ \A i \in 1..Len(t) : Len(s) + i \in 1..Len(q) /\ q[Len(s) + i] = t[i]
      /\ \A i \in 1..Len(q) : IF i <= Len(s) THEN i \in 1..Len(s) /\ q[i] = s[i]
                              ELSE i - Len(s) \in 1..Len(t) /\ q[i] = t[i - Len(s)]
  BY <1>1
<1> HIDE DEF q
<1>3. ASSUME NEW x PROVE x \in ToSet(q) <=> x \in ToSet(s) \/ x \in ToSet(t)
  <2>1. /\ x \in ToSet(s) <=> \E i \in 1..Len(s) : s[i] = x
        /\ x \in ToSet(t) <=> \E i \in 1..Len(t) : t[i] = x
        /\ x \in ToSet(q) <=> \E i \in 1..Len(q) : q[i] = x
    BY <1>1, CharactersOf
  <2>2. ASSUME x \in ToSet(q) PROVE x \in ToSet(s) \/ x \in ToSet(t)
    <3>1. PICK i \in 1..Len(q) : q[i] = x
      BY <2>1, <2>2
    <3> QED BY <1>2, <2>1, <3>1
  <2>3. ASSUME x \in ToSet(s) PROVE x \in ToSet(q)
    BY <1>2, <2>1, <2>3
  <2>4. ASSUME x \in ToSet(t) PROVE x \in ToSet(q)
    <3>1. PICK i \in 1..Len(t) : t[i] = x
      BY <2>1, <2>4
    <3> QED BY <1>2, <2>1, <3>1
  <2> QED BY <2>2, <2>3, <2>4
<1> QED BY <1>1, <1>3 DEF q

\* A character by itself is a text.
LEMMA OneCharacter ==
    ASSUME NEW A, NEW x \in A
    PROVE  << x >> \in Seq(A) /\ ToSet(<< x >>) = {x} /\ Len(<< x >>) = 1
<1> DEFINE e == << x >>
<1>1. e \in Seq(A) /\ Len(e) = 1 /\ e[1] = x
  OBVIOUS
<1> HIDE DEF e
<1>2. \A y : y \in ToSet(e) <=> y = x
  BY <1>1, CharactersOf
<1> QED BY <1>1, <1>2 DEF e

\* A character in front of a text: what is first and what is behind it.
LEMMA FirstAndRest ==
    ASSUME NEW A, NEW s \in Seq(A), NEW x \in A
    PROVE  /\ << x >> \o s \in Seq(A) /\ ToSet(<< x >> \o s) = {x} \cup ToSet(s)
           /\ << x >> \o s # << >> /\ Head(<< x >> \o s) = x /\ Tail(<< x >> \o s) = s
           /\ Len(<< x >> \o s) = Len(s) + 1
<1>1. << x >> \o s \in Seq(A) /\ ToSet(<< x >> \o s) = {x} \cup ToSet(s)
  <2> DEFINE e == << x >>
  <2>1. e \in Seq(A) /\ ToSet(e) = {x}
    BY OneCharacter
  <2> HIDE DEF e
  <2>2. e \o s \in Seq(A) /\ ToSet(e \o s) = {x} \cup ToSet(s)
    BY <2>1, JoinedCharacters
  <2> QED BY <2>2 DEF e
<1>2. Len(<< x >> \o s) = Len(s) + 1 /\ << x >> \o s # << >> /\ Head(<< x >> \o s) = x
  OBVIOUS
<1>3. Tail(<< x >> \o s) = s
  OBVIOUS
<1> QED BY <1>1, <1>2, <1>3

\* Where the characters are when a text is put between two others.
LEMMA PartsAround ==
    ASSUME NEW A, NEW p \in Seq(A), NEW s \in Seq(A), NEW c \in A
    PROVE  LET q == p \o (<< c >> \o s)
           IN  /\ q \in Seq(A) /\ Len(q) = Len(p) + 1 + Len(s) /\ Len(p) \in Nat /\ Len(s) \in Nat
               /\ \A i \in 1..Len(p) : q[i] = p[i]
               /\ q[Len(p) + 1] = c
               /\ \A i \in 1..Len(s) : q[Len(p) + 1 + i] = s[i]
OBVIOUS

\* The first of the indices in I, as SelectInSeq gives it.
LEMMA FirstIndex ==
    ASSUME NEW n \in Nat, NEW I \in SUBSET (1..n)
    PROVE  IF I # {} THEN Min(I) \in I /\ \A j \in I : Min(I) <= j ELSE \A i \in 1..n : i \notin I
BY MinIsLeast

\* `split_once` leaves a text alone that does not have the character.
LEMMA CutNone ==
    ASSUME NEW A, NEW s \in Seq(A), NEW c, c \notin ToSet(s)
    PROVE  Cut(s, c) = << s >>
<1>1. {i \in 1..Len(s) : s[i] = c} = {}
  BY CharactersOf
<1> QED BY <1>1 DEF Cut, SelectInSeq

\* `split_once` cuts at the first place of the character, and only there.
LEMMA CutAtFirst ==
    ASSUME NEW A, NEW p \in Seq(A), NEW s \in Seq(A), NEW c \in A, c \notin ToSet(p)
    PROVE  Cut(p \o (<< c >> \o s), c) = << p, s >>
<1> DEFINE q == p \o (<< c >> \o s)
           I == {i \in 1..Len(q) : q[i] = c}
           m == Len(p) + 1
<1>1. q \in Seq(A) /\ Len(q) = Len(p) + 1 + Len(s) /\ Len(p) \in Nat /\ Len(s) \in Nat
  BY PartsAround
<1>2. /\ \A i \in 1..Len(p) : q[i] = p[i]
      /\ q[m] = c
      /\ \A i \in 1..Len(s) : q[m + i] = s[i]
  BY PartsAround
<1> HIDE DEF q
<1>3. m \in I /\ \A i \in I : m <= i
  <2>1. m \in I
    BY <1>1, <1>2
  <2>2. ASSUME NEW i \in I PROVE m <= i
    <3>1. \A j \in 1..Len(p) : p[j] # c
      BY CharactersOf
    <3>2. i \in 1..Len(q) /\ q[i] = c
      OBVIOUS
    <3>3. i \notin 1..Len(p)
      BY <1>2, <3>1, <3>2
    <3> QED BY <1>1, <3>2, <3>3
  <2> QED BY <2>1, <2>2
<1>4. I # {} /\ Min(I) = m
  <2>1. \A x \in I : x \in Nat
    BY <1>1
  <2>2. \A x \in I : (\A y \in I : x <= y) => x = m
    BY <1>1, <1>3, <2>1
  <2> HIDE DEF I, m
  <2> QED BY <1>3, <2>2 DEF Min
<1>5. Cut(q, c) = << SubSeq(q, 1, m - 1), SubSeq(q, m + 1, Len(q)) >>
  <2>1. SelectInSeq(q, LAMBDA x : x = c) = m
    <3> HIDE DEF m
    <3> QED BY <1>4 DEF SelectInSeq
  <2>2. m # 0
    BY <1>1
  <2> QED BY <2>1, <2>2 DEF Cut
<1>6. SubSeq(q, 1, m - 1) = p
  <2> DEFINE u == SubSeq(q, 1, Len(p))
  <2>1. m - 1 = Len(p)
    BY <1>1
  <2>2. u \in Seq(A) /\ Len(u) = Len(p) /\ \A i \in 1..Len(p) : u[i] = q[i]
    BY <1>1
  <2> HIDE DEF u
  <2>3. u = p
    BY <1>2, <2>2, SeqEqual
  <2> QED BY <2>1, <2>3 DEF u
<1>7. SubSeq(q, m + 1, Len(q)) = s
  <2> DEFINE u == SubSeq(q, m + 1, Len(q))
  <2>1. u \in Seq(A) /\ Len(u) = Len(s) /\ \A i \in 1..Len(s) : u[i] = q[m + i]
    BY <1>1
  <2> HIDE DEF u
  <2>2. u = s
    BY <1>2, <2>1, SeqEqual
  <2> QED BY <2>2 DEF u
<1> QED BY <1>5, <1>6, <1>7 DEF q

\* The two cases of a cut.
CutsInto(A, s, c, p, r) ==
    /\ p \in Seq(A) /\ r \in Seq(A) /\ c \in A
    /\ s = p \o (<< c >> \o r) /\ c \notin ToSet(p)
    /\ Cut(s, c) = << p, r >>

\* A text is cut at the first c, or has none.
LEMMA CutCases ==
    ASSUME NEW A, NEW s \in Seq(A), NEW c
    PROVE  \/ c \notin ToSet(s) /\ Cut(s, c) = << s >>
           \/ \E p, r : CutsInto(A, s, c, p, r)
<1>1. CASE c \notin ToSet(s)
  BY <1>1, CutNone
<1>2. CASE c \in ToSet(s)
  <2> DEFINE I == {i \in 1..Len(s) : s[i] = c}
  <2>1. I # {} /\ I \in SUBSET (1..Len(s)) /\ Len(s) \in Nat
    BY <1>2, CharactersOf
  <2>2. PICK m : m = Min(I)
    OBVIOUS
  <2>3. m \in 1..Len(s) /\ s[m] = c /\ \A i \in I : m <= i
    BY <2>1, <2>2, MinIsLeast
  <2> DEFINE p == SubSeq(s, 1, m - 1)
             r == SubSeq(s, m + 1, Len(s))
  <2>4. p \in Seq(A) /\ Len(p) = m - 1 /\ (\A i \in 1..(m - 1) : p[i] = s[i])
    BY <2>1, <2>3
  <2>5. r \in Seq(A) /\ Len(r) = Len(s) - m /\ (\A i \in 1..(Len(s) - m) : r[i] = s[m + i])
    BY <2>1, <2>3
  <2>6. c \in A
    BY <2>1, <2>3
  <2>7. c \notin ToSet(p)
    <3>1. \A i \in 1..(m - 1) : i \notin I /\ i \in 1..Len(s)
      BY <2>1, <2>3
    <3>2. \A i \in 1..(m - 1) : p[i] # c
      BY <2>4, <3>1
    <3> HIDE DEF p, I
    <3>3. Len(p) = m - 1 /\ p \in Seq(A)
      BY <2>4
    <3> QED BY <3>2, <3>3, CharactersOf
  <2> HIDE DEF p, r
  <2>8. s = p \o (<< c >> \o r)
    <3> DEFINE q == p \o (<< c >> \o r)
    <3>0. p \in Seq(A) /\ r \in Seq(A) /\ c \in A
      BY <2>4, <2>5, <2>6
    <3>1. q \in Seq(A) /\ Len(q) = Len(p) + 1 + Len(r) /\ Len(p) \in Nat /\ Len(r) \in Nat
      BY ONLY <3>0, PartsAround
    <3>2. /\ \A i \in 1..Len(p) : q[i] = p[i]
          /\ q[Len(p) + 1] = c
          /\ \A i \in 1..Len(r) : q[Len(p) + 1 + i] = r[i]
      BY ONLY <3>0, PartsAround
    <3>3. ASSUME NEW i \in 1..Len(s) PROVE s[i] = q[i]
      <4>1. i \in 1..(m - 1) \/ i = m \/ i - m \in 1..(Len(s) - m)
        BY <2>1, <2>3
      <4> HIDE DEF q
      <4>2. CASE i \in 1..(m - 1)
        BY <2>3, <2>4, <3>2, <4>2
      <4>3. CASE i = m
        BY <2>3, <2>4, <3>2, <4>3
      <4>4. CASE i - m \in 1..(Len(s) - m)
        <5>1. PICK j : j = i - m
          OBVIOUS
        <5>2. j \in 1..Len(r) /\ m + j = i
          BY <2>1, <2>3, <2>5, <4>4, <5>1
        <5>3. Len(p) + 1 + j = i /\ q[Len(p) + 1 + j] = r[j] /\ r[j] = s[m + j]
          BY <2>3, <2>4, <2>5, <3>2, <5>2
        <5> QED BY <5>2, <5>3
      <4> QED BY <4>1, <4>2, <4>3, <4>4
    <3> HIDE DEF q
    <3>4. Len(q) = Len(s)
      BY <2>1, <2>3, <2>4, <2>5, <3>1
    <3> QED BY <3>1, <3>3, <3>4, SeqEqual DEF q
  <2>9. Cut(s, c) = << p, r >>
    <3>1. Cut(p \o (<< c >> \o r), c) = << p, r >>
      BY <2>4, <2>5, <2>6, <2>7, CutAtFirst
    <3> QED BY <2>8, <3>1
  <2>10. CutsInto(A, s, c, p, r)
    BY <2>4, <2>5, <2>6, <2>7, <2>8, <2>9 DEF CutsInto
  <2> QED BY <2>10
<1> QED BY <1>1, <1>2

(***************************************************************************)
(* What splitting gives                                                    *)
(***************************************************************************)

\* A text without the character is its only part.
LEMMA SplitNone ==
    ASSUME NEW A, NEW c, NEW s \in Seq(A), c \notin ToSet(s)
    PROVE  Split(s, c) = << s >>
<1> DEFINE S == {p \in Seq(A) : c \notin ToSet(p) => Split(p, c) = << p >>}
<1>1. << >> \in S
  BY SplitEmpty
<1>2. ASSUME NEW x \in A, NEW p \in Seq(A), p \in S PROVE << x >> \o p \in S
  <2> SUFFICES ASSUME c \notin ToSet(<< x >> \o p) PROVE Split(<< x >> \o p, c) = << << x >> \o p >>
    BY FirstAndRest
  <2>1. x # c /\ c \notin ToSet(p)
    BY FirstAndRest
  <2>2. Split(p, c) = << p >>
    BY <1>2, <2>1
  <2>3. Split(<< x >> \o p, c) = SplitStep(c, x, << p >>)
    BY <2>2, SplitCons
  <2>4. SplitStep(c, x, << p >>) = << << x >> \o p >>
    <3> DEFINE w == << x >> \o p
    <3>1. SplitStep(c, x, << p >>) = [<< p >> EXCEPT ![1] = w]
      BY <2>1 DEF SplitStep
    <3> HIDE DEF w
    <3>2. [<< p >> EXCEPT ![1] = w] = << w >>
      OBVIOUS
    <3> QED BY <3>1, <3>2 DEF w
  <2> QED BY <2>3, <2>4
<1> HIDE DEF S
<1>3. Seq(A) \subseteq S
  BY <1>1, <1>2, SequenceInduction
<1> QED BY <1>3 DEF S

\* The part up to the first place of the character comes first, and the rest is
\* split on.
LEMMA SplitAtFirst ==
    ASSUME NEW A, NEW c \in A, NEW p \in Seq(A), NEW s \in Seq(A), c \notin ToSet(p)
    PROVE  Split(p \o (<< c >> \o s), c) = << p >> \o Split(s, c)
<1> DEFINE rest == << c >> \o s
           S == {u \in Seq(A) : c \notin ToSet(u) => Split(u \o rest, c) = << u >> \o Split(s, c)}
<1>1. rest \in Seq(A) /\ Split(rest, c) = << << >> >> \o Split(s, c)
  <2>1. rest \in Seq(A)
    BY FirstAndRest
  <2>2. Split(rest, c) = SplitStep(c, c, Split(s, c))
    BY SplitCons
  <2> QED BY <2>1, <2>2 DEF SplitStep
<1>2. Split(s, c) \in Seq(Seq(A))
  BY SplitType DEF Texts
<1> HIDE DEF rest
<1>3. << >> \in S
  BY <1>1, ConcatEmptySeq
<1>4. ASSUME NEW x \in A, NEW u \in Seq(A), u \in S PROVE << x >> \o u \in S
  <2> SUFFICES ASSUME c \notin ToSet(<< x >> \o u)
               PROVE  Split((<< x >> \o u) \o rest, c) = << << x >> \o u >> \o Split(s, c)
    BY FirstAndRest
  <2>1. x # c /\ c \notin ToSet(u)
    BY FirstAndRest
  <2> DEFINE q == << u >> \o Split(s, c)
  <2>2. Split(u \o rest, c) = q
    BY <1>4, <2>1
  <2>3. u \o rest \in Seq(A) /\ (<< x >> \o u) \o rest = << x >> \o (u \o rest)
    <3>1. << x >> \in Seq(A)
      OBVIOUS
    <3> QED BY <1>1, <3>1, ConcatAssociative
  <2>4. Split((<< x >> \o u) \o rest, c) = SplitStep(c, x, q)
    <3>1. Split(<< x >> \o (u \o rest), c) = SplitStep(c, x, Split(u \o rest, c))
      BY <2>3, SplitCons
    <3> HIDE DEF q
    <3> QED BY <2>2, <2>3, <3>1
  <2>5. SplitStep(c, x, q) = [q EXCEPT ![1] = << x >> \o @]
    BY <2>1 DEF SplitStep
  <2> DEFINE w == << x >> \o u
             v == << w >> \o Split(s, c)
  <2>6. w \in Seq(A)
    BY FirstAndRest
  <2> HIDE DEF w
  <2>7. /\ q \in Seq(Seq(A)) /\ v \in Seq(Seq(A)) /\ Len(q) = Len(v) /\ Len(q) \in Nat \ {0}
        /\ q[1] = u /\ v[1] = w /\ \A i \in 2..Len(q) : q[i] = v[i]
    BY <1>2, <2>6
  <2> HIDE DEF q, v
  <2>8. [q EXCEPT ![1] = w] = v
    <3> DEFINE z == [q EXCEPT ![1] = w]
    <3>1. 1 \in 1..Len(q)
      BY <2>7
    <3>2. z \in Seq(Seq(A)) /\ Len(z) = Len(q) /\ \A j \in 1..Len(q) : z[j] = IF j = 1 THEN w ELSE q[j]
      BY <2>6, <2>7, <3>1, ExceptSeq
    <3> HIDE DEF z
    <3>3. \A j \in 1..Len(z) : z[j] = v[j]
      BY <2>7, <3>2
    <3>4. z \in Seq(Seq(A)) /\ v \in Seq(Seq(A)) /\ Len(z) = Len(v)
      BY <2>7, <3>2
    <3>5. z = v
      BY ONLY <3>3, <3>4, SeqEqual
    <3> QED BY <3>5 DEF z
  <2> QED BY <2>4, <2>5, <2>7, <2>8 DEF v, w
<1> HIDE DEF S
<1>5. Seq(A) \subseteq S
  BY <1>3, <1>4, SequenceInduction
<1> QED BY <1>5 DEF S, rest

\* The parts are free of the character at which they are split and have no characters
\* that the text does not have.
LEMMA SplitParts ==
    ASSUME NEW A, NEW c, NEW s \in Seq(A)
    PROVE  /\ Split(s, c) \in Seq(Seq(A)) /\ Split(s, c) # << >>
           /\ \A i \in 1..Len(Split(s, c)) :
                 c \notin ToSet(Split(s, c)[i]) /\ ToSet(Split(s, c)[i]) \subseteq ToSet(s)
<1> DEFINE Fine(u) == \A i \in 1..Len(Split(u, c)) :
                         c \notin ToSet(Split(u, c)[i]) /\ ToSet(Split(u, c)[i]) \subseteq ToSet(u)
           S == {u \in Seq(A) : Fine(u)}
<1>1. << >> \in S
  BY SplitEmpty, NoCharacters
<1>2. ASSUME NEW x \in A, NEW u \in Seq(A), u \in S PROVE << x >> \o u \in S
  <2> DEFINE q == Split(u, c)
             v == SplitStep(c, x, q)
  <2>1. q \in Texts(A) /\ Len(q) \in Nat \ {0} /\ q[1] \in Seq(A) /\ 1 \in 1..Len(q)
    BY SplitType DEF Texts
  <2>2. Split(<< x >> \o u, c) = v
    BY SplitCons
  <2>3. << x >> \o u \in Seq(A) /\ ToSet(<< x >> \o u) = {x} \cup ToSet(u)
    BY FirstAndRest
  <2>4. \A i \in 1..Len(q) : c \notin ToSet(q[i]) /\ ToSet(q[i]) \subseteq ToSet(u)
    BY <1>2
  <2>5. /\ x = c => /\ Len(v) = Len(q) + 1 /\ v[1] = << >>
                    /\ \A i \in 2..(Len(q) + 1) : v[i] = q[i - 1]
        /\ x # c => /\ Len(v) = Len(q) /\ v[1] = << x >> \o q[1]
                    /\ \A i \in 2..Len(q) : v[i] = q[i]
    <3>1. q \in Texts(A)
      BY <2>1
    <3> HIDE DEF q
    <3>2. SteppedTo(c, x, q, SplitStep(c, x, q))
      BY <3>1, SplitStepType
    <3>3. SteppedTo(c, x, q, v)
      BY <3>2
    <3> HIDE DEF v
    <3> QED BY <3>3 DEF SteppedTo
  <2> HIDE DEF q, v
  <2>6. ASSUME NEW i \in 1..Len(v)
        PROVE  c \notin ToSet(v[i]) /\ ToSet(v[i]) \subseteq {x} \cup ToSet(u)
    <3>1. CASE x = c
      <4>1. i = 1 => v[i] = << >>
        BY <2>5, <3>1
      <4>2. i # 1 => i - 1 \in 1..Len(q) /\ v[i] = q[i - 1]
        BY <2>1, <2>5, <3>1
      <4> QED BY <2>4, <4>1, <4>2, NoCharacters
    <3>2. CASE x # c
      <4>1. i = 1 => ToSet(v[i]) = {x} \cup ToSet(q[1])
        BY <2>1, <2>5, <3>2, FirstAndRest
      <4>2. i # 1 => i \in 1..Len(q) /\ v[i] = q[i]
        BY <2>1, <2>5, <3>2
      <4> QED BY <2>1, <2>4, <3>2, <4>1, <4>2
    <3> QED BY <3>1, <3>2
  <2> QED BY <2>2, <2>3, <2>6
<1> HIDE DEF S
<1>3. Seq(A) \subseteq S
  BY <1>1, <1>2, SequenceInduction
<1> QED BY <1>3, SplitType DEF S, Texts

\* A part other than the first begins with d just when d follows a c somewhere in the text.
LaterStarts(parts, d) == \E i \in 2..Len(parts) : StartsWith(parts[i], d)

Behind(s, c, d) == \E i \in 2..Len(s) : s[i] = d /\ s[i - 1] = c

\* Where the parts of a text start with a given other character.
LEMMA SplitStarts ==
    ASSUME NEW A, NEW c, NEW d, c # d, NEW s \in Seq(A)
    PROVE  /\ StartsWith(Split(s, c)[1], d) <=> StartsWith(s, d)
           /\ LaterStarts(Split(s, c), d) <=> Behind(s, c, d)
<1> USE DEF LaterStarts, Behind
<1> DEFINE Later(q) == LaterStarts(q, d)
           Follows(u) == Behind(u, c, d)
           S == {u \in Seq(A) : /\ StartsWith(Split(u, c)[1], d) <=> StartsWith(u, d)
                                /\ Later(Split(u, c)) <=> Follows(u)}
<1>1. << >> \in S
  <2>1. Split(<< >>, c) = << << >> >> /\ Len(<< << >> >>) = 1 /\ << << >> >>[1] = << >> /\ Len(<< >>) = 0
    BY SplitEmpty
  <2> QED BY <2>1
<1>2. ASSUME NEW x \in A, NEW u \in Seq(A), u \in S PROVE << x >> \o u \in S
  <2> DEFINE q == Split(u, c)
             v == SplitStep(c, x, q)
             w == << x >> \o u
  <2>1. q \in Texts(A) /\ Len(q) \in Nat \ {0} /\ q[1] \in Seq(A) /\ 1 \in 1..Len(q)
    BY SplitType DEF Texts
  <2>2. Split(w, c) = v
    BY SplitCons
  <2>3. /\ w \in Seq(A) /\ w # << >> /\ Head(w) = x /\ Len(w) = Len(u) + 1 /\ Len(u) \in Nat
        /\ w[1] = x /\ \A i \in 1..Len(u) : w[i + 1] = u[i]
    BY FirstAndRest
  <2>4. /\ StartsWith(q[1], d) <=> StartsWith(u, d)
        /\ Later(q) <=> Follows(u)
    BY <1>2
  <2>5. /\ x = c => /\ Len(v) = Len(q) + 1 /\ v[1] = << >>
                    /\ \A i \in 2..(Len(q) + 1) : v[i] = q[i - 1]
        /\ x # c => /\ Len(v) = Len(q) /\ v[1] = << x >> \o q[1]
                    /\ \A i \in 2..Len(q) : v[i] = q[i]
    <3>1. q \in Texts(A)
      BY <2>1
    <3> HIDE DEF q
    <3>2. SteppedTo(c, x, q, SplitStep(c, x, q))
      BY <3>1, SplitStepType
    <3>3. SteppedTo(c, x, q, v)
      BY <3>2
    <3> HIDE DEF v
    <3> QED BY <3>3 DEF SteppedTo
  <2>6. StartsWith(u, d) <=> u # << >> /\ u[1] = d
    BY DEF StartsWith
  <2>7. StartsWith(w, d) <=> x = d
    BY <2>3 DEF StartsWith
  <2>8. StartsWith(v[1], d) <=> x = d
    <3>1. CASE x = c
      BY <2>5, <3>1 DEF StartsWith
    <3>2. CASE x # c
      <4>1. v[1] # << >> /\ Head(v[1]) = x
        BY <2>1, <2>5, <3>2, FirstAndRest
      <4> QED BY <4>1 DEF StartsWith
    <3> QED BY <3>1, <3>2
  <2>9. Follows(w) <=> (x = c /\ StartsWith(u, d)) \/ Follows(u)
    <3> HIDE DEF w
    <3>1. ASSUME Follows(w) PROVE (x = c /\ StartsWith(u, d)) \/ Follows(u)
      <4>1. PICK i \in 2..Len(w) : w[i] = d /\ w[i - 1] = c
        BY <3>1
      <4>2. PICK j : j = i - 1
        OBVIOUS
      <4>3. j \in 1..Len(u) /\ w[j + 1] = d /\ w[j] = c /\ u[j] = d
        BY <2>3, <4>1, <4>2
      <4>4. CASE j = 1
        BY <2>3, <2>6, <4>3, <4>4
      <4>5. CASE j # 1
        <5>1. j \in 2..Len(u) /\ j - 1 \in 1..Len(u) /\ j - 1 + 1 = j
          BY <2>3, <4>3, <4>5
        <5>2. w[j - 1 + 1] = u[j - 1]
          BY <2>3, <5>1
        <5> QED BY <4>3, <5>1, <5>2
      <4> QED BY <4>4, <4>5
    <3>2. ASSUME x = c, StartsWith(u, d) PROVE Follows(w)
      <4>1. 2 \in 2..Len(w) /\ w[1 + 1] = d /\ w[2 - 1] = c
        BY <2>3, <2>6, <3>2
      <4> QED BY <4>1
    <3>3. ASSUME Follows(u) PROVE Follows(w)
      <4>1. PICK i \in 2..Len(u) : u[i] = d /\ u[i - 1] = c
        BY <3>3
      <4>2. i + 1 \in 2..Len(w) /\ w[i + 1] = d /\ i - 1 \in 1..Len(u) /\ i - 1 + 1 = i
        BY <2>3, <4>1
      <4>3. w[i - 1 + 1] = c
        BY <2>3, <4>1, <4>2
      <4>4. i + 1 - 1 = i
        OBVIOUS
      <4> QED BY <4>2, <4>3, <4>4
    <3> QED BY <3>1, <3>2, <3>3
  <2>10. Later(v) <=> (x = c /\ StartsWith(u, d)) \/ Later(q)
    <3> HIDE DEF v, q, w
    <3>1. CASE x = c
      <4>1. ASSUME Later(v) PROVE StartsWith(q[1], d) \/ Later(q)
        <5>1. PICK i \in 2..Len(v) : StartsWith(v[i], d)
          BY <4>1
        <5>2. i - 1 \in 1..Len(q) /\ StartsWith(q[i - 1], d)
          BY <2>1, <2>5, <3>1, <5>1
        <5> QED BY <2>1, <5>2
      <4>2. ASSUME StartsWith(q[1], d) PROVE Later(v)
        <5>1. 2 \in 2..Len(v) /\ v[2] = q[2 - 1] /\ 2 - 1 = 1
          BY <2>1, <2>5, <3>1
        <5> QED BY <4>2, <5>1
      <4>3. ASSUME Later(q) PROVE Later(v)
        <5>1. PICK i \in 2..Len(q) : StartsWith(q[i], d)
          BY <4>3
        <5>2. i + 1 \in 2..Len(v) /\ v[i + 1] = q[i + 1 - 1] /\ i + 1 - 1 = i
          BY <2>1, <2>5, <3>1, <5>1
        <5> QED BY <5>1, <5>2
      <4> QED BY <2>4, <3>1, <4>1, <4>2, <4>3
    <3>2. CASE x # c
      BY <2>1, <2>5, <3>2
    <3> QED BY <3>1, <3>2
  <2> HIDE DEF v, q, w, Later, Follows
  <2>11. w \in S
    BY <2>2, <2>3, <2>4, <2>7, <2>8, <2>9, <2>10
  <2> QED BY <2>11 DEF w
<1> HIDE DEF S, LaterStarts, Behind
<1>3. Seq(A) \subseteq S
  BY <1>1, <1>2, SequenceInduction
<1> QED BY <1>3 DEF S

(***************************************************************************)
(* Texts with a character in front of each part                            *)
(***************************************************************************)

Led(c, parts) == Concat([i \in 1..Len(parts) |-> << c >> \o parts[i]])

\* A function on `1..n` is a sequence of length `n`.
LEMMA FunctionIsSequence ==
    ASSUME NEW B, NEW n \in Nat, NEW f \in [1..n -> B]
    PROVE  f \in Seq(B) /\ Len(f) = n
OBVIOUS

\* Texts with a character in front of each are texts.
LEMMA LedTexts ==
    ASSUME NEW A, NEW c \in A, NEW parts \in Seq(Seq(A))
    PROVE  [i \in 1..Len(parts) |-> << c >> \o parts[i]] \in Seq(Seq(A))
<1> DEFINE f == [i \in 1..Len(parts) |-> << c >> \o parts[i]]
<1>1. f \in [1..Len(parts) -> Seq(A)] /\ Len(parts) \in Nat
  <2> SUFFICES ASSUME NEW i \in 1..Len(parts) PROVE << c >> \o parts[i] \in Seq(A)
    BY DEF f
  <2>1. parts[i] \in Seq(A)
    BY ElementOfSeq
  <2> QED BY <2>1, FirstAndRest
<1> HIDE DEF f
<1>2. f \in Seq(Seq(A))
  BY <1>1, FunctionIsSequence
<1> QED BY <1>2 DEF f

\* And so is what they make together.
LEMMA LedType ==
    ASSUME NEW A, NEW c \in A, NEW parts \in Seq(Seq(A))
    PROVE  Led(c, parts) \in Seq(A)
BY LedTexts, ConcatType DEF Led

\* Nothing is written of no texts.
LEMMA LedNone == ASSUME NEW c PROVE Led(c, << >>) = << >>
<1>1. [i \in 1..Len(<< >>) |-> << c >> \o << >>[i]] = << >>
  OBVIOUS
<1> QED BY <1>1, ConcatNone DEF Led

\* The first text, led by the character, comes first.
LEMMA LedCons ==
    ASSUME NEW A, NEW c \in A, NEW parts \in Seq(Seq(A)), NEW t \in Seq(A)
    PROVE  Led(c, << t >> \o parts) = << c >> \o (t \o Led(c, parts))
<1> DEFINE xs == << t >> \o parts
           n == Len(parts)
           g == [i \in 1..n |-> << c >> \o parts[i]]
           f == [i \in 1..Len(xs) |-> << c >> \o xs[i]]
           u == << c >> \o t
           h == << u >> \o g
<1>1. /\ xs \in Seq(Seq(A)) /\ Len(xs) = n + 1 /\ n \in Nat
      /\ xs[1] = t /\ \A i \in 1..n : xs[i + 1] = parts[i]
  OBVIOUS
<1>2. u \in Seq(A) /\ g \in Seq(Seq(A)) /\ f \in Seq(Seq(A))
  BY <1>1, LedTexts, FirstAndRest
<1>3. Len(g) = n /\ \A i \in 1..n : g[i] = << c >> \o parts[i]
  BY <1>1
<1>4. Len(f) = n + 1 /\ \A i \in 1..(n + 1) : f[i] = << c >> \o xs[i]
  BY <1>1
<1> HIDE DEF f, g, xs
<1>5. h \in Seq(Seq(A)) /\ Len(h) = n + 1 /\ h[1] = u /\ \A i \in 1..n : h[i + 1] = g[i]
  <2> HIDE DEF u
  <2>1. g \in Seq(Seq(A)) /\ u \in Seq(A)
    BY <1>2
  <2> QED BY <1>3, <2>1, OneMore
<1>6. \A i \in 1..(n + 1) : f[i] = h[i]
  <2> SUFFICES ASSUME NEW i \in 1..(n + 1) PROVE f[i] = h[i]
    OBVIOUS
  <2>1. CASE i = 1
    <3>1. 1 \in 1..(n + 1)
      BY <1>1
    <3> QED BY <1>1, <1>4, <1>5, <2>1, <3>1
  <2>2. CASE i # 1
    <3>1. PICK j \in 1..n : i = j + 1
      <4>1. i - 1 \in 1..n /\ i = i - 1 + 1
        BY <1>1, <2>2
      <4> QED BY <4>1
    <3>2. f[i] = << c >> \o xs[j + 1]
      BY <1>4, <3>1
    <3>3. h[i] = << c >> \o parts[j]
      BY <1>3, <1>5, <3>1
    <3> QED BY <1>1, <3>1, <3>2, <3>3
  <2> QED BY <2>1, <2>2
<1>7. f = h
  <2> HIDE DEF h
  <2>1. Len(f) = Len(h) /\ \A i \in 1..Len(f) : f[i] = h[i]
    BY <1>4, <1>5, <1>6
  <2> QED BY <1>2, <1>5, <2>1, SeqEqual
<1>8. Concat(f) = u \o Concat(g)
  <2> HIDE DEF u
  <2> QED BY <1>2, <1>7, ConcatCons
<1>9. Concat(g) \in Seq(A)
  BY <1>2, ConcatType
<1>10. u \o Concat(g) = << c >> \o (t \o Concat(g))
  <2> DEFINE v == Concat(g)
  <2>1. v \in Seq(A) /\ << c >> \in Seq(A)
    BY <1>9
  <2> HIDE DEF v
  <2>2. u \o v = << c >> \o (t \o v)
    BY <2>1, ConcatAssociative
  <2> QED BY <2>2 DEF v
<1> QED BY <1>8, <1>10 DEF Led, f, g, xs

\* The last text, led by the character, comes last.
LEMMA LedAppend ==
    ASSUME NEW A, NEW c \in A, NEW parts \in Seq(Seq(A)), NEW t \in Seq(A)
    PROVE  Led(c, Append(parts, t)) = Led(c, parts) \o (<< c >> \o t)
<1> DEFINE xs == Append(parts, t)
           n == Len(parts)
           g == [i \in 1..n |-> << c >> \o parts[i]]
           f == [i \in 1..Len(xs) |-> << c >> \o xs[i]]
           u == << c >> \o t
           h == Append(g, u)
<1>1. /\ xs \in Seq(Seq(A)) /\ Len(xs) = n + 1 /\ n \in Nat
      /\ xs[n + 1] = t /\ \A i \in 1..n : xs[i] = parts[i]
  OBVIOUS
<1>2. u \in Seq(A) /\ g \in Seq(Seq(A)) /\ f \in Seq(Seq(A))
  BY <1>1, LedTexts, FirstAndRest
<1>3. Len(g) = n /\ \A i \in 1..n : g[i] = << c >> \o parts[i]
  BY <1>1
<1>4. Len(f) = n + 1 /\ \A i \in 1..(n + 1) : f[i] = << c >> \o xs[i]
  BY <1>1
<1> HIDE DEF f, g, xs
<1>5. h \in Seq(Seq(A)) /\ Len(h) = n + 1 /\ h[n + 1] = u /\ \A i \in 1..n : h[i] = g[i]
  <2> HIDE DEF u
  <2> QED BY <1>1, <1>2, <1>3
<1>6. \A i \in 1..(n + 1) : f[i] = h[i]
  <2> SUFFICES ASSUME NEW i \in 1..(n + 1) PROVE f[i] = h[i]
    OBVIOUS
  <2>1. CASE i = n + 1
    BY <1>1, <1>4, <1>5, <2>1
  <2>2. CASE i # n + 1
    <3>1. i \in 1..n
      BY <1>1, <2>2
    <3>2. f[i] = << c >> \o xs[i]
      BY <1>4
    <3>3. h[i] = << c >> \o parts[i]
      BY <1>3, <1>5, <3>1
    <3> QED BY <1>1, <3>1, <3>2, <3>3
  <2> QED BY <2>1, <2>2
<1>7. f = h
  <2> HIDE DEF h
  <2>1. Len(f) = Len(h) /\ \A i \in 1..Len(f) : f[i] = h[i]
    BY <1>4, <1>5, <1>6
  <2> QED BY <1>2, <1>5, <2>1, SeqEqual
<1>8. Concat(f) = Concat(g) \o u
  <2> HIDE DEF u
  <2> QED BY <1>2, <1>7, ConcatAppend
<1> QED BY <1>8 DEF Led, f, g, xs

\* Parts without c, each led by c, are what splitting at c gives.
LEMMA SplitLed ==
    ASSUME NEW A, NEW c \in A, NEW p \in Seq(A), c \notin ToSet(p),
           NEW parts \in Seq(Seq(A)), \A i \in 1..Len(parts) : c \notin ToSet(parts[i])
    PROVE  Split(p \o Led(c, parts), c) = << p >> \o parts
<1> DEFINE Free(ps) == \A i \in 1..Len(ps) : c \notin ToSet(ps[i])
           S == {ps \in Seq(Seq(A)) : Free(ps) =>
                    \A q \in Seq(A) : c \notin ToSet(q) =>
                        Split(q \o Led(c, ps), c) = << q >> \o ps}
<1>1. << >> \in S
  <2>1. << >> \in Seq(Seq(A))
    OBVIOUS
  <2>2. ASSUME NEW q \in Seq(A), c \notin ToSet(q) PROVE Split(q \o Led(c, << >>), c) = << q >> \o << >>
    <3>1. q \o Led(c, << >>) = q
      BY LedNone, ConcatEmptySeq
    <3>2. << q >> \o << >> = << q >>
      OBVIOUS
    <3> QED BY <2>2, <3>1, <3>2, SplitNone
  <2> QED BY <2>1, <2>2
<1>2. ASSUME NEW t \in Seq(A), NEW ps \in Seq(Seq(A)), ps \in S PROVE << t >> \o ps \in S
  <2> DEFINE xs == << t >> \o ps
  <2>1. /\ xs \in Seq(Seq(A)) /\ Len(xs) = Len(ps) + 1 /\ Len(ps) \in Nat
        /\ xs[1] = t /\ \A i \in 1..Len(ps) : xs[i + 1] = ps[i]
    OBVIOUS
  <2> SUFFICES ASSUME Free(xs), NEW q \in Seq(A), c \notin ToSet(q)
               PROVE  Split(q \o Led(c, xs), c) = << q >> \o xs
    BY <2>1
  <2>2. c \notin ToSet(t) /\ Free(ps)
    <3> HIDE DEF xs
    <3>1. 1 \in 1..Len(xs) /\ \A i \in 1..Len(ps) : i + 1 \in 1..Len(xs)
      BY <2>1
    <3> QED BY <2>1, <3>1
  <2> DEFINE rest == t \o Led(c, ps)
  <2>3. Led(c, xs) = << c >> \o rest
    BY LedCons
  <2>4. rest \in Seq(A)
    BY LedType
  <2>5. Split(rest, c) = xs
    BY <1>2, <2>2
  <2> HIDE DEF rest, xs
  <2>6. Split(q \o (<< c >> \o rest), c) = << q >> \o Split(rest, c)
    BY <2>4, SplitAtFirst
  <2> QED BY <2>3, <2>5, <2>6
<1>3. Seq(Seq(A)) \subseteq S
  <2> HIDE DEF S
  <2> QED BY <1>1, <1>2, SequenceInduction
<1>4. Free(parts)
  OBVIOUS
<1>5. parts \in S
  BY <1>3
<1> QED BY <1>4, <1>5

\* The characters of joined texts are those of the texts.
LEMMA ConcatCharacters ==
    ASSUME NEW A, NEW texts \in Seq(Seq(A)), NEW x, x \in ToSet(Concat(texts))
    PROVE  \E i \in 1..Len(texts) : x \in ToSet(texts[i])
<1> DEFINE Has(ts) == \E i \in 1..Len(ts) : x \in ToSet(ts[i])
           S == {ts \in Seq(Seq(A)) : x \in ToSet(Concat(ts)) => Has(ts)}
<1>1. << >> \in S
  BY ConcatNone, NoCharacters
<1>2. ASSUME NEW t \in Seq(A), NEW ts \in Seq(Seq(A)), ts \in S PROVE << t >> \o ts \in S
  <2> DEFINE xs == << t >> \o ts
  <2>1. /\ xs \in Seq(Seq(A)) /\ Len(xs) = Len(ts) + 1 /\ Len(ts) \in Nat
        /\ xs[1] = t /\ \A i \in 1..Len(ts) : xs[i + 1] = ts[i]
    OBVIOUS
  <2>2. Concat(xs) = t \o Concat(ts) /\ Concat(ts) \in Seq(A)
    BY ConcatCons, ConcatType
  <2> HIDE DEF xs
  <2>3. ToSet(Concat(xs)) = ToSet(t) \cup ToSet(Concat(ts))
    BY <2>2, JoinedCharacters
  <2>4. \A i \in 1..Len(ts) : i + 1 \in 1..Len(xs)
    BY <2>1
  <2>5. 1 \in 1..Len(xs)
    BY <2>1
  <2>6. x \in ToSet(Concat(ts)) => Has(ts)
    BY <1>2
  <2>7. Has(ts) => Has(xs)
    BY <2>1, <2>4
  <2>8. x \in ToSet(t) => Has(xs)
    BY <2>1, <2>5
  <2>9. xs \in S
    BY <2>1, <2>3, <2>6, <2>7, <2>8
  <2> QED BY <2>9 DEF xs
<1>3. Seq(Seq(A)) \subseteq S
  <2> HIDE DEF S
  <2> QED BY <1>1, <1>2, SequenceInduction
<1>4. texts \in S
  BY <1>3
<1> QED BY <1>4

\* Nothing is written but the character and what the texts have.
LEMMA LedCharacters ==
    ASSUME NEW A, NEW c \in A, NEW parts \in Seq(Seq(A)), NEW x, x \in ToSet(Led(c, parts))
    PROVE  x = c \/ \E i \in 1..Len(parts) : x \in ToSet(parts[i])
<1> DEFINE f == [i \in 1..Len(parts) |-> << c >> \o parts[i]]
<1>1. f \in Seq(Seq(A)) /\ Len(f) = Len(parts) /\ \A i \in 1..Len(f) : f[i] = << c >> \o parts[i]
  BY LedTexts
<1>2. Led(c, parts) = Concat(f)
  BY DEF Led
<1> HIDE DEF f
<1>3. PICK i \in 1..Len(f) : x \in ToSet(f[i])
  BY <1>1, <1>2, ConcatCharacters
<1>4. parts[i] \in Seq(A) /\ f[i] = << c >> \o parts[i]
  BY <1>1, ElementOfSeq
<1>5. ToSet(f[i]) = {c} \cup ToSet(parts[i])
  BY <1>4, FirstAndRest
<1> QED BY <1>1, <1>3, <1>5

(***************************************************************************)
(* Values of tags                                                          *)
(***************************************************************************)

AnyText == Seq(Characters)

\* (The SMT backend cannot write these two characters.)
Space == " "
Semicolon == ";"

\* The characters that are never part of a tag.
Separators == {Semicolon, Space, "CR", "LF"}

\* What one more character makes of a value decoded so far.
DecodeStep(d, c) ==
    IF d.escaped THEN [text |-> Append(d.text, Unescaped(c)), escaped |-> FALSE]
    ELSE IF c = "\\" THEN [d EXCEPT !.escaped = TRUE]
    ELSE [d EXCEPT !.text = Append(@, c)]

Decoding == [text : AnyText, escaped : BOOLEAN]

Undecoded == [text |-> << >>, escaped |-> FALSE]

DecodeState(raw) == FoldLeft(DecodeStep, Undecoded, raw)

\* r[i] is what is decoded of the first i characters.
DecodesOf(raw, r) ==
    /\ r \in [0..Len(raw) -> Decoding]
    /\ r[0] = Undecoded
    /\ \A i \in 1..Len(raw) : r[i] = DecodeStep(r[i - 1], raw[i])

\* The greatest number of a range, which `FoldLeft` takes first.
LEMMA MaxOfRange ==
    ASSUME NEW n \in Nat, NEW i \in 1..n
    PROVE  Max(1..i) = i /\ (1..i) \ {i} = 1..(i - 1) /\ 1..i # {}
<1>1. i \in 1..i /\ \A y \in 1..i : i >= y
  OBVIOUS
<1>2. \A x \in 1..i : (\A y \in 1..i : x >= y) => x = i
  BY <1>1
<1>3. Max(1..i) = i
  BY <1>1, <1>2 DEF Max
<1> QED BY <1>3

\* A set of positions has a greatest one.
LEMMA MaxIsGreatest ==
    ASSUME NEW n \in Nat, NEW t \in SUBSET (1..n), t # {}
    PROVE  Max(t) \in t
<1> DEFINE u == {n - x : x \in t}
<1>1. u \subseteq Nat /\ u # {}
  <2>1. \A x \in t : n - x \in Nat
    OBVIOUS
  <2>2. PICK x \in t : TRUE
    OBVIOUS
  <2>3. n - x \in u
    OBVIOUS
  <2> QED BY <2>1, <2>3
<1>2. PICK y \in u : \A z \in u : y <= z
  <2> HIDE DEF u
  <2> QED BY <1>1, LeastNumber
<1>3. PICK x \in t : y = n - x
  BY <1>2
<1>4. \A z \in t : x >= z
  <2> SUFFICES ASSUME NEW z \in t PROVE x >= z
    OBVIOUS
  <2>1. n - x <= n - z
    BY <1>2, <1>3
  <2> QED BY <2>1
<1> QED BY <1>4 DEF Max

\* The characters the code names are characters.
LEMMA CharactersAre ==
    /\ {Space, "@", ":", Semicolon, "=", "!", "\\", "CR", "LF", "s", "r", "n"} \subseteq Characters
    /\ Letters \cup Digits \subseteq Characters
BY IrcMessageAssumption DEF Space, Semicolon

\* And they are different ones.
LEMMA SeparatorsAre ==
    /\ Space # Semicolon
    /\ Space \notin {"@", ":", "=", "!", "\\", "CR", "LF", "s", "r", "n"}
    /\ Semicolon \notin {"@", ":", "=", "!", "\\", "CR", "LF", "s", "r", "n"}
    /\ Separators \cap {"@", ":", "=", "!", "\\", "s", "r", "n"} = {}
BY Zenon DEF Space, Semicolon, Separators

\* What stands behind a backslash stands for a character.
LEMMA UnescapedType == ASSUME NEW c \in Characters PROVE Unescaped(c) \in Characters
<1>1. /\ c = ":" => Unescaped(c) = Semicolon
      /\ c = "s" => Unescaped(c) = Space
      /\ c = "r" => Unescaped(c) = "CR"
      /\ c = "n" => Unescaped(c) = "LF"
      /\ c \notin {":", "s", "r", "n"} => Unescaped(c) = c
  BY Zenon DEF Unescaped, Space, Semicolon
<1> QED BY <1>1, CharactersAre

\* Decoding goes from one state to another.
LEMMA DecodeStepType ==
    ASSUME NEW d \in Decoding, NEW c \in Characters
    PROVE  DecodeStep(d, c) \in Decoding
<1>1. d.text \in Seq(Characters) /\ Unescaped(c) \in Characters
  BY UnescapedType DEF Decoding, AnyText
<1>2. Append(d.text, Unescaped(c)) \in AnyText /\ Append(d.text, c) \in AnyText
  BY <1>1 DEF AnyText
<1> QED BY <1>1, <1>2 DEF DecodeStep, Decoding

\* Decoding is the last of a trace with one step for each character, from the
\* left.
LEMMA DecodeTrace ==
    ASSUME NEW raw \in AnyText
    PROVE  \E r : DecodesOf(raw, r) /\ DecodeState(raw) = r[Len(raw)]
<1> DEFINE n == Len(raw)
           G == [p \in (1..n) \X Decoding |-> DecodeStep(p[2], raw[p[1]])]
           ch == [t \in SUBSET (1..n) |-> Max(t)]
           it == CHOOSE f : f = [t \in SUBSET (DOMAIN raw) |->
                                   IF t = {} THEN Undecoded ELSE DecodeStep(f[t \ {Max(t)}], raw[Max(t)])]
<1>1. DecodeState(raw) = it[DOMAIN raw]
  BY DEF DecodeState, FoldLeft, MapThenFoldSet
<1>2. n \in Nat /\ DOMAIN raw = 1..n /\ \A i \in 1..n : raw[i] \in Characters
  BY DEF AnyText
<1>3. Undecoded \in Decoding
  <2>1. << >> \in Seq(Characters)
    OBVIOUS
  <2> QED BY <2>1 DEF Undecoded, Decoding, AnyText
<1>4. ASSUME NEW i \in 1..n, NEW v \in Decoding
      PROVE  G[<<i, v>>] = DecodeStep(v, raw[i]) /\ G[<<i, v>>] \in Decoding
  <2>1. G[<<i, v>>] = DecodeStep(v, raw[i])
    OBVIOUS
  <2>2. raw[i] \in Characters
    BY <1>2
  <2>3. DecodeStep(v, raw[i]) \in Decoding
    BY <2>2, DecodeStepType
  <2> QED BY <2>1, <2>3
<1>5. \A t \in SUBSET (1..n) : t # {} => ch[t] = Max(t) /\ ch[t] \in t
  BY <1>2, MaxIsGreatest
<1> HIDE DEF n, G, ch
<1>6. PICK f : Folds(1..n, Decoding, Undecoded, G, ch, f)
  <2> DEFINE K == 1..n
  <2>1. ResultsIn(K, Decoding, G)
    BY <1>4 DEF ResultsIn
  <2>2. TakesFrom(K, ch)
    BY <1>5 DEF TakesFrom
  <2>3. IsFiniteSet(K)
    <3>1. 1 \in Int /\ n \in Int
      BY <1>2
    <3> QED BY <3>1, FS_Interval
  <2> HIDE DEF K
  <2> QED BY <1>3, <2>1, <2>2, <2>3, FoldExists DEF K
<1>7. f = [t \in SUBSET (DOMAIN raw) |->
             IF t = {} THEN Undecoded ELSE DecodeStep(f[t \ {Max(t)}], raw[Max(t)])]
  <2>1. ASSUME NEW t \in SUBSET (1..n), t # {}
        PROVE  G[<<ch[t], f[t \ {ch[t]}]>>] = DecodeStep(f[t \ {Max(t)}], raw[Max(t)])
    <3>1. ch[t] = Max(t) /\ Max(t) \in 1..n
      BY <1>5, <2>1
    <3>2. f[t \ {Max(t)}] \in Decoding
      BY <1>6 DEF Folds
    <3> QED BY <1>4, <3>1, <3>2
  <2> QED BY <1>2, <1>6, <2>1 DEF Folds
<1>8. it = [t \in SUBSET (DOMAIN raw) |->
              IF t = {} THEN Undecoded ELSE DecodeStep(it[t \ {Max(t)}], raw[Max(t)])]
  BY <1>7, Zenon
<1> HIDE DEF it
<1> DEFINE r == [i \in 0..n |-> it[1..i]]
<1>9. r[0] = Undecoded /\ \A i \in 1..n : r[i] = DecodeStep(r[i - 1], raw[i])
  <2>1. 1..0 = {} /\ {} \in SUBSET (DOMAIN raw) /\ r[0] = it[1..0]
    BY <1>2
  <2>2. r[0] = Undecoded
    BY <1>8, <2>1
  <2>3. ASSUME NEW i \in 1..n PROVE r[i] = DecodeStep(r[i - 1], raw[i])
    <3>1. r[i] = it[1..i] /\ r[i - 1] = it[1..(i - 1)] /\ 1..i \in SUBSET (DOMAIN raw)
      BY <1>2
    <3>2. Max(1..i) = i /\ (1..i) \ {i} = 1..(i - 1) /\ 1..i # {}
      BY <1>2, MaxOfRange
    <3>3. it[1..i] = IF 1..i = {} THEN Undecoded ELSE DecodeStep(it[(1..i) \ {Max(1..i)}], raw[Max(1..i)])
      BY <1>8, <3>1
    <3> QED BY <3>1, <3>2, <3>3
  <2> QED BY <2>2, <2>3
<1>10. r[n] = it[DOMAIN raw]
  BY <1>2
<1> DEFINE T == {i \in Nat : i <= n => r[i] \in Decoding}
<1>11. 0 \in T /\ \A i \in Nat : i \in T => i + 1 \in T
  <2>1. ASSUME NEW i \in Nat, i \in T, i + 1 <= n PROVE r[i + 1] \in Decoding
    <3>1. i + 1 \in 1..n /\ i + 1 - 1 = i /\ i <= n
      <4> HIDE DEF r, n
      <4> QED BY <1>2, <2>1
    <3>2. r[i] \in Decoding
      <4> HIDE DEF r
      <4> QED BY <2>1, <3>1
    <3>3. r[i + 1] = DecodeStep(r[i], raw[i + 1]) /\ raw[i + 1] \in Characters
      <4> HIDE DEF r, T
      <4>1. r[i + 1] = DecodeStep(r[i + 1 - 1], raw[i + 1])
        BY <1>9, <3>1
      <4>2. raw[i + 1] \in Characters
        BY <1>2, <3>1
      <4> QED BY <3>1, <4>1, <4>2
    <3> HIDE DEF r
    <3> QED BY <3>2, <3>3, DecodeStepType
  <2>2. Undecoded \in Decoding
    BY <1>3
  <2> HIDE DEF r
  <2> QED BY <1>9, <2>1, <2>2
<1>12. r = [i \in 0..n |-> r[i]]
  OBVIOUS
<1> HIDE DEF r
<1>13. \A i \in Nat : i \in T
  <2> HIDE DEF T
  <2> QED BY <1>11, Induction
<1>14. r \in [0..n -> Decoding]
  BY <1>2, <1>12, <1>13
<1> QED BY <1>1, <1>9, <1>10, <1>14 DEF DecodesOf, n

\* Nothing is decoded of no text.
LEMMA DecodeNone == DecodeState(<< >>) = Undecoded
<1>1. << >> \in AnyText /\ Len(<< >>) = 0
  BY DEF AnyText
<1> QED BY <1>1, DecodeTrace DEF DecodesOf

\* Every raw value is decoded to a text.
LEMMA DecodeType ==
    ASSUME NEW raw \in AnyText
    PROVE  DecodeState(raw) \in Decoding /\ DecodeTagValue(raw) \in AnyText
<1>1. PICK r : DecodesOf(raw, r) /\ DecodeState(raw) = r[Len(raw)]
  BY DecodeTrace
<1>2. Len(raw) \in 0..Len(raw)
  BY DEF AnyText
<1>3. DecodeState(raw) \in Decoding
  BY <1>1, <1>2 DEF DecodesOf
<1>4. DecodeTagValue(raw) = DecodeState(raw).text
  BY DEF DecodeTagValue, DecodeState, DecodeStep, Undecoded
<1> QED BY <1>3, <1>4 DEF Decoding

\* One more character at the end is one more step.
LEMMA DecodeAppend ==
    ASSUME NEW raw \in AnyText, NEW c \in Characters
    PROVE  DecodeState(Append(raw, c)) = DecodeStep(DecodeState(raw), c)
<1> DEFINE xs == Append(raw, c)
           n == Len(raw)
<1>1. xs \in AnyText /\ Len(xs) = n + 1 /\ xs[n + 1] = c /\ n \in Nat /\ \A i \in 1..n : xs[i] = raw[i]
  BY DEF AnyText
<1> HIDE DEF xs
<1>2. PICK r : DecodesOf(xs, r) /\ DecodeState(xs) = r[Len(xs)]
  BY <1>1, DecodeTrace
<1>3. PICK q : DecodesOf(raw, q) /\ DecodeState(raw) = q[n]
  BY DecodeTrace
<1> DEFINE T == {i \in Nat : i <= n => r[i] = q[i]}
<1>4. 0 \in T /\ \A i \in Nat : i \in T => i + 1 \in T
  <2>1. r[0] = q[0]
    BY <1>2, <1>3 DEF DecodesOf
  <2>2. ASSUME NEW i \in Nat, i \in T, i + 1 <= n PROVE r[i + 1] = q[i + 1]
    <3>1. i + 1 \in 1..Len(xs) /\ i + 1 \in 1..n /\ i + 1 - 1 = i /\ xs[i + 1] = raw[i + 1]
      BY <1>1, <2>2
    <3>2. r[i] = q[i]
      BY <1>1, <2>2
    <3>3. r[i + 1] = DecodeStep(r[i], raw[i + 1]) /\ q[i + 1] = DecodeStep(q[i], raw[i + 1])
      BY <1>2, <1>3, <3>1 DEF DecodesOf
    <3> QED BY <3>2, <3>3
  <2> QED BY <2>1, <2>2
<1>5. r[n] = q[n]
  <2> HIDE DEF T
  <2>1. n \in T
    BY <1>1, <1>4, Induction
  <2> QED BY <1>1, <2>1 DEF T
<1>6. r[n + 1] = DecodeStep(r[n], c)
  <2>1. n + 1 \in 1..Len(xs) /\ n + 1 - 1 = n
    BY <1>1
  <2> QED BY <1>1, <1>2, <2>1 DEF DecodesOf
<1> QED BY <1>1, <1>2, <1>3, <1>5, <1>6 DEF xs

(***************************************************************************)
(* What is written as a tag's value is read as that value                  *)
(***************************************************************************)

\* A character is escaped or stands for itself.
LEMMA EscapedCases ==
    ASSUME NEW c
    PROVE  \/ /\ c \in Separators \cup {"\\"}
              /\ \E b \in {":", "s", "\\", "r", "n"} : Escaped(c) = << "\\", b >> /\ Unescaped(b) = c
           \/ c \notin Separators \cup {"\\"} /\ Escaped(c) = << c >>
<1>1. CASE c = ";"
  <2>1. Escaped(c) = << "\\", ":" >> /\ Unescaped(":") = c
    BY <1>1, Zenon DEF Escaped, Unescaped
  <2> QED BY <1>1, <2>1, Zenon DEF Separators, Semicolon
<1>2. CASE c = " "
  <2>1. Escaped(c) = << "\\", "s" >> /\ Unescaped("s") = c
    BY <1>2, Zenon DEF Escaped, Unescaped
  <2> QED BY <1>2, <2>1, Zenon DEF Separators, Space
<1>3. CASE c = "\\"
  <2>1. Escaped(c) = << "\\", "\\" >> /\ Unescaped("\\") = c
    BY <1>3, Zenon DEF Escaped, Unescaped
  <2> QED BY <1>3, <2>1, Zenon
<1>4. CASE c = "CR"
  <2>1. Escaped(c) = << "\\", "r" >> /\ Unescaped("r") = c
    BY <1>4, Zenon DEF Escaped, Unescaped
  <2> QED BY <1>4, <2>1, Zenon DEF Separators
<1>5. CASE c = "LF"
  <2>1. Escaped(c) = << "\\", "n" >> /\ Unescaped("n") = c
    BY <1>5, Zenon DEF Escaped, Unescaped
  <2> QED BY <1>5, <2>1, Zenon DEF Separators
<1>6. CASE c \notin {";", " ", "\\", "CR", "LF"}
  <2>1. Escaped(c) = << c >>
    BY <1>6, Zenon DEF Escaped
  <2> QED BY <1>6, <2>1, Zenon DEF Separators, Semicolon, Space
<1> QED BY <1>1, <1>2, <1>3, <1>4, <1>5, <1>6, Zenon

\* A character is written with no semicolon, space, CR or LF.
LEMMA EscapedType ==
    ASSUME NEW c \in Characters
    PROVE  Escaped(c) \in AnyText /\ ToSet(Escaped(c)) \cap Separators = {}
<1>1. \A a, b \in Characters : << a, b >> \in AnyText /\ ToSet(<< a, b >>) = {a, b}
  <2> SUFFICES ASSUME NEW a \in Characters, NEW b \in Characters
               PROVE  << a, b >> \in AnyText /\ ToSet(<< a, b >>) = {a, b}
    OBVIOUS
  <2> DEFINE s == << a, b >>
  <2>1. s \in Seq(Characters) /\ Len(s) = 2 /\ s[1] = a /\ s[2] = b
    OBVIOUS
  <2> HIDE DEF s
  <2>2. \A x : x \in ToSet(s) <=> \E i \in 1..2 : s[i] = x
    BY <2>1, CharactersOf
  <2>3. \A i \in 1..2 : i = 1 \/ i = 2
    OBVIOUS
  <2>4. 1 \in 1..2 /\ 2 \in 1..2
    OBVIOUS
  <2>5. ToSet(s) = {a, b}
    BY <2>1, <2>2, <2>3, <2>4
  <2> QED BY <2>1, <2>5 DEF s, AnyText
<1>2. << c >> \in AnyText /\ ToSet(<< c >>) = {c}
  BY OneCharacter DEF AnyText
<1>3. CASE \E b \in {":", "s", "\\", "r", "n"} : Escaped(c) = << "\\", b >>
  <2>1. PICK b \in {":", "s", "\\", "r", "n"} : Escaped(c) = << "\\", b >>
    BY <1>3
  <2>2. b \in Characters /\ "\\" \in Characters
    BY CharactersAre
  <2>3. << "\\", b >> \in AnyText /\ ToSet(<< "\\", b >>) = {"\\", b}
    BY <1>1, <2>2
  <2>4. b \notin Separators /\ "\\" \notin Separators
    BY <2>1, SeparatorsAre
  <2>5. {"\\", b} \cap Separators = {}
    BY <2>4, Zenon
  <2> QED BY <2>1, <2>3, <2>5
<1>4. CASE c \notin Separators /\ Escaped(c) = << c >>
  BY <1>2, <1>4
<1> QED BY <1>3, <1>4, EscapedCases

\* And so are all the characters of a value.
LEMMA EscapedTexts ==
    ASSUME NEW text \in AnyText
    PROVE  [i \in DOMAIN text |-> Escaped(text[i])] \in Seq(AnyText)
<1> DEFINE f == [i \in DOMAIN text |-> Escaped(text[i])]
<1>1. DOMAIN text = 1..Len(text) /\ Len(text) \in Nat /\ \A i \in 1..Len(text) : text[i] \in Characters
  BY DEF AnyText
<1>2. f \in [1..Len(text) -> AnyText]
  BY <1>1, EscapedType
<1> HIDE DEF f
<1>3. f \in Seq(AnyText)
  BY <1>1, <1>2, FunctionIsSequence
<1> QED BY <1>3 DEF f

\* An encoded value is a text and has none of the separators either.
LEMMA EncodedType ==
    ASSUME NEW text \in AnyText
    PROVE  EncodeTagValue(text) \in AnyText /\ ToSet(EncodeTagValue(text)) \cap Separators = {}
<1> DEFINE f == [i \in DOMAIN text |-> Escaped(text[i])]
<1>1. f \in Seq(AnyText)
  BY EscapedTexts
<1>2. EncodeTagValue(text) = Concat(f)
  BY DEF EncodeTagValue
<1>3. \A i \in 1..Len(f) : text[i] \in Characters /\ f[i] = Escaped(text[i])
  BY DEF AnyText
<1> HIDE DEF f
<1>4. Concat(f) \in AnyText
  BY <1>1, ConcatType DEF AnyText
<1>5. ASSUME NEW x, x \in ToSet(Concat(f)) PROVE x \notin Separators
  <2>1. PICK i \in 1..Len(f) : x \in ToSet(f[i])
    BY <1>1, <1>5, ConcatCharacters DEF AnyText
  <2> QED BY <1>3, <2>1, EscapedType
<1> QED BY <1>2, <1>4, <1>5

\* The empty value is written as nothing.
LEMMA EncodeNone == EncodeTagValue(<< >>) = << >>
<1>1. [i \in DOMAIN << >> |-> Escaped(<< >>[i])] = << >>
  OBVIOUS
<1> QED BY <1>1, ConcatNone DEF EncodeTagValue

\* The last character is written last.
LEMMA EncodeAppend ==
    ASSUME NEW text \in AnyText, NEW c \in Characters
    PROVE  EncodeTagValue(Append(text, c)) = EncodeTagValue(text) \o Escaped(c)
<1> DEFINE xs == Append(text, c)
           n == Len(text)
           g == [i \in DOMAIN text |-> Escaped(text[i])]
           f == [i \in DOMAIN xs |-> Escaped(xs[i])]
           u == Escaped(c)
           h == Append(g, u)
<1>1. /\ xs \in AnyText /\ Len(xs) = n + 1 /\ n \in Nat /\ DOMAIN xs = 1..(n + 1) /\ DOMAIN text = 1..n
      /\ xs[n + 1] = c /\ \A i \in 1..n : xs[i] = text[i]
  BY DEF AnyText
<1>2. u \in AnyText /\ g \in Seq(AnyText) /\ f \in Seq(AnyText)
  BY <1>1, EscapedTexts, EscapedType
<1>3. Len(g) = n /\ \A i \in 1..n : g[i] = Escaped(text[i])
  BY <1>1
<1>4. Len(f) = n + 1 /\ \A i \in 1..(n + 1) : f[i] = Escaped(xs[i])
  BY <1>1
<1> HIDE DEF f, g, xs
<1>5. h \in Seq(AnyText) /\ Len(h) = n + 1 /\ h[n + 1] = u /\ \A i \in 1..n : h[i] = g[i]
  <2> HIDE DEF u
  <2> QED BY <1>1, <1>2, <1>3
<1>6. \A i \in 1..(n + 1) : f[i] = h[i]
  <2> SUFFICES ASSUME NEW i \in 1..(n + 1) PROVE f[i] = h[i]
    OBVIOUS
  <2>1. CASE i = n + 1
    BY <1>1, <1>4, <1>5, <2>1
  <2>2. CASE i # n + 1
    <3>1. i \in 1..n
      BY <1>1, <2>2
    <3> QED BY <1>1, <1>3, <1>4, <1>5, <3>1
  <2> QED BY <2>1, <2>2
<1>7. f = h
  <2> HIDE DEF h
  <2>1. Len(f) = Len(h) /\ \A i \in 1..Len(f) : f[i] = h[i]
    BY <1>4, <1>5, <1>6
  <2> QED BY <1>2, <1>5, <2>1, SeqEqual
<1>8. Concat(f) = Concat(g) \o u
  <2> HIDE DEF u
  <2> QED BY <1>2, <1>7, ConcatAppend DEF AnyText
<1> QED BY <1>8 DEF EncodeTagValue, f, g, xs

\* Reading what is written for one more character gives that character.
LEMMA DecodeEscaped ==
    ASSUME NEW raw \in AnyText, NEW text \in AnyText, NEW c \in Characters,
           DecodeState(raw) = [text |-> text, escaped |-> FALSE]
    PROVE  DecodeState(raw \o Escaped(c)) = [text |-> Append(text, c), escaped |-> FALSE]
<1>1. ASSUME NEW b \in {":", "s", "\\", "r", "n"}, Escaped(c) = << "\\", b >>, Unescaped(b) = c
      PROVE  DecodeState(raw \o Escaped(c)) = [text |-> Append(text, c), escaped |-> FALSE]
  <2>2. b \in Characters /\ "\\" \in Characters
    BY CharactersAre
  <2> DEFINE half == Append(raw, "\\")
  <2>3. raw \o << "\\", b >> = Append(half, b) /\ half \in AnyText
    BY <2>2 DEF AnyText
  <2>4. DecodeState(half) = [text |-> text, escaped |-> TRUE]
    BY <2>2, DecodeAppend DEF DecodeStep
  <2> HIDE DEF half
  <2>5. DecodeState(Append(half, b)) = DecodeStep(DecodeState(half), b)
    BY <2>2, <2>3, DecodeAppend
  <2>6. DecodeStep([text |-> text, escaped |-> TRUE], b) = [text |-> Append(text, c), escaped |-> FALSE]
    BY <1>1 DEF DecodeStep
  <2> QED BY <1>1, <2>3, <2>4, <2>5, <2>6
<1>2. CASE c \notin Separators \cup {"\\"} /\ Escaped(c) = << c >>
  <2>1. Escaped(c) = << c >> /\ c # "\\"
    BY <1>2
  <2>2. raw \o << c >> = Append(raw, c)
    BY DEF AnyText
  <2>3. DecodeState(Append(raw, c)) = DecodeStep(DecodeState(raw), c)
    BY DecodeAppend
  <2>4. DecodeStep([text |-> text, escaped |-> FALSE], c) = [text |-> Append(text, c), escaped |-> FALSE]
    BY <2>1 DEF DecodeStep
  <2> QED BY <2>1, <2>2, <2>3, <2>4
<1> QED BY <1>1, <1>2, EscapedCases

\* Every text survives being escaped and read again.
THEOREM TagValuesSurvive ==
    ASSUME NEW text \in AnyText
    PROVE  DecodeTagValue(EncodeTagValue(text)) = text
<1> DEFINE S == {t \in AnyText : DecodeState(EncodeTagValue(t)) = [text |-> t, escaped |-> FALSE]}
<1>1. << >> \in S
  BY EncodeNone, DecodeNone DEF Undecoded, AnyText
<1>2. ASSUME NEW c \in Characters, NEW t \in Seq(Characters), t \in S PROVE Append(t, c) \in S
  <2>1. Append(t, c) \in AnyText /\ t \in AnyText
    BY DEF AnyText
  <2>2. EncodeTagValue(Append(t, c)) = EncodeTagValue(t) \o Escaped(c)
    BY <2>1, EncodeAppend
  <2>3. EncodeTagValue(t) \in AnyText /\ DecodeState(EncodeTagValue(t)) = [text |-> t, escaped |-> FALSE]
    BY <1>2, <2>1, EncodedType
  <2> DEFINE raw == EncodeTagValue(t)
  <2> HIDE DEF raw
  <2>4. DecodeState(raw \o Escaped(c)) = [text |-> Append(t, c), escaped |-> FALSE]
    BY <2>1, <2>3, DecodeEscaped DEF raw
  <2> QED BY <2>1, <2>2, <2>4 DEF raw
<1>3. Seq(Characters) \subseteq S
  <2> HIDE DEF S
  <2> QED BY <1>1, <1>2, SequenceInductionAtEnd
<1>4. DecodeState(EncodeTagValue(text)) = [text |-> text, escaped |-> FALSE]
  BY <1>3 DEF AnyText
<1>5. DecodeTagValue(EncodeTagValue(text)) = DecodeState(EncodeTagValue(text)).text
  BY DEF DecodeTagValue, DecodeState, DecodeStep, Undecoded
<1> QED BY <1>4, <1>5

(***************************************************************************)
(* Maps of tags                                                            *)
(***************************************************************************)

\* Keys, and what stands between two semicolons.
Keys == {k \in AnyText : ToSet(k) \cap (Separators \cup {"="}) = {}}
TagParts == {p \in AnyText : ToSet(p) \cap Separators = {}}

TagMaps == {f \in UNION {[K -> AnyText] : K \in SUBSET Keys} : IsFiniteSet(DOMAIN f)}

KeyOf(part) == Cut(part, "=")[1]
ValueOf(part) == IF Len(Cut(part, "=")) = 1 THEN << >> ELSE DecodeTagValue(Cut(part, "=")[2])

\* What one more tag in front makes of the map of those behind it.
TagStep(part, later) ==
    [key \in DOMAIN later \cup {KeyOf(part)} |->
       IF key \in DOMAIN later THEN later[key] ELSE ValueOf(part)]

TagsOf(parts) == FoldRight(TagStep, parts, << >>)

\* `IRCTags::parse` goes through the parts between the semicolons.
LEMMA ParseTagsIs == ASSUME NEW source PROVE ParseTags(source) = TagsOf(Split(source, Semicolon))
BY Zenon DEF ParseTags, TagsOf, TagStep, KeyOf, ValueOf, Semicolon

\* A map of tags is a function from finitely many keys to texts.
LEMMA TagMapIs ==
    ASSUME NEW f
    PROVE  f \in TagMaps <=> /\ f = [k \in DOMAIN f |-> f[k]] /\ DOMAIN f \subseteq Keys
                             /\ IsFiniteSet(DOMAIN f) /\ \A k \in DOMAIN f : f[k] \in AnyText
<1>1. ASSUME f \in TagMaps
      PROVE  /\ f = [k \in DOMAIN f |-> f[k]] /\ DOMAIN f \subseteq Keys
             /\ IsFiniteSet(DOMAIN f) /\ \A k \in DOMAIN f : f[k] \in AnyText
  <2>1. PICK K \in SUBSET Keys : f \in [K -> AnyText]
    BY <1>1 DEF TagMaps
  <2> QED BY <1>1, <2>1 DEF TagMaps
<1>2. ASSUME f = [k \in DOMAIN f |-> f[k]], DOMAIN f \subseteq Keys,
             IsFiniteSet(DOMAIN f), \A k \in DOMAIN f : f[k] \in AnyText
      PROVE  f \in TagMaps
  <2>1. f \in [DOMAIN f -> AnyText]
    BY <1>2
  <2> QED BY <1>2, <2>1 DEF TagMaps
<1> QED BY <1>1, <1>2

\* The empty map is one, and the only one without keys.
LEMMA NoTags == << >> \in TagMaps /\ DOMAIN << >> = {} /\ \A f : f = [k \in {} |-> f[k]] => f = << >>
<1>1. DOMAIN << >> = {}
  OBVIOUS
<1>2. << >> = [k \in DOMAIN << >> |-> << >>[k]]
  OBVIOUS
<1>3. << >> \in TagMaps
  <2>1. IsFiniteSet({})
    BY FS_EmptySet
  <2> QED BY <1>1, <1>2, <2>1, TagMapIs
<1>4. ASSUME NEW f, f = [k \in {} |-> f[k]] PROVE f = << >>
  BY <1>4
<1> QED BY <1>1, <1>3, <1>4

\* A tag: its key has no "=", and its value is what it says.
LEMMA TagPartIs ==
    ASSUME NEW part \in TagParts
    PROVE  KeyOf(part) \in Keys /\ ValueOf(part) \in AnyText
<1>1. part \in AnyText /\ ToSet(part) \cap Separators = {}
  BY DEF TagParts
<1>2. CASE "=" \notin ToSet(part) /\ Cut(part, "=") = << part >>
  <2>1. KeyOf(part) = part /\ ValueOf(part) = << >>
    BY <1>2 DEF KeyOf, ValueOf
  <2>2. << >> \in AnyText
    BY DEF AnyText
  <2> QED BY <1>1, <1>2, <2>1, <2>2 DEF Keys
<1>3. ASSUME NEW p \in AnyText, NEW r \in AnyText, part = p \o (<< "=" >> \o r),
             "=" \notin ToSet(p), Cut(part, "=") = << p, r >>
      PROVE  KeyOf(part) \in Keys /\ ValueOf(part) \in AnyText
  <2>1. KeyOf(part) = p /\ ValueOf(part) = DecodeTagValue(r)
    BY <1>3 DEF KeyOf, ValueOf
  <2>2. << "=" >> \o r \in Seq(Characters)
    BY CharactersAre, FirstAndRest DEF AnyText
  <2>3. ToSet(part) = ToSet(p) \cup ToSet(<< "=" >> \o r)
    <3> DEFINE u == << "=" >> \o r
    <3>1. p \in Seq(Characters) /\ u \in Seq(Characters) /\ part = p \o u
      BY <1>3, <2>2 DEF AnyText
    <3> HIDE DEF u
    <3>2. ToSet(p \o u) = ToSet(p) \cup ToSet(u)
      BY <3>1, JoinedCharacters
    <3> QED BY <3>1, <3>2 DEF u
  <2> QED BY <1>1, <1>3, <2>1, <2>3, DecodeType DEF Keys
<1>4. \/ "=" \notin ToSet(part) /\ Cut(part, "=") = << part >>
      \/ \E p, r \in AnyText : /\ part = p \o (<< "=" >> \o r) /\ "=" \notin ToSet(p)
                            /\ Cut(part, "=") = << p, r >>
  <2>1. part \in Seq(Characters)
    BY <1>1 DEF AnyText
  <2>2. \/ "=" \notin ToSet(part) /\ Cut(part, "=") = << part >>
        \/ \E p, r : CutsInto(Characters, part, "=", p, r)
    BY <2>1, CutCases
  <2> QED BY <2>2, Zenon DEF AnyText, CutsInto
<1> QED BY <1>2, <1>3, <1>4

\* A part adds its key, and the value of the parts behind it wins.
LEMMA TagStepType ==
    ASSUME NEW part \in TagParts, NEW later \in TagMaps
    PROVE  /\ TagStep(part, later) \in TagMaps
           /\ DOMAIN TagStep(part, later) = DOMAIN later \cup {KeyOf(part)}
           /\ \A k \in DOMAIN TagStep(part, later) :
                 TagStep(part, later)[k] = IF k \in DOMAIN later THEN later[k] ELSE ValueOf(part)
<1> DEFINE K == KeyOf(part)
           v == ValueOf(part)
           f == TagStep(part, later)
<1>1. K \in Keys /\ v \in AnyText
  BY TagPartIs
<1>2. /\ DOMAIN later \subseteq Keys /\ IsFiniteSet(DOMAIN later)
      /\ \A k \in DOMAIN later : later[k] \in AnyText
  BY TagMapIs
<1> HIDE DEF K, v
<1>4. f = [k \in DOMAIN later \cup {K} |-> IF k \in DOMAIN later THEN later[k] ELSE v]
  BY DEF TagStep, K, v
<1> HIDE DEF f
<1>5. IsFiniteSet(DOMAIN later \cup {K})
  BY <1>2, FS_AddElement
<1>6. /\ DOMAIN f = DOMAIN later \cup {K}
      /\ \A k \in DOMAIN f : f[k] = IF k \in DOMAIN later THEN later[k] ELSE v
  BY <1>4
<1>7. f = [k \in DOMAIN f |-> f[k]]
  BY <1>4, <1>6
<1>8. f \in TagMaps
  BY <1>1, <1>2, <1>5, <1>6, <1>7, TagMapIs
<1> QED BY <1>6, <1>8 DEF f, K, v

\* r[i] is the map of the tags from i on.
MapsOf(parts, r) ==
    /\ r \in [1..(Len(parts) + 1) -> TagMaps]
    /\ r[Len(parts) + 1] = << >>
    /\ \A i \in 1..Len(parts) : r[i] = TagStep(parts[i], r[i + 1])

\* The map that is read is the last of a trace with one step for each part,
\* from the right.
LEMMA MapTrace ==
    ASSUME NEW parts \in Seq(TagParts)
    PROVE  \E r : MapsOf(parts, r) /\ TagsOf(parts) = r[1]
<1> DEFINE n == Len(parts)
           V == TagMaps
           G == [p \in (1..n) \X V |-> TagStep(parts[p[1]], p[2])]
           ch == [t \in SUBSET (1..n) |-> Min(t)]
           it == CHOOSE f : f = [t \in SUBSET (DOMAIN parts) |->
                                   IF t = {} THEN << >> ELSE TagStep(parts[Min(t)], f[t \ {Min(t)}])]
<1>1. TagsOf(parts) = it[DOMAIN parts]
  BY DEF TagsOf, FoldRight, MapThenFoldSet
<1>2. n \in Nat /\ DOMAIN parts = 1..n /\ \A i \in 1..n : parts[i] \in TagParts
  OBVIOUS
<1>3. << >> \in V
  BY NoTags
<1> HIDE DEF V
<1>4. ASSUME NEW i \in 1..n, NEW v \in V
      PROVE  G[<<i, v>>] = TagStep(parts[i], v) /\ G[<<i, v>>] \in V
  <2>1. G[<<i, v>>] = TagStep(parts[i], v)
    OBVIOUS
  <2>2. TagStep(parts[i], v) \in V
    BY <1>2, TagStepType DEF V
  <2> QED BY <2>1, <2>2
<1>5. \A t \in SUBSET (1..n) : t # {} => ch[t] = Min(t) /\ ch[t] \in t
  BY <1>2, MinIsLeast
<1> HIDE DEF n, G, ch
<1>6. PICK f : Folds(1..n, V, << >>, G, ch, f)
  <2> DEFINE K == 1..n
  <2>1. ResultsIn(K, V, G)
    BY <1>4 DEF ResultsIn
  <2>2. TakesFrom(K, ch)
    BY <1>5 DEF TakesFrom
  <2>3. IsFiniteSet(K)
    <3>1. 1 \in Int /\ n \in Int
      BY <1>2
    <3> QED BY <3>1, FS_Interval
  <2> HIDE DEF K
  <2> QED BY <1>3, <2>1, <2>2, <2>3, FoldExists DEF K
<1>7. f = [t \in SUBSET (DOMAIN parts) |->
             IF t = {} THEN << >> ELSE TagStep(parts[Min(t)], f[t \ {Min(t)}])]
  <2>1. ASSUME NEW t \in SUBSET (1..n), t # {}
        PROVE  G[<<ch[t], f[t \ {ch[t]}]>>] = TagStep(parts[Min(t)], f[t \ {Min(t)}])
    <3>1. ch[t] = Min(t) /\ Min(t) \in 1..n
      BY <1>5, <2>1
    <3>2. f[t \ {Min(t)}] \in V
      BY <1>6 DEF Folds
    <3> QED BY <1>4, <3>1, <3>2
  <2> QED BY <1>2, <1>6, <2>1 DEF Folds
<1>8. it = [t \in SUBSET (DOMAIN parts) |->
              IF t = {} THEN << >> ELSE TagStep(parts[Min(t)], it[t \ {Min(t)}])]
  BY <1>7, Zenon
<1> HIDE DEF it
<1> DEFINE r == [i \in 1..(n + 1) |-> it[i..n]]
<1>9. r[n + 1] = << >> /\ \A i \in 1..n : r[i] = TagStep(parts[i], r[i + 1])
  <2>1. (n + 1)..n = {} /\ {} \in SUBSET (DOMAIN parts) /\ r[n + 1] = it[(n + 1)..n]
    BY <1>2
  <2>2. r[n + 1] = << >>
    BY <1>8, <2>1
  <2>3. ASSUME NEW i \in 1..n PROVE r[i] = TagStep(parts[i], r[i + 1])
    <3>1. r[i] = it[i..n] /\ r[i + 1] = it[(i + 1)..n] /\ i..n \in SUBSET (DOMAIN parts)
      BY <1>2
    <3>2. Min(i..n) = i /\ (i..n) \ {i} = (i + 1)..n /\ i..n # {}
      <4>1. i \in Nat /\ i <= n
        BY <1>2
      <4> QED BY <1>2, <4>1, MinOfRange
    <3>3. it[i..n] = IF i..n = {} THEN << >> ELSE TagStep(parts[Min(i..n)], it[(i..n) \ {Min(i..n)}])
      BY <1>8, <3>1
    <3> QED BY <3>1, <3>2, <3>3
  <2> QED BY <2>2, <2>3
<1>10. r[1] = it[DOMAIN parts]
  BY <1>2
<1> DEFINE T == {i \in 1..(n + 1) : r[i] \in V}
<1>11. n + 1 \in T /\ \A i \in 1..n : i + 1 \in T => i \in T
  <2>1. n + 1 \in 1..(n + 1) /\ \A i \in 1..n : i \in 1..(n + 1)
    BY <1>2
  <2>2. ASSUME NEW i \in 1..n, r[i + 1] \in V PROVE r[i] \in V
    <3>1. /\ r[i] = TagStep(parts[i], r[i + 1]) /\ G[<<i, r[i + 1]>>] = TagStep(parts[i], r[i + 1])
          /\ G[<<i, r[i + 1]>>] \in V
      BY <1>4, <1>9, <2>2
    <3> QED BY <3>1
  <2> QED BY <1>3, <1>9, <2>1, <2>2
<1>12. r = [i \in 1..(n + 1) |-> r[i]]
  OBVIOUS
<1> HIDE DEF r
<1>13. \A i \in 1..(n + 1) : i \in T
  <2> HIDE DEF T
  <2> QED BY <1>2, <1>11, InductionDown
<1>14. r \in [1..(n + 1) -> V]
  BY <1>12, <1>13
<1> QED BY <1>1, <1>9, <1>10, <1>14 DEF MapsOf, n, V

\* What is read of the parts is a map of tags.
LEMMA TagsOfType ==
    ASSUME NEW parts \in Seq(TagParts)
    PROVE  TagsOf(parts) \in TagMaps
<1>1. PICK r : MapsOf(parts, r) /\ TagsOf(parts) = r[1]
  BY MapTrace
<1>2. 1 \in 1..(Len(parts) + 1)
  OBVIOUS
<1> QED BY <1>1, <1>2 DEF MapsOf

\* No parts make no tags.
LEMMA TagsOfNone == TagsOf(<< >>) = << >>
<1>1. << >> \in Seq(TagParts) /\ Len(<< >>) = 0
  OBVIOUS
<1>2. PICK r : MapsOf(<< >>, r) /\ TagsOf(<< >>) = r[1]
  BY <1>1, MapTrace
<1> QED BY <1>1, <1>2 DEF MapsOf

\* The first part is added last, and changes no key that is there.
LEMMA TagsOfCons ==
    ASSUME NEW parts \in Seq(TagParts), NEW t \in TagParts
    PROVE  TagsOf(<< t >> \o parts) = TagStep(t, TagsOf(parts))
<1> DEFINE xs == << t >> \o parts
           n == Len(parts)
<1>1. xs \in Seq(TagParts) /\ Len(xs) = n + 1 /\ xs[1] = t /\ n \in Nat /\ \A i \in 1..n : xs[i + 1] = parts[i]
  OBVIOUS
<1> HIDE DEF xs
<1>2. PICK r : MapsOf(xs, r) /\ TagsOf(xs) = r[1]
  BY <1>1, MapTrace
<1>3. PICK q : MapsOf(parts, q) /\ TagsOf(parts) = q[1]
  BY MapTrace
<1> DEFINE T == {i \in 1..(n + 1) : r[i + 1] = q[i]}
<1>4. n + 1 \in T
  BY <1>1, <1>2, <1>3 DEF MapsOf
<1>5. \A i \in 1..n : i + 1 \in T => i \in T
  <2> SUFFICES ASSUME NEW i \in 1..n, r[i + 1 + 1] = q[i + 1] PROVE r[i + 1] = q[i]
    BY <1>1
  <2>1. i + 1 \in 1..Len(xs) /\ xs[i + 1] = parts[i]
    BY <1>1
  <2> QED BY <1>2, <1>3, <2>1 DEF MapsOf
<1>6. r[2] = q[1]
  <2> HIDE DEF T
  <2>1. \A i \in 1..(n + 1) : i \in T
    BY <1>1, <1>4, <1>5, InductionDown
  <2>2. 1 \in T
    BY <1>1, <2>1
  <2> QED BY <2>2 DEF T
<1>7. r[1] = TagStep(t, r[2])
  <2>1. 1 \in 1..Len(xs) /\ 1 + 1 = 2
    BY <1>1
  <2> QED BY <1>1, <1>2, <2>1 DEF MapsOf
<1> QED BY <1>2, <1>3, <1>6, <1>7 DEF xs

(***************************************************************************)
(* What is written of a map of tags is read as that map                    *)
(***************************************************************************)

TagText(tags, key) ==
    key \o (IF tags[key] = << >> THEN << >> ELSE << "=" >> \o EncodeTagValue(tags[key]))

\* The keys of a map in some order.
OrdersOf(tags) == {order \in Seq(DOMAIN tags) : ToSet(order) = DOMAIN tags}

\* What is written for one tag is read as that tag.
LEMMA TagTextIs ==
    ASSUME NEW tags \in TagMaps, NEW key \in DOMAIN tags
    PROVE  /\ TagText(tags, key) \in TagParts
           /\ KeyOf(TagText(tags, key)) = key /\ ValueOf(TagText(tags, key)) = tags[key]
           /\ TagText(tags, key) = << >> => key = << >> /\ tags[key] = << >>
<1> DEFINE value == tags[key]
           t == TagText(tags, key)
<1>1. key \in AnyText /\ ToSet(key) \cap (Separators \cup {"="}) = {} /\ value \in AnyText
  BY TagMapIs DEF Keys
<1>2. key \in Seq(Characters) /\ key \o << >> = key
  BY <1>1, ConcatEmptySeq DEF AnyText
<1>3. CASE value = << >>
  <2>1. t = key
    BY <1>2, <1>3 DEF TagText
  <2>2. Cut(key, "=") = << key >>
    BY <1>1, <1>2, CutNone
  <2>3. KeyOf(key) = key /\ ValueOf(key) = << >>
    BY <2>2 DEF KeyOf, ValueOf
  <2> QED BY <1>1, <1>3, <2>1, <2>3 DEF TagParts
<1>4. CASE value # << >>
  <2> DEFINE e == EncodeTagValue(value)
             u == << "=" >> \o e
  <2>1. e \in Seq(Characters) /\ ToSet(e) \cap Separators = {}
    BY <1>1, EncodedType DEF AnyText
  <2>2. t = key \o u
    BY <1>4 DEF TagText
  <2>3. DecodeTagValue(e) = value
    BY <1>1, TagValuesSurvive
  <2> HIDE DEF e
  <2>4. "=" \in Characters
    BY CharactersAre
  <2>5. Cut(key \o u, "=") = << key, e >>
    BY <1>1, <1>2, <2>1, <2>4, CutAtFirst
  <2>6. u \in Seq(Characters) /\ ToSet(u) = {"="} \cup ToSet(e)
    BY <2>1, <2>4, FirstAndRest
  <2> HIDE DEF u
  <2>7. key \o u \in Seq(Characters) /\ ToSet(key \o u) = ToSet(key) \cup ToSet(u)
    BY <1>2, <2>6, JoinedCharacters
  <2>8. key \o u \in TagParts
    <3>1. ToSet(key \o u) \cap Separators = {}
      BY <1>1, <2>1, <2>6, <2>7, SeparatorsAre
    <3> QED BY <2>7, <3>1 DEF TagParts, AnyText
  <2>9. KeyOf(key \o u) = key /\ ValueOf(key \o u) = value
    BY <2>3, <2>5 DEF KeyOf, ValueOf
  <2>10. key \o u # << >>
    <3>1. "=" \in ToSet(key \o u)
      BY <2>6, <2>7
    <3> QED BY <3>1, NoCharacters
  <2> QED BY <2>2, <2>8, <2>9, <2>10
<1> QED BY <1>3, <1>4

\* Parts that say what tags has are read as what tags has of their keys.
LEMMA TagsOfParts ==
    ASSUME NEW tags \in TagMaps, NEW parts \in Seq(TagParts),
           \A i \in 1..Len(parts) :
              KeyOf(parts[i]) \in DOMAIN tags /\ ValueOf(parts[i]) = tags[KeyOf(parts[i])]
    PROVE  /\ DOMAIN TagsOf(parts) = {KeyOf(parts[i]) : i \in 1..Len(parts)}
           /\ \A k \in DOMAIN TagsOf(parts) : TagsOf(parts)[k] = tags[k]
<1> DEFINE Says(ps) == \A i \in 1..Len(ps) :
                          KeyOf(ps[i]) \in DOMAIN tags /\ ValueOf(ps[i]) = tags[KeyOf(ps[i])]
           KeysOf(ps) == {KeyOf(ps[i]) : i \in 1..Len(ps)}
           Agree(ps) == /\ DOMAIN TagsOf(ps) = KeysOf(ps)
                        /\ \A k \in KeysOf(ps) : TagsOf(ps)[k] = tags[k]
           S == {ps \in Seq(TagParts) : Says(ps) => Agree(ps)}
<1>1. << >> \in S
  <2>1. << >> \in Seq(TagParts) /\ KeysOf(<< >>) = {}
    OBVIOUS
  <2>2. Agree(<< >>)
    BY <2>1, TagsOfNone, NoTags
  <2> QED BY <2>1, <2>2
<1>2. ASSUME NEW t \in TagParts, NEW ps \in Seq(TagParts), ps \in S PROVE << t >> \o ps \in S
  <2> DEFINE xs == << t >> \o ps
  <2>1. /\ xs \in Seq(TagParts) /\ Len(xs) = Len(ps) + 1 /\ Len(ps) \in Nat
        /\ xs[1] = t /\ \A i \in 1..Len(ps) : xs[i + 1] = ps[i]
    OBVIOUS
  <2>2. TagsOf(xs) = TagStep(t, TagsOf(ps)) /\ TagsOf(ps) \in TagMaps
    BY TagsOfCons, TagsOfType
  <2> HIDE DEF xs
  <2>3. 1 \in 1..Len(xs) /\ \A i \in 1..Len(ps) : i + 1 \in 1..Len(xs)
    BY <2>1
  <2>4. KeysOf(xs) = KeysOf(ps) \cup {KeyOf(t)}
    <3>1. \A i \in 1..Len(xs) : i = 1 \/ \E j \in 1..Len(ps) : i = j + 1
      <4> SUFFICES ASSUME NEW i \in 1..Len(xs), i # 1 PROVE \E j \in 1..Len(ps) : i = j + 1
        OBVIOUS
      <4>1. i - 1 \in 1..Len(ps) /\ i = i - 1 + 1
        BY <2>1
      <4> QED BY <4>1
    <3> QED BY <2>1, <2>3, <3>1
  <2> SUFFICES ASSUME Says(xs) PROVE Agree(xs)
    BY <2>1 DEF xs
  <2>5. KeyOf(t) \in DOMAIN tags /\ ValueOf(t) = tags[KeyOf(t)] /\ Says(ps)
    BY <2>1, <2>3
  <2>6. Agree(ps)
    BY <1>2, <2>5
  <2> DEFINE later == TagsOf(ps)
  <2>7. /\ DOMAIN TagStep(t, later) = DOMAIN later \cup {KeyOf(t)}
        /\ \A k \in DOMAIN TagStep(t, later) :
              TagStep(t, later)[k] = IF k \in DOMAIN later THEN later[k] ELSE ValueOf(t)
    <3> HIDE DEF later
    <3>1. later \in TagMaps
      BY <2>2 DEF later
    <3> QED BY <3>1, TagStepType
  <2> QED BY <2>2, <2>4, <2>5, <2>6, <2>7
<1>3. Seq(TagParts) \subseteq S
  <2> HIDE DEF S
  <2> QED BY <1>1, <1>2, SequenceInduction
<1>4. Says(parts)
  OBVIOUS
<1>5. Agree(parts)
  BY <1>3, <1>4
<1> QED BY <1>5

\* The tags are written one after the other, with semicolons between them.
LEMMA FormatTagsIs ==
    ASSUME NEW tags \in TagMaps, NEW order \in OrdersOf(tags), order # << >>
    PROVE  \E first \in TagParts, rest \in Seq(TagParts) :
              /\ FormatTags(tags, order) = first \o Led(Semicolon, rest)
              /\ Len(rest) = Len(order) - 1 /\ first = TagText(tags, order[1])
              /\ \A i \in 1..Len(rest) : rest[i] = TagText(tags, order[i + 1])
<1> DEFINE n == Len(order) - 1
           first == TagText(tags, order[1])
           rest == [i \in 1..n |-> TagText(tags, order[i + 1])]
           Piece(i) == LET value == tags[order[i]]
                       IN  (IF i > 1 THEN << Semicolon >> ELSE << >>) \o order[i]
                             \o (IF value = << >> THEN << >> ELSE << "=" >> \o EncodeTagValue(value))
           f == [i \in DOMAIN order |-> Piece(i)]
           g == [i \in 1..Len(rest) |-> << Semicolon >> \o rest[i]]
           h == << first >> \o g
<1>1. /\ n \in Nat /\ DOMAIN order = 1..(n + 1) /\ Len(order) = n + 1
      /\ \A i \in 1..(n + 1) : order[i] \in DOMAIN tags
  BY DEF OrdersOf
<1>2. \A i \in 1..n : i + 1 \in 1..(n + 1)
  BY <1>1
<1>3. first \in TagParts
  <2>1. 1 \in 1..(n + 1)
    BY <1>1
  <2> QED BY <1>1, <2>1, TagTextIs
<1>4. rest \in Seq(TagParts) /\ Len(rest) = n
  <2>1. rest \in [1..n -> TagParts]
    BY <1>1, <1>2, TagTextIs
  <2> HIDE DEF rest
  <2> QED BY <1>1, <2>1, FunctionIsSequence
<1>5. rest \in Seq(Seq(Characters)) /\ first \in Seq(Characters) /\ Semicolon \in Characters
  <2>1. TagParts \subseteq Seq(Characters)
    BY DEF TagParts, AnyText
  <2> HIDE DEF rest, first
  <2> QED BY <1>3, <1>4, <2>1, SeqMonotonic, CharactersAre
<1>6. g \in Seq(Seq(Characters)) /\ Len(g) = n /\ \A i \in 1..n : g[i] = << Semicolon >> \o TagText(tags, order[i + 1])
  <2>1. \A i \in 1..n : rest[i] = TagText(tags, order[i + 1])
    OBVIOUS
  <2> HIDE DEF rest
  <2>2. g \in Seq(Seq(Characters))
    BY <1>5, LedTexts
  <2>3. Len(g) = n /\ \A i \in 1..n : g[i] = << Semicolon >> \o rest[i]
    <3>1. n \in Nat /\ Len(rest) = n
      BY <1>1, <1>4
    <3> HIDE DEF n
    <3> QED BY <3>1
  <2> QED BY <2>1, <2>2, <2>3
<1>7. ASSUME NEW i \in 1..(n + 1)
      PROVE  Piece(i) = IF i = 1 THEN TagText(tags, order[i]) ELSE << Semicolon >> \o TagText(tags, order[i])
  <2> DEFINE key == order[i]
             e == IF tags[key] = << >> THEN << >> ELSE << "=" >> \o EncodeTagValue(tags[key])
  <2>1. key \in Seq(Characters) /\ e \in Seq(Characters) /\ << Semicolon >> \in Seq(Characters)
    <3>1. key \in AnyText /\ tags[key] \in AnyText
      BY <1>1, TagMapIs DEF Keys
    <3> DEFINE v == tags[key]
    <3>2. EncodeTagValue(v) \in Seq(Characters)
      <4> HIDE DEF v
      <4> QED BY <3>1, EncodedType DEF AnyText, v
    <3>3. << "=" >> \o EncodeTagValue(v) \in Seq(Characters)
      <4> HIDE DEF v
      <4> QED BY <3>2, CharactersAre, FirstAndRest
    <3> HIDE DEF key, v
    <3>4. Semicolon \in Characters /\ << >> \in Seq(Characters)
      BY <1>5
    <3>5. << Semicolon >> \in Seq(Characters)
      BY ONLY <3>4, OneCharacter
    <3> QED BY <3>1, <3>3, <3>4, <3>5 DEF AnyText, v
  <2>2. TagText(tags, key) = key \o e
    BY DEF TagText
  <2>3. Piece(i) = ((IF i > 1 THEN << Semicolon >> ELSE << >>) \o key) \o e
    OBVIOUS
  <2> HIDE DEF key, e, Piece
  <2>4. CASE i = 1
    <3>1. << >> \o key = key
      BY <2>1, ConcatEmptySeq
    <3> QED BY <2>2, <2>3, <2>4, <3>1 DEF key
  <2>5. CASE i # 1
    <3>1. (<< Semicolon >> \o key) \o e = << Semicolon >> \o (key \o e)
      <4> DEFINE u == << Semicolon >>
      <4>1. u \in Seq(Characters)
        BY <2>1
      <4> HIDE DEF u
      <4>2. (u \o key) \o e = u \o (key \o e)
        BY ONLY <2>1, <4>1, ConcatAssociative
      <4> QED BY <4>2 DEF u
    <3>2. i > 1
      BY <1>1, <2>5
    <3> QED BY <2>2, <2>3, <2>5, <3>1, <3>2 DEF key
  <2> QED BY <2>4, <2>5
<1>8. FormatTags(tags, order) = Concat(f)
  BY Zenon DEF FormatTags, Semicolon
<1>9. Len(f) = n + 1 /\ DOMAIN f = 1..(n + 1) /\ \A i \in 1..(n + 1) : f[i] = Piece(i)
  <2> HIDE DEF Piece
  <2> QED BY <1>1
<1> HIDE DEF f, g, rest, Piece
<1>10. h \in Seq(Seq(Characters)) /\ Len(h) = n + 1 /\ h[1] = first /\ \A i \in 1..n : h[i + 1] = g[i]
  <2> HIDE DEF first
  <2>1. /\ h \in Seq(Seq(Characters)) /\ Len(h) = Len(g) + 1 /\ h[1] = first
        /\ \A i \in 1..Len(g) : h[i + 1] = g[i]
    <3>1. first \in Seq(Characters) /\ g \in Seq(Seq(Characters))
      BY <1>5, <1>6
    <3>2. /\ << first >> \o g \in Seq(Seq(Characters)) /\ Len(<< first >> \o g) = Len(g) + 1
          /\ (<< first >> \o g)[1] = first
          /\ \A i \in 1..Len(g) : (<< first >> \o g)[i + 1] = g[i]
      BY ONLY <3>1, OneMore
    <3> QED BY ONLY <3>2, Zenon DEF h
  <2> QED BY <1>6, <2>1
<1> HIDE DEF h
<1>11. \A i \in 1..(n + 1) : f[i] = h[i]
  <2> SUFFICES ASSUME NEW i \in 1..(n + 1) PROVE f[i] = h[i]
    OBVIOUS
  <2>1. CASE i = 1
    BY <1>7, <1>9, <1>10, <2>1 DEF first
  <2>2. CASE i # 1
    <3>1. PICK j \in 1..n : i = j + 1
      <4>1. i - 1 \in 1..n /\ i = i - 1 + 1
        BY <1>1, <2>2
      <4> QED BY <4>1
    <3>2. f[i] = << Semicolon >> \o TagText(tags, order[j + 1])
      BY <1>7, <1>9, <2>2, <3>1
    <3>3. h[i] = g[j]
      BY <1>10, <3>1
    <3> QED BY <1>6, <3>2, <3>3
  <2> QED BY <2>1, <2>2
<1>12. f = h
  <2>1. f \in [1..(n + 1) -> Seq(Characters)]
    <3>1. \A i \in 1..(n + 1) : f[i] \in Seq(Characters)
      BY <1>10, <1>11
    <3>2. f = [i \in 1..(n + 1) |-> f[i]]
      BY <1>1 DEF f
    <3> QED BY <3>1, <3>2
  <2>2. n + 1 \in Nat
    BY <1>1
  <2>3. f \in Seq(Seq(Characters)) /\ Len(f) = n + 1
    BY <2>1, <2>2, FunctionIsSequence
  <2>4. f \in Seq(Seq(Characters)) /\ Len(f) = Len(h) /\ \A i \in 1..Len(f) : f[i] = h[i]
    BY <1>9, <1>10, <1>11, <2>3
  <2> QED BY <1>10, <2>4, SeqEqual
<1>13. Concat(h) = first \o Concat(g)
  <2> HIDE DEF first
  <2> QED BY <1>5, <1>6, ConcatCons DEF h
<1>14. Concat(g) = Led(Semicolon, rest)
  BY DEF Led, g
<1>15. \A i \in 1..n : rest[i] = TagText(tags, order[i + 1])
  BY DEF rest
<1>16. FormatTags(tags, order) = first \o Led(Semicolon, rest)
  BY <1>8, <1>12, <1>13, <1>14
<1> QED BY <1>1, <1>3, <1>4, <1>15, <1>16

\* A sequence is one over every set that has its elements.
LEMMA Retyped ==
    ASSUME NEW B, NEW C, NEW s \in Seq(B), \A i \in 1..Len(s) : s[i] \in C
    PROVE  s \in Seq(C)
<1>1. s \in [1..Len(s) -> C] /\ Len(s) \in Nat
  <2>1. s = [i \in 1..Len(s) |-> s[i]]
    OBVIOUS
  <2> QED BY <2>1
<1> QED BY <1>1, FunctionIsSequence

\* A sequence that is not empty is its head in front of its tail.
LEMMA HeadAndTail ==
    ASSUME NEW B, NEW s \in Seq(B), s # << >>
    PROVE  Head(s) \in B /\ Tail(s) \in Seq(B) /\ s = << Head(s) >> \o Tail(s)
<1> DEFINE h == Head(s)
           t == Tail(s)
           q == << h >> \o t
<1>1. h \in B /\ t \in Seq(B) /\ Len(s) = Len(t) + 1 /\ Len(t) \in Nat /\ s[1] = h /\ \A i \in 1..Len(t) : s[i + 1] = t[i]
  OBVIOUS
<1> HIDE DEF h, t
<1>2. q \in Seq(B) /\ Len(q) = Len(t) + 1 /\ q[1] = h /\ \A i \in 1..Len(t) : q[i + 1] = t[i]
  BY <1>1, OneMore
<1> HIDE DEF q
<1>3. ASSUME NEW i \in 1..Len(s) PROVE s[i] = q[i]
  <2>1. CASE i = 1
    BY <1>1, <1>2, <2>1
  <2>2. CASE i # 1
    <3>1. PICK j \in 1..Len(t) : i = j + 1
      <4>1. i - 1 \in 1..Len(t) /\ i = i - 1 + 1
        BY <1>1, <2>2
      <4> QED BY <4>1
    <3> QED BY <1>1, <1>2, <3>1
  <2> QED BY <2>1, <2>2
<1>4. s = q
  <2>1. Len(s) = Len(q)
    BY <1>1, <1>2
  <2> QED BY <1>2, <1>3, <2>1, SeqEqual
<1> QED BY <1>1, <1>4 DEF q, h, t

\* The parser's tags have keys and values as they should be, and are at least one.
LEMMA ParsedTags ==
    ASSUME NEW source \in AnyText, ToSet(source) \cap {Space, "CR", "LF"} = {}
    PROVE  ParseTags(source) \in TagMaps /\ DOMAIN ParseTags(source) # {}
<1> DEFINE q == Split(source, Semicolon)
<1>1. source \in Seq(Characters)
  BY DEF AnyText
<1>2. q \in Seq(Seq(Characters)) /\ q # << >>
  BY <1>1, SplitParts
<1>3. \A i \in 1..Len(q) : Semicolon \notin ToSet(q[i]) /\ ToSet(q[i]) \subseteq ToSet(source)
  BY <1>1, SplitParts
<1>4. ParseTags(source) = TagsOf(q)
  BY ParseTagsIs
<1> HIDE DEF q
<1>5. \A i \in 1..Len(q) : q[i] \in TagParts
  <2> SUFFICES ASSUME NEW i \in 1..Len(q) PROVE q[i] \in TagParts
    OBVIOUS
  <2>1. q[i] \in Seq(Characters)
    BY <1>2, ElementOfSeq
  <2>2. ToSet(q[i]) \cap Separators = {}
    BY <1>3 DEF Separators
  <2> QED BY <2>1, <2>2 DEF TagParts, AnyText
<1>6. q \in Seq(TagParts)
  BY <1>2, <1>5, Retyped
<1>7. Head(q) \in TagParts /\ Tail(q) \in Seq(TagParts) /\ q = << Head(q) >> \o Tail(q)
  BY <1>2, <1>6, HeadAndTail
<1>8. PICK t \in TagParts, ps \in Seq(TagParts) : q = << t >> \o ps
  BY <1>7
<1>9. TagsOf(q) = TagStep(t, TagsOf(ps)) /\ TagsOf(ps) \in TagMaps
  BY <1>8, TagsOfCons, TagsOfType
<1>10. KeyOf(t) \in DOMAIN TagsOf(q)
  BY <1>9, TagStepType
<1> QED BY <1>4, <1>6, <1>10, TagsOfType

\* A map with one tag, which has neither a key nor a value: nothing is written of it.
Nameless == [key \in {<< >>} |-> << >>]

\* Tags survive being written and read again, in every order.
THEOREM TagsSurvive ==
    ASSUME NEW tags \in TagMaps, DOMAIN tags # {}, tags # Nameless, NEW order \in OrdersOf(tags)
    PROVE  /\ FormatTags(tags, order) \in AnyText /\ FormatTags(tags, order) # << >>
           /\ ToSet(FormatTags(tags, order)) \cap {Space, "CR", "LF"} = {}
           /\ ParseTags(FormatTags(tags, order)) = tags
<1> DEFINE text == FormatTags(tags, order)
<1>1. order \in Seq(DOMAIN tags) /\ ToSet(order) = DOMAIN tags
  BY DEF OrdersOf
<1>2. order # << >>
  BY <1>1, NoCharacters
<1>3. PICK first \in TagParts, rest \in Seq(TagParts) :
              /\ text = first \o Led(Semicolon, rest)
              /\ Len(rest) = Len(order) - 1 /\ first = TagText(tags, order[1])
              /\ \A i \in 1..Len(rest) : rest[i] = TagText(tags, order[i + 1])
  BY <1>2, FormatTagsIs
<1> HIDE DEF text
<1>4. TagParts \subseteq Seq(Characters)
  BY DEF TagParts, AnyText
<1>5. rest \in Seq(Seq(Characters)) /\ first \in Seq(Characters) /\ Semicolon \in Characters
  BY <1>3, <1>4, SeqMonotonic, CharactersAre
<1>6. Semicolon \notin ToSet(first) /\ \A i \in 1..Len(rest) : Semicolon \notin ToSet(rest[i])
  <2>1. \A p \in TagParts : Semicolon \notin ToSet(p)
    BY DEF TagParts, Separators
  <2>2. \A i \in 1..Len(rest) : rest[i] \in TagParts
    BY <1>3, ElementOfSeq
  <2> QED BY <1>3, <2>1, <2>2
<1> DEFINE parts == << first >> \o rest
<1>7. Split(text, Semicolon) = parts
  BY <1>3, <1>5, <1>6, SplitLed
<1>8. /\ parts \in Seq(TagParts) /\ Len(parts) = Len(rest) + 1 /\ parts[1] = first
      /\ \A i \in 1..Len(rest) : parts[i + 1] = rest[i]
  BY <1>3, OneMore
<1> HIDE DEF parts
<1>9. Len(order) \in Nat /\ Len(rest) \in Nat /\ Len(parts) = Len(order) /\ 1 \in 1..Len(order)
      /\ \A i \in 1..Len(order) : order[i] \in DOMAIN tags
  BY <1>1, <1>2, <1>3, <1>8
<1>10. ASSUME NEW i \in 1..Len(parts) PROVE parts[i] = TagText(tags, order[i])
  <2>1. CASE i = 1
    BY <1>3, <1>8, <2>1
  <2>2. CASE i # 1
    <3>1. PICK j \in 1..Len(rest) : i = j + 1
      <4>1. i - 1 \in 1..Len(rest) /\ i = i - 1 + 1
        BY <1>8, <1>9, <2>2
      <4> QED BY <4>1
    <3> QED BY <1>3, <1>8, <3>1
  <2> QED BY <2>1, <2>2
<1>11. \A i \in 1..Len(parts) : KeyOf(parts[i]) = order[i] /\ ValueOf(parts[i]) = tags[order[i]]
  BY <1>9, <1>10, TagTextIs
<1> DEFINE m == TagsOf(parts)
<1>12. DOMAIN m = {KeyOf(parts[i]) : i \in 1..Len(parts)} /\ \A k \in DOMAIN m : m[k] = tags[k]
  <2>1. \A i \in 1..Len(parts) :
           KeyOf(parts[i]) \in DOMAIN tags /\ ValueOf(parts[i]) = tags[KeyOf(parts[i])]
    BY <1>9, <1>11
  <2>2. parts \in Seq(TagParts)
    BY <1>8
  <2> QED BY ONLY tags \in TagMaps, <2>1, <2>2, TagsOfParts
<1>13. m \in TagMaps
  BY <1>8, TagsOfType
<1> HIDE DEF m
<1>14. DOMAIN m = DOMAIN tags
  <2>1. {KeyOf(parts[i]) : i \in 1..Len(parts)} = {order[i] : i \in 1..Len(parts)}
    BY <1>11
  <2>2. ToSet(order) = {order[i] : i \in 1..Len(order)}
    BY <1>1 DEF ToSet
  <2> QED BY <1>1, <1>9, <1>12, <2>1, <2>2
<1>15. m = tags
  <2>1. m = [k \in DOMAIN m |-> m[k]] /\ tags = [k \in DOMAIN tags |-> tags[k]]
    BY <1>13, TagMapIs
  <2> QED BY <1>12, <1>14, <2>1
<1>16. ParseTags(text) = tags
  BY <1>7, <1>15, ParseTagsIs DEF m
<1> DEFINE others == Led(Semicolon, rest)
<1>17. others \in Seq(Characters)
  BY <1>5, LedType
<1>18. ToSet(others) \cap {Space, "CR", "LF"} = {}
  <2> SUFFICES ASSUME NEW x \in ToSet(others) PROVE x \notin {Space, "CR", "LF"}
    OBVIOUS
  <2>1. x = Semicolon \/ \E i \in 1..Len(rest) : x \in ToSet(rest[i])
    BY <1>5, LedCharacters
  <2>2. Semicolon \notin {Space, "CR", "LF"}
    BY SeparatorsAre
  <2>3. \A i \in 1..Len(rest) : ToSet(rest[i]) \cap Separators = {}
    <3>1. \A i \in 1..Len(rest) : rest[i] \in TagParts
      BY <1>3, ElementOfSeq
    <3> QED BY <3>1 DEF TagParts
  <2> QED BY <2>1, <2>2, <2>3 DEF Separators
<1> HIDE DEF others
<1>19. text \in Seq(Characters) /\ ToSet(text) = ToSet(first) \cup ToSet(others)
  BY <1>3, <1>5, <1>17, JoinedCharacters DEF others
<1>20. ToSet(text) \cap {Space, "CR", "LF"} = {}
  <2>1. ToSet(first) \cap Separators = {}
    BY <1>3 DEF TagParts
  <2> QED BY <1>18, <1>19, <2>1 DEF Separators
<1>21. text # << >>
  <2> SUFFICES ASSUME text = << >> PROVE FALSE
    OBVIOUS
  <2>1. Split(text, Semicolon) = << << >> >>
    BY SplitEmpty
  <2>2. Len(parts) = 1 /\ parts[1] = << >>
    BY <1>7, <2>1
  <2>3. order[1] = << >> /\ tags[order[1]] = << >>
    BY <1>9, <1>10, <2>2, TagTextIs
  <2>4. DOMAIN tags = {<< >>}
    <3>1. ToSet(order) = {order[i] : i \in 1..Len(order)}
      BY <1>1 DEF ToSet
    <3>2. Len(order) = 1
      BY <1>9, <2>2
    <3>3. \A i : i \in 1..1 <=> i = 1
      OBVIOUS
    <3> QED BY <1>1, <2>3, <3>1, <3>2, <3>3
  <2>5. tags = [k \in DOMAIN tags |-> tags[k]]
    BY TagMapIs
  <2>6. tags = Nameless
    BY <2>3, <2>4, <2>5 DEF Nameless
  <2> QED BY <2>6
<1> QED BY <1>16, <1>19, <1>20, <1>21 DEF text, AnyText

(***************************************************************************)
(* Prefixes                                                                *)
(***************************************************************************)

\* Texts that are no more than one word of a line.
Unspaced == {s \in AnyText : ToSet(s) \cap {Space, "CR", "LF"} = {}}

IsHostOnly(p) == \E h \in Unspaced : h # << >> /\ "@" \notin ToSet(h) /\ p = HostOnly(h)

IsFull(p) ==
    \E nick, host \in Unspaced, user \in {<< >>} \cup { << u >> : u \in Unspaced } :
       /\ "@" \notin ToSet(nick) /\ "!" \notin ToSet(nick)
       /\ user # << >> => "@" \notin ToSet(user[1])
       /\ p = Full(nick, user, << host >>)

\* Sequences of one and of two elements.
LEMMA Tails ==
    ASSUME NEW a, NEW b
    PROVE  /\ Len(<< a >>) = 1 /\ << a >>[1] = a /\ Tail(<< a >>) = << >>
           /\ Len(<< a, b >>) = 2 /\ << a, b >>[1] = a /\ Tail(<< a, b >>) = << b >>
<1>1. Tail(<< a >>) = << >>
  OBVIOUS
<1>2. Tail(<< a, b >>) = << b >>
  OBVIOUS
<1> QED BY <1>1, <1>2

\* Texts without spaces and line breaks, put together, have none.
LEMMA UnspacedJoined ==
    ASSUME NEW s, NEW t, NEW c \in Characters \ {Space, "CR", "LF"}
    PROVE  /\ s \in Unspaced /\ t \in Unspaced => s \o t \in Unspaced /\ ToSet(s \o t) = ToSet(s) \cup ToSet(t)
           /\ t \in Unspaced => << c >> \o t \in Unspaced /\ ToSet(<< c >> \o t) = {c} \cup ToSet(t)
           /\ s \in Unspaced <=> s \in Seq(Characters) /\ ToSet(s) \cap {Space, "CR", "LF"} = {}
<1>1. \A u : u \in Unspaced <=> u \in Seq(Characters) /\ ToSet(u) \cap {Space, "CR", "LF"} = {}
  BY DEF Unspaced, AnyText
<1>2. ASSUME s \in Unspaced, t \in Unspaced PROVE s \o t \in Unspaced /\ ToSet(s \o t) = ToSet(s) \cup ToSet(t)
  <2>1. s \in Seq(Characters) /\ t \in Seq(Characters)
    BY <1>1, <1>2
  <2>2. s \o t \in Seq(Characters) /\ ToSet(s \o t) = ToSet(s) \cup ToSet(t)
    BY <2>1, JoinedCharacters
  <2> QED BY <1>1, <1>2, <2>2
<1>3. ASSUME t \in Unspaced PROVE << c >> \o t \in Unspaced /\ ToSet(<< c >> \o t) = {c} \cup ToSet(t)
  <2>1. t \in Seq(Characters)
    BY <1>1, <1>3
  <2>2. << c >> \o t \in Seq(Characters) /\ ToSet(<< c >> \o t) = {c} \cup ToSet(t)
    BY <2>1, FirstAndRest
  <2> QED BY <1>1, <1>3, <2>2
<1> QED BY <1>1, <1>2, <1>3

\* Both parts of an unspaced text that is cut are.
LEMMA UnspacedCut ==
    ASSUME NEW s \in Unspaced, NEW c
    PROVE  \/ c \notin ToSet(s) /\ Cut(s, c) = << s >>
           \/ \E p, r \in Unspaced : /\ s = p \o (<< c >> \o r) /\ c \notin ToSet(p)
                                     /\ Cut(s, c) = << p, r >> /\ ToSet(p) \subseteq ToSet(s) /\ ToSet(r) \subseteq ToSet(s)
<1>1. s \in Seq(Characters) /\ ToSet(s) \cap {Space, "CR", "LF"} = {}
  BY DEF Unspaced, AnyText
<1>2. ASSUME NEW p, NEW r, CutsInto(Characters, s, c, p, r)
      PROVE  /\ p \in Unspaced /\ r \in Unspaced
             /\ s = p \o (<< c >> \o r) /\ c \notin ToSet(p)
             /\ Cut(s, c) = << p, r >> /\ ToSet(p) \subseteq ToSet(s) /\ ToSet(r) \subseteq ToSet(s)
  <2>1. p \in Seq(Characters) /\ r \in Seq(Characters) /\ c \in Characters /\ s = p \o (<< c >> \o r)
    BY <1>2 DEF CutsInto
  <2> DEFINE u == << c >> \o r
  <2>2. u \in Seq(Characters) /\ ToSet(u) = {c} \cup ToSet(r)
    BY <2>1, FirstAndRest
  <2>3. s = p \o u
    BY <2>1
  <2> HIDE DEF u
  <2>4. ToSet(p \o u) = ToSet(p) \cup ToSet(u)
    BY <2>1, <2>2, JoinedCharacters
  <2>5. p \in Unspaced /\ r \in Unspaced
    BY <1>1, <2>1, <2>2, <2>3, <2>4 DEF Unspaced, AnyText
  <2> QED BY <1>2, <2>2, <2>3, <2>4, <2>5 DEF CutsInto
<1>3. (c \notin ToSet(s) /\ Cut(s, c) = << s >>) \/ \E p, r : CutsInto(Characters, s, c, p, r)
  BY <1>1, CutCases
<1> QED BY <1>2, <1>3, Zenon

\* Every prefix the parser gives is one of the two kinds, made of parts that
\* read back.
LEMMA ParsedPrefix ==
    ASSUME NEW source \in Unspaced, source # << >>
    PROVE  IsHostOnly(ParsePrefix(source)) \/ IsFull(ParsePrefix(source))
<1>1. CASE "@" \notin ToSet(source) /\ Cut(source, "@") = << source >>
  <2>1. ParsePrefix(source) = HostOnly(source)
    BY <1>1, Tails DEF ParsePrefix
  <2> QED BY <1>1, <2>1 DEF IsHostOnly
<1>2. ASSUME NEW p \in Unspaced, NEW host \in Unspaced, "@" \notin ToSet(p), Cut(source, "@") = << p, host >>
      PROVE  IsFull(ParsePrefix(source))
  <2> DEFINE at == Cut(source, "@")
             exc == Cut(at[1], "!")
  <2>1. at[1] = p /\ Len(at) # 1 /\ Tail(at) = << host >> /\ exc = Cut(p, "!")
    <3>1. Len(<< p, host >>) = 2 /\ << p, host >>[1] = p /\ Tail(<< p, host >>) = << host >>
      BY Tails, Zenon
    <3>2. at = << p, host >>
      BY <1>2
    <3>3. at[1] = p /\ Len(at) = 2 /\ Tail(at) = << host >>
      BY <3>1, <3>2, Zenon
    <3>4. exc = Cut(p, "!")
      BY ONLY <3>3, Zenon DEF exc
    <3> HIDE DEF at, exc
    <3> QED BY <3>3, <3>4
  <2>2. ParsePrefix(source) = Full(exc[1], Tail(exc), << host >>)
    BY <2>1 DEF ParsePrefix
  <2> HIDE DEF exc, at
  <2>3. CASE "!" \notin ToSet(p) /\ Cut(p, "!") = << p >>
    <3>1. ParsePrefix(source) = Full(p, << >>, << host >>)
      BY <2>1, <2>2, <2>3, Tails
    <3> QED BY <1>2, <2>3, <3>1 DEF IsFull
  <2>4. ASSUME NEW nick \in Unspaced, NEW u \in Unspaced, "!" \notin ToSet(nick), Cut(p, "!") = << nick, u >>,
               ToSet(nick) \subseteq ToSet(p), ToSet(u) \subseteq ToSet(p)
        PROVE  IsFull(ParsePrefix(source))
    <3>1. ParsePrefix(source) = Full(nick, << u >>, << host >>)
      <4>1. Len(<< nick, u >>) = 2 /\ << nick, u >>[1] = nick /\ Tail(<< nick, u >>) = << u >>
        BY Tails, Zenon
      <4>2. exc = << nick, u >>
        BY <2>1, <2>4, Zenon
      <4> QED BY <2>2, <4>1, <4>2, Zenon
    <3>2. "@" \notin ToSet(nick) /\ "@" \notin ToSet(u) /\ << u >>[1] = u
      BY <1>2, <2>4
    <3> QED BY <1>2, <2>4, <3>1, <3>2 DEF IsFull
  <2> QED BY <2>3, <2>4, UnspacedCut, Zenon
<1> QED BY <1>1, <1>2, UnspacedCut, Zenon

\* A prefix that the parser can give survives being written and read again.
THEOREM PrefixSurvives ==
    ASSUME NEW p, IsHostOnly(p) \/ IsFull(p)
    PROVE  /\ FormatPrefix(p) \in Unspaced /\ FormatPrefix(p) # << >>
           /\ ParsePrefix(FormatPrefix(p)) = p
<1>1. CASE IsHostOnly(p)
  <2>1. PICK h \in Unspaced : h # << >> /\ "@" \notin ToSet(h) /\ p = HostOnly(h)
    BY <1>1 DEF IsHostOnly
  <2>2. FormatPrefix(p) = h
    BY <2>1 DEF FormatPrefix, HostOnly
  <2>3. h \in Seq(Characters)
    BY DEF Unspaced, AnyText
  <2>4. Cut(h, "@") = << h >>
    BY <2>1, <2>3, CutNone
  <2>5. ParsePrefix(h) = HostOnly(h)
    BY <2>4, Tails DEF ParsePrefix
  <2> QED BY <2>1, <2>2, <2>5
<1>2. CASE IsFull(p)
  <2>1. PICK nick \in Unspaced, host \in Unspaced, user \in {<< >>} \cup { << u >> : u \in Unspaced } :
           /\ "@" \notin ToSet(nick) /\ "!" \notin ToSet(nick)
           /\ user # << >> => "@" \notin ToSet(user[1])
           /\ p = Full(nick, user, << host >>)
    BY <1>2 DEF IsFull
  <2> DEFINE named == nick \o (IF user = << >> THEN << >> ELSE << "!" >> \o user[1])
             tail == << "@" >> \o host
  <2>2. "@" \in Characters \ {Space, "CR", "LF"} /\ "!" \in Characters \ {Space, "CR", "LF"}
    BY CharactersAre, SeparatorsAre
  <2>3. /\ named \in Unspaced /\ "@" \notin ToSet(named)
        /\ user = << >> => Cut(named, "!") = << nick >>
        /\ user # << >> => Cut(named, "!") = << nick, user[1] >> /\ user = << user[1] >>
    <3>1. CASE user = << >>
      <4>1. nick \in Seq(Characters) /\ nick \o << >> = nick
        BY ConcatEmptySeq DEF Unspaced, AnyText
      <4>2. named = nick
        BY <3>1, <4>1
      <4> QED BY <2>1, <3>1, <4>1, <4>2, CutNone
    <3>2. CASE user # << >>
      <4>1. PICK u \in Unspaced : user = << u >>
        BY <3>2
      <4> DEFINE w == << "!" >> \o u
      <4>2. user[1] = u /\ "@" \notin ToSet(u)
        BY <2>1, <3>2, <4>1
      <4>3. named = nick \o w
        BY <3>2, <4>2
      <4>4. w \in Unspaced /\ ToSet(w) = {"!"} \cup ToSet(u)
        BY <2>2, UnspacedJoined
      <4>5. nick \in Seq(Characters) /\ u \in Seq(Characters) /\ "!" \in Characters
        BY <2>2 DEF Unspaced, AnyText
      <4>6. Cut(nick \o w, "!") = << nick, u >>
        BY <2>1, <4>5, CutAtFirst
      <4> HIDE DEF w
      <4>7. nick \o w \in Unspaced /\ ToSet(nick \o w) = ToSet(nick) \cup ToSet(w)
        BY <2>2, <4>4, UnspacedJoined
      <4> QED BY <2>1, <3>2, <4>1, <4>2, <4>3, <4>4, <4>6, <4>7
    <3> QED BY <3>1, <3>2
  <2> HIDE DEF named
  <2>4. FormatPrefix(p) = named \o tail
    <3>1. FormatPrefix(p) = (named \o << "@" >>) \o host
      <4>1. p.kind # "host" /\ p.nick = nick /\ p.user = user /\ p.host = << host >>
        BY <2>1 DEF Full
      <4>2. << host >> # << >> /\ << host >>[1] = host
        OBVIOUS
      <4> QED BY <4>1, <4>2, Zenon DEF FormatPrefix, named
    <3>2. named \in Seq(Characters) /\ host \in Seq(Characters) /\ "@" \in Characters
      BY <2>2, <2>3 DEF Unspaced, AnyText
    <3>3. << "@" >> \in Seq(Characters)
      BY <3>2, OneCharacter
    <3> DEFINE one == << "@" >>
    <3>4. (named \o one) \o host = named \o (one \o host)
      <4>1. one \in Seq(Characters)
        BY <3>3
      <4> HIDE DEF one
      <4> QED BY <3>2, <4>1, ConcatAssociative
    <3> QED BY <3>1, <3>4
  <2>5. named \in Seq(Characters) /\ host \in Seq(Characters) /\ "@" \in Characters
    BY <2>2, <2>3 DEF Unspaced, AnyText
  <2>6. Cut(named \o tail, "@") = << named, host >>
    BY <2>3, <2>5, CutAtFirst
  <2>7. tail \in Unspaced /\ ToSet(tail) = {"@"} \cup ToSet(host)
    BY <2>2, UnspacedJoined
  <2> HIDE DEF tail
  <2>8. named \o tail \in Unspaced /\ ToSet(named \o tail) = ToSet(named) \cup ToSet(tail)
    BY <2>2, <2>3, <2>7, UnspacedJoined
  <2>9. named \o tail # << >>
    <3>1. "@" \in ToSet(named \o tail)
      BY <2>7, <2>8
    <3> QED BY <3>1, NoCharacters
  <2> DEFINE line == named \o tail
             at == Cut(line, "@")
             exc == Cut(at[1], "!")
  <2>10. at[1] = named /\ Len(at) # 1 /\ Tail(at) = << host >> /\ exc = Cut(named, "!")
    <3>1. Len(<< named, host >>) = 2 /\ << named, host >>[1] = named /\ Tail(<< named, host >>) = << host >>
      BY Tails, Zenon
    <3>2. at = << named, host >>
      BY <2>6
    <3>3. at[1] = named /\ Len(at) = 2 /\ Tail(at) = << host >>
      BY <3>1, <3>2, Zenon
    <3>4. exc = Cut(named, "!")
      BY ONLY <3>3, Zenon DEF exc
    <3> QED BY ONLY <3>3, <3>4
  <2>11. ParsePrefix(line) = Full(exc[1], Tail(exc), << host >>)
    BY <2>10 DEF ParsePrefix
  <2>12. exc[1] = nick /\ Tail(exc) = user
    <3> HIDE DEF exc, at
    <3>1. CASE user = << >>
      BY <2>3, <2>10, <3>1, Tails
    <3>2. CASE user # << >>
      <4>1. PICK u : u = user[1]
        OBVIOUS
      <4>2. user = << u >> /\ exc = << nick, u >>
        BY <2>3, <2>10, <3>2, <4>1, Zenon
      <4>3. << nick, u >>[1] = nick /\ Tail(<< nick, u >>) = << u >>
        BY Tails, Zenon
      <4> QED BY <4>2, <4>3, Zenon
    <3> QED BY <3>1, <3>2
  <2> QED BY <2>1, <2>4, <2>8, <2>9, <2>11, <2>12
<1> QED BY <1>1, <1>2

(***************************************************************************)
(* Parameters                                                              *)
(***************************************************************************)

Inline == Characters \ {"CR", "LF"}

Plain == {p \in Seq(Inline) : p # << >> /\ Space \notin ToSet(p) /\ ~StartsWith(p, ":")}

\* The lists of parameters that a line can hold: all but the last are plain.
ParamLists == Seq(Plain) \cup { Append(middle, last) : middle \in Seq(Plain), last \in Seq(Inline) \ Plain }

TrailingStarts(s) == {i \in 1..Len(s) : s[i] = ":" /\ (i = 1 \/ s[i - 1] = Space)}

ColonIn(s) ==
    SelectInSubSeq([i \in DOMAIN s |-> s[i] = ":" /\ (i = 1 \/ s[i - 1] = Space)],
                   1, Len(s), LAMBDA starts : starts)

ParamsAt(s, colon) ==
    LET middle == IF colon = 1 THEN << >> ELSE Split(IF colon = 0 THEN s ELSE SubSeq(s, 1, colon - 2), Space)
    IN  IF << >> \in ToSet(middle) THEN Refused("TooManySpacesInMiddleParams")
        ELSE Accepted(IF colon = 0 THEN middle ELSE Append(middle, SubSeq(s, colon + 1, Len(s))))

\* The characters of a line.
LEMMA InlineAre == {Space, ":", "@"} \subseteq Inline /\ Inline \subseteq Characters
BY CharactersAre, SeparatorsAre DEF Inline

\* Parameters are read by where the trailing one starts.
LEMMA ParseParamsIs == ASSUME NEW s PROVE ParseParams(s) = ParamsAt(s, ColonIn(s))
BY Zenon DEF ParseParams, ParamsAt, ColonIn, Space

\* The trailing parameter starts at the first colon that is first or behind a
\* space.
LEMMA ColonInIs ==
    ASSUME NEW s \in Seq(Inline)
    PROVE  ColonIn(s) = IF TrailingStarts(s) # {} THEN Min(TrailingStarts(s)) ELSE 0
<1> DEFINE f == [i \in DOMAIN s |-> s[i] = ":" /\ (i = 1 \/ s[i - 1] = Space)]
           I == {i \in 1..Len(s) : f[i]}
<1>1. DOMAIN s = 1..Len(s)
  OBVIOUS
<1>2. \A i \in 1..Len(s) : f[i] <=> s[i] = ":" /\ (i = 1 \/ s[i - 1] = Space)
  BY <1>1, Zenon
<1>3. I = TrailingStarts(s)
  <2> HIDE DEF f
  <2> QED BY <1>2 DEF TrailingStarts
<1>4. ColonIn(s) = IF I # {} THEN Min(I) ELSE 0
  BY Zenon DEF ColonIn, SelectInSubSeq
<1> QED BY <1>3, <1>4, Zenon

\* The least element of a set of numbers is the only one.
LEMMA LeastIs ==
    ASSUME NEW I \in SUBSET Nat, NEW m \in I, \A i \in I : m <= i
    PROVE  I # {} /\ Min(I) = m
<1>1. \A x \in I : (\A y \in I : x <= y) => x = m
  OBVIOUS
<1> QED BY <1>1 DEF Min

\* Behind a colon at the start all is one parameter.
LEMMA ColonFirst ==
    ASSUME NEW r \in Seq(Inline)
    PROVE  ParseParams(<< ":" >> \o r) = Accepted(<< r >>)
<1> DEFINE s == << ":" >> \o r
<1>1. s \in Seq(Inline) /\ Len(s) = Len(r) + 1 /\ s[1] = ":" /\ \A i \in 1..Len(r) : s[i + 1] = r[i]
  BY InlineAre, OneMore
<1>2. Len(r) \in Nat /\ Len(s) \in Nat
  BY <1>1
<1> HIDE DEF s
<1>3. ColonIn(s) = 1
  <2>1. TrailingStarts(s) \in SUBSET Nat /\ 1 \in TrailingStarts(s) /\ \A i \in TrailingStarts(s) : 1 <= i
    BY <1>1, <1>2 DEF TrailingStarts
  <2> QED BY <1>1, <2>1, LeastIs, ColonInIs
<1>4. SubSeq(s, 1 + 1, Len(s)) = r
  <2> DEFINE u == SubSeq(s, 1 + 1, Len(s))
  <2>1. u \in Seq(Inline) /\ Len(u) = Len(r) /\ \A i \in 1..Len(r) : u[i] = s[i + 1]
    BY <1>1, <1>2
  <2> HIDE DEF u
  <2>2. u = r
    BY <1>1, <2>1, SeqEqual
  <2> QED BY <2>2 DEF u
<1>5. << >> \notin ToSet(<< >>) /\ Append(<< >>, r) = << r >>
  BY NoCharacters
<1>6. ParamsAt(s, 1) = Accepted(Append(<< >>, SubSeq(s, 1 + 1, Len(s))))
  <2>1. 1 # 0
    OBVIOUS
  <2> QED BY <1>5, <2>1, Zenon DEF ParamsAt
<1> QED BY <1>3, <1>4, <1>5, <1>6, ParseParamsIs, Zenon DEF s

\* Without a trailing parameter the words are the parameters, and none may be
\* empty.
LEMMA ColonNowhere ==
    ASSUME NEW s \in Seq(Inline), TrailingStarts(s) = {}
    PROVE  ParseParams(s) = IF << >> \in ToSet(Split(s, Space)) THEN Refused("TooManySpacesInMiddleParams")
                            ELSE Accepted(Split(s, Space))
<1>1. ColonIn(s) = 0
  BY ColonInIs
<1>2. ParseParams(s) = ParamsAt(s, 0)
  BY <1>1, ParseParamsIs, Zenon
<1>3. 0 # 1
  OBVIOUS
<1> QED BY <1>2, <1>3, Zenon DEF ParamsAt

\* With one, the words before it are parameters, and none may be empty.
LEMMA ColonBehind ==
    ASSUME NEW p \in Seq(Inline), NEW r \in Seq(Inline), TrailingStarts(p) = {}
    PROVE  /\ p \o (<< Space >> \o (<< ":" >> \o r)) \in Seq(Inline)
           /\ ParseParams(p \o (<< Space >> \o (<< ":" >> \o r))) =
                IF << >> \in ToSet(Split(p, Space)) THEN Refused("TooManySpacesInMiddleParams")
                ELSE Accepted(Append(Split(p, Space), r))
<1> DEFINE q == << ":" >> \o r
<1>1. q \in Seq(Inline) /\ Len(q) = Len(r) + 1 /\ q[1] = ":" /\ \A i \in 1..Len(r) : q[i + 1] = r[i]
  BY InlineAre, OneMore
<1> HIDE DEF q
<1> DEFINE s == p \o (<< Space >> \o q)
           n == Len(p)
<1>2. /\ s \in Seq(Inline) /\ Len(s) = n + 1 + Len(q) /\ n \in Nat /\ Len(q) \in Nat
      /\ \A i \in 1..n : s[i] = p[i]
      /\ s[n + 1] = Space
      /\ \A i \in 1..Len(q) : s[n + 1 + i] = q[i]
  <2>1. Space \in Inline
    BY InlineAre
  <2>2. q \in Seq(Inline)
    BY <1>1
  <2> HIDE DEF n
  <2>3. /\ s \in Seq(Inline) /\ Len(s) = Len(p) + 1 + Len(q) /\ Len(p) \in Nat /\ Len(q) \in Nat
        /\ \A i \in 1..Len(p) : s[i] = p[i]
        /\ s[Len(p) + 1] = Space
        /\ \A i \in 1..Len(q) : s[Len(p) + 1 + i] = q[i]
    <3>1. s \in Seq(Inline) /\ Len(s) = Len(p) + 1 + Len(q) /\ Len(p) \in Nat /\ Len(q) \in Nat
      BY <2>1, <2>2, PartsAround
    <3>2. \A i \in 1..Len(p) : s[i] = p[i]
      BY <2>1, <2>2, PartsAround
    <3>3. s[Len(p) + 1] = Space
      BY <2>1, <2>2, PartsAround
    <3>4. \A i \in 1..Len(q) : s[Len(p) + 1 + i] = q[i]
      BY <2>1, <2>2, PartsAround
    <3> QED BY <3>1, <3>2, <3>3, <3>4
  <2> QED BY <2>3, Zenon DEF n
<1>3. Len(r) \in Nat /\ Len(s) \in Nat
  OBVIOUS
<1> HIDE DEF s, n
<1>4. s[n + 2] = ":" /\ \A i \in 1..Len(r) : s[n + 2 + i] = r[i]
  <2>1. 1 \in 1..Len(q) /\ n + 1 + 1 = n + 2
    BY <1>1, <1>2, <1>3
  <2>2. ASSUME NEW i \in 1..Len(r) PROVE s[n + 2 + i] = r[i]
    <3>1. i + 1 \in 1..Len(q) /\ n + 1 + (i + 1) = n + 2 + i
      BY <1>1, <1>2, <1>3
    <3> QED BY <1>1, <1>2, <3>1
  <2> QED BY <1>1, <1>2, <2>1, <2>2
<1>5. ColonIn(s) = n + 2
  <2>1. n + 2 \in TrailingStarts(s)
    BY <1>1, <1>2, <1>3, <1>4 DEF TrailingStarts
  <2>2. ASSUME NEW i \in TrailingStarts(s) PROVE n + 2 <= i
    <3>1. i \in 1..Len(s) /\ s[i] = ":" /\ (i = 1 \/ s[i - 1] = Space)
      BY DEF TrailingStarts
    <3>2. CASE i \in 1..n
      <4>1. p[i] = ":" /\ (i = 1 \/ p[i - 1] = Space)
        BY <1>2, <3>1, <3>2
      <4> QED BY <3>2, <4>1 DEF TrailingStarts, n
    <3>3. CASE i = n + 1
      BY <1>2, <3>1, <3>3, SeparatorsAre
    <3> QED BY <1>2, <1>3, <3>1, <3>2, <3>3
  <2>3. TrailingStarts(s) \in SUBSET Nat
    BY <1>3 DEF TrailingStarts
  <2>4. TrailingStarts(s) # {} /\ Min(TrailingStarts(s)) = n + 2
    BY <2>1, <2>2, <2>3, LeastIs
  <2> QED BY <1>2, <2>4, ColonInIs
<1>6. SubSeq(s, 1, (n + 2) - 2) = p
  <2> DEFINE u == SubSeq(s, 1, (n + 2) - 2)
  <2>1. u \in Seq(Inline) /\ Len(u) = n /\ \A i \in 1..n : u[i] = s[i]
    BY <1>2, <1>3
  <2> HIDE DEF u
  <2>2. u = p
    BY <1>2, <2>1, SeqEqual DEF n
  <2> QED BY <2>2 DEF u
<1>7. SubSeq(s, (n + 2) + 1, Len(s)) = r
  <2> DEFINE u == SubSeq(s, (n + 2) + 1, Len(s))
  <2>1. u \in Seq(Inline) /\ Len(u) = Len(r) /\ \A i \in 1..Len(r) : u[i] = s[n + 2 + i]
    BY <1>1, <1>2, <1>3
  <2> HIDE DEF u
  <2>2. u = r
    BY <1>4, <2>1, SeqEqual
  <2> QED BY <2>2 DEF u
<1>8. n + 2 # 0 /\ n + 2 # 1
  BY <1>2
<1>9. ParseParams(s) = ParamsAt(s, n + 2)
  BY <1>5, ParseParamsIs, Zenon
<1> QED BY <1>2, <1>6, <1>7, <1>8, <1>9, Zenon DEF ParamsAt, s, q

\* Where the first trailing parameter starts in a text, if one does.
TrailsBehind(s, p, r) ==
    /\ p \in Seq(Inline) /\ r \in Seq(Inline) /\ TrailingStarts(p) = {}
    /\ s = p \o (<< Space >> \o (<< ":" >> \o r))

\* There is no trailing parameter, or it is first, or it is behind others.
LEMMA TrailingCases ==
    ASSUME NEW s \in Seq(Inline)
    PROVE  \/ TrailingStarts(s) = {}
           \/ \E r \in Seq(Inline) : s = << ":" >> \o r
           \/ \E p, r : TrailsBehind(s, p, r)
<1> SUFFICES ASSUME TrailingStarts(s) # {}
             PROVE  (\E r \in Seq(Inline) : s = << ":" >> \o r) \/ \E p, r : TrailsBehind(s, p, r)
  OBVIOUS
<1>1. PICK k \in TrailingStarts(s) : \A i \in TrailingStarts(s) : k <= i
  <2>1. TrailingStarts(s) \subseteq Nat
    BY DEF TrailingStarts
  <2> QED BY <2>1, LeastNumber
<1>2. k \in 1..Len(s) /\ s[k] = ":" /\ (k = 1 \/ s[k - 1] = Space) /\ Len(s) \in Nat
  BY DEF TrailingStarts
<1>3. CASE k = 1
  <2>1. s # << >> /\ Head(s) = ":"
    BY <1>2, <1>3
  <2>2. Tail(s) \in Seq(Inline) /\ s = << Head(s) >> \o Tail(s)
    BY <2>1, HeadAndTail
  <2>3. s = << ":" >> \o Tail(s)
    BY <2>1, <2>2, Zenon
  <2> QED BY <2>2, <2>3
<1>4. CASE k # 1
  <2> DEFINE p == SubSeq(s, 1, k - 2)
             r == SubSeq(s, k + 1, Len(s))
  <2>1. k - 2 \in Nat /\ k - 1 \in 1..Len(s) /\ k + 1 \in Nat
    BY <1>2, <1>4
  <2>2. p \in Seq(Inline) /\ Len(p) = k - 2 /\ \A i \in 1..(k - 2) : p[i] = s[i]
    BY <1>2, <2>1
  <2>3. r \in Seq(Inline) /\ Len(r) = Len(s) - k /\ \A i \in 1..(Len(s) - k) : r[i] = s[k + i]
    BY <1>2, <2>1
  <2> HIDE DEF p, r
  <2> DEFINE q == << ":" >> \o r
  <2>4. q \in Seq(Inline) /\ Len(q) = Len(r) + 1 /\ q[1] = ":" /\ \A i \in 1..Len(r) : q[i + 1] = r[i]
    BY <2>3, InlineAre, OneMore
  <2> HIDE DEF q
  <2> DEFINE u == p \o (<< Space >> \o q)
  <2>5. Space \in Inline /\ q \in Seq(Inline)
    BY <2>4, InlineAre
  <2>6. u \in Seq(Inline) /\ Len(u) = Len(p) + 1 + Len(q) /\ Len(p) \in Nat /\ Len(q) \in Nat
    BY <2>2, <2>5, PartsAround
  <2>7. \A i \in 1..Len(p) : u[i] = p[i]
    BY <2>2, <2>5, PartsAround
  <2>8. u[Len(p) + 1] = Space
    BY <2>2, <2>5, PartsAround
  <2>9. \A i \in 1..Len(q) : u[Len(p) + 1 + i] = q[i]
    BY <2>2, <2>5, PartsAround
  <2> HIDE DEF u
  <2>10. Len(u) = Len(s)
    BY <1>2, <2>2, <2>3, <2>4, <2>6
  <2>11. ASSUME NEW i \in 1..Len(s) PROVE u[i] = s[i]
    <3>1. CASE i <= k - 2
      <4>1. i \in 1..(k - 2)
        BY <1>2, <2>1, <3>1
      <4> QED BY <2>2, <2>7, <4>1
    <3>2. CASE i = k - 1
      <4>1. Len(p) + 1 = i
        BY <1>2, <2>2, <3>2
      <4> QED BY <1>2, <1>4, <2>8, <3>2, <4>1
    <3>3. CASE i = k
      <4>1. Len(p) + 1 + 1 = i /\ 1 \in 1..Len(q)
        BY <1>2, <2>2, <2>3, <2>4, <3>3
      <4>2. u[Len(p) + 1 + 1] = q[1]
        BY <2>9, <4>1, Zenon
      <4> QED BY <1>2, <2>4, <3>3, <4>1, <4>2, Zenon
    <3>4. CASE i > k
      <4>1. PICK j : j = i - k
        OBVIOUS
      <4>2. j \in 1..Len(r) /\ j + 1 \in 1..Len(q) /\ Len(p) + 1 + (j + 1) = i /\ k + j = i /\ j \in 1..(Len(s) - k)
        BY <1>2, <2>2, <2>3, <2>4, <3>4, <4>1
      <4>3. u[Len(p) + 1 + (j + 1)] = q[j + 1] /\ q[j + 1] = r[j] /\ r[j] = s[k + j]
        BY <2>3, <2>4, <2>9, <4>2, Zenon
      <4> QED BY <4>2, <4>3, Zenon
    <3> QED BY <1>2, <2>1, <3>1, <3>2, <3>3, <3>4
  <2>12. u = s
    BY <2>6, <2>10, <2>11, SeqEqual
  <2>13. TrailingStarts(p) = {}
    <3> SUFFICES ASSUME NEW i \in TrailingStarts(p) PROVE FALSE
      OBVIOUS
    <3>1. i \in 1..(k - 2) /\ p[i] = ":" /\ (i = 1 \/ p[i - 1] = Space)
      BY <2>2 DEF TrailingStarts
    <3>2. i \in 1..Len(s) /\ i < k /\ (i # 1 => i - 1 \in 1..(k - 2))
      BY <1>2, <2>1, <3>1
    <3>3. s[i] = ":" /\ (i = 1 \/ s[i - 1] = Space)
      BY <2>2, <3>1, <3>2
    <3>4. i \in TrailingStarts(s)
      BY <3>2, <3>3 DEF TrailingStarts
    <3> QED BY <1>1, <1>2, <3>2, <3>4
  <2>14. TrailsBehind(s, p, r)
    BY <2>2, <2>3, <2>12, <2>13, Zenon DEF TrailsBehind, u, q
  <2> QED BY <2>14
<1> QED BY <1>3, <1>4

\* A trailing parameter starts where a word of the text does.
LEMMA WordStarts ==
    ASSUME NEW s \in Seq(Inline)
    PROVE  TrailingStarts(s) = {}
             <=> \A i \in 1..Len(Split(s, Space)) : ~StartsWith(Split(s, Space)[i], ":")
<1> DEFINE parts == Split(s, Space)
           Starts == \E i \in 2..Len(s) : s[i] = ":" /\ s[i - 1] = Space
<1>1. Space # ":"
  BY SeparatorsAre
<1>2. StartsWith(parts[1], ":") <=> StartsWith(s, ":")
  BY <1>1, SplitStarts
<1>3. (\E i \in 2..Len(parts) : StartsWith(parts[i], ":")) <=> Starts
  <2>1. LaterStarts(parts, ":") <=> Behind(s, Space, ":")
    BY <1>1, SplitStarts
  <2> QED BY <2>1, Zenon DEF LaterStarts, Behind
<1>4. parts \in Seq(Seq(Inline)) /\ parts # << >>
  BY SplitParts
<1>5. TrailingStarts(s) # {} <=> StartsWith(s, ":") \/ Starts
  <2>1. ASSUME NEW i \in TrailingStarts(s) PROVE StartsWith(s, ":") \/ Starts
    <3>1. i \in 1..Len(s) /\ s[i] = ":" /\ (i = 1 \/ s[i - 1] = Space)
      BY DEF TrailingStarts
    <3>2. CASE i = 1
      BY <3>1, <3>2 DEF StartsWith
    <3>3. CASE i # 1
      <4>1. i \in 2..Len(s)
        BY <3>1, <3>3
      <4> QED BY <3>1, <3>3, <4>1
    <3> QED BY <3>2, <3>3
  <2>2. ASSUME StartsWith(s, ":") PROVE 1 \in TrailingStarts(s)
    BY <2>2 DEF StartsWith, TrailingStarts
  <2>3. ASSUME NEW i \in 2..Len(s), s[i] = ":", s[i - 1] = Space PROVE i \in TrailingStarts(s)
    BY <2>3 DEF TrailingStarts
  <2> QED BY <2>1, <2>2, <2>3
<1> HIDE DEF parts, Starts
<1>6. \A i : i \in 1..Len(parts) <=> i = 1 \/ i \in 2..Len(parts)
  BY <1>4
<1>7. TrailingStarts(s) = {} <=> \A i \in 1..Len(parts) : ~StartsWith(parts[i], ":")
  BY <1>2, <1>3, <1>5, <1>6
<1> QED BY <1>7 DEF parts

\* Parts none of which is the empty text.
LEMMA NotEmptyText ==
    ASSUME NEW parts \in Seq(Seq(Inline)), << >> \notin ToSet(parts)
    PROVE  \A i \in 1..Len(parts) : parts[i] # << >>
BY DEF ToSet

\* The words of a text in which no trailing parameter starts are plain.
LEMMA PlainWords ==
    ASSUME NEW s \in Seq(Inline), TrailingStarts(s) = {}, << >> \notin ToSet(Split(s, Space))
    PROVE  Split(s, Space) \in Seq(Plain) /\ Split(s, Space) # << >>
<1> DEFINE parts == Split(s, Space)
<1>1. /\ parts \in Seq(Seq(Inline)) /\ parts # << >>
      /\ \A i \in 1..Len(parts) : Space \notin ToSet(parts[i])
  BY SplitParts
<1>2. \A i \in 1..Len(parts) : ~StartsWith(parts[i], ":")
  BY WordStarts
<1> HIDE DEF parts
<1>6. \A i \in 1..Len(parts) : parts[i] # << >>
  BY <1>1, NotEmptyText DEF parts
<1>7. ASSUME NEW i \in 1..Len(parts) PROVE parts[i] \in Plain
  <2>1. parts[i] \in Seq(Inline)
    BY <1>1
  <2> QED BY <1>1, <1>2, <1>6, <2>1 DEF Plain
<1>8. parts \in Seq(Plain)
  BY <1>1, <1>7, Retyped
<1> QED BY <1>1, <1>8 DEF parts

\* Plain parameters and any last one are a list that can be written.
LEMMA LastParam ==
    ASSUME NEW middle \in Seq(Plain), NEW last \in Seq(Inline)
    PROVE  Append(middle, last) \in ParamLists /\ Append(middle, last) # << >>
<1>1. CASE last \in Plain
  <2>1. Append(middle, last) \in Seq(Plain) /\ Append(middle, last) # << >>
    BY <1>1
  <2> QED BY <2>1 DEF ParamLists
<1>2. CASE last \notin Plain
  BY <1>2 DEF ParamLists
<1> QED BY <1>1, <1>2

\* Whatever parameters are read are a list that can be written.
LEMMA ParsedParams ==
    ASSUME NEW s \in Seq(Inline)
    PROVE  \/ ParseParams(s) = Refused("TooManySpacesInMiddleParams")
           \/ \E ps \in ParamLists : ps # << >> /\ ParseParams(s) = Accepted(ps)
<1>1. CASE TrailingStarts(s) = {}
  <2>1. CASE << >> \in ToSet(Split(s, Space))
    BY <1>1, <2>1, ColonNowhere
  <2>2. CASE << >> \notin ToSet(Split(s, Space))
    <3>1. Split(s, Space) \in Seq(Plain) /\ Split(s, Space) # << >>
      BY <1>1, <2>2, PlainWords
    <3>2. ParseParams(s) = Accepted(Split(s, Space))
      BY <1>1, <2>2, ColonNowhere
    <3> QED BY <3>1, <3>2 DEF ParamLists
  <2> QED BY <2>1, <2>2
<1>2. ASSUME NEW r \in Seq(Inline), s = << ":" >> \o r
      PROVE  \E ps \in ParamLists : ps # << >> /\ ParseParams(s) = Accepted(ps)
  <2>1. ParseParams(s) = Accepted(<< r >>)
    BY <1>2, ColonFirst
  <2>2. Append(<< >>, r) \in ParamLists /\ Append(<< >>, r) # << >> /\ Append(<< >>, r) = << r >>
    <3>1. << >> \in Seq(Plain)
      OBVIOUS
    <3>2. Append(<< >>, r) \in ParamLists /\ Append(<< >>, r) # << >>
      BY <3>1, LastParam
    <3>3. Append(<< >>, r) = << r >>
      OBVIOUS
    <3> QED BY <3>2, <3>3
  <2> QED BY <2>1, <2>2
<1>3. ASSUME NEW p, NEW r, TrailsBehind(s, p, r)
      PROVE  \/ ParseParams(s) = Refused("TooManySpacesInMiddleParams")
             \/ \E ps \in ParamLists : ps # << >> /\ ParseParams(s) = Accepted(ps)
  <2>1. p \in Seq(Inline) /\ r \in Seq(Inline) /\ TrailingStarts(p) = {} /\ s = p \o (<< Space >> \o (<< ":" >> \o r))
    BY <1>3, Zenon DEF TrailsBehind
  <2>2. ParseParams(s) = IF << >> \in ToSet(Split(p, Space)) THEN Refused("TooManySpacesInMiddleParams")
                         ELSE Accepted(Append(Split(p, Space), r))
    BY <2>1, ColonBehind, Zenon
  <2>3. CASE << >> \notin ToSet(Split(p, Space))
    <3>1. Split(p, Space) \in Seq(Plain)
      BY <2>1, <2>3, PlainWords
    <3>2. Append(Split(p, Space), r) \in ParamLists /\ Append(Split(p, Space), r) # << >>
      BY <2>1, <3>1, LastParam
    <3> QED BY <2>2, <2>3, <3>2
  <2> QED BY <2>2, <2>3
<1> QED BY <1>1, <1>2, <1>3, TrailingCases, Zenon

FormatAt(params, colon) ==
    LET kept == IF colon = 0 THEN params ELSE SubSeq(params, 1, colon)
    IN  Concat([i \in DOMAIN kept |-> (IF i = colon THEN << Space, ":" >> ELSE << Space >>) \o kept[i]])

\* Parameters are written up to the first that needs a colon.
LEMMA FormatParamsIs == ASSUME NEW params PROVE FormatParams(params) = FormatAt(params, SelectInSeq(params, NeedsColon))
BY Zenon DEF FormatParams, FormatAt, Space

\* The parameters that need no colon are the plain ones.
LEMMA NeedsColonIs ==
    ASSUME NEW p \in Seq(Inline)
    PROVE  NeedsColon(p) <=> p \notin Plain
<1>1. NeedsColon(p) <=> p = << >> \/ Contains(p, Space) \/ StartsWith(p, ":")
  BY Zenon DEF NeedsColon, Space
<1>2. Contains(p, Space) <=> Space \in ToSet(p)
  BY DEF Contains, ToSet
<1> QED BY <1>1, <1>2 DEF Plain

\* Plain parameters are texts.
LEMMA PlainTexts == ASSUME NEW ps \in Seq(Plain) PROVE ps \in Seq(Seq(Inline))
<1>1. Plain \subseteq Seq(Inline)
  BY DEF Plain
<1> QED BY <1>1

\* Plain parameters are written with a space before each.
LEMMA FormatPlain ==
    ASSUME NEW ps \in Seq(Plain)
    PROVE  FormatParams(ps) = Led(Space, ps)
<1>1. ps \in Seq(Seq(Inline))
  BY PlainTexts
<1>2. SelectInSeq(ps, NeedsColon) = 0
  <2>1. {i \in 1..Len(ps) : NeedsColon(ps[i])} = {}
    BY NeedsColonIs DEF Plain
  <2> QED BY <2>1 DEF SelectInSeq
<1>3. [i \in DOMAIN ps |-> (IF i = 0 THEN << Space, ":" >> ELSE << Space >>) \o ps[i]]
        = [i \in 1..Len(ps) |-> << Space >> \o ps[i]]
  BY <1>1
<1>4. FormatAt(ps, 0) = Concat([i \in DOMAIN ps |-> (IF i = 0 THEN << Space, ":" >> ELSE << Space >>) \o ps[i]])
  BY Zenon DEF FormatAt
<1> QED BY <1>2, <1>3, <1>4, FormatParamsIs, Zenon DEF Led

\* And the last, if it is not plain, with a space and a colon.
LEMMA FormatTrailing ==
    ASSUME NEW middle \in Seq(Plain), NEW last \in Seq(Inline) \ Plain
    PROVE  FormatParams(Append(middle, last)) = Led(Space, middle) \o (<< Space >> \o (<< ":" >> \o last))
<1> DEFINE ps == Append(middle, last)
           n == Len(middle)
           f == [i \in 1..n |-> << Space >> \o middle[i]]
           lead == << Space, ":" >>
           t == lead \o last
<1>1. middle \in Seq(Seq(Inline)) /\ last \in Seq(Inline) /\ n \in Nat
  BY PlainTexts
<1>2. /\ ps \in Seq(Seq(Inline)) /\ Len(ps) = n + 1 /\ DOMAIN ps = 1..(n + 1)
      /\ ps[n + 1] = last /\ \A i \in 1..n : ps[i] = middle[i]
  BY <1>1
<1>3. t \in Seq(Inline) /\ t = << Space >> \o (<< ":" >> \o last)
  <2>1. Space \in Inline /\ ":" \in Inline
    BY InlineAre
  <2>2. lead = << Space >> \o << ":" >> /\ << Space >> \in Seq(Inline) /\ << ":" >> \in Seq(Inline)
    BY <2>1
  <2> DEFINE a == << Space >>
             b == << ":" >>
  <2>3. a \in Seq(Inline) /\ b \in Seq(Inline) /\ lead = a \o b
    BY <2>2
  <2> HIDE DEF a, b, lead
  <2>4. t \in Seq(Inline) /\ t = a \o (b \o last)
    BY <1>1, <2>3, ConcatAssociative
  <2> QED BY <2>4 DEF a, b
<1>4. f \in Seq(Seq(Inline)) /\ Len(f) = n
  <2>1. Space \in Inline
    BY InlineAre
  <2>2. f \in Seq(Seq(Inline))
    BY <1>1, <2>1, LedTexts
  <2> QED BY <1>1, <2>2
<1> HIDE DEF t
<1>5. SelectInSeq(ps, NeedsColon) = n + 1
  <2> DEFINE I == {i \in 1..Len(ps) : NeedsColon(ps[i])}
  <2>1. n + 1 \in I
    BY <1>1, <1>2, NeedsColonIs
  <2>2. ASSUME NEW i \in I PROVE n + 1 <= i
    <3>1. CASE i \in 1..n
      <4>1. middle[i] \in Plain /\ middle[i] \in Seq(Inline) /\ ps[i] = middle[i]
        BY <1>1, <1>2, <3>1
      <4>2. ~NeedsColon(ps[i])
        BY <4>1, NeedsColonIs
      <4> QED BY <4>2
    <3> QED BY <1>1, <1>2, <3>1
  <2>3. I \in SUBSET Nat
    OBVIOUS
  <2> HIDE DEF I
  <2>4. I # {} /\ Min(I) = n + 1
    BY <1>1, <2>1, <2>2, <2>3, LeastIs
  <2> QED BY <2>4, Zenon DEF SelectInSeq, I
<1>6. SubSeq(ps, 1, n + 1) = ps
  BY <1>1, <1>2
<1>7. [i \in DOMAIN ps |-> (IF i = n + 1 THEN << Space, ":" >> ELSE << Space >>) \o ps[i]] = Append(f, t)
  <2> DEFINE g == [i \in DOMAIN ps |-> (IF i = n + 1 THEN << Space, ":" >> ELSE << Space >>) \o ps[i]]
             h == Append(f, t)
  <2>1. h \in Seq(Seq(Inline)) /\ Len(h) = n + 1 /\ h[n + 1] = t /\ \A i \in 1..n : h[i] = f[i]
    <3> HIDE DEF f
    <3> QED BY <1>1, <1>3, <1>4
  <2>2. h = [i \in 1..(n + 1) |-> h[i]]
    <3> HIDE DEF h
    <3> QED BY <1>1, <2>1
  <2> HIDE DEF h
  <2>3. ASSUME NEW i \in 1..(n + 1) PROVE h[i] = (IF i = n + 1 THEN << Space, ":" >> ELSE << Space >>) \o ps[i]
    <3>1. CASE i = n + 1
      BY <1>2, <2>1, <3>1 DEF t
    <3>2. CASE i # n + 1
      <4>1. i \in 1..n
        BY <1>1, <3>2
      <4>2. h[i] = << Space >> \o middle[i] /\ ps[i] = middle[i]
        BY <1>2, <2>1, <4>1
      <4> QED BY <3>2, <4>2
    <3> QED BY <3>1, <3>2
  <2>4. g = [i \in 1..(n + 1) |-> h[i]]
    BY <1>2, <2>3
  <2> QED BY <2>2, <2>4 DEF h
<1>8. FormatParams(ps) = Concat(Append(f, t))
  <2>1. n + 1 # 0
    BY <1>1
  <2>2. FormatAt(ps, n + 1) = Concat([i \in DOMAIN ps |-> (IF i = n + 1 THEN << Space, ":" >> ELSE << Space >>) \o ps[i]])
    BY <1>6, <2>1, Zenon DEF FormatAt
  <2> QED BY <1>5, <1>7, <2>2, FormatParamsIs, Zenon
<1>9. Concat(Append(f, t)) = Concat(f) \o t
  <2> HIDE DEF f
  <2> QED BY <1>3, <1>4, ConcatAppend
<1> QED BY <1>3, <1>8, <1>9, Zenon DEF Led

\* The text of plain words has no trailing parameter, and splitting it gives the words.
LEMMA PlainText ==
    ASSUME NEW ps \in Seq(Plain), ps # << >>
    PROVE  \E s \in Seq(Inline) :
              Led(Space, ps) = << Space >> \o s /\ Split(s, Space) = ps /\ TrailingStarts(s) = {}
                /\ << >> \notin ToSet(ps)
<1> DEFINE p == Head(ps)
           rest == Tail(ps)
           s == p \o Led(Space, rest)
<1>1. p \in Plain /\ rest \in Seq(Plain) /\ ps = << p >> \o rest
  BY HeadAndTail
<1>2. p \in Seq(Inline) /\ Space \notin ToSet(p) /\ rest \in Seq(Seq(Inline)) /\ Space \in Inline
  BY <1>1, PlainTexts, InlineAre DEF Plain
<1> HIDE DEF p, rest
<1>3. \A i \in 1..Len(rest) : Space \notin ToSet(rest[i])
  BY <1>1 DEF Plain
<1>4. Split(s, Space) = ps
  BY <1>1, <1>2, <1>3, SplitLed
<1>5. Led(Space, ps) = << Space >> \o s
  BY <1>1, <1>2, LedCons
<1>6. s \in Seq(Inline)
  <2>1. Led(Space, rest) \in Seq(Inline)
    BY <1>2, LedType
  <2> QED BY <1>2, <2>1
<1> HIDE DEF s
<1>7. \A i \in 1..Len(ps) : ps[i] # << >> /\ ~StartsWith(ps[i], ":")
  BY DEF Plain
<1>8. TrailingStarts(s) = {}
  <2>1. \A i \in 1..Len(Split(s, Space)) : ~StartsWith(Split(s, Space)[i], ":")
    BY <1>4, <1>7
  <2> QED BY <1>6, <2>1, WordStarts
<1>9. << >> \notin ToSet(ps)
  BY <1>7 DEF ToSet
<1> QED BY <1>4, <1>5, <1>6, <1>8, <1>9

\* Parameters that a line can hold survive being written and read again.
THEOREM ParamsSurvive ==
    ASSUME NEW ps \in ParamLists, ps # << >>
    PROVE  \E s \in Seq(Inline) :
              FormatParams(ps) = << Space >> \o s /\ ParseParams(s) = Accepted(ps)
<1>1. CASE ps \in Seq(Plain)
  <2>1. PICK s \in Seq(Inline) : /\ Led(Space, ps) = << Space >> \o s /\ Split(s, Space) = ps
                                 /\ TrailingStarts(s) = {} /\ << >> \notin ToSet(ps)
    BY <1>1, PlainText
  <2>2. ParseParams(s) = Accepted(ps)
    BY <2>1, ColonNowhere
  <2> QED BY <1>1, <2>1, <2>2, FormatPlain
<1>2. ASSUME NEW middle \in Seq(Plain), NEW last \in Seq(Inline) \ Plain, ps = Append(middle, last)
      PROVE  \E s \in Seq(Inline) : FormatParams(ps) = << Space >> \o s /\ ParseParams(s) = Accepted(ps)
  <2> DEFINE t == << ":" >> \o last
  <2>1. t \in Seq(Inline) /\ Space \in Inline
    BY InlineAre, OneMore
  <2>2. FormatParams(ps) = Led(Space, middle) \o (<< Space >> \o t)
    BY <1>2, FormatTrailing
  <2>3. CASE middle = << >>
    <3>1. Led(Space, middle) = << >>
      BY <2>3, LedNone
    <3>2. << >> \o (<< Space >> \o t) = << Space >> \o t
      <4>1. << Space >> \o t \in Seq(Inline)
        BY <2>1, OneMore
      <4> HIDE DEF t
      <4> QED BY <4>1, ConcatEmptySeq
    <3>3. ParseParams(t) = Accepted(<< last >>)
      BY ColonFirst
    <3>4. ps = << last >>
      BY <1>2, <2>3
    <3>5. FormatParams(ps) = << Space >> \o t
      BY <2>2, <3>1, <3>2, Zenon
    <3> QED BY <2>1, <3>3, <3>4, <3>5, Zenon
  <2>4. CASE middle # << >>
    <3>1. PICK p \in Seq(Inline) : /\ Led(Space, middle) = << Space >> \o p /\ Split(p, Space) = middle
                                   /\ TrailingStarts(p) = {} /\ << >> \notin ToSet(middle)
      BY <2>4, PlainText
    <3> DEFINE s == p \o (<< Space >> \o t)
    <3>2. s \in Seq(Inline) /\ ParseParams(s) = Accepted(Append(middle, last))
      <4>1. s \in Seq(Inline)
        BY <3>1, ColonBehind
      <4>2. ParseParams(s) = IF << >> \in ToSet(Split(p, Space)) THEN Refused("TooManySpacesInMiddleParams")
                             ELSE Accepted(Append(Split(p, Space), last))
        BY <3>1, ColonBehind
      <4> QED BY <3>1, <4>1, <4>2, Zenon
    <3>3. Led(Space, middle) \o (<< Space >> \o t) = << Space >> \o s
      <4> DEFINE a == << Space >>
                 u == << Space >> \o t
      <4>1. a \in Seq(Inline) /\ u \in Seq(Inline)
        BY <2>1, OneMore, OneCharacter
      <4>2. Led(Space, middle) = a \o p
        BY <3>1
      <4> HIDE DEF a, u
      <4>3. (a \o p) \o u = a \o (p \o u)
        BY <3>1, <4>1, ConcatAssociative
      <4> QED BY <4>2, <4>3, Zenon DEF a, u
    <3> QED BY <1>2, <2>2, <3>2, <3>3, Zenon
  <2> QED BY <2>3, <2>4
<1>3. ps \in Seq(Plain) \/ \E middle \in Seq(Plain), last \in Seq(Inline) \ Plain : ps = Append(middle, last)
  BY DEF ParamLists
<1> QED BY <1>1, <1>2, <1>3, Zenon

(***************************************************************************)
(* Messages                                                                *)
(***************************************************************************)

CommandWords ==
    {c \in Seq(Inline) : /\ c # << >> /\ Uppercase(c) = c
                         /\ ToSet(c) \subseteq Letters \/ ToSet(c) \subseteq Digits}

\* Making a text uppercase twice is making it uppercase once.
LEMMA UppercaseIs ==
    ASSUME NEW s \in Seq(Inline)
    PROVE  /\ Uppercase(s) \in Seq(Inline) /\ Uppercase(Uppercase(s)) = Uppercase(s)
<1>1. \A c \in DOMAIN Upper : Upper[c] \in Letters /\ Upper[c] \notin DOMAIN Upper
  BY IrcMessageAssumption DEF Range
<1>2. Letters \subseteq Inline
  <2>1. Letters \subseteq Characters /\ {"CR", "LF"} \cap Letters = {}
    <3>1. {"CR", "LF"} \cap (Letters \cup Digits \cup LoginChars) = {}
      BY IrcMessageAssumption, Zenon
    <3> QED BY <3>1, CharactersAre
  <2> QED BY <2>1 DEF Inline
<1> DEFINE t == Uppercase(s)
<1>3. t = [i \in 1..Len(s) |-> IF s[i] \in DOMAIN Upper THEN Upper[s[i]] ELSE s[i]] /\ Len(s) \in Nat
  BY DEF Uppercase
<1>4. \A i \in 1..Len(s) : t[i] \in Inline /\ t[i] \notin DOMAIN Upper
  BY <1>1, <1>2, <1>3
<1>5. t \in Seq(Inline) /\ Len(t) = Len(s)
  <2>1. t \in [1..Len(s) -> Inline]
    BY <1>3, <1>4
  <2> HIDE DEF t
  <2> QED BY <1>3, <2>1, FunctionIsSequence
<1> HIDE DEF t
<1>6. Uppercase(t) = t
  <2>1. Uppercase(t) = [i \in 1..Len(t) |-> IF t[i] \in DOMAIN Upper THEN Upper[t[i]] ELSE t[i]]
    BY <1>5 DEF Uppercase
  <2>2. Uppercase(t) = [i \in 1..Len(t) |-> t[i]]
    BY <1>4, <1>5, <2>1
  <2>3. t = [i \in 1..Len(t) |-> t[i]]
    BY <1>5
  <2> QED BY <2>2, <2>3
<1> QED BY <1>5, <1>6 DEF t

\* A command is not empty, and no colon, @ or space hides in it.
LEMMA CommandIs ==
    ASSUME NEW c \in CommandWords
    PROVE  /\ c \in Seq(Inline) /\ c # << >> /\ Uppercase(c) = c /\ Space \notin ToSet(c)
           /\ ToSet(c) \subseteq Letters \/ ToSet(c) \subseteq Digits
           /\ \A s \in Seq(Inline) : /\ c \o s \in Seq(Inline) /\ c \o s # << >>
                                     /\ ~StartsWith(c \o s, ":") /\ ~StartsWith(c \o s, "@")
<1>1. /\ c \in Seq(Inline) /\ c # << >> /\ Uppercase(c) = c
      /\ ToSet(c) \subseteq Letters \/ ToSet(c) \subseteq Digits
  BY DEF CommandWords
<1>2. Space \notin Letters \cup Digits /\ ":" \notin Letters \cup Digits /\ "@" \notin Letters \cup Digits
  BY IrcMessageAssumption, Zenon DEF Space
<1>3. c[1] \in ToSet(c) /\ 1 \in 1..Len(c)
  BY <1>1, CharactersOf
<1>4. ASSUME NEW s \in Seq(Inline)
      PROVE  /\ c \o s \in Seq(Inline) /\ c \o s # << >>
             /\ ~StartsWith(c \o s, ":") /\ ~StartsWith(c \o s, "@")
  <2> DEFINE t == c \o s
  <2>1. t \in Seq(Inline) /\ t # << >> /\ Head(t) = c[1]
    BY <1>1, <1>3
  <2>2. c[1] # ":" /\ c[1] # "@"
    BY <1>1, <1>2, <1>3
  <2> HIDE DEF t
  <2>3. ~StartsWith(t, ":") /\ ~StartsWith(t, "@")
    BY <2>1, <2>2 DEF StartsWith
  <2> QED BY <2>1, <2>3 DEF t
<1>5. Space \notin ToSet(c)
  BY <1>1, <1>2
<1> QED BY <1>1, <1>4, <1>5

CommandAt(tags, prefix, cut) ==
    LET command == Uppercase(cut[1])
        params  == IF Len(cut) = 1 THEN Accepted(<< >>) ELSE ParseParams(cut[2])
    IN  IF command = << >> \/ ~(ToSet(command) \subseteq Letters \/ ToSet(command) \subseteq Digits)
        THEN Refused("MalformedCommand")
        ELSE IF params.is = "error" THEN params
        ELSE Accepted(Message(tags, prefix, command, params.value))

\* A command is read up to the first space.
LEMMA ParseCommandIs ==
    ASSUME NEW tags, NEW prefix, NEW source
    PROVE  ParseCommand(tags, prefix, source) = CommandAt(tags, prefix, Cut(source, Space))
BY Zenon DEF ParseCommand, CommandAt, Space

\* The text of a command and its parameters is read as them.
LEMMA CommandSurvives ==
    ASSUME NEW tags, NEW prefix, NEW command \in CommandWords, NEW ps \in ParamLists
    PROVE  LET source == command \o FormatParams(ps)
           IN  /\ FormatParams(ps) \in Seq(Inline) /\ source \in Seq(Inline)
               /\ ~StartsWith(source, ":") /\ ~StartsWith(source, "@")
               /\ ParseCommand(tags, prefix, source) = Accepted(Message(tags, prefix, command, ps))
<1> DEFINE source == command \o FormatParams(ps)
<1>1. /\ command \in Seq(Inline) /\ command # << >> /\ Uppercase(command) = command /\ Space \notin ToSet(command)
      /\ ToSet(command) \subseteq Letters \/ ToSet(command) \subseteq Digits
  BY CommandIs
<1>2. CASE ps = << >>
  <2>1. FormatParams(ps) = << >>
    <3>1. << >> \in Seq(Plain)
      OBVIOUS
    <3> QED BY <1>2, <3>1, FormatPlain, LedNone
  <2>2. source = command
    BY <1>1, <2>1, ConcatEmptySeq
  <2>3. Cut(source, Space) = << command >>
    BY <1>1, <2>2, CutNone
  <2>4. Len(<< command >>) = 1 /\ << command >>[1] = command
    OBVIOUS
  <2>5. Accepted(<< >>).is # "error" /\ Accepted(<< >>).value = << >>
    BY DEF Accepted
  <2>6. CommandAt(tags, prefix, << command >>) = Accepted(Message(tags, prefix, command, ps))
    BY <1>1, <1>2, <2>4, <2>5, Zenon DEF CommandAt
  <2>7. FormatParams(ps) \in Seq(Inline)
    BY <2>1
  <2>8. source \in Seq(Inline) /\ ~StartsWith(source, ":") /\ ~StartsWith(source, "@")
    BY <2>7, CommandIs
  <2> QED BY <2>3, <2>6, <2>7, <2>8, ParseCommandIs, Zenon
<1>3. CASE ps # << >>
  <2>1. PICK s \in Seq(Inline) : FormatParams(ps) = << Space >> \o s /\ ParseParams(s) = Accepted(ps)
    BY <1>3, ParamsSurvive
  <2>2. Space \in Inline
    BY InlineAre
  <2>3. source = command \o (<< Space >> \o s)
    BY <2>1
  <2>4. Cut(source, Space) = << command, s >>
    BY <1>1, <2>2, <2>3, CutAtFirst
  <2>5. Len(<< command, s >>) # 1 /\ << command, s >>[1] = command /\ << command, s >>[2] = s
    OBVIOUS
  <2>6. Accepted(ps).is # "error" /\ Accepted(ps).value = ps
    BY DEF Accepted
  <2>7. CommandAt(tags, prefix, << command, s >>) = Accepted(Message(tags, prefix, command, ps))
    BY <1>1, <2>1, <2>5, <2>6, Zenon DEF CommandAt
  <2>8. FormatParams(ps) \in Seq(Inline)
    BY <2>1, <2>2, OneMore
  <2>9. source \in Seq(Inline) /\ ~StartsWith(source, ":") /\ ~StartsWith(source, "@")
    BY <2>8, CommandIs
  <2> QED BY <2>4, <2>7, <2>8, <2>9, ParseCommandIs, Zenon
<1> QED BY <1>2, <1>3

\* A command is refused, or read with a list of parameters that can be written.
LEMMA ParsedCommand ==
    ASSUME NEW tags, NEW prefix, NEW source \in Seq(Inline)
    PROVE  \/ \E e : ParseCommand(tags, prefix, source) = Refused(e)
           \/ \E command \in CommandWords, ps \in ParamLists :
                 ParseCommand(tags, prefix, source) = Accepted(Message(tags, prefix, command, ps))
<1> DEFINE Goal(r) == \/ \E e : r = Refused(e)
                      \/ \E command \in CommandWords, ps \in ParamLists :
                            r = Accepted(Message(tags, prefix, command, ps))
<1>1. ASSUME NEW word \in Seq(Inline), NEW params, NEW cut, cut[1] = word,
             params = IF Len(cut) = 1 THEN Accepted(<< >>) ELSE ParseParams(cut[2]),
             (\E e : params = Refused(e)) \/ \E ps \in ParamLists : params = Accepted(ps)
      PROVE  Goal(CommandAt(tags, prefix, cut))
  <2> DEFINE command == Uppercase(word)
             Malformed == command = << >> \/ ~(ToSet(command) \subseteq Letters \/ ToSet(command) \subseteq Digits)
  <2>1. CommandAt(tags, prefix, cut) =
          IF Malformed THEN Refused("MalformedCommand")
          ELSE IF params.is = "error" THEN params
          ELSE Accepted(Message(tags, prefix, command, params.value))
    BY <1>1, Zenon DEF CommandAt
  <2>2. CASE Malformed
    BY <2>1, <2>2, Zenon
  <2>3. CASE ~Malformed
    <3>1. command \in CommandWords
      BY <2>3, UppercaseIs DEF CommandWords
    <3>2. ASSUME NEW e, params = Refused(e) PROVE Goal(CommandAt(tags, prefix, cut))
      <4>1. params.is = "error"
        BY <3>2 DEF Refused
      <4> QED BY <2>1, <2>3, <3>2, <4>1, Zenon
    <3>3. ASSUME NEW ps \in ParamLists, params = Accepted(ps) PROVE Goal(CommandAt(tags, prefix, cut))
      <4>1. params.is # "error" /\ params.value = ps
        BY <3>3 DEF Accepted
      <4> HIDE DEF command
      <4>2. CommandAt(tags, prefix, cut) = Accepted(Message(tags, prefix, command, ps))
        BY <2>1, <2>3, <4>1, Zenon
      <4> QED BY <3>1, <4>2, Zenon
    <3> QED BY <1>1, <3>2, <3>3
  <2> QED BY <2>2, <2>3
<1>2. CASE Cut(source, Space) = << source >>
  <2>1. Len(<< source >>) = 1 /\ << source >>[1] = source
    OBVIOUS
  <2>2. << >> \in ParamLists
    <3>1. << >> \in Seq(Plain)
      OBVIOUS
    <3> QED BY <3>1 DEF ParamLists
  <2>3. Accepted(<< >>) = IF Len(<< source >>) = 1 THEN Accepted(<< >>) ELSE ParseParams(<< source >>[2])
    BY <2>1, Zenon
  <2> HIDE DEF Goal
  <2>4. Goal(CommandAt(tags, prefix, << source >>))
    BY <1>1, <2>1, <2>2, <2>3, Zenon
  <2> QED BY <1>2, <2>4, ParseCommandIs, Zenon DEF Goal
<1>3. ASSUME NEW p, NEW r, CutsInto(Inline, source, Space, p, r)
      PROVE  Goal(ParseCommand(tags, prefix, source))
  <2>1. p \in Seq(Inline) /\ r \in Seq(Inline) /\ Cut(source, Space) = << p, r >>
    BY <1>3, Zenon DEF CutsInto
  <2>2. Len(<< p, r >>) # 1 /\ << p, r >>[1] = p /\ << p, r >>[2] = r
    OBVIOUS
  <2>3. ParseParams(r) = IF Len(<< p, r >>) = 1 THEN Accepted(<< >>) ELSE ParseParams(<< p, r >>[2])
    BY <2>2, Zenon
  <2>4. (\E e : ParseParams(r) = Refused(e)) \/ \E ps \in ParamLists : ParseParams(r) = Accepted(ps)
    BY <2>1, ParsedParams, Zenon
  <2> HIDE DEF Goal
  <2>5. Goal(CommandAt(tags, prefix, << p, r >>))
    BY <1>1, <2>1, <2>2, <2>3, <2>4, Zenon
  <2> QED BY <2>1, <2>5, ParseCommandIs, Zenon
<1> QED BY <1>2, <1>3, CutCases, Zenon

\* The messages that a line of IRC can carry.
WellTagged(tags) == tags = << >> \/ (tags \in TagMaps /\ DOMAIN tags # {})

WellPrefixed(p) == p = NoPrefix \/ IsHostOnly(p) \/ IsFull(p)

IsMessage(m) ==
    \E tags, prefix : \E command \in CommandWords, ps \in ParamLists :
       WellTagged(tags) /\ WellPrefixed(prefix) /\ m = Message(tags, prefix, command, ps)

\* What ParsePrefixAndCommand and Parse make of the cut of what follows the ":" or "@".
PrefixAt(tags, cut) ==
    IF Len(cut) = 1 THEN Refused("NoSpaceAfterPrefix")
    ELSE IF cut[1] = << >> THEN Refused("EmptyPrefixDeclaration")
    ELSE ParseCommand(tags, ParsePrefix(cut[1]), cut[2])

TagsAt(cut) ==
    IF Len(cut) = 1 THEN Refused("NoSpaceAfterTags")
    ELSE IF cut[1] = << >> THEN Refused("EmptyTagsDeclaration")
    ELSE ParsePrefixAndCommand(ParseTags(cut[1]), cut[2])

\* The prefix is there if the text starts with a colon.
LEMMA ParsePrefixAndCommandIs ==
    ASSUME NEW tags, NEW source
    PROVE  ParsePrefixAndCommand(tags, source) =
             IF StartsWith(source, ":") THEN PrefixAt(tags, Cut(Tail(source), Space))
             ELSE ParseCommand(tags, NoPrefix, source)
BY Zenon DEF ParsePrefixAndCommand, PrefixAt, Space

\* The tags are there if the line starts with @, and a line break is refused.
LEMMA ParseIs ==
    ASSUME NEW line
    PROVE  Parse(line) =
             IF {"CR", "LF"} \cap ToSet(line) # {} THEN Refused("NewlinesInMessage")
             ELSE IF StartsWith(line, "@") THEN TagsAt(Cut(Tail(line), Space))
             ELSE ParsePrefixAndCommand(<< >>, line)
BY Zenon DEF Parse, TagsAt, Space

\* A text without line breaks.
LEMMA InlineText ==
    ASSUME NEW s
    PROVE  /\ s \in Seq(Inline) <=> s \in Seq(Characters) /\ {"CR", "LF"} \cap ToSet(s) = {}
           /\ s \in Unspaced <=> s \in Seq(Inline) /\ Space \notin ToSet(s)
<1>1. ASSUME s \in Seq(Inline) PROVE s \in Seq(Characters) /\ {"CR", "LF"} \cap ToSet(s) = {}
  <2>1. s \in Seq(Characters)
    BY <1>1 DEF Inline
  <2>2. ToSet(s) \subseteq Inline
    BY <1>1, CharactersOf
  <2> QED BY <2>1, <2>2 DEF Inline
<1>2. ASSUME s \in Seq(Characters), {"CR", "LF"} \cap ToSet(s) = {} PROVE s \in Seq(Inline)
  <2>1. \A i \in 1..Len(s) : s[i] \in Inline
    <3>1. \A i \in 1..Len(s) : s[i] \in ToSet(s) /\ s[i] \in Characters
      BY <1>2, CharactersOf
    <3> QED BY <1>2, <3>1 DEF Inline
  <2> QED BY <1>2, <2>1, Retyped
<1>3. s \in Unspaced <=> s \in Seq(Characters) /\ ToSet(s) \cap {Space, "CR", "LF"} = {}
  BY DEF Unspaced, AnyText
<1> QED BY <1>1, <1>2, <1>3

\* Putting texts together does not depend on the order in which it is done.
LEMMA Associated ==
    ASSUME NEW a \in Seq(Inline), NEW b \in Seq(Inline), NEW c \in Seq(Inline)
    PROVE  a \o b \in Seq(Inline) /\ (a \o b) \o c = a \o (b \o c)
<1>1. (a \o b) \o c = a \o (b \o c)
  BY ConcatAssociative
<1>2. a \o b \in Seq(Inline)
  OBVIOUS
<1> QED BY <1>1, <1>2

\* Four texts, joined from the left and from the right.
FromLeft(a, b, c, d) == ((a \o b) \o c) \o d
FromRight(a, b, c, d) == a \o (b \o (c \o d))

\* Nor does it for the four parts of a message.
LEMMA FourTexts ==
    ASSUME NEW a \in Seq(Inline), NEW b \in Seq(Inline), NEW c \in Seq(Inline), NEW d \in Seq(Inline)
    PROVE  FromLeft(a, b, c, d) = FromRight(a, b, c, d)
<1>1. a \o b \in Seq(Inline) /\ c \o d \in Seq(Inline)
  OBVIOUS
<1>2. ((a \o b) \o c) \o d = (a \o b) \o (c \o d)
  BY <1>1, ConcatAssociative
<1>3. (a \o b) \o (c \o d) = a \o (b \o (c \o d))
  BY <1>1, ConcatAssociative
<1> QED BY <1>2, <1>3 DEF FromLeft, FromRight

\* t, led by c and followed by a space, in front of a text.
Headed(c, t, s) == << c >> \o (t \o (<< Space >> \o s))

\* A part that is marked by a character and ended by a space is cut off as it
\* was.
LEMMA HeadedIs ==
    ASSUME NEW c \in Inline, NEW t \in Unspaced, NEW s \in Seq(Inline)
    PROVE  /\ Headed(c, t, s) \in Seq(Inline)
           /\ ((<< c >> \o t) \o << Space >>) \in Seq(Inline)
           /\ ((<< c >> \o t) \o << Space >>) \o s = Headed(c, t, s)
           /\ \A d : StartsWith(Headed(c, t, s), d) <=> d = c
           /\ Cut(Tail(Headed(c, t, s)), Space) = << t, s >>
<1> DEFINE a == << c >>
           b == << Space >>
           u == t \o (b \o s)
<1>1. t \in Seq(Inline) /\ Space \notin ToSet(t) /\ Space \in Inline
  BY InlineText, InlineAre
<1>2. a \in Seq(Inline) /\ b \in Seq(Inline)
  BY <1>1, OneCharacter
<1>3. Cut(u, Space) = << t, s >>
  BY <1>1, CutAtFirst
<1>4. b \o s \in Seq(Inline) /\ u \in Seq(Inline)
  <2> HIDE DEF b
  <2> QED BY <1>1, <1>2
<1>5. /\ << c >> \o u \in Seq(Inline) /\ << c >> \o u # << >>
      /\ Head(<< c >> \o u) = c /\ Tail(<< c >> \o u) = u
  <2> HIDE DEF u
  <2> QED BY <1>4, FirstAndRest
<1>6. /\ (a \o t) \o b \in Seq(Inline)
      /\ ((a \o t) \o b) \o s = a \o (t \o (b \o s))
  <2> HIDE DEF a, b
  <2>1. ((a \o t) \o b) \o s = (a \o t) \o (b \o s)
    <3>1. a \o t \in Seq(Inline)
      BY <1>1, <1>2
    <3> QED BY <1>2, <3>1, Associated, Zenon
  <2>2. (a \o t) \o (b \o s) = a \o (t \o (b \o s))
    <3>1. t \in Seq(Inline)
      BY <1>1
    <3>2. b \o s \in Seq(Inline)
      BY <1>4
    <3> DEFINE v == b \o s
    <3> HIDE DEF v
    <3>3. v \in Seq(Inline) /\ a \in Seq(Inline)
      BY <1>2, <3>2 DEF v
    <3>4. (a \o t) \o v = a \o (t \o v)
      BY ONLY <3>1, <3>3, Associated
    <3> QED BY <3>4 DEF v
  <2>3. (a \o t) \o b \in Seq(Inline)
    BY <1>1, <1>2
  <2> QED BY <2>1, <2>2, <2>3
<1>7. Headed(c, t, s) = << c >> \o u /\ Headed(c, t, s) = a \o (t \o (b \o s))
  BY Zenon DEF Headed
<1>8. \A d : StartsWith(Headed(c, t, s), d) <=> d = c
  <2> HIDE DEF u
  <2> QED BY <1>5, <1>7, Zenon DEF StartsWith
<1> HIDE DEF u, a, b
<1>9. Headed(c, t, s) \in Seq(Inline) /\ Tail(Headed(c, t, s)) = u
  BY <1>5, <1>7, Zenon
<1>10. Cut(Tail(Headed(c, t, s)), Space) = << t, s >>
  BY <1>3, <1>9, Zenon
<1> QED BY <1>6, <1>7, <1>8, <1>9, <1>10, Zenon DEF a, b

TagsText(m, order) == IF m.tags = << >> THEN << >> ELSE (<< "@" >> \o FormatTags(m.tags, order)) \o << Space >>

PrefixText(m) == IF m.prefix.kind = "none" THEN << >> ELSE (<< ":" >> \o FormatPrefix(m.prefix)) \o << Space >>

\* A message is written as the four parts, one after the other.
LEMMA FormatIs ==
    ASSUME NEW m, NEW order
    PROVE  Format(m, order) = FromLeft(TagsText(m, order), PrefixText(m), m.command, FormatParams(m.params))
BY Zenon DEF Format, TagsText, PrefixText, Space, FromLeft

\* Tags that are written can be cut off the line, and read as they were.
LEMMA HeadedTags ==
    ASSUME NEW tags \in TagMaps, DOMAIN tags # {}, tags # Nameless, NEW order \in OrdersOf(tags)
    PROVE  /\ FormatTags(tags, order) \in Unspaced /\ FormatTags(tags, order) # << >>
           /\ ParseTags(FormatTags(tags, order)) = tags
BY TagsSurvive DEF Unspaced

\* The fields of a message.
LEMMA MessageParts ==
    ASSUME NEW tags, NEW prefix, NEW command, NEW ps
    PROVE  /\ Message(tags, prefix, command, ps).tags = tags
           /\ Message(tags, prefix, command, ps).prefix = prefix
           /\ Message(tags, prefix, command, ps).command = command
           /\ Message(tags, prefix, command, ps).params = ps
BY DEF Message

\* There is no prefix, or one of two kinds.
LEMMA PrefixKinds ==
    ASSUME NEW p
    PROVE  /\ NoPrefix.kind = "none"
           /\ IsHostOnly(p) \/ IsFull(p) => p.kind # "none"
<1>1. IsHostOnly(p) => p.kind # "none"
  BY DEF IsHostOnly, HostOnly
<1>2. IsFull(p) => p.kind # "none"
  BY DEF IsFull, Full
<1> QED BY <1>1, <1>2 DEF NoPrefix

\* The text behind the tags: read as the prefix and the command it is written from.
LEMMA UntaggedSurvives ==
    ASSUME NEW m, NEW tags, NEW prefix, NEW command \in CommandWords, NEW ps \in ParamLists,
           WellPrefixed(prefix), m = Message(tags, prefix, command, ps)
    PROVE  \E s \in Seq(Inline) :
              /\ PrefixText(m) \in Seq(Inline) /\ command \in Seq(Inline) /\ FormatParams(ps) \in Seq(Inline)
              /\ s = PrefixText(m) \o (command \o FormatParams(ps)) /\ ~StartsWith(s, "@")
              /\ ParsePrefixAndCommand(tags, s) = Accepted(m)
<1> DEFINE source == command \o FormatParams(ps)
<1>1. command \in Seq(Inline) /\ FormatParams(ps) \in Seq(Inline) /\ source \in Seq(Inline)
  BY CommandIs, CommandSurvives
<1>2. ~StartsWith(source, ":") /\ ~StartsWith(source, "@")
  BY CommandSurvives
<1>3. \A p : ParseCommand(tags, p, source) = Accepted(Message(tags, p, command, ps))
  BY CommandSurvives
<1>4. m.prefix = prefix
  BY MessageParts
<1> HIDE DEF source
<1>5. CASE prefix = NoPrefix
  <2>1. PrefixText(m) = << >>
    BY <1>4, <1>5, PrefixKinds, Zenon DEF PrefixText
  <2>2. << >> \o source = source /\ << >> \in Seq(Inline)
    BY <1>1, ConcatEmptySeq
  <2>3. ParsePrefixAndCommand(tags, source) = Accepted(m)
    BY <1>2, <1>3, <1>5, ParsePrefixAndCommandIs, Zenon
  <2> QED BY <1>1, <1>2, <2>1, <2>2, <2>3, Zenon DEF source
<1>6. CASE IsHostOnly(prefix) \/ IsFull(prefix)
  <2> DEFINE t == FormatPrefix(prefix)
             s == Headed(":", t, source)
  <2>1. t \in Unspaced /\ t # << >> /\ ParsePrefix(t) = prefix
    BY <1>6, PrefixSurvives, Zenon
  <2>2. PrefixText(m) = (<< ":" >> \o t) \o << Space >>
    BY <1>4, <1>6, PrefixKinds, Zenon DEF PrefixText
  <2>3. ":" \in Inline /\ ":" # "@"
    BY InlineAre
  <2> HIDE DEF t
  <2>4. /\ s \in Seq(Inline) /\ ((<< ":" >> \o t) \o << Space >>) \in Seq(Inline)
        /\ ((<< ":" >> \o t) \o << Space >>) \o source = s
        /\ \A d : StartsWith(s, d) <=> d = ":"
        /\ Cut(Tail(s), Space) = << t, source >>
    BY <1>1, <2>1, <2>3, HeadedIs, Zenon
  <2> HIDE DEF s
  <2>5. StartsWith(s, ":") /\ ~StartsWith(s, "@")
    BY <2>3, <2>4
  <2>6. Len(<< t, source >>) # 1 /\ << t, source >>[1] = t /\ << t, source >>[2] = source
    OBVIOUS
  <2>7. PrefixAt(tags, << t, source >>) = Accepted(m)
    BY <1>3, <2>1, <2>6, Zenon DEF PrefixAt
  <2>8. ParsePrefixAndCommand(tags, s) = Accepted(m)
    BY <2>4, <2>5, <2>7, ParsePrefixAndCommandIs, Zenon
  <2> QED BY <1>1, <2>2, <2>4, <2>5, <2>8, Zenon DEF source
<1> QED BY <1>5, <1>6 DEF WellPrefixed

\* A message that a line can carry is read from the line it is written as,
\* whatever the order of its tags, unless its only tag has neither a key nor a value.
THEOREM MessagesSurvive ==
    ASSUME NEW m, IsMessage(m), m.tags # Nameless, NEW order, m.tags # << >> => order \in OrdersOf(m.tags)
    PROVE  /\ Format(m, order) \in Seq(Inline) /\ Format(m, order) # << >>
           /\ Parse(Format(m, order)) = Accepted(m)
<1>1. PICK tags, prefix : \E command \in CommandWords, ps \in ParamLists :
         WellTagged(tags) /\ WellPrefixed(prefix) /\ m = Message(tags, prefix, command, ps)
  BY Zenon DEF IsMessage
<1>2. PICK command \in CommandWords, ps \in ParamLists :
         WellTagged(tags) /\ WellPrefixed(prefix) /\ m = Message(tags, prefix, command, ps)
  BY <1>1
<1>3. m.tags = tags /\ m.command = command /\ m.params = ps
  BY <1>2, MessageParts
<1> DEFINE P == PrefixText(m)
           F == FormatParams(ps)
<1>4. PICK s \in Seq(Inline) :
         /\ P \in Seq(Inline) /\ command \in Seq(Inline) /\ F \in Seq(Inline)
         /\ s = P \o (command \o F) /\ ~StartsWith(s, "@")
         /\ ParsePrefixAndCommand(tags, s) = Accepted(m)
  BY <1>2, UntaggedSurvives, Zenon
<1>9. s # << >>
  <2>1. command # << >>
    BY CommandIs
  <2> HIDE DEF P, F
  <2>2. /\ command \in Seq(Inline) /\ P \in Seq(Inline) /\ F \in Seq(Inline) /\ s = P \o (command \o F)
        /\ Len(command) # 0
    BY <1>4, <2>1
  <2>3. Len(s) # 0
    BY <2>2
  <2> QED BY <1>4, <2>3
<1>5. Format(m, order) = FromLeft(TagsText(m, order), P, command, F)
  BY <1>3, FormatIs, Zenon
<1> HIDE DEF P, F
<1>6. ASSUME NEW T \in Seq(Inline) PROVE FromLeft(T, P, command, F) = T \o s
  <2>1. P \in Seq(Inline) /\ command \in Seq(Inline) /\ F \in Seq(Inline) /\ s = P \o (command \o F)
    BY <1>4
  <2>2. FromLeft(T, P, command, F) = FromRight(T, P, command, F)
    BY <2>1, FourTexts
  <2>3. FromRight(T, P, command, F) = T \o s
    BY <2>1, Zenon DEF FromRight
  <2> QED BY <2>2, <2>3
<1>7. CASE tags = << >>
  <2>1. TagsText(m, order) = << >> /\ << >> \in Seq(Inline)
    BY <1>3, <1>7, Zenon, EmptySeq DEF TagsText
  <2>2. Format(m, order) = s
    BY <1>4, <1>5, <1>6, <2>1, ConcatEmptySeq
  <2>3. {"CR", "LF"} \cap ToSet(s) = {}
    BY <1>4, InlineText
  <2>4. Parse(s) = Accepted(m)
    BY <1>4, <1>7, <2>3, ParseIs, Zenon
  <2> QED BY <1>9, <2>2, <2>4
<1>8. CASE tags # << >>
  <2> DEFINE t == FormatTags(tags, order)
             line == Headed("@", t, s)
  <2>1. tags \in TagMaps /\ DOMAIN tags # {} /\ tags # Nameless /\ order \in OrdersOf(tags)
    BY <1>2, <1>3, <1>8 DEF WellTagged
  <2>2. t \in Unspaced /\ t # << >> /\ ParseTags(t) = tags
    BY <2>1, HeadedTags, Zenon
  <2>3. TagsText(m, order) = (<< "@" >> \o t) \o << Space >>
    BY <1>3, <1>8, Zenon DEF TagsText
  <2>4. "@" \in Inline
    BY InlineAre
  <2> HIDE DEF t
  <2>5. /\ line \in Seq(Inline) /\ ((<< "@" >> \o t) \o << Space >>) \in Seq(Inline)
        /\ ((<< "@" >> \o t) \o << Space >>) \o s = line
        /\ \A d : StartsWith(line, d) <=> d = "@"
        /\ Cut(Tail(line), Space) = << t, s >>
    BY <1>4, <2>2, <2>4, HeadedIs, Zenon
  <2> HIDE DEF line
  <2>6. Format(m, order) = line
    BY <1>5, <1>6, <2>3, <2>5, Zenon
  <2>7. {"CR", "LF"} \cap ToSet(line) = {}
    BY <2>5, InlineText
  <2>8. Len(<< t, s >>) # 1 /\ << t, s >>[1] = t /\ << t, s >>[2] = s
    OBVIOUS
  <2>9. TagsAt(<< t, s >>) = Accepted(m)
    BY <1>4, <2>2, <2>8, Zenon DEF TagsAt
  <2>10. Parse(line) = Accepted(m)
    BY <2>5, <2>7, <2>9, ParseIs, Zenon
  <2>11. line # << >>
    BY <2>5, Zenon DEF StartsWith
  <2> QED BY <2>5, <2>6, <2>10, <2>11
<1> QED BY <1>7, <1>8

\* What the parser may return.
ReadAs(result) == (\E e : result = Refused(e)) \/ \E m : IsMessage(m) /\ result = Accepted(m)

\* Whatever command is read with tags and a prefix that can be written is such
\* a message.
LEMMA ReadCommand ==
    ASSUME NEW tags, NEW prefix, WellTagged(tags), WellPrefixed(prefix), NEW source \in Seq(Inline)
    PROVE  ReadAs(ParseCommand(tags, prefix, source))
<1>1. ASSUME NEW command \in CommandWords, NEW ps \in ParamLists,
             ParseCommand(tags, prefix, source) = Accepted(Message(tags, prefix, command, ps))
      PROVE  ReadAs(ParseCommand(tags, prefix, source))
  <2>1. IsMessage(Message(tags, prefix, command, ps))
    BY Zenon DEF IsMessage
  <2> QED BY <1>1, <2>1, Zenon DEF ReadAs
<1>2. ASSUME NEW e, ParseCommand(tags, prefix, source) = Refused(e)
      PROVE  ReadAs(ParseCommand(tags, prefix, source))
  BY <1>2, Zenon DEF ReadAs
<1> QED BY <1>1, <1>2, ParsedCommand, Zenon

\* A text is cut at its first space, or has none.
LEMMA SpaceCut ==
    ASSUME NEW s \in Seq(Inline)
    PROVE  \/ Cut(s, Space) = << s >>
           \/ \E p \in Unspaced, r \in Seq(Inline) : Cut(s, Space) = << p, r >>
<1>1. ASSUME NEW p, NEW r, CutsInto(Inline, s, Space, p, r)
      PROVE  \E q \in Unspaced, t \in Seq(Inline) : Cut(s, Space) = << q, t >>
  <2>1. p \in Seq(Inline) /\ Space \notin ToSet(p) /\ r \in Seq(Inline) /\ Cut(s, Space) = << p, r >>
    BY <1>1, Zenon DEF CutsInto
  <2>2. p \in Unspaced
    BY <2>1, InlineText
  <2> QED BY <2>1, <2>2
<1> QED BY <1>1, CutCases, Zenon

\* What is behind the first character of a line is the text of a line.
LEMMA TailIs ==
    ASSUME NEW s \in Seq(Inline), NEW c, StartsWith(s, c)
    PROVE  Tail(s) \in Seq(Inline)
BY HeadAndTail DEF StartsWith

\* And so it is with whatever prefix is read.
LEMMA ReadPrefixAndCommand ==
    ASSUME NEW tags, WellTagged(tags), NEW source \in Seq(Inline)
    PROVE  ReadAs(ParsePrefixAndCommand(tags, source))
<1>1. CASE ~StartsWith(source, ":")
  <2>1. WellPrefixed(NoPrefix)
    BY DEF WellPrefixed
  <2> QED BY <1>1, <2>1, ReadCommand, ParsePrefixAndCommandIs, Zenon
<1>2. CASE StartsWith(source, ":")
  <2> DEFINE s == Tail(source)
  <2>1. s \in Seq(Inline)
    BY <1>2, TailIs
  <2>2. ParsePrefixAndCommand(tags, source) = PrefixAt(tags, Cut(s, Space))
    BY <1>2, ParsePrefixAndCommandIs, Zenon
  <2> HIDE DEF s
  <2>3. CASE Cut(s, Space) = << s >>
    <3>1. Len(<< s >>) = 1
      OBVIOUS
    <3> QED BY <2>2, <2>3, <3>1, Zenon DEF PrefixAt, ReadAs
  <2>4. ASSUME NEW p \in Unspaced, NEW r \in Seq(Inline), Cut(s, Space) = << p, r >>
        PROVE  ReadAs(ParsePrefixAndCommand(tags, source))
    <3>1. Len(<< p, r >>) # 1 /\ << p, r >>[1] = p /\ << p, r >>[2] = r
      OBVIOUS
    <3>2. CASE p = << >>
      BY <2>2, <2>4, <3>1, <3>2, Zenon DEF PrefixAt, ReadAs
    <3>3. CASE p # << >>
      <4>1. PrefixAt(tags, << p, r >>) = ParseCommand(tags, ParsePrefix(p), r)
        BY <3>1, <3>3, Zenon DEF PrefixAt
      <4>2. WellPrefixed(ParsePrefix(p))
        BY <3>3, ParsedPrefix DEF WellPrefixed
      <4>3. ReadAs(ParseCommand(tags, ParsePrefix(p), r))
        BY <4>2, ReadCommand
      <4> QED BY <2>2, <2>4, <4>1, <4>3, Zenon
    <3> QED BY <3>2, <3>3
  <2> QED BY <2>1, <2>3, <2>4, SpaceCut, Zenon
<1> QED BY <1>1, <1>2

\* Every line that is not refused is read as a message that a line can carry.
THEOREM ParsedIsMessage ==
    ASSUME NEW line \in Seq(Characters)
    PROVE  ReadAs(Parse(line))
<1>1. CASE {"CR", "LF"} \cap ToSet(line) # {}
  BY <1>1, ParseIs, Zenon DEF ReadAs
<1>2. CASE {"CR", "LF"} \cap ToSet(line) = {}
  <2>1. line \in Seq(Inline)
    BY <1>2, InlineText
  <2>2. CASE ~StartsWith(line, "@")
    <3>1. WellTagged(<< >>)
      BY DEF WellTagged
    <3> QED BY <1>2, <2>1, <2>2, <3>1, ReadPrefixAndCommand, ParseIs, Zenon
  <2>3. CASE StartsWith(line, "@")
    <3> DEFINE s == Tail(line)
    <3>1. s \in Seq(Inline)
      BY <2>1, <2>3, TailIs
    <3>2. Parse(line) = TagsAt(Cut(s, Space))
      BY <1>2, <2>3, ParseIs, Zenon
    <3> HIDE DEF s
    <3>3. CASE Cut(s, Space) = << s >>
      <4>1. Len(<< s >>) = 1
        OBVIOUS
      <4> QED BY <3>2, <3>3, <4>1, Zenon DEF TagsAt, ReadAs
    <3>4. ASSUME NEW p \in Unspaced, NEW r \in Seq(Inline), Cut(s, Space) = << p, r >>
          PROVE  ReadAs(Parse(line))
      <4>1. Len(<< p, r >>) # 1 /\ << p, r >>[1] = p /\ << p, r >>[2] = r
        OBVIOUS
      <4>2. CASE p = << >>
        BY <3>2, <3>4, <4>1, <4>2, Zenon DEF TagsAt, ReadAs
      <4>3. CASE p # << >>
        <5>1. TagsAt(<< p, r >>) = ParsePrefixAndCommand(ParseTags(p), r)
          BY <4>1, <4>3, Zenon DEF TagsAt
        <5>2. WellTagged(ParseTags(p))
          <6>1. p \in AnyText /\ ToSet(p) \cap {Space, "CR", "LF"} = {}
            BY DEF Unspaced
          <6> QED BY <6>1, ParsedTags DEF WellTagged
        <5>3. ReadAs(ParsePrefixAndCommand(ParseTags(p), r))
          BY <5>2, ReadPrefixAndCommand
        <5> QED BY <3>2, <3>4, <5>1, <5>3, Zenon
      <4> QED BY <4>2, <4>3
    <3> QED BY <3>1, <3>3, <3>4, SpaceCut, Zenon
  <2> QED BY <2>2, <2>3
<1> QED BY <1>1, <1>2

(***************************************************************************)
(* Transports                                                              *)
(***************************************************************************)

Results == {Parse(line) : line \in Seq(Characters)}

LinesOf(all) ==
    LET whole == [i \in DOMAIN all |-> IF i < Len(all) /\ all[i] # << >> /\ Last(all[i]) = "CR"
                                       THEN Front(all[i]) ELSE all[i]]
    IN  IF Last(whole) = << >> THEN Front(whole) ELSE whole

ReadOf(lines) == Concat([i \in DOMAIN lines |-> IF lines[i] = << >> THEN << >> ELSE << Parse(lines[i]) >>])

\* What is read from a TCP connection are the lines between the LFs.
LEMMA ReadIs == ASSUME NEW text PROVE Read(text) = ReadOf(LinesOf(Split(text, "LF")))
BY Zenon DEF Read, ReadOf, Lines, LinesOf

\* A sequence without its last element.
LEMMA FrontIs ==
    ASSUME NEW A, NEW s \in Seq(A), s # << >>
    PROVE  Front(s) \in Seq(A) /\ Len(Front(s)) = Len(s) - 1 /\ \A i \in 1..(Len(s) - 1) : Front(s)[i] = s[i]
<1>1. Len(s) \in Nat /\ Len(s) # 0 /\ Len(s) - 1 \in Nat
  OBVIOUS
<1> DEFINE k == Len(s) - 1
           u == SubSeq(s, 1, k)
<1>2. u \in Seq(A) /\ Len(u) = Len(s) - 1 /\ \A i \in 1..(Len(s) - 1) : u[i] = s[i]
  <2>1. k \in Nat /\ k <= Len(s) /\ k = Len(s) - 1
    BY <1>1
  <2> HIDE DEF k
  <2>2. u \in Seq(A) /\ Len(u) = k /\ \A i \in 1..k : u[i] = s[i]
    BY <1>1, <2>1
  <2> HIDE DEF u
  <2> QED BY <2>1, <2>2
<1>3. Front(s) = u
  BY DEF Front
<1> HIDE DEF u
<1> QED BY <1>2, <1>3, Zenon

\* Lines are texts.
LEMMA LinesType ==
    ASSUME NEW text \in Seq(Characters)
    PROVE  LinesOf(Split(text, "LF")) \in Seq(Seq(Characters))
<1> DEFINE all == Split(text, "LF")
           whole == [i \in DOMAIN all |-> IF i < Len(all) /\ all[i] # << >> /\ Last(all[i]) = "CR"
                                          THEN Front(all[i]) ELSE all[i]]
<1>1. all \in Seq(Seq(Characters)) /\ all # << >>
  BY SplitParts
<1> HIDE DEF all
<1>2. DOMAIN all = 1..Len(all) /\ Len(all) \in Nat
  BY <1>1
<1>3. \A i \in 1..Len(all) : whole[i] \in Seq(Characters)
  <2> SUFFICES ASSUME NEW i \in 1..Len(all)
               PROVE  (IF i < Len(all) /\ all[i] # << >> /\ Last(all[i]) = "CR" THEN Front(all[i]) ELSE all[i])
                        \in Seq(Characters)
    BY <1>2
  <2>1. all[i] \in Seq(Characters)
    BY <1>1
  <2>2. all[i] # << >> => Front(all[i]) \in Seq(Characters)
    BY <2>1, FrontIs
  <2> QED BY <2>1, <2>2
<1>4. whole \in [1..Len(all) -> Seq(Characters)]
  BY <1>2, <1>3
<1> HIDE DEF whole
<1>5. whole \in Seq(Seq(Characters)) /\ whole # << >>
  <2>1. whole \in Seq(Seq(Characters)) /\ Len(whole) = Len(all)
    BY <1>2, <1>4, FunctionIsSequence
  <2>2. Len(all) # 0
    BY <1>1
  <2> QED BY <2>1, <2>2
<1>6. Front(whole) \in Seq(Seq(Characters))
  BY <1>5, FrontIs
<1>7. LinesOf(all) = IF Last(whole) = << >> THEN Front(whole) ELSE whole
  BY Zenon DEF LinesOf, whole
<1> QED BY <1>5, <1>6, <1>7 DEF all

\* What is read is the result of parsing some texts.
LEMMA ReadType ==
    ASSUME NEW text \in Seq(Characters)
    PROVE  Read(text) \in Seq(Results)
<1> DEFINE lines == LinesOf(Split(text, "LF"))
           parsed == [i \in DOMAIN lines |-> IF lines[i] = << >> THEN << >> ELSE << Parse(lines[i]) >>]
<1>1. lines \in Seq(Seq(Characters))
  BY LinesType
<1> HIDE DEF lines
<1>2. DOMAIN lines = 1..Len(lines) /\ Len(lines) \in Nat /\ \A i \in 1..Len(lines) : lines[i] \in Seq(Characters)
  BY <1>1
<1>3. \A i \in 1..Len(lines) : parsed[i] \in Seq(Results)
  <2>1. ASSUME NEW i \in 1..Len(lines) PROVE Parse(lines[i]) \in Results
    BY <1>2 DEF Results
  <2>2. << >> \in Seq(Results) /\ \A r \in Results : << r >> \in Seq(Results)
    OBVIOUS
  <2>3. ASSUME NEW i \in 1..Len(lines) PROVE parsed[i] \in Seq(Results)
    BY <1>2, <2>1, <2>2
  <2> QED BY <2>3
<1>4. parsed \in [1..Len(lines) -> Seq(Results)]
  BY <1>2, <1>3
<1> HIDE DEF parsed
<1>5. parsed \in Seq(Seq(Results))
  BY <1>2, <1>4, FunctionIsSequence
<1>6. Read(text) = Concat(parsed)
  BY ReadIs, Zenon DEF lines, parsed, ReadOf
<1> QED BY <1>5, <1>6, ConcatType

\* A single line is parsed as it is.
LEMMA ReadOne ==
    ASSUME NEW line \in Seq(Characters), line # << >>
    PROVE  ReadOf(<< line >>) = << Parse(line) >>
<1> DEFINE lines == << line >>
           t == << Parse(line) >>
           parsed == [i \in DOMAIN lines |-> IF lines[i] = << >> THEN << >> ELSE << Parse(lines[i]) >>]
<1>1. DOMAIN lines = 1..1 /\ lines[1] = line
  OBVIOUS
<1>2. t \in Seq(Results)
  <2>1. Parse(line) \in Results
    BY DEF Results
  <2> QED BY <2>1
<1>3. parsed = << t >>
  <2>1. parsed = [i \in 1..1 |-> t]
    BY <1>1
  <2>2. [i \in 1..1 |-> t] = << t >>
    OBVIOUS
  <2> QED BY <2>1, <2>2
<1> HIDE DEF t
<1>4. << t >> = << t >> \o << >> /\ << >> \in Seq(Seq(Results))
  BY <1>2
<1>5. Concat(<< t >> \o << >>) = t \o Concat(<< >>)
  BY <1>2, <1>4, ConcatCons
<1>6. t \o Concat(<< >>) = t
  BY <1>2, ConcatNone, ConcatEmptySeq
<1>7. ReadOf(lines) = Concat(parsed)
  BY Zenon DEF ReadOf
<1> QED BY <1>3, <1>4, <1>5, <1>6, <1>7 DEF t

\* The last of one and of two elements.
LEMMA Lasts ==
    ASSUME NEW a, NEW b
    PROVE  /\ Last(<< a >>) = a /\ Last(<< a, b >>) = b
           /\ Front(<< a, b >>) = << a >> /\ << a >> \o << b >> = << a, b >>
<1>1. Len(<< a >>) = 1 /\ << a >>[1] = a /\ Len(<< a, b >>) = 2 /\ << a, b >>[2] = b
  OBVIOUS
<1> DEFINE A == {a, b}
           one == << a >>
           other == << b >>
           two == << a, b >>
<1>2. SubSeq(<< a, b >>, 1, 2 - 1) = << a >>
  <2>1. two \in Seq(A) /\ Len(two) = 2 /\ two[1] = a /\ one \in Seq(A) /\ Len(one) = 1 /\ one[1] = a
    OBVIOUS
  <2> DEFINE u == SubSeq(two, 1, 1)
  <2>2. u \in Seq(A) /\ Len(u) = 1 /\ u[1] = two[1]
    <3> HIDE DEF two, A
    <3> QED BY <2>1
  <2> HIDE DEF u, one, two, A
  <2>3. u = one
    BY <2>1, <2>2, SeqEqual
  <2>4. 2 - 1 = 1
    OBVIOUS
  <2> QED BY <2>3, <2>4 DEF u, one, two
<1>3. << a >> \o << b >> = << a, b >>
  <2>1. /\ two \in Seq(A) /\ Len(two) = 2 /\ two[1] = a /\ two[2] = b
        /\ one \in Seq(A) /\ Len(one) = 1 /\ one[1] = a
        /\ other \in Seq(A) /\ Len(other) = 1 /\ other[1] = b
    OBVIOUS
  <2> HIDE DEF one, other, two, A
  <2> DEFINE u == one \o other
  <2>2. u \in Seq(A) /\ Len(u) = 2 /\ u[1] = a /\ u[2] = b
    BY <2>1
  <2> HIDE DEF u
  <2>3. u = two
    BY <2>1, <2>2, SeqEqual
  <2> QED BY <2>3 DEF u, one, other, two
<1> QED BY <1>1, <1>2, <1>3, Zenon DEF Last, Front

\* A line that is written is what is read.
LEMMA LineSurvives ==
    ASSUME NEW line \in Seq(Inline), line # << >>, NEW transport
    PROVE  /\ Written(transport, line) \in Seq(Characters)
           /\ Read(Written(transport, line)) = << Parse(line) >>
<1>1. line \in Seq(Characters) /\ {"CR", "LF"} \cap ToSet(line) = {}
  BY InlineText
<1>2. "CR" \in Characters /\ "LF" \in Characters
  BY CharactersAre
<1>3. WriteWS(line) \in Seq(Characters) /\ Read(WriteWS(line)) = << Parse(line) >>
  <2>1. Split(line, "LF") = << line >>
    BY <1>1, SplitNone
  <2>2. LinesOf(<< line >>) = << line >>
    <3> DEFINE all == << line >>
               whole == [i \in DOMAIN all |-> IF i < Len(all) /\ all[i] # << >> /\ Last(all[i]) = "CR"
                                              THEN Front(all[i]) ELSE all[i]]
    <3>1. DOMAIN all = 1..1 /\ Len(all) = 1 /\ all[1] = line
      OBVIOUS
    <3>2. whole = [i \in 1..1 |-> line]
      BY <3>1
    <3>3. whole = << line >>
      BY <3>2
    <3>4. LinesOf(all) = IF Last(whole) = << >> THEN Front(whole) ELSE whole
      BY Zenon DEF LinesOf
    <3> HIDE DEF whole
    <3> QED BY <3>3, <3>4, Lasts
  <2> QED BY <1>1, <2>1, <2>2, ReadIs, ReadOne DEF WriteWS
<1>4. WriteTCP(line) \in Seq(Characters) /\ Read(WriteTCP(line)) = << Parse(line) >>
  <2> DEFINE cr == << "CR" >>
             lf == << "LF" >>
             p == line \o cr
  <2>1. << "CR", "LF" >> = cr \o lf /\ cr \in Seq(Characters) /\ lf \in Seq(Characters) /\ lf \o << >> = lf
    BY <1>2
  <2>2. p \in Seq(Characters) /\ ToSet(p) = ToSet(line) \cup {"CR"} /\ Len(p) = Len(line) + 1 /\ p[Len(p)] = "CR"
        /\ p # << >> /\ \A i \in 1..Len(line) : p[i] = line[i]
    <3>1. ToSet(cr) = {"CR"}
      BY <1>2, OneCharacter
    <3>2. p \in Seq(Characters) /\ ToSet(p) = ToSet(line) \cup ToSet(cr)
      <4>1. cr \in Seq(Characters)
        BY <2>1
      <4> HIDE DEF cr
      <4> QED BY <1>1, <4>1, JoinedCharacters
    <3>3. Len(p) = Len(line) + 1 /\ p[Len(p)] = "CR" /\ \A i \in 1..Len(line) : p[i] = line[i]
      BY <1>1, <1>2
    <3>4. Len(p) # 0
      BY <1>1, <3>3
    <3> HIDE DEF p
    <3> QED BY <3>1, <3>2, <3>3, <3>4
  <2>3. WriteTCP(line) = p \o (lf \o << >>)
    <3>1. line \o (cr \o lf) = (line \o cr) \o lf
      <4>1. cr \in Seq(Characters) /\ lf \in Seq(Characters)
        BY <2>1
      <4> HIDE DEF cr, lf
      <4> QED BY <1>1, <4>1, ConcatAssociative
    <3> QED BY <2>1, <3>1, Zenon DEF WriteTCP, p
  <2>4. WriteTCP(line) \in Seq(Characters)
    <3> HIDE DEF p, lf
    <3> QED BY <2>1, <2>2, <2>3
  <2> HIDE DEF p
  <2>5. Split(WriteTCP(line), "LF") = << p, << >> >>
    <3>1. "LF" \notin ToSet(p) /\ << >> \in Seq(Characters)
      BY <1>1, <2>2
    <3>2. Split(p \o (<< "LF" >> \o << >>), "LF") = << p >> \o Split(<< >>, "LF")
      <4>1. "LF" \in Characters /\ p \in Seq(Characters)
        BY <1>2, <2>2
      <4> QED BY ONLY <3>1, <4>1, SplitAtFirst
    <3>3. << p >> \o << << >> >> = << p, << >> >>
      BY Lasts, Zenon
    <3> QED BY <2>3, <3>2, <3>3, SplitEmpty, Zenon
  <2>6. Front(p) = line
    <3>1. Front(p) \in Seq(Characters) /\ Len(Front(p)) = Len(line) /\ \A i \in 1..Len(line) : Front(p)[i] = p[i]
      BY <1>1, <2>2, FrontIs
    <3>2. \A i \in 1..Len(line) : Front(p)[i] = line[i]
      BY <2>2, <3>1
    <3> QED BY <1>1, <3>1, <3>2, SeqEqual
  <2>7. LinesOf(<< p, << >> >>) = << line >>
    <3> DEFINE all == << p, << >> >>
               whole == [i \in DOMAIN all |-> IF i < Len(all) /\ all[i] # << >> /\ Last(all[i]) = "CR"
                                              THEN Front(all[i]) ELSE all[i]]
    <3>1. DOMAIN all = 1..2 /\ Len(all) = 2 /\ all[1] = p /\ all[2] = << >>
      OBVIOUS
    <3>2. Last(p) = "CR"
      BY <2>2 DEF Last
    <3> HIDE DEF all
    <3>3. whole[1] = line /\ whole[2] = << >> /\ DOMAIN whole = 1..2
      <4>1. 1 \in DOMAIN all /\ 2 \in DOMAIN all /\ 1 < Len(all) /\ ~(2 < Len(all))
        BY <3>1
      <4> QED BY <2>2, <2>6, <3>1, <3>2, <4>1
    <3>4. whole = << line, << >> >>
      <4>1. whole = [i \in 1..2 |-> whole[i]]
        BY <3>1
      <4> HIDE DEF whole
      <4> QED BY <3>3, <4>1
    <3>5. LinesOf(all) = IF Last(whole) = << >> THEN Front(whole) ELSE whole
      BY Zenon DEF LinesOf
    <3> HIDE DEF whole
    <3> QED BY <3>4, <3>5, Lasts, Zenon DEF all
  <2> QED BY <1>1, <2>4, <2>5, <2>7, ReadIs, ReadOne, Zenon
<1> QED BY <1>3, <1>4 DEF Written

(***************************************************************************)
(* The orders of the keys                                                  *)
(***************************************************************************)

\* A sequence without repetitions that is as long as a set is large has its elements.
LEMMA SequencesOf ==
    ASSUME NEW S, IsFiniteSet(S), NEW f \in SetToSeqs(S)
    PROVE  f \in Seq(S) /\ ToSet(f) = S
<1> DEFINE n == Cardinality(S)
           D == 1..n
<1>1. n \in Nat
  BY FS_CardinalityType
<1>2. f \in [D -> S] /\ \A i, j \in D : i # j => f[i] # f[j]
  BY DEF SetToSeqs
<1>3. f \in Seq(S) /\ DOMAIN f = D
  BY <1>1, <1>2, FunctionIsSequence
<1>4. IsFiniteSet(D) /\ Cardinality(D) = n
  <2>1. 1 \in Int /\ n \in Int /\ n - 1 + 1 = n /\ (1 > n => n = 0)
    BY <1>1
  <2>2. IsFiniteSet(D) /\ Cardinality(D) = IF 1 > n THEN 0 ELSE n - 1 + 1
    BY <2>1, FS_Interval
  <2> QED BY <2>1, <2>2
<1> HIDE DEF D, n
<1>5. ASSUME NEW x \in S, \A i \in D : f[i] # x PROVE FALSE
  <2> DEFINE T == S \ {x}
  <2>1. f \in [D -> T]
    BY <1>2, <1>5
  <2>2. IsFiniteSet(T) /\ Cardinality(T) = n - 1
    BY FS_RemoveElement DEF n
  <2>3. Cardinality(T) < Cardinality(D)
    BY <1>1, <1>4, <2>2
  <2> HIDE DEF T
  <2>4. \E i, j \in D : i # j /\ f[i] = f[j]
    BY <1>4, <2>1, <2>2, <2>3, FS_PigeonHole
  <2> QED BY <1>2, <2>4
<1>6. ToSet(f) = {f[i] : i \in D}
  BY <1>3 DEF ToSet
<1> QED BY <1>2, <1>3, <1>5, <1>6

\* The order that the keys are taken in.
Taken(keys) == FoldSet(LAMBDA k, s : Append(s, k), << >>, keys)

\* Taking the elements of a finite set one after the other takes all of them.
LEMMA TakenIs ==
    ASSUME NEW keys, IsFiniteSet(keys)
    PROVE  Taken(keys) \in Seq(keys) /\ ToSet(Taken(keys)) = keys
<1> DEFINE V == Seq(keys)
           G == [p \in keys \X V |-> Append(p[2], p[1])]
           ch == [t \in SUBSET keys |-> CHOOSE x \in t : TRUE]
           it == CHOOSE f : f = [t \in SUBSET keys |->
                                   IF t = {} THEN << >>
                                   ELSE Append(f[t \ {CHOOSE x \in t : TRUE}], CHOOSE x \in t : TRUE)]
<1>1. Taken(keys) = it[keys]
  BY DEF Taken, FoldSet, MapThenFoldSet
<1>2. ASSUME NEW x \in keys, NEW s \in V
      PROVE  G[<<x, s>>] = Append(s, x) /\ G[<<x, s>>] \in V
  OBVIOUS
<1>3. \A t \in SUBSET keys : t # {} => ch[t] = (CHOOSE x \in t : TRUE) /\ ch[t] \in t
  OBVIOUS
<1>4. << >> \in V
  OBVIOUS
<1> HIDE DEF G, ch, V
<1>5. PICK f : Folds(keys, V, << >>, G, ch, f)
  <2>1. ResultsIn(keys, V, G)
    BY <1>2 DEF ResultsIn
  <2>2. TakesFrom(keys, ch)
    BY <1>3 DEF TakesFrom
  <2> QED BY <1>4, <2>1, <2>2, FoldExists
<1>6. ASSUME NEW t \in SUBSET keys
      PROVE  /\ f[t] \in V
             /\ t = {} => f[t] = << >>
             /\ t # {} => f[t] = Append(f[t \ {ch[t]}], ch[t]) /\ f[t \ {ch[t]}] \in V /\ ch[t] \in t
  <2>1. f[t] \in V /\ f[t \ {ch[t]}] \in V
    BY <1>5 DEF Folds
  <2>2. t # {} => f[t] = G[<<ch[t], f[t \ {ch[t]}]>>] /\ ch[t] \in t
    BY <1>3, <1>5 DEF Folds
  <2>3. t # {} => f[t] = Append(f[t \ {ch[t]}], ch[t])
    <3> SUFFICES ASSUME t # {} PROVE f[t] = Append(f[t \ {ch[t]}], ch[t])
      OBVIOUS
    <3>1. ch[t] \in keys
      BY <2>2
    <3> QED BY <1>2, <2>1, <2>2, <3>1
  <2>4. t = {} => f[t] = << >>
    BY <1>5 DEF Folds
  <2> QED BY <2>1, <2>2, <2>3, <2>4
<1>7. f = [t \in SUBSET keys |->
             IF t = {} THEN << >> ELSE Append(f[t \ {CHOOSE x \in t : TRUE}], CHOOSE x \in t : TRUE)]
  <2>1. f = [t \in SUBSET keys |-> f[t]]
    BY <1>5 DEF Folds
  <2>2. \A t \in SUBSET keys :
           f[t] = IF t = {} THEN << >> ELSE Append(f[t \ {CHOOSE x \in t : TRUE}], CHOOSE x \in t : TRUE)
    BY <1>3, <1>6
  <2> QED BY <2>1, <2>2
<1>8. it = [t \in SUBSET keys |->
              IF t = {} THEN << >> ELSE Append(it[t \ {CHOOSE x \in t : TRUE}], CHOOSE x \in t : TRUE)]
  BY <1>7, Zenon
<1> HIDE DEF it
<1>9. ASSUME NEW t \in SUBSET keys, it[t] = it[t], t # {}
      PROVE  it[t] = Append(it[t \ {ch[t]}], ch[t]) /\ ch[t] \in t
  BY <1>3, <1>8, <1>9
<1>10. it[{}] = << >>
  BY <1>8
<1> DEFINE S == {k \in Nat : \A t \in SUBSET keys : Cardinality(t) = k => it[t] \in Seq(keys) /\ ToSet(it[t]) = t}
<1>11. 0 \in S
  <2> SUFFICES ASSUME NEW t \in SUBSET keys, Cardinality(t) = 0 PROVE it[t] \in Seq(keys) /\ ToSet(it[t]) = t
    OBVIOUS
  <2>1. t = {}
    BY FS_Subset, FS_EmptySet
  <2>2. ToSet(<< >>) = {} /\ << >> \in Seq(keys)
    BY NoCharacters
  <2> QED BY <1>10, <2>1, <2>2
<1>12. \A k \in Nat : k \in S => k + 1 \in S
  <2> SUFFICES ASSUME NEW k \in Nat, k \in S, NEW t \in SUBSET keys, Cardinality(t) = k + 1
               PROVE  it[t] \in Seq(keys) /\ ToSet(it[t]) = t
    OBVIOUS
  <2> DEFINE x == ch[t]
             u == t \ {x}
  <2>1. IsFiniteSet(t) /\ t # {}
    <3>1. IsFiniteSet(t)
      BY FS_Subset
    <3>2. Cardinality({}) = 0
      BY FS_EmptySet
    <3> QED BY <3>1, <3>2
  <2>2. it[t] = Append(it[u], x) /\ x \in t
    BY <1>9, <2>1
  <2>3. Cardinality(u) = k
    <3>1. Cardinality(u) = Cardinality(t) - 1
      BY <2>1, <2>2, FS_RemoveElement
    <3> QED BY <3>1
  <2>4. it[u] \in Seq(keys) /\ ToSet(it[u]) = u
    BY <2>3
  <2> DEFINE s == it[u]
  <2>5. x \in keys /\ s \in Seq(keys)
    BY <2>2, <2>4
  <2> HIDE DEF x, s, u, S
  <2>6. Append(s, x) = s \o << x >> /\ << x >> \in Seq(keys) /\ Append(s, x) \in Seq(keys)
    BY <2>5
  <2>7. ToSet(Append(s, x)) = ToSet(s) \cup {x}
    <3>1. ToSet(<< x >>) = {x}
      BY <2>5, OneCharacter
    <3>2. ToSet(s \o << x >>) = ToSet(s) \cup ToSet(<< x >>)
      <4> DEFINE one == << x >>
      <4>1. one \in Seq(keys)
        BY <2>6
      <4> HIDE DEF one
      <4> QED BY <2>5, <4>1, JoinedCharacters DEF one
    <3> QED BY <2>6, <3>1, <3>2
  <2>8. u \cup {x} = t
    BY <2>2 DEF u
  <2> QED BY <2>2, <2>4, <2>6, <2>7, <2>8 DEF s
<1> HIDE DEF S
<1>13. Cardinality(keys) \in S
  BY <1>11, <1>12, FS_CardinalityType, Induction
<1> QED BY <1>1, <1>13 DEF S

\* Reversing a sequence keeps its elements.
LEMMA Reversed ==
    ASSUME NEW A, NEW s \in Seq(A)
    PROVE  Reverse(s) \in Seq(A) /\ ToSet(Reverse(s)) = ToSet(s)
<1> DEFINE r == Reverse(s)
<1>1. r = [i \in 1..Len(s) |-> s[(Len(s) - i) + 1]] /\ Len(s) \in Nat
  BY DEF Reverse
<1>2. \A i \in 1..Len(s) : (Len(s) - i) + 1 \in 1..Len(s) /\ s[(Len(s) - i) + 1] \in A
  <2>1. \A i \in 1..Len(s) : (Len(s) - i) + 1 \in 1..Len(s)
    BY <1>1
  <2> QED BY <2>1
<1>3. r \in [1..Len(s) -> A] /\ \A i \in 1..Len(s) : r[i] = s[(Len(s) - i) + 1]
  BY <1>1, <1>2
<1> HIDE DEF r
<1>4. r \in Seq(A) /\ Len(r) = Len(s) /\ DOMAIN r = 1..Len(s)
  BY <1>1, <1>3, FunctionIsSequence
<1>5. ToSet(r) = {r[i] : i \in 1..Len(s)} /\ ToSet(s) = {s[i] : i \in 1..Len(s)}
  BY <1>4 DEF ToSet
<1>6. ASSUME NEW i \in 1..Len(s) PROVE \E j \in 1..Len(s) : s[i] = r[j]
  <2>1. (Len(s) - i) + 1 \in 1..Len(s) /\ (Len(s) - ((Len(s) - i) + 1)) + 1 = i
    BY <1>1
  <2> QED BY <1>3, <2>1
<1> QED BY <1>2, <1>3, <1>4, <1>5, <1>6 DEF r

\* However keys are enumerated, each is, and nothing else.
LEMMA OrdersAre ==
    ASSUME NEW K, IsFiniteSet(K), NEW order \in AnyOrder(K)
    PROVE  order \in Seq(K) /\ ToSet(order) = K
<1>1. order \in SetToSeqs(K) \/ order = Taken(K) \/ order = Reverse(Taken(K))
  BY Zenon DEF AnyOrder, Taken
<1>2. Taken(K) \in Seq(K) /\ ToSet(Taken(K)) = K
  BY TakenIs
<1>3. Reverse(Taken(K)) \in Seq(K) /\ ToSet(Reverse(Taken(K))) = K
  BY <1>2, Reversed
<1>4. order \in SetToSeqs(K) => order \in Seq(K) /\ ToSet(order) = K
  BY SequencesOf
<1> QED BY <1>1, <1>2, <1>3, <1>4

\* Both orders the model writes the keys in are orders of all the keys.
LEMMA AnyOrderIs ==
    ASSUME NEW tags \in TagMaps, NEW order \in AnyOrder(DOMAIN tags)
    PROVE  order \in OrdersOf(tags)
<1> DEFINE K == DOMAIN tags
<1>1. IsFiniteSet(K) /\ order \in AnyOrder(K)
  BY TagMapIs
<1> HIDE DEF K
<1>2. order \in Seq(K) /\ ToSet(order) = K
  BY <1>1, OrdersAre
<1> QED BY <1>2 DEF OrdersOf, K

(***************************************************************************)
(* What the client hands out                                               *)
(***************************************************************************)

\* OnIncomingMessage in a build that checks arithmetic or one that does not.
HandedOut(parsed, checks) ==
    IF parsed.is = "error" THEN Closed(parsed.error) ELSE OrGeneric(TryFrom(parsed.value, checks))

\* What a client hands out is what the answer on the message's type lets it.
LEMMA HandedOutIs == ASSUME NEW parsed PROVE OnIncomingMessage(parsed) = HandedOut(parsed, checked)
BY DEF OnIncomingMessage, HandedOut

Kinds == {"typed", "generic", "closed", "panic"}

\* A typed or generic message is the one that was parsed, and a panic comes of it.
IsFrom(r, m) == r.is \in {"typed", "generic", "panic"} /\ r.source = m

\* A message that could not be typed is handed out as the generic one.
LEMMA OutcomeIs ==
    ASSUME NEW m, NEW result
    PROVE  IsFrom(OrGeneric(Outcome(m, result)), m)
<1>1. CASE result.is = "ok"
  <2>1. Outcome(m, result) = Typed(m, result.value)
    BY <1>1, Zenon DEF Outcome
  <2>2. \A v : Typed(m, v).is = "typed" /\ Typed(m, v).source = m
    BY DEF Typed
  <2>3. "typed" # "error"
    OBVIOUS
  <2> QED BY <2>1, <2>2, <2>3 DEF OrGeneric, IsFrom
<1>2. CASE result.is = "error"
  <2> DEFINE e == [is |-> "error", error |-> result.error, source |-> m]
  <2>1. "error" # "ok"
    OBVIOUS
  <2>2. Outcome(m, result) = e
    BY <1>2, <2>1, Zenon DEF Outcome
  <2>3. e.is = "error" /\ e.source = m
    OBVIOUS
  <2> HIDE DEF e
  <2>4. OrGeneric(Outcome(m, result)) = Generic(m)
    BY <2>2, <2>3, Zenon DEF OrGeneric
  <2>5. Generic(m).is = "generic" /\ Generic(m).source = m
    BY DEF Generic
  <2> QED BY <2>4, <2>5 DEF IsFrom
<1>3. CASE result.is # "ok" /\ result.is # "error"
  <2>1. Outcome(m, result) = Panicked(m)
    BY <1>3, Zenon DEF Outcome
  <2>2. Panicked(m).is = "panic" /\ Panicked(m).source = m /\ "panic" # "error"
    BY DEF Panicked
  <2>3. OrGeneric(Panicked(m)) = Panicked(m)
    BY <2>2, Zenon DEF OrGeneric
  <2> QED BY <2>1, <2>2, <2>3 DEF IsFrom
<1> QED BY <1>1, <1>2, <1>3

\* The fields of results.
LEMMA ResultParts ==
    /\ \A m : Accepted(m).is = "ok" /\ Accepted(m).value = m
    /\ \A e : Refused(e).is = "error" /\ Refused(e).error = e /\ Closed(e).is = "closed"
BY DEF Accepted, Refused, Closed

\* An accepted line is handed out with its message, whatever its type makes of it.
LEMMA AcceptedIsHandedOut ==
    ASSUME NEW m, NEW checks
    PROVE  IsFrom(HandedOut(Accepted(m), checks), m)
<1> DEFINE result == OrPanic(All(Reads(m)), checks)
<1>1. HandedOut(Accepted(m), checks) = OrGeneric(TryFrom(m, checks))
  <2>1. "ok" # "error"
    OBVIOUS
  <2> QED BY <2>1, ResultParts, Zenon DEF HandedOut
<1>2. TryFrom(m, checks) = Outcome(m, result) \/ TryFrom(m, checks) = Generic(m)
  BY Zenon DEF TryFrom
<1>3. IsFrom(OrGeneric(Outcome(m, result)), m)
  <2> HIDE DEF result
  <2> QED BY OutcomeIs
<1>4. IsFrom(OrGeneric(Generic(m)), m)
  <2>1. Generic(m).is = "generic" /\ Generic(m).source = m
    BY DEF Generic
  <2> QED BY <2>1 DEF OrGeneric, IsFrom
<1> HIDE DEF result
<1> QED BY <1>1, <1>2, <1>3, <1>4, Zenon

\* What is handed out is of one of four kinds; unless a line could not be parsed it has a
\* message that a line can carry.
LEMMA HandedOutKinds ==
    ASSUME NEW p \in Results, NEW checks
    PROVE  /\ HandedOut(p, checks).is \in Kinds
           /\ HandedOut(p, checks).is # "closed" =>
                IsMessage(HandedOut(p, checks).source) /\ p = Accepted(HandedOut(p, checks).source)
<1>1. ReadAs(p)
  BY ParsedIsMessage, Zenon DEF Results
<1>2. ASSUME NEW e, p = Refused(e)
      PROVE  HandedOut(p, checks).is = "closed"
  BY <1>2, ResultParts, Zenon DEF HandedOut
<1>3. ASSUME NEW m, IsMessage(m), p = Accepted(m)
      PROVE  /\ HandedOut(p, checks).is \in Kinds
             /\ HandedOut(p, checks).is # "closed" =>
                  IsMessage(HandedOut(p, checks).source) /\ p = Accepted(HandedOut(p, checks).source)
  <2>1. IsFrom(HandedOut(p, checks), m)
    BY <1>3, AcceptedIsHandedOut
  <2>2. HandedOut(p, checks).is \in Kinds
    BY <2>1 DEF IsFrom, Kinds
  <2>3. HandedOut(p, checks).is # "closed" => HandedOut(p, checks).source = m
    <3>1. "typed" # "panic" /\ "generic" # "panic"
      OBVIOUS
    <3> QED BY <2>1, <3>1 DEF IsFrom
  <2> QED BY <1>3, <2>2, <2>3, Zenon
<1>4. "closed" \in Kinds
  BY DEF Kinds
<1> QED BY <1>1, <1>2, <1>3, <1>4, Zenon DEF ReadAs

Handing(checks) == {HandedOut(p, checks) : p \in Results}

HandOut(text, checks) == LET parsed == Read(text) IN UpToEnd([i \in DOMAIN parsed |-> HandedOut(parsed[i], checks)])

\* The results that end the connection.
Ends(s) == {i \in 1..Len(s) : s[i].is \in {"closed", "panic"}}

\* What is handed out of a batch ends at the first error, or is all of it.
LEMMA UpToEndIs ==
    ASSUME NEW A, NEW s \in Seq(A)
    PROVE  \/ UpToEnd(s) = s
           \/ \E end \in 1..Len(s) : UpToEnd(s) = SubSeq(s, 1, end)
<1> DEFINE end == SelectInSeq(s, LAMBDA r : r.is \in {"closed", "panic"})
<1>1. UpToEnd(s) = IF end = 0 THEN s ELSE SubSeq(s, 1, end)
  BY Zenon DEF UpToEnd
<1>2. end = IF Ends(s) # {} THEN Min(Ends(s)) ELSE 0
  BY Zenon DEF SelectInSeq, Ends
<1>3. Ends(s) \in SUBSET (1..Len(s)) /\ Len(s) \in Nat
  BY DEF Ends
<1>4. Ends(s) # {} => Min(Ends(s)) \in 1..Len(s)
  BY <1>3, FirstIndex
<1> HIDE DEF end
<1> QED BY <1>1, <1>2, <1>4

\* What is handed out is a sequence of results.
LEMMA UpToEndType ==
    ASSUME NEW A, NEW s \in Seq(A)
    PROVE  UpToEnd(s) \in Seq(A)
<1>1. \A end \in 1..Len(s) : SubSeq(s, 1, end) \in Seq(A)
  OBVIOUS
<1> QED BY <1>1, UpToEndIs

\* A single result is handed out.
LEMMA UpToEndOne == ASSUME NEW r PROVE UpToEnd(<< r >>) = << r >>
<1> DEFINE s == << r >>
           A == {r}
<1>2. s \in Seq(A) /\ Len(s) = 1 /\ s[1] = r
  OBVIOUS
<1> HIDE DEF s, A
<1>3. UpToEnd(s) = s \/ UpToEnd(s) = SubSeq(s, 1, 1)
  BY <1>2, UpToEndIs
<1> DEFINE u == SubSeq(s, 1, 1)
<1>5. u \in Seq(A) /\ Len(u) = 1 /\ u[1] = s[1]
  BY <1>2
<1> HIDE DEF u
<1>6. u = s
  BY <1>2, <1>5, SeqEqual
<1> QED BY <1>3, <1>6 DEF u, s

\* What is handed out for a text comes from lines that were parsed; for a text with one
\* message, it is that one.
LEMMA HandOutIs ==
    ASSUME NEW text \in Seq(Characters), NEW checks
    PROVE  /\ HandOut(text, checks) \in Seq(Handing(checks))
           /\ \A p : Read(text) = << p >> => HandOut(text, checks) = << HandedOut(p, checks) >>
<1> DEFINE parsed == Read(text)
           s == [i \in DOMAIN parsed |-> HandedOut(parsed[i], checks)]
<1>1. HandOut(text, checks) = UpToEnd(s)
  BY Zenon DEF HandOut
<1>2. parsed \in Seq(Results)
  BY ReadType
<1> HIDE DEF parsed
<1>3. s \in Seq(Handing(checks))
  <2>1. Len(parsed) \in Nat /\ DOMAIN parsed = 1..Len(parsed) /\ \A i \in 1..Len(parsed) : parsed[i] \in Results
    BY <1>2
  <2>2. s \in [1..Len(parsed) -> Handing(checks)]
    BY <2>1 DEF Handing
  <2> HIDE DEF s
  <2> QED BY <2>1, <2>2, FunctionIsSequence
<1>4. ASSUME NEW p, parsed = << p >> PROVE s = << HandedOut(p, checks) >>
  <2>1. DOMAIN parsed = 1..1 /\ parsed[1] = p
    BY <1>4
  <2> DEFINE h == HandedOut(p, checks)
  <2>2. s = [i \in 1..1 |-> h]
    BY <2>1
  <2> HIDE DEF h
  <2>3. [i \in 1..1 |-> h] = << h >>
    OBVIOUS
  <2> QED BY <2>2, <2>3 DEF h
<1> HIDE DEF s
<1>5. HandOut(text, checks) \in Seq(Handing(checks))
  BY <1>1, <1>3, UpToEndType
<1>6. ASSUME NEW p, parsed = << p >> PROVE HandOut(text, checks) = << HandedOut(p, checks) >>
  BY <1>1, <1>4, <1>6, UpToEndOne, Zenon
<1> QED BY <1>5, <1>6 DEF parsed

(***************************************************************************)
(* The messages of senders                                                 *)
(***************************************************************************)

\* A message that survives: one that a line can carry, each of whose tags has a key.
WellMeant(m) == IsMessage(m) /\ << >> \notin DOMAIN m.tags

\* The words of the flow are the texts without spaces and line breaks.
LEMMA WordsAre == Words = Unspaced
BY Zenon DEF Words, Without, Unspaced, AnyText, Space

\* A text without some characters.
LEMMA WithoutIs == \A out, s : s \in Without(out) <=> s \in AnyText /\ ToSet(s) \cap out = {}
BY DEF Without, AnyText

\* A text without line breaks is the text of a line.
LEMMA WithoutBreaks == Without({"CR", "LF"}) = Seq(Inline)
<1>1. ASSUME NEW s PROVE s \in Without({"CR", "LF"}) <=> s \in Seq(Inline)
  <2>1. s \in Without({"CR", "LF"}) <=> s \in Seq(Characters) /\ {"CR", "LF"} \cap ToSet(s) = {}
    BY WithoutIs DEF AnyText
  <2> QED BY <2>1, InlineText
<1> QED BY <1>1

\* What can be said of each field of a message that can be written.
LEMMA WrittenParts ==
    ASSUME NEW m, CanBeWritten(m)
    PROVE  /\ m = Message(m.tags, m.prefix, m.command, m.params)
           /\ m.tags \in [DOMAIN m.tags -> Seq(Characters)] /\ IsFiniteSet(DOMAIN m.tags)
           /\ \A key \in DOMAIN m.tags : key \in Without(Separators) \ {<< >>} /\ "=" \notin ToSet(key)
           /\ PrefixCanBeWritten(m.prefix)
           /\ m.command \in Without({"CR", "LF"}) \ {<< >>} /\ Uppercase(m.command) = m.command
           /\ ToSet(m.command) \subseteq Letters \/ ToSet(m.command) \subseteq Digits
           /\ m.params \in Seq(Without({"CR", "LF"}))
           /\ \A i \in 1..(Len(m.params) - 1) : ~NeedsColon(m.params[i])
BY Zenon DEF CanBeWritten, Separators, Space, Semicolon

\* A prefix that can be written is one that reads back.
LEMMA WrittenPrefix ==
    ASSUME NEW p, PrefixCanBeWritten(p)
    PROVE  WellPrefixed(p)
<1>1. ASSUME p = HostOnly(p.host), p.host \in Words \ {<< >>}, "@" \notin ToSet(p.host)
      PROVE  IsHostOnly(p)
  <2>1. p.host \in Unspaced /\ p.host # << >>
    BY <1>1, WordsAre
  <2> QED BY <1>1, <2>1, Zenon DEF IsHostOnly
<1>2. ASSUME p = Full(p.nick, p.user, p.host), p.nick \in Words, {"@", "!"} \cap ToSet(p.nick) = {},
             p.user = << >> \/ (p.user = << p.user[1] >> /\ p.user[1] \in Words /\ "@" \notin ToSet(p.user[1])),
             p.host = << p.host[1] >>, p.host[1] \in Words
      PROVE  IsFull(p)
  <2>1. p.nick \in Unspaced /\ p.host[1] \in Unspaced /\ "@" \notin ToSet(p.nick) /\ "!" \notin ToSet(p.nick)
    BY <1>2, WordsAre
  <2>2. p.user \in {<< >>} \cup { << u >> : u \in Unspaced } /\ (p.user # << >> => "@" \notin ToSet(p.user[1]))
    BY <1>2, WordsAre
  <2>3. p = Full(p.nick, p.user, << p.host[1] >>)
    BY <1>2
  <2> QED BY <2>1, <2>2, <2>3, Zenon DEF IsFull
<1> QED BY <1>1, <1>2, Zenon DEF PrefixCanBeWritten, WellPrefixed

\* A list of parameters of which only the last needs a colon is one that reads
\* back.
LEMMA WrittenParams ==
    ASSUME NEW ps \in Seq(Seq(Inline)), \A i \in 1..(Len(ps) - 1) : ~NeedsColon(ps[i])
    PROVE  ps \in ParamLists
<1>1. CASE ps = << >>
  <2>1. ps \in Seq(Plain)
    BY <1>1
  <2> QED BY <2>1 DEF ParamLists
<1>2. CASE ps # << >>
  <2>1. PICK middle \in Seq(Seq(Inline)), last \in Seq(Inline) : ps = Append(middle, last)
    <3> DEFINE T == Seq(Inline)
    <3>1. ps \in Seq(T)
      OBVIOUS
    <3> HIDE DEF T
    <3>2. \E middle \in Seq(T), last \in T : ps = Append(middle, last)
      BY <1>2, <3>1, SequenceEmptyOrAppend
    <3> QED BY <3>2 DEF T
  <2>2. \A i \in 1..Len(middle) : middle[i] \in Plain
    <3> SUFFICES ASSUME NEW i \in 1..Len(middle) PROVE middle[i] \in Plain
      OBVIOUS
    <3>1. Len(ps) = Len(middle) + 1 /\ ps[i] = middle[i] /\ Len(middle) \in Nat
      BY <2>1
    <3>2. i \in 1..(Len(ps) - 1)
      BY <3>1
    <3>3. ~NeedsColon(middle[i])
      BY <3>1, <3>2
    <3>4. middle[i] \in Seq(Inline)
      BY <2>1, ElementOfSeq
    <3> QED BY <3>3, <3>4, NeedsColonIs
  <2>3. middle \in Seq(Plain)
    BY <2>1, <2>2, Retyped
  <2> QED BY <2>1, <2>3, LastParam
<1> QED BY <1>1, <1>2

\* The server's messages are such messages.
LEMMA WrittenIsMeant ==
    ASSUME NEW m, CanBeWritten(m)
    PROVE  WellMeant(m)
<1>1. /\ m = Message(m.tags, m.prefix, m.command, m.params)
      /\ m.tags \in [DOMAIN m.tags -> Seq(Characters)] /\ IsFiniteSet(DOMAIN m.tags)
      /\ \A key \in DOMAIN m.tags : key \in Without(Separators) \ {<< >>} /\ "=" \notin ToSet(key)
      /\ PrefixCanBeWritten(m.prefix)
      /\ m.command \in Without({"CR", "LF"}) \ {<< >>} /\ Uppercase(m.command) = m.command
      /\ ToSet(m.command) \subseteq Letters \/ ToSet(m.command) \subseteq Digits
      /\ m.params \in Seq(Without({"CR", "LF"}))
      /\ \A i \in 1..(Len(m.params) - 1) : ~NeedsColon(m.params[i])
  BY WrittenParts
<1> DEFINE tags == m.tags
           D == DOMAIN m.tags
<1>2. tags \in [D -> Seq(Characters)] /\ IsFiniteSet(D) /\ DOMAIN tags = D
  BY <1>1
<1>3. D \subseteq Keys /\ << >> \notin D
  <2>1. ASSUME NEW key \in D PROVE key \in Keys /\ key # << >>
    <3>1. key \in Without(Separators) /\ key # << >> /\ "=" \notin ToSet(key)
      BY <1>1
    <3>2. key \in AnyText /\ ToSet(key) \cap Separators = {}
      BY <3>1, WithoutIs
    <3> QED BY <3>1, <3>2 DEF Keys
  <2> QED BY <2>1
<1>4. WellTagged(tags)
  <2> HIDE DEF tags, D
  <2>1. tags \in TagMaps
    <3>1. tags = [k \in DOMAIN tags |-> tags[k]] /\ \A k \in DOMAIN tags : tags[k] \in AnyText
      BY <1>2 DEF AnyText
    <3> QED BY <1>2, <1>3, <3>1, TagMapIs
  <2>2. D = {} => tags = << >>
    BY <1>2
  <2> QED BY <1>2, <2>1, <2>2 DEF WellTagged
<1>5. WellPrefixed(m.prefix)
  BY <1>1, WrittenPrefix
<1>6. m.command \in CommandWords
  BY <1>1, WithoutBreaks DEF CommandWords
<1>7. m.params \in ParamLists
  <2>1. m.params \in Seq(Seq(Inline))
    BY <1>1, WithoutBreaks
  <2> QED BY <1>1, <2>1, WrittenParams
<1>8. IsMessage(m)
  BY <1>1, <1>4, <1>5, <1>6, <1>7, Zenon DEF IsMessage
<1> QED BY <1>3, <1>8 DEF WellMeant

\* Changing the tags of a message that was read leaves one that reads back.
LEMMA Retagged ==
    ASSUME NEW m, IsMessage(m), NEW tags, WellTagged(tags), << >> \notin DOMAIN tags
    PROVE  WellMeant([m EXCEPT !.tags = tags])
<1>1. PICK old, prefix : \E command \in CommandWords, ps \in ParamLists :
         WellTagged(old) /\ WellPrefixed(prefix) /\ m = Message(old, prefix, command, ps)
  BY Zenon DEF IsMessage
<1>2. PICK command \in CommandWords, ps \in ParamLists :
         WellTagged(old) /\ WellPrefixed(prefix) /\ m = Message(old, prefix, command, ps)
  BY <1>1
<1>3. [m EXCEPT !.tags = tags] = Message(tags, prefix, command, ps)
  BY <1>2 DEF Message
<1>4. IsMessage(Message(tags, prefix, command, ps)) /\ Message(tags, prefix, command, ps).tags = tags
  <2>1. WellPrefixed(prefix)
    BY <1>2
  <2>2. IsMessage(Message(tags, prefix, command, ps))
    BY <2>1, Zenon DEF IsMessage
  <2> QED BY <2>2, MessageParts
<1> QED BY <1>3, <1>4, Zenon DEF WellMeant

\* A message remains one when a tag is left out or has another value.
LEMMA TagChanged ==
    ASSUME NEW m, WellMeant(m), NEW key \in DOMAIN m.tags
    PROVE  /\ WellMeant([m EXCEPT !.tags = Restrict(m.tags, DOMAIN m.tags \ {key})])
           /\ \A value \in Seq(Characters) : WellMeant([m EXCEPT !.tags[key] = value])
<1> DEFINE tags == m.tags
           D == DOMAIN tags
<1>1. IsMessage(m) /\ << >> \notin D
  BY DEF WellMeant
<1>2. tags \in TagMaps
  <2>1. PICK old, prefix, command, ps : WellTagged(old) /\ m = Message(old, prefix, command, ps)
    BY <1>1, Zenon DEF IsMessage
  <2>2. WellTagged(tags)
    BY <2>1, MessageParts
  <2>3. DOMAIN << >> = {}
    OBVIOUS
  <2> QED BY <2>2, <2>3 DEF WellTagged
<1>3. key \in D
  OBVIOUS
<1> HIDE DEF tags
<1>4. tags = [k \in D |-> tags[k]] /\ D \subseteq Keys /\ IsFiniteSet(D) /\ \A k \in D : tags[k] \in AnyText
  BY <1>2, TagMapIs
<1>5. WellTagged(Restrict(tags, D \ {key})) /\ << >> \notin DOMAIN Restrict(tags, D \ {key})
  <2> DEFINE E == D \ {key}
             t == [k \in E |-> tags[k]]
  <2>1. Restrict(tags, E) = t /\ DOMAIN t = E /\ t = [k \in DOMAIN t |-> t[k]] /\ \A k \in E : t[k] = tags[k]
    BY DEF Restrict
  <2>2. IsFiniteSet(E) /\ E \subseteq Keys /\ E \subseteq D
    BY <1>4, FS_RemoveElement
  <2>3. t \in TagMaps
    <3>1. \A k \in E : t[k] \in AnyText
      BY <1>4, <2>1, <2>2
    <3> HIDE DEF t, E
    <3> QED BY <2>1, <2>2, <3>1, TagMapIs
  <2>4. E = {} => t = << >>
    <3> HIDE DEF t, E
    <3> QED BY <2>1
  <2>5. << >> \notin E
    BY <1>1 DEF tags
  <2> HIDE DEF t, E
  <2>6. WellTagged(t) /\ << >> \notin DOMAIN t
    BY <2>1, <2>3, <2>4, <2>5 DEF WellTagged
  <2> QED BY <2>1, <2>6 DEF E
<1>6. ASSUME NEW value \in Seq(Characters)
      PROVE  WellTagged([tags EXCEPT ![key] = value]) /\ << >> \notin DOMAIN [tags EXCEPT ![key] = value]
  <2> DEFINE t == [tags EXCEPT ![key] = value]
  <2>1. DOMAIN t = D /\ t = [k \in DOMAIN t |-> t[k]] /\ \A k \in D : t[k] \in AnyText
    BY <1>4 DEF AnyText
  <2> HIDE DEF t
  <2>2. t \in TagMaps
    BY <1>4, <2>1, TagMapIs
  <2>3. << >> \notin D
    BY <1>1 DEF tags
  <2>4. WellTagged(t) /\ << >> \notin DOMAIN t
    BY <1>3, <2>1, <2>2, <2>3 DEF WellTagged
  <2> QED BY <2>4 DEF t
<1>7. WellMeant([m EXCEPT !.tags = Restrict(tags, D \ {key})])
  BY <1>1, <1>5, Retagged
<1>8. ASSUME NEW value \in Seq(Characters) PROVE WellMeant([m EXCEPT !.tags[key] = value])
  <2>1. WellMeant([m EXCEPT !.tags = [tags EXCEPT ![key] = value]])
    BY <1>1, <1>6, Retagged
  <2>2. [m EXCEPT !.tags[key] = value] = [m EXCEPT !.tags = [tags EXCEPT ![key] = value]]
    BY DEF tags
  <2> QED BY <2>1, <2>2
<1> QED BY <1>7, <1>8 DEF tags

(***************************************************************************)
(* The messages of the client handle                                       *)
(***************************************************************************)

\* A name that validate_login() accepts has none of the characters that would end it.
LEMMA ValidNames ==
    ASSUME NEW name \in Seq(Characters), ValidateLogin(name).is = "ok"
    PROVE  ToSet(name) \subseteq LoginChars
<1> DEFINE Bad == {i \in 1..Len(name) : name[i] \notin LoginChars}
           bad == SelectInSeq(name, LAMBDA c : c \notin LoginChars)
<1>1. bad = IF Bad # {} THEN Min(Bad) ELSE 0
  BY Zenon DEF SelectInSeq
<1>2. Bad \in SUBSET (1..Len(name)) /\ Len(name) \in Nat
  OBVIOUS
<1>3. Bad # {} => Min(Bad) \in 1..Len(name)
  <2> HIDE DEF Bad
  <2> QED BY <1>2, FirstIndex
<1>4. ASSUME Bad # {} PROVE FALSE
  <2>1. bad \in 1..Len(name) /\ MaxLogin \in Nat
    BY <1>1, <1>3, <1>4, IrcMessageAssumption
  <2>2. ValidateLogin(name) = IF bad # 0 /\ bad <= MaxLogin + 1 THEN Refused("InvalidCharacter")
                              ELSE IF Len(name) > MaxLogin THEN Refused("TooLong")
                              ELSE IF name = << >> THEN Refused("TooShort")
                              ELSE Accepted(name)
    BY Zenon DEF ValidateLogin
  <2> HIDE DEF bad
  <2>3. (bad # 0 /\ bad <= MaxLogin + 1) \/ Len(name) > MaxLogin
    BY <1>2, <2>1
  <2>4. ValidateLogin(name).is = "error"
    BY <2>2, <2>3, ResultParts, Zenon
  <2>5. "error" # "ok"
    OBVIOUS
  <2> QED BY <2>4, <2>5
<1>5. \A i \in 1..Len(name) : name[i] \in LoginChars
  BY <1>4
<1> QED BY <1>5 DEF ToSet

\* A channel name with its # is a plain parameter.
LEMMA ChannelParam ==
    ASSUME NEW channel \in Seq(Characters), ToSet(channel) \subseteq LoginChars
    PROVE  << "#" >> \o channel \in Plain /\ Tail(<< "#" >> \o channel) = channel
<1>1. Space \notin LoginChars /\ "CR" \notin LoginChars /\ "LF" \notin LoginChars
  BY IrcMessageAssumption, Zenon DEF Space
<1>2. "#" \in Characters /\ "#" \notin {"CR", "LF", ":"}
  BY IrcMessageAssumption
<1>3. "#" # Space
  BY Zenon DEF Space
<1>4. channel \in Seq(Inline) /\ Space \notin ToSet(channel) /\ "#" \in Inline
  <2>1. {"CR", "LF"} \cap ToSet(channel) = {}
    BY <1>1
  <2> QED BY <1>1, <1>2, <2>1, InlineText DEF Inline
<1> DEFINE p == << "#" >> \o channel
<1>5. /\ p \in Seq(Inline) /\ p # << >> /\ Head(p) = "#" /\ Tail(p) = channel
      /\ ToSet(p) = {"#"} \cup ToSet(channel)
  BY <1>4, FirstAndRest
<1> HIDE DEF p
<1>6. Space \notin ToSet(p) /\ ~StartsWith(p, ":")
  BY <1>2, <1>3, <1>4, <1>5 DEF StartsWith
<1> QED BY <1>5, <1>6 DEF Plain, p

\* And is the name again without it.
LEMMA ChannelTail ==
    ASSUME NEW channel \in Seq(Characters)
    PROVE  Tail(<< "#" >> \o channel) = channel
<1>1. "#" \in Characters
  BY IrcMessageAssumption
<1> QED BY <1>1, FirstAndRest

\* `say` and `me` are PRIVMSGs.
LEMMA SaidIs ==
    ASSUME NEW channel, NEW text
    PROVE  /\ Say(channel, text) = Privmsg(channel, << ".", Space >> \o text)
           /\ Me(channel, text) = Privmsg(channel, << "/", "me", Space >> \o text)
BY Zenon DEF Say, Me, Space

\* Appending is putting a sequence of one element behind.
LEMMA AppendIs == ASSUME NEW A, NEW s \in Seq(A), NEW x \in A PROVE Append(s, x) = s \o << x >>
OBVIOUS

\* Two elements.
LEMMA Pair == ASSUME NEW a, NEW b PROVE Append(<< a >>, b) = << a, b >>
<1> DEFINE A == {a, b}
           one == << a >>
<1>1. one \in Seq(A) /\ b \in A
  OBVIOUS
<1> HIDE DEF one, A
<1>2. Append(one, b) = one \o << b >>
  BY <1>1, AppendIs
<1> QED BY <1>2, Lasts, Zenon DEF one

\* A PRIVMSG to a valid channel, with a text of one line, reads back.
LEMMA PrivmsgIs ==
    ASSUME NEW channel \in Seq(Characters), NEW text \in Seq(Characters)
    PROVE  /\ Privmsg(channel, text).params[1] = << "#" >> \o channel
           /\ ToSet(channel) \subseteq LoginChars /\ text \in Seq(Inline) => WellMeant(Privmsg(channel, text))
<1> DEFINE p == << "#" >> \o channel
           c == << "PRIVMSG" >>
           ps == << p, text >>
           m == Message(<< >>, NoPrefix, c, ps)
<1>1. Privmsg(channel, text) = m
  BY Zenon DEF Privmsg, Simple
<1>2. ps[1] = p
  OBVIOUS
<1>3. m.params[1] = p
  BY <1>2, MessageParts
<1>4. ASSUME ToSet(channel) \subseteq LoginChars, text \in Seq(Inline) PROVE WellMeant(m)
  <2>1. p \in Plain
    BY <1>4, ChannelParam
  <2>2. ps \in ParamLists
    <3> HIDE DEF p
    <3> DEFINE one == << p >>
    <3>1. one \in Seq(Plain)
      BY <2>1
    <3>2. Append(one, text) = ps
      BY Pair, Zenon
    <3> HIDE DEF one, ps
    <3> QED BY <1>4, <3>1, <3>2, LastParam
  <2>3. c \in CommandWords
    <3>1. "PRIVMSG" \in Letters /\ "PRIVMSG" \notin DOMAIN Upper
      BY IrcMessageAssumption
    <3>2. "PRIVMSG" \in Characters /\ "PRIVMSG" \notin {"CR", "LF"}
      BY <3>1, CharactersAre
    <3>3. c \in Seq(Inline) /\ ToSet(c) = {"PRIVMSG"} /\ Len(c) = 1 /\ c # << >>
      BY <3>2, OneCharacter DEF Inline
    <3>4. Uppercase(c) = c
      <4>1. Uppercase(c) = [i \in 1..1 |-> "PRIVMSG"]
        BY <3>1 DEF Uppercase
      <4> QED BY <4>1
    <3> QED BY <3>1, <3>3, <3>4 DEF CommandWords
  <2>4. WellTagged(<< >>) /\ WellPrefixed(NoPrefix)
    BY DEF WellTagged, WellPrefixed
  <2> HIDE DEF c, ps
  <2>5. IsMessage(m)
    BY <2>2, <2>3, <2>4, Zenon DEF IsMessage
  <2>6. m.tags = << >>
    BY MessageParts
  <2>7. DOMAIN << >> = {}
    OBVIOUS
  <2> HIDE DEF m
  <2> QED BY <2>5, <2>6, <2>7 DEF WellMeant
<1> HIDE DEF m
<1> QED BY <1>1, <1>3, <1>4

\* The texts of say() and me().
LEMMA SaidText ==
    ASSUME NEW text \in Seq(Characters)
    PROVE  /\ << ".", Space >> \o text \in Seq(Characters) /\ << "/", "me", Space >> \o text \in Seq(Characters)
           /\ text \in Seq(Inline) => << ".", Space >> \o text \in Seq(Inline)
                                      /\ << "/", "me", Space >> \o text \in Seq(Inline)
<1>1. {".", "/", "me"} \subseteq Characters /\ {".", "/", "me"} \cap {"CR", "LF"} = {}
  BY IrcMessageAssumption
<1>2. Space \in Inline /\ Space \in Characters
  BY InlineAre
<1>3. << ".", Space >> \in Seq(Characters) /\ << "/", "me", Space >> \in Seq(Characters)
  BY <1>1, <1>2
<1>4. << ".", Space >> \in Seq(Inline) /\ << "/", "me", Space >> \in Seq(Inline)
  BY <1>1, <1>2 DEF Inline
<1> DEFINE a == << ".", Space >>
           b == << "/", "me", Space >>
<1> HIDE DEF a, b
<1>5. /\ a \o text \in Seq(Characters) /\ b \o text \in Seq(Characters)
      /\ text \in Seq(Inline) => a \o text \in Seq(Inline) /\ b \o text \in Seq(Inline)
  <2>1. a \in Seq(Characters) /\ b \in Seq(Characters) /\ a \in Seq(Inline) /\ b \in Seq(Inline)
    BY <1>3, <1>4 DEF a, b
  <2> QED BY <2>1
<1> QED BY <1>5 DEF a, b

\* The tag of a reply reads back.
LEMMA ReplyTags ==
    ASSUME NEW id \in Seq(Characters)
    PROVE  WellTagged([key \in {<< "reply-parent-msg-id" >>} |-> id])
           /\ << >> \notin DOMAIN [key \in {<< "reply-parent-msg-id" >>} |-> id]
<1> DEFINE k == << "reply-parent-msg-id" >>
           t == [key \in {k} |-> id]
<1>1. "reply-parent-msg-id" \in Characters /\ "reply-parent-msg-id" \notin {"CR", "LF", "="}
  BY IrcMessageAssumption
<1>2. "reply-parent-msg-id" # Space /\ "reply-parent-msg-id" # Semicolon
  BY Zenon DEF Space, Semicolon
<1>3. k \in Seq(Characters) /\ ToSet(k) = {"reply-parent-msg-id"} /\ k # << >>
  <2>1. k \in Seq(Characters) /\ ToSet(k) = {"reply-parent-msg-id"} /\ Len(k) = 1
    BY <1>1, OneCharacter
  <2> QED BY <2>1
<1>4. k \in Keys
  BY <1>1, <1>2, <1>3 DEF Keys, AnyText, Separators
<1> HIDE DEF k
<1>5. DOMAIN t = {k} /\ t = [x \in DOMAIN t |-> t[x]] /\ \A x \in {k} : t[x] \in AnyText
  BY DEF AnyText
<1>6. IsFiniteSet({k})
  BY FS_Singleton
<1> HIDE DEF t
<1>7. t \in TagMaps
  BY <1>4, <1>5, <1>6, TagMapIs
<1>8. WellTagged(t) /\ << >> \notin DOMAIN t
  BY <1>3, <1>5, <1>7 DEF WellTagged
<1> QED BY <1>8 DEF t, k

\* What a client handle may be asked to send.
SaidBy(channel, text) ==
    LET said == {Say(channel, text), Me(channel, text)}
    IN  said \cup {Privmsg(channel, text)} \cup { InReplyTo(<< "id" >>, m) : m \in said }

IsSound(m, text) == ValidateLogin(Tail(m.params[1])).is = "ok" /\ {"CR", "LF"} \cap ToSet(text) = {}

\* Every message to a sound channel with a sound text survives.
LEMMA SaidIsMeant ==
    ASSUME NEW channel \in Seq(Characters), NEW text \in Seq(Characters), NEW m \in SaidBy(channel, text),
           IsSound(m, text)
    PROVE  WellMeant(m)
<1> DEFINE texts == {<< ".", Space >> \o text, << "/", "me", Space >> \o text, text}
<1>1. \A t \in texts : t \in Seq(Characters) /\ (text \in Seq(Inline) => t \in Seq(Inline))
  BY SaidText
<1>2. PICK t \in texts : m = Privmsg(channel, t) \/ m = InReplyTo(<< "id" >>, Privmsg(channel, t))
  <2>1. \/ m = Say(channel, text) \/ m = Me(channel, text) \/ m = Privmsg(channel, text)
        \/ m = InReplyTo(<< "id" >>, Say(channel, text)) \/ m = InReplyTo(<< "id" >>, Me(channel, text))
    BY Zenon DEF SaidBy
  <2> QED BY <2>1, SaidIs
<1> HIDE DEF texts
<1>3. t \in Seq(Characters) /\ text \in Seq(Characters)
  BY <1>1
<1> DEFINE p == Privmsg(channel, t)
           r == InReplyTo(<< "id" >>, p)
<1>4. p.params[1] = << "#" >> \o channel
  BY <1>3, PrivmsgIs
<1>5. text \in Seq(Inline) /\ t \in Seq(Inline)
  <2>1. {"CR", "LF"} \cap ToSet(text) = {}
    BY DEF IsSound
  <2>2. text \in Seq(Inline)
    BY <1>3, <2>1, InlineText
  <2> QED BY <1>1, <2>2
<1>6. r = [p EXCEPT !.tags = [key \in {<< "reply-parent-msg-id" >>} |-> << "id" >>]]
  BY DEF InReplyTo
<1>7. r.params = p.params
  BY <1>6 DEF Privmsg, Simple, Message
<1> HIDE DEF p, r
<1>8. m.params[1] = << "#" >> \o channel
  BY <1>2, <1>4, <1>7 DEF p, r
<1>9. ToSet(channel) \subseteq LoginChars
  <2>1. Tail(<< "#" >> \o channel) = channel
    BY ChannelTail
  <2>2. ValidateLogin(channel).is = "ok"
    BY <1>8, <2>1 DEF IsSound
  <2> QED BY <2>2, ValidNames
<1>10. WellMeant(p)
  BY <1>3, <1>5, <1>9, PrivmsgIs DEF p
<1>11. WellMeant(r)
  <2>1. << "id" >> \in Seq(Characters)
    BY FlowAssumption
  <2> DEFINE tags == [key \in {<< "reply-parent-msg-id" >>} |-> << "id" >>]
  <2>2. WellTagged(tags) /\ << >> \notin DOMAIN tags
    BY <2>1, ReplyTags
  <2>3. r = [p EXCEPT !.tags = tags] /\ IsMessage(p)
    BY <1>6, <1>10 DEF WellMeant
  <2> HIDE DEF tags
  <2> QED BY <2>2, <2>3, Retagged
<1> QED BY <1>2, <1>10, <1>11 DEF p, r

(***************************************************************************)
(* Whatever is written is a text, even if it cannot be read as what was    *)
(* meant                                                                   *)
(***************************************************************************)

\* A piece of the tags, and one of the parameters.
TagPiece(i, key, value) ==
    (IF i > 1 THEN << Semicolon >> ELSE << >>) \o key
      \o (IF value = << >> THEN << >> ELSE << "=" >> \o EncodeTagValue(value))

ParamPiece(i, colon, param) == (IF i = colon THEN << Space, ":" >> ELSE << Space >>) \o param

\* The text of the tags is put together of the texts of each.
LEMMA FormatTagsPieces ==
    ASSUME NEW tags, NEW order
    PROVE  FormatTags(tags, order) = Concat([i \in DOMAIN order |-> TagPiece(i, order[i], tags[order[i]])])
BY Zenon DEF FormatTags, TagPiece, Semicolon

\* Two texts make a text.
LEMMA JoinedTexts ==
    ASSUME NEW a \in AnyText, NEW b \in AnyText
    PROVE  a \o b \in AnyText
BY DEF AnyText

\* One character is a text.
LEMMA OneCharacterText == ASSUME NEW c \in Characters PROVE << c >> \in AnyText
BY DEF AnyText

\* The empty text is a text.
LEMMA NoText == << >> \in AnyText
BY DEF AnyText

\* What is written for a tag is a text.
LEMMA TagPieceType ==
    ASSUME NEW i, NEW key \in AnyText, NEW value \in AnyText
    PROVE  TagPiece(i, key, value) \in AnyText
<1> DEFINE a == IF i > 1 THEN << Semicolon >> ELSE << >>
           b == IF value = << >> THEN << >> ELSE << "=" >> \o EncodeTagValue(value)
<1>1. a \in AnyText
  <2>1. << Semicolon >> \in AnyText /\ << >> \in AnyText
    BY CharactersAre, OneCharacterText, NoText
  <2> QED BY <2>1
<1>2. b \in AnyText
  <2>1. << "=" >> \in AnyText /\ EncodeTagValue(value) \in AnyText /\ << >> \in AnyText
    BY CharactersAre, OneCharacterText, NoText, EncodedType
  <2>2. << "=" >> \o EncodeTagValue(value) \in AnyText
    BY <2>1, JoinedTexts
  <2> QED BY <2>1, <2>2
<1>3. a \o key \in AnyText
  BY <1>1, JoinedTexts
<1>4. (a \o key) \o b \in AnyText
  BY <1>2, <1>3, JoinedTexts
<1> QED BY <1>4, Zenon DEF TagPiece

\* And so is what is written for all of them, read back or not.
LEMMA FormatTagsType ==
    ASSUME NEW tags, NEW K, \A k \in K : k \in AnyText /\ tags[k] \in AnyText, NEW order \in Seq(K)
    PROVE  FormatTags(tags, order) \in AnyText
<1> DEFINE f == [i \in DOMAIN order |-> TagPiece(i, order[i], tags[order[i]])]
<1>1. f \in [1..Len(order) -> AnyText]
  <2>1. ASSUME NEW i \in 1..Len(order) PROVE TagPiece(i, order[i], tags[order[i]]) \in AnyText
    BY TagPieceType
  <2> QED BY <2>1
<1> HIDE DEF f
<1>2. f \in Seq(Seq(Characters))
  <2>1. Len(order) \in Nat
    OBVIOUS
  <2> QED BY <1>1, <2>1, FunctionIsSequence DEF AnyText
<1>3. Concat(f) \in AnyText
  BY <1>2, ConcatType DEF AnyText
<1> QED BY <1>3, FormatTagsPieces DEF f

\* The text of the parameters is put together of the texts of those that are
\* written.
LEMMA FormatParamsPieces ==
    ASSUME NEW params \in Seq(AnyText)
    PROVE  \E kept \in Seq(AnyText) : \E colon :
              FormatParams(params) = Concat([i \in DOMAIN kept |-> ParamPiece(i, colon, kept[i])])
<1> DEFINE I == {i \in 1..Len(params) : NeedsColon(params[i])}
           colon == SelectInSeq(params, NeedsColon)
           kept == IF colon = 0 THEN params ELSE SubSeq(params, 1, colon)
<1>1. colon = IF I # {} THEN Min(I) ELSE 0
  BY Zenon DEF SelectInSeq
<1>2. I # {} => Min(I) \in 1..Len(params)
  <2>1. I \in SUBSET (1..Len(params)) /\ Len(params) \in Nat
    OBVIOUS
  <2> HIDE DEF I
  <2> QED BY <2>1, FirstIndex
<1>3. colon # 0 => colon \in 1..Len(params)
  BY <1>1, <1>2
<1>4. kept \in Seq(AnyText)
  <2> HIDE DEF colon
  <2>1. \A k \in 1..Len(params) : SubSeq(params, 1, k) \in Seq(AnyText)
    OBVIOUS
  <2> QED BY <1>3, <2>1
<1>5. FormatParams(params) = Concat([i \in DOMAIN kept |-> ParamPiece(i, colon, kept[i])])
  BY FormatParamsIs, Zenon DEF FormatAt, ParamPiece
<1> HIDE DEF colon, kept
<1> QED BY <1>4, <1>5

\* And is a text.
LEMMA FormatParamsType ==
    ASSUME NEW params \in Seq(AnyText)
    PROVE  FormatParams(params) \in AnyText
<1>0. PICK kept \in Seq(AnyText) : \E colon :
         FormatParams(params) = Concat([i \in DOMAIN kept |-> ParamPiece(i, colon, kept[i])])
  BY FormatParamsPieces
<1>1. PICK colon : FormatParams(params) = Concat([i \in DOMAIN kept |-> ParamPiece(i, colon, kept[i])])
  BY <1>0
<1> DEFINE f == [i \in DOMAIN kept |-> ParamPiece(i, colon, kept[i])]
<1>2. << Space >> \in AnyText /\ << Space, ":" >> \in AnyText
  <2>1. Space \in Characters /\ ":" \in Characters
    BY CharactersAre
  <2> QED BY <2>1 DEF AnyText
<1>3. f \in [1..Len(kept) -> AnyText]
  <2>1. ASSUME NEW i \in 1..Len(kept) PROVE ParamPiece(i, colon, kept[i]) \in AnyText
    <3>1. kept[i] \in AnyText
      BY ElementOfSeq
    <3>2. << Space >> \o kept[i] \in AnyText /\ << Space, ":" >> \o kept[i] \in AnyText
      BY <1>2, <3>1, JoinedTexts
    <3> QED BY <3>2 DEF ParamPiece
  <2> QED BY <2>1
<1> HIDE DEF f
<1>4. f \in Seq(Seq(Characters))
  <2>1. Len(kept) \in Nat
    OBVIOUS
  <2> QED BY <1>3, <2>1, FunctionIsSequence DEF AnyText
<1>5. Concat(f) \in AnyText
  BY <1>4, ConcatType DEF AnyText
<1> QED BY <1>1, <1>5, Zenon DEF f

\* A message made of texts.
OfTexts(m) ==
    /\ IsFiniteSet(DOMAIN m.tags) /\ \A k \in DOMAIN m.tags : k \in AnyText /\ m.tags[k] \in AnyText
    /\ WellPrefixed(m.prefix) /\ m.command \in AnyText /\ m.params \in Seq(AnyText)

\* A message of texts is written as a text.
LEMMA FormatType ==
    ASSUME NEW m, OfTexts(m), NEW order \in AnyOrder(DOMAIN m.tags)
    PROVE  Format(m, order) \in Seq(Characters)
<1>1. FormatTags(m.tags, order) \in AnyText
  <2> DEFINE K == DOMAIN m.tags
  <2>1. IsFiniteSet(K) /\ \A k \in K : k \in AnyText /\ m.tags[k] \in AnyText
    BY DEF OfTexts
  <2>2. order \in AnyOrder(K)
    OBVIOUS
  <2> HIDE DEF K
  <2>3. order \in Seq(K)
    BY <2>1, <2>2, OrdersAre
  <2> QED BY <2>1, <2>3, FormatTagsType
<1>2. m.prefix.kind # "none" => FormatPrefix(m.prefix) \in AnyText
  <2>1. WellPrefixed(m.prefix)
    BY DEF OfTexts
  <2>2. IsHostOnly(m.prefix) \/ IsFull(m.prefix) => FormatPrefix(m.prefix) \in AnyText
    BY PrefixSurvives DEF Unspaced
  <2> QED BY <2>1, <2>2, PrefixKinds DEF WellPrefixed
<1>3. FormatParams(m.params) \in AnyText /\ m.command \in AnyText
  BY FormatParamsType DEF OfTexts
<1>4. << "@" >> \in AnyText /\ << ":" >> \in AnyText /\ << Space >> \in AnyText /\ << >> \in AnyText
  BY CharactersAre, OneCharacterText, NoText
<1>5. TagsText(m, order) \in AnyText
  <2>1. << "@" >> \o FormatTags(m.tags, order) \in AnyText
    BY <1>1, <1>4, JoinedTexts
  <2>2. (<< "@" >> \o FormatTags(m.tags, order)) \o << Space >> \in AnyText
    BY <1>4, <2>1, JoinedTexts
  <2> QED BY <1>4, <2>2 DEF TagsText
<1>6. PrefixText(m) \in AnyText
  <2> SUFFICES ASSUME m.prefix.kind # "none"
               PROVE  (<< ":" >> \o FormatPrefix(m.prefix)) \o << Space >> \in AnyText
    BY <1>4 DEF PrefixText
  <2>1. << ":" >> \o FormatPrefix(m.prefix) \in AnyText
    BY <1>2, <1>4, JoinedTexts
  <2> QED BY <1>4, <2>1, JoinedTexts
<1> DEFINE a == TagsText(m, order)
           b == PrefixText(m)
           c == m.command
           d == FormatParams(m.params)
<1>7. a \o b \in AnyText
  BY <1>5, <1>6, JoinedTexts
<1>8. (a \o b) \o c \in AnyText
  BY <1>3, <1>7, JoinedTexts
<1>9. ((a \o b) \o c) \o d \in AnyText
  BY <1>3, <1>8, JoinedTexts
<1>10. Format(m, order) = ((a \o b) \o c) \o d
  BY FormatIs, Zenon DEF FromLeft
<1> QED BY <1>9, <1>10 DEF AnyText

\* And so are its bytes on every transport.
LEMMA WrittenType ==
    ASSUME NEW line \in Seq(Characters), NEW transport
    PROVE  Written(transport, line) \in Seq(Characters)
<1>1. << "CR", "LF" >> \in Seq(Characters)
  BY CharactersAre
<1>2. line \o << "CR", "LF" >> \in Seq(Characters)
  <2> DEFINE t == << "CR", "LF" >>
  <2> HIDE DEF t
  <2> QED BY <1>1 DEF t
<1> QED BY <1>2 DEF Written, WriteTCP, WriteWS

\* A message that a line can carry is made of texts, and so is what a client sends.
LEMMA MessageOfTexts ==
    ASSUME NEW m, IsMessage(m)
    PROVE  OfTexts(m)
<1>1. PICK tags, prefix : \E command \in CommandWords, ps \in ParamLists :
         WellTagged(tags) /\ WellPrefixed(prefix) /\ m = Message(tags, prefix, command, ps)
  BY Zenon DEF IsMessage
<1>2. PICK command \in CommandWords, ps \in ParamLists :
         WellTagged(tags) /\ WellPrefixed(prefix) /\ m = Message(tags, prefix, command, ps)
  BY <1>1
<1>3. m.tags = tags /\ m.prefix = prefix /\ m.command = command /\ m.params = ps
  BY <1>2, MessageParts
<1>4. IsFiniteSet(DOMAIN tags) /\ \A k \in DOMAIN tags : k \in AnyText /\ tags[k] \in AnyText
  <2>1. tags \in TagMaps
    BY <1>2, NoTags DEF WellTagged
  <2> QED BY <2>1, TagMapIs DEF Keys
<1>5. command \in AnyText
  BY CommandIs, InlineText DEF AnyText
<1>6. ps \in Seq(AnyText)
  <2>1. Plain \subseteq AnyText /\ Seq(Inline) \subseteq AnyText
    BY InlineText DEF Plain, AnyText
  <2>2. ASSUME NEW middle \in Seq(Plain), NEW last \in Seq(Inline) PROVE Append(middle, last) \in Seq(AnyText)
    <3>1. middle \in Seq(AnyText) /\ last \in AnyText
      BY <2>1
    <3> QED BY <3>1
  <2>3. \A s \in Seq(Plain) : s \in Seq(AnyText)
    BY <2>1
  <2> QED BY <2>2, <2>3 DEF ParamLists
<1> QED BY <1>2, <1>3, <1>4, <1>5, <1>6 DEF OfTexts

\* What the client's methods send is a message of texts.
LEMMA SaidOfTexts ==
    ASSUME NEW channel \in Seq(Characters), NEW text \in Seq(Characters), NEW m \in SaidBy(channel, text)
    PROVE  OfTexts(m)
<1> DEFINE texts == {<< ".", Space >> \o text, << "/", "me", Space >> \o text, text}
<1>1. \A t \in texts : t \in Seq(Characters)
  BY SaidText
<1>2. PICK t \in texts : m = Privmsg(channel, t) \/ m = InReplyTo(<< "id" >>, Privmsg(channel, t))
  <2>1. \/ m = Say(channel, text) \/ m = Me(channel, text) \/ m = Privmsg(channel, text)
        \/ m = InReplyTo(<< "id" >>, Say(channel, text)) \/ m = InReplyTo(<< "id" >>, Me(channel, text))
    BY Zenon DEF SaidBy
  <2> QED BY <2>1, SaidIs
<1>3. t \in AnyText /\ channel \in AnyText
  BY <1>1 DEF AnyText
<1> HIDE DEF texts
<1> DEFINE c == << "#" >> \o channel
           ps == << c, t >>
           k == << "reply-parent-msg-id" >>
           id == << "id" >>
<1>4. c \in AnyText
  <2>1. << "#" >> \in AnyText
    BY IrcMessageAssumption, OneCharacterText
  <2> QED BY <1>3, <2>1, JoinedTexts
<1>5. k \in AnyText /\ id \in AnyText /\ << "PRIVMSG" >> \in AnyText
  <2>1. "reply-parent-msg-id" \in Characters /\ "PRIVMSG" \in Characters /\ id \in Seq(Characters)
    BY IrcMessageAssumption, FlowAssumption
  <2> QED BY <2>1, OneCharacterText DEF AnyText
<1>6. ps \in Seq(AnyText)
  <2> HIDE DEF c
  <2> QED BY <1>3, <1>4
<1>7. WellPrefixed(NoPrefix)
  BY DEF WellPrefixed
<1>8. IsFiniteSet({}) /\ IsFiniteSet({k})
  BY FS_EmptySet, FS_Singleton
<1> DEFINE p == Privmsg(channel, t)
           tags == [key \in {k} |-> id]
<1>9. p = Message(<< >>, NoPrefix, << "PRIVMSG" >>, ps)
  BY Zenon DEF Privmsg, Simple
<1>10. InReplyTo(id, p) = [p EXCEPT !.tags = tags]
  BY DEF InReplyTo
<1> HIDE DEF p, ps, c, k, id
<1>11. p.tags = << >> /\ p.prefix = NoPrefix /\ p.command = << "PRIVMSG" >> /\ p.params = ps
  BY <1>9, MessageParts
<1>12. OfTexts(p)
  <2>1. DOMAIN << >> = {}
    OBVIOUS
  <2> QED BY <1>5, <1>6, <1>7, <1>8, <1>11, <2>1 DEF OfTexts
<1>13. OfTexts(InReplyTo(id, p))
  <2> DEFINE r == [p EXCEPT !.tags = tags]
  <2>1. r.tags = tags /\ r.prefix = NoPrefix /\ r.command = << "PRIVMSG" >> /\ r.params = ps
    <3>1. r = Message(tags, NoPrefix, << "PRIVMSG" >>, ps)
      BY <1>9 DEF Message
    <3> HIDE DEF tags, r
    <3> QED BY <3>1, MessageParts
  <2>2. DOMAIN tags = {k} /\ tags[k] = id
    OBVIOUS
  <2> HIDE DEF r, tags
  <2>3. OfTexts(r)
    BY <1>5, <1>6, <1>7, <1>8, <2>1, <2>2 DEF OfTexts
  <2> QED BY <1>10, <2>3 DEF r
<1> QED BY <1>2, <1>12, <1>13 DEF p, id

(***************************************************************************)
(* The flow of messages                                                    *)
(***************************************************************************)

\* m is what is read of the wire, or has been handed out.
Carries(m) ==
    /\ wire # Nothing => Read(wire) = << Accepted(m) >>
    /\ wire = Nothing => received = << HandedOut(Accepted(m), checked) >>

\* The sender meant what arrives: the server, or a client whose message is sound.
MeansIt == sender = "server" \/ (sender = "client" /\ Sound(meant))

FlowTypes ==
    /\ typed \in Seq(Fragments) /\ Len(typed) <= MaxPieces /\ checked \in BOOLEAN
    /\ sender \in {"nobody", "server", "peer", "client"}
    /\ wire \in Seq(Characters) \cup {Nothing}
    /\ received \in Seq(Handing(checked))

\* Before something is sent nothing happens; what the server means can be written.
Unsent ==
    sender = "nobody" =>
        wire = Nothing /\ received = << >> /\ before = << >> /\ (meant # Nothing => WellMeant(meant))

Underway == wire # Nothing => received = << >>

Delivery == MeansIt => \E m : m = meant /\ WellMeant(m) /\ Carries(m)

\* What has been sent on was a message that a line can carry, and is carried again.
Relayed ==
    before # << >> =>
        /\ sender # "nobody"
        /\ \E m : /\ IsMessage(m) /\ before = << HandedOut(Accepted(m), checked) >> /\ before[1].source = m
                  /\ m.tags # Nameless => Carries(m)

FlowInv == FlowTypes /\ Unsent /\ Underway /\ Delivery /\ Relayed

-----------------------------------------------------------------------------

\* What the assumption says of the constants.
LEMMA FlowConstants ==
    /\ \A m \in Catalogue : WellMeant(m)
    /\ Values \subseteq Seq(Characters) /\ Channels \subseteq Seq(Characters)
    /\ Fragments \subseteq Seq(Characters)
    /\ Nothing \notin Seq(Characters) /\ MaxPieces \in Nat
BY FlowAssumption, WrittenIsMeant

\* What a program put together of fragments is a text.
LEMMA TypedText ==
    ASSUME NEW pieces \in Seq(Fragments)
    PROVE  Concat(pieces) \in Seq(Characters)
<1>1. pieces \in Seq(Seq(Characters))
  BY FlowConstants
<1> QED BY <1>1, ConcatType

\* A message that a line can carry is read from what is written of it.
LEMMA MessageCarried ==
    ASSUME NEW m, IsMessage(m), m.tags # Nameless, NEW order \in AnyOrder(DOMAIN m.tags), NEW transport
    PROVE  Read(Written(transport, Format(m, order))) = << Accepted(m) >>
<1>1. m.tags # << >> => order \in OrdersOf(m.tags)
  <2>1. PICK tags, prefix, command, ps : WellTagged(tags) /\ m = Message(tags, prefix, command, ps)
    BY Zenon DEF IsMessage
  <2>2. WellTagged(m.tags)
    BY <2>1, MessageParts
  <2> QED BY <2>2, AnyOrderIs DEF WellTagged
<1>2. Format(m, order) \in Seq(Inline) /\ Format(m, order) # << >> /\ Parse(Format(m, order)) = Accepted(m)
  BY <1>1, MessagesSurvive
<1> DEFINE line == Format(m, order)
<1> HIDE DEF line
<1>3. Read(Written(transport, line)) = << Parse(line) >>
  BY <1>2, LineSurvives DEF line
<1> QED BY <1>2, <1>3 DEF line

\* A message that was meant is made of texts.
LEMMA MeantHasKeys ==
    ASSUME NEW m, WellMeant(m)
    PROVE  IsMessage(m) /\ m.tags # Nameless /\ OfTexts(m)
<1>1. DOMAIN Nameless = {<< >>}
  BY DEF Nameless
<1> QED BY <1>1, MessageOfTexts DEF WellMeant

\* What is on its way is a text, not the mark for nothing being on its way.
LEMMA LineOf ==
    ASSUME NEW m, OfTexts(m), NEW order \in AnyOrder(DOMAIN m.tags), NEW transport
    PROVE  /\ Written(transport, Format(m, order)) \in Seq(Characters)
           /\ Written(transport, Format(m, order)) # Nothing
<1>1. Written(transport, Format(m, order)) \in Seq(Characters)
  BY FormatType, WrittenType
<1> QED BY <1>1, FlowConstants

\* Nothing was sent yet.
LEMMA FlowInit == Init => FlowInv
<1> SUFFICES ASSUME Init PROVE FlowInv
  OBVIOUS
<1>1. FlowTypes
  BY FlowConstants DEF Init, FlowTypes
<1>2. Unsent
  BY FlowConstants DEF Init, Unsent
<1>3. Underway /\ Delivery /\ Relayed
  BY DEF Init, Underway, Delivery, MeansIt, Relayed
<1> QED BY <1>1, <1>2, <1>3 DEF FlowInv

\* A server may mean any value of a tag.
LEMMA ChangeTagFlow == FlowInv /\ ChangeTag => FlowInv'
<1> SUFFICES ASSUME FlowInv, ChangeTag PROVE FlowInv'
  OBVIOUS
<1>1. PICK m : m = meant
  OBVIOUS
<1>2. PICK key \in DOMAIN m.tags : \/ meant' = [m EXCEPT !.tags = Restrict(@, DOMAIN @ \ {key})]
                                  \/ \E value \in Values : meant' = [m EXCEPT !.tags[key] = value]
  BY <1>1 DEF ChangeTag
<1>3. WellMeant(m)
  BY <1>1 DEF ChangeTag, FlowInv, Unsent
<1>4. WellMeant(meant')
  <2>1. [m EXCEPT !.tags = Restrict(@, DOMAIN @ \ {key})] = [m EXCEPT !.tags = Restrict(m.tags, DOMAIN m.tags \ {key})]
    OBVIOUS
  <2>2. CASE meant' = [m EXCEPT !.tags = Restrict(@, DOMAIN @ \ {key})]
    BY <1>2, <1>3, <2>1, <2>2, TagChanged
  <2>3. ASSUME NEW value \in Values, meant' = [m EXCEPT !.tags[key] = value] PROVE WellMeant(meant')
    <3>1. value \in Seq(Characters)
      BY FlowConstants
    <3> QED BY <1>2, <1>3, <2>3, <3>1, TagChanged
  <2> QED BY <1>2, <2>2, <2>3
<1>5. UNCHANGED << typed, sender, wire, received, before, checked >> /\ sender = "nobody"
  BY DEF ChangeTag
<1>6. FlowTypes' /\ Underway'
  BY <1>5 DEF FlowInv, FlowTypes, Underway
<1>7. Unsent'
  BY <1>4, <1>5 DEF FlowInv, Unsent
<1>8. Delivery'
  BY <1>5 DEF Delivery, MeansIt
<1>9. Relayed'
  BY <1>5 DEF FlowInv, Unsent, Relayed
<1> QED BY <1>6, <1>7, <1>8, <1>9 DEF FlowInv

\* What a server sends is what it means, written.
LEMMA ServerSendsFlow == FlowInv /\ ServerSends => FlowInv'
<1> SUFFICES ASSUME FlowInv, ServerSends PROVE FlowInv'
  OBVIOUS
<1>1. PICK m : m = meant
  OBVIOUS
<1>2. PICK order \in AnyOrder(DOMAIN m.tags) : wire' = Written("TCP", Format(m, order))
  BY <1>1 DEF ServerSends, SendAs
<1>3. /\ sender = "nobody" /\ sender' = "server" /\ m # Nothing
      /\ UNCHANGED << meant, typed, changed, received, before, checked >>
  BY <1>1 DEF ServerSends, SendAs
<1>4. WellMeant(m) /\ received = << >> /\ before = << >>
  BY <1>1, <1>3 DEF FlowInv, Unsent
<1>5. wire' \in Seq(Characters) /\ wire' # Nothing /\ Read(wire') = << Accepted(m) >>
  BY <1>2, <1>4, MeantHasKeys, LineOf, MessageCarried
<1>6. FlowTypes' /\ Underway' /\ Unsent'
  BY <1>3, <1>4, <1>5 DEF FlowInv, FlowTypes, Underway, Unsent
<1>7. Delivery'
  BY <1>1, <1>3, <1>4, <1>5 DEF Delivery, Carries
<1>8. Relayed'
  BY <1>3, <1>4 DEF Relayed
<1> QED BY <1>6, <1>7, <1>8 DEF FlowInv

\* Typing changes the text only.
LEMMA TypeFlow == FlowInv /\ Type => FlowInv'
<1> SUFFICES ASSUME FlowInv, Type PROVE FlowInv'
  OBVIOUS
<1>1. UNCHANGED << meant, changed, sender, wire, received, before, checked >> /\ sender = "nobody"
  BY DEF Type
<1>2. typed' \in Seq(Fragments) /\ Len(typed') <= MaxPieces
  <2>1. PICK piece \in Fragments : typed' = Append(typed, piece)
    BY DEF Type
  <2>2. typed \in Seq(Fragments) /\ Len(typed) < MaxPieces /\ MaxPieces \in Nat
    BY FlowConstants DEF FlowInv, FlowTypes, Type
  <2> QED BY <2>1, <2>2
<1>3. FlowTypes' /\ Underway' /\ Unsent'
  BY <1>1, <1>2 DEF FlowInv, FlowTypes, Underway, Unsent
<1>4. Delivery'
  BY <1>1 DEF Delivery, MeansIt
<1>5. Relayed'
  BY <1>1 DEF FlowInv, Unsent, Relayed
<1> QED BY <1>3, <1>4, <1>5 DEF FlowInv

\* A line of a peer is any text.
LEMMA SendLineFlow == FlowInv /\ SendLine => FlowInv'
<1> SUFFICES ASSUME FlowInv, SendLine PROVE FlowInv'
  OBVIOUS
<1>1. /\ sender = "nobody" /\ sender' = "peer" /\ wire' = Written("WS", Concat(typed))
      /\ UNCHANGED << meant, typed, changed, received, before, checked >>
  BY DEF SendLine, SendAs
<1>2. received = << >> /\ before = << >> /\ Concat(typed) \in Seq(Characters)
  BY <1>1, TypedText DEF FlowInv, FlowTypes, Unsent
<1>3. wire' \in Seq(Characters) /\ wire' # Nothing
  BY <1>1, <1>2, WrittenType, FlowConstants
<1>4. FlowTypes' /\ Underway' /\ Unsent'
  BY <1>1, <1>2, <1>3 DEF FlowInv, FlowTypes, Underway, Unsent
<1>5. Delivery' /\ Relayed'
  BY <1>1, <1>2 DEF Delivery, MeansIt, Relayed
<1> QED BY <1>4, <1>5 DEF FlowInv

\* What a client sends is what its methods made, written.
LEMMA SendFlow == FlowInv /\ Send => FlowInv'
<1> SUFFICES ASSUME FlowInv, Send PROVE FlowInv'
  OBVIOUS
<1>1. PICK m : m = meant'
  OBVIOUS
<1>2. PICK channel \in Channels : m \in SaidBy(channel, Concat(typed))
  BY <1>1, Zenon DEF Send, SaidBy
<1>3. PICK order \in AnyOrder(DOMAIN m.tags), transport \in {"TCP", "WS"} :
         wire' = Written(transport, Format(m, order))
  BY <1>1 DEF Send, SendAs
<1>4. /\ sender = "nobody" /\ sender' = "client"
      /\ UNCHANGED << typed, changed, received, before, checked >>
  BY DEF Send, SendAs
<1>5. received = << >> /\ before = << >> /\ Concat(typed) \in Seq(Characters) /\ channel \in Seq(Characters)
  BY <1>4, TypedText, FlowConstants DEF FlowInv, FlowTypes, Unsent
<1>6. wire' \in Seq(Characters) /\ wire' # Nothing
  BY <1>2, <1>3, <1>5, SaidOfTexts, LineOf
<1>7. FlowTypes' /\ Underway' /\ Unsent'
  BY <1>4, <1>5, <1>6 DEF FlowInv, FlowTypes, Underway, Unsent
<1>8. Delivery'
  <2> SUFFICES ASSUME MeansIt' PROVE WellMeant(m) /\ Carries(m)'
    BY <1>1 DEF Delivery
  <2>1. IsSound(m, Concat(typed))
    BY <1>1, <1>4 DEF MeansIt, Sound, IsSound
  <2>2. WellMeant(m)
    BY <1>2, <1>5, <2>1, SaidIsMeant
  <2>3. Read(wire') = << Accepted(m) >>
    BY <1>3, <2>2, MeantHasKeys, MessageCarried
  <2> QED BY <1>6, <2>2, <2>3 DEF Carries
<1>9. Relayed'
  BY <1>4, <1>5 DEF Relayed
<1> QED BY <1>7, <1>8, <1>9 DEF FlowInv

\* Whoever reads the line reads what was meant, if the sender meant a message
\* that can be written.
LEMMA ReceiveFlow == FlowInv /\ Receive => FlowInv'
<1> SUFFICES ASSUME FlowInv, Receive PROVE FlowInv'
  OBVIOUS
<1>1. /\ wire # Nothing /\ wire' = Nothing
      /\ UNCHANGED << meant, typed, changed, sender, before, checked >>
  BY DEF Receive
<1>2. received' = HandOut(wire, checked)
  <2>1. received' = UpToEnd([i \in DOMAIN Read(wire) |-> OnIncomingMessage(Read(wire)[i])])
    BY Zenon DEF Receive
  <2>2. [i \in DOMAIN Read(wire) |-> OnIncomingMessage(Read(wire)[i])]
          = [i \in DOMAIN Read(wire) |-> HandedOut(Read(wire)[i], checked)]
    BY HandedOutIs
  <2> QED BY <2>1, <2>2, Zenon DEF HandOut
<1>3. wire \in Seq(Characters) /\ sender # "nobody"
  BY <1>1 DEF FlowInv, FlowTypes, Unsent
<1>4. received' \in Seq(Handing(checked))
  BY <1>2, <1>3, HandOutIs
<1>5. \A m : Carries(m) => Carries(m)'
  <2> SUFFICES ASSUME NEW m, Carries(m) PROVE Carries(m)'
    OBVIOUS
  <2>1. Read(wire) = << Accepted(m) >>
    BY <1>1 DEF Carries
  <2>2. received' = << HandedOut(Accepted(m), checked) >>
    BY <1>2, <1>3, <2>1, HandOutIs
  <2> QED BY <1>1, <2>2 DEF Carries
<1>6. FlowTypes' /\ Underway' /\ Unsent'
  BY <1>1, <1>3, <1>4 DEF FlowInv, FlowTypes, Underway, Unsent
<1>7. Delivery'
  <2>1. MeansIt' => MeansIt
    BY <1>1 DEF MeansIt, Sound
  <2> QED BY <1>1, <1>5, <2>1 DEF FlowInv, Delivery
<1>8. Relayed'
  BY <1>1, <1>3, <1>5 DEF FlowInv, Relayed
<1> QED BY <1>6, <1>7, <1>8 DEF FlowInv

\* What was handed out is a message that reads back, so writing it and reading
\* it gives it again.
LEMMA SendOnFlow == FlowInv /\ SendOn => FlowInv'
<1> SUFFICES ASSUME FlowInv, SendOn PROVE FlowInv'
  OBVIOUS
<1>1. /\ before' = received /\ received' = << >> /\ Len(received) = 1 /\ received[1].is \in {"typed", "generic"}
      /\ UNCHANGED << meant, typed, changed, sender, checked >>
  BY DEF SendOn
<1>2. PICK m : m = received[1].source
  OBVIOUS
<1>3. PICK order \in AnyOrder(DOMAIN m.tags) : wire' = Written("TCP", Format(m, order))
  BY <1>2 DEF SendOn, Written
<1>4. PICK p \in Results : received[1] = HandedOut(p, checked)
  <2>1. received \in Seq(Handing(checked)) /\ 1 \in 1..Len(received)
    BY <1>1 DEF FlowInv, FlowTypes
  <2>2. received[1] \in Handing(checked)
    BY <2>1, ElementOfSeq
  <2> QED BY <2>2 DEF Handing
<1>5. IsMessage(m) /\ p = Accepted(m)
  BY <1>1, <1>2, <1>4, HandedOutKinds
<1>6. received = << HandedOut(Accepted(m), checked) >> /\ received # << >>
  <2>1. received = << received[1] >>
    BY <1>1 DEF FlowInv, FlowTypes
  <2>2. received # << >>
    BY <1>1
  <2> QED BY <1>4, <1>5, <2>1, <2>2
<1>7. wire = Nothing /\ sender # "nobody"
  BY <1>6 DEF FlowInv, Underway, Unsent
<1>8. wire' \in Seq(Characters) /\ wire' # Nothing
  BY <1>3, <1>5, MessageOfTexts, LineOf
<1>9. m.tags # Nameless => Carries(m)'
  <2>1. m.tags # Nameless => Read(wire') = << Accepted(m) >>
    BY <1>3, <1>5, MessageCarried
  <2> QED BY <1>8, <2>1 DEF Carries
<1>10. FlowTypes' /\ Underway' /\ Unsent'
  <2>1. << >> \in Seq(Handing(checked))
    OBVIOUS
  <2> QED BY <1>1, <1>7, <1>8, <2>1 DEF FlowInv, FlowTypes, Underway, Unsent
<1>11. Delivery'
  <2> SUFFICES ASSUME MeansIt' PROVE \E x : x = meant' /\ WellMeant(x) /\ Carries(x)'
    BY DEF Delivery
  <2>1. MeansIt
    BY <1>1 DEF MeansIt, Sound
  <2>2. PICK x : x = meant /\ WellMeant(x) /\ Carries(x)
    BY <2>1 DEF FlowInv, Delivery
  <2>3. received = << HandedOut(Accepted(x), checked) >>
    BY <1>7, <2>2 DEF Carries
  <2>4. received[1] = HandedOut(Accepted(x), checked)
    BY <2>3
  <2>5. received[1].source = x
    BY <2>4, AcceptedIsHandedOut DEF IsFrom
  <2>6. x = m /\ m.tags # Nameless
    BY <1>2, <2>2, <2>5, MeantHasKeys
  <2> QED BY <1>1, <1>9, <2>2, <2>6
<1>12. Relayed'
  <2>1. before' = << HandedOut(Accepted(m), checked') >> /\ before'[1].source = m /\ before' # << >>
    BY <1>1, <1>2, <1>6
  <2> QED BY <1>1, <1>5, <1>7, <1>9, <2>1 DEF Relayed
<1> QED BY <1>10, <1>11, <1>12 DEF FlowInv

\* Nothing happens.
LEMMA FlowStutters == FlowInv /\ UNCHANGED vars => FlowInv'
<1> SUFFICES ASSUME FlowInv, UNCHANGED vars PROVE FlowInv'
  OBVIOUS
<1>1. UNCHANGED << meant, typed, changed, sender, wire, received, before, checked >>
  BY DEF vars
<1>2. \A m : Carries(m) => Carries(m)'
  BY <1>1 DEF Carries
<1>3. FlowTypes' /\ Underway' /\ Unsent'
  BY <1>1 DEF FlowInv, FlowTypes, Underway, Unsent
<1>4. Delivery'
  BY <1>1, <1>2 DEF FlowInv, Delivery, MeansIt, Sound
<1>5. Relayed'
  BY <1>1, <1>2 DEF FlowInv, Relayed
<1> QED BY <1>3, <1>4, <1>5 DEF FlowInv

\* Through all that is sent, read and sent on, the line on its way and the
\* message read last are what was meant.
THEOREM FlowInvariant == Spec => []FlowInv
<1>1. FlowInv /\ [Next]_vars => FlowInv'
  BY ChangeTagFlow, ServerSendsFlow, TypeFlow, SendLineFlow, SendFlow, ReceiveFlow, SendOnFlow, FlowStutters
     DEF Next
<1> QED BY FlowInit, <1>1, PTL DEF Spec

\* Every variable holds what it should.
THEOREM TypeCorrect == Spec => []TypeOK
<1>1. FlowInv => TypeOK
  <2> SUFFICES ASSUME FlowInv PROVE TypeOK
    OBVIOUS
  <2>1. ASSUME NEW r \in Received PROVE r.is \in {"typed", "generic", "closed", "panic"}
    <3>1. r \in Handing(checked)
      <4>1. received \in Seq(Handing(checked))
        BY DEF FlowInv, FlowTypes
      <4> QED BY <4>1 DEF Received, ToSet
    <3> QED BY <3>1, HandedOutKinds DEF Handing, Kinds
  <2> QED BY <2>1 DEF FlowInv, FlowTypes, TypeOK
<1> QED BY FlowInvariant, <1>1, PTL

\* A message a client reads and a program sends on is read as the same message,
\* whatever the line it came from.
THEOREM SentOnUnchangedCorrect == Spec => []SentOnUnchanged
<1>1. FlowInv => SentOnUnchanged
  <2> SUFFICES ASSUME FlowInv, before # << >>, AllRead
               PROVE  received = before \/ before[1].source.tags = Nameless
    BY DEF SentOnUnchanged, Nameless
  <2>1. PICK m : /\ IsMessage(m) /\ before = << HandedOut(Accepted(m), checked) >> /\ before[1].source = m
                 /\ m.tags # Nameless => Carries(m)
    BY DEF FlowInv, Relayed
  <2> QED BY <2>1 DEF AllRead, Carries
<1> QED BY FlowInvariant, <1>1, PTL

(***************************************************************************)
(* What comes of reads                                                     *)
(***************************************************************************)

\* A read is settled if it was accepted or refused. It is harmless if beyond that it does
\* only what it may: panic by itself, or overflow a number.
Settled(r) == r.is \in {"ok", "error"}

Allowed(r, may) == Settled(r) \/ (r.is = "panic" /\ "panic" \in may)

Harmless(r, may) == Allowed(Unchecked(r), may) /\ (r.is = "overflow" => "overflow" \in may)

Okay(r) == Unchecked(r).is = "ok"

\* The values of reads.
ValuesOf(reads) == [i \in 1..Len(reads) |-> Unchecked(reads[i]).value]

\* What reads come to, if k is the last that was made.
Overflowing(reads, k, result) ==
    IF \E i \in 1..k : reads[i].is = "overflow" THEN Overflow(result) ELSE result

\* The parts of results.
LEMMA ReadParts ==
    /\ \A v : Accepted(v).is = "ok" /\ Accepted(v).value = v
    /\ \A e : Refused(e).is = "error"
    /\ \A r : Overflow(r).is = "overflow" /\ Overflow(r).otherwise = r
    /\ Panic.is = "panic"
BY DEF Accepted, Refused, Overflow, Panic

\* A result that is settled is nothing but itself.
LEMMA SettledIs ==
    ASSUME NEW r, Settled(r)
    PROVE  Unchecked(r) = r /\ \A may : Harmless(r, may)
<1>1. r.is # "overflow"
  BY DEF Settled
<1> QED BY <1>1 DEF Unchecked, Harmless, Allowed

\* What is accepted or refused is settled.
LEMMA ResultsSettle == (\A v : Settled(Accepted(v))) /\ (\A e : Settled(Refused(e)))
BY ReadParts DEF Settled

\* Unchecked takes an overflow as what it is otherwise.
LEMMA UncheckedIs ==
    /\ \A r : Unchecked(Overflow(r)) = r
    /\ \A r : r.is # "overflow" => Unchecked(r) = r
BY ReadParts DEF Unchecked

\* Reads made one after the other are all accepted, or come to the first that is not.
LEMMA AllCases ==
    ASSUME NEW S, NEW reads \in Seq(S)
    PROVE  \/ /\ \A i \in 1..Len(reads) : Okay(reads[i])
              /\ All(reads) = Overflowing(reads, Len(reads), Accepted(ValuesOf(reads)))
           \/ \E k \in 1..Len(reads) :
                /\ ~Okay(reads[k]) /\ \A i \in 1..(k - 1) : Okay(reads[i])
                /\ All(reads) = Overflowing(reads, k, Unchecked(reads[k]))
<1> DEFINE n        == Len(reads)
           results  == [i \in DOMAIN reads |-> Unchecked(reads[i])]
           F        == {i \in 1..n : results[i].is # "ok"}
           O        == {i \in 1..n : reads[i].is = "overflow"}
           failed   == IF F # {} THEN Min(F) ELSE 0
           overflow == IF O # {} THEN Min(O) ELSE 0
           result   == IF failed = 0 THEN Accepted([i \in DOMAIN results |-> results[i].value])
                       ELSE results[failed]
<1>1. n \in Nat /\ DOMAIN reads = 1..n /\ DOMAIN results = 1..n /\ Len(results) = n
  <2>1. n \in Nat /\ DOMAIN reads = 1..n
    OBVIOUS
  <2> DEFINE A == {Unchecked(reads[i]) : i \in 1..n}
  <2>2. results \in [1..n -> A]
    BY <2>1
  <2> HIDE DEF results, A, n
  <2>3. results \in Seq(A) /\ Len(results) = n
    BY <2>1, <2>2, FunctionIsSequence
  <2> QED BY <2>1, <2>2, <2>3
<1>2. All(reads) = IF overflow # 0 /\ (failed = 0 \/ overflow <= failed) THEN Overflow(result) ELSE result
  <2> DEFINE G      == {i \in 1..Len(results) : results[i].is # "ok"}
             first  == IF G # {} THEN Min(G) ELSE 0
             what   == IF first = 0 THEN Accepted([i \in DOMAIN results |-> results[i].value]) ELSE results[first]
  <2>1. All(reads) = IF overflow # 0 /\ (first = 0 \/ overflow <= first) THEN Overflow(what) ELSE what
    BY Zenon DEF All, SelectInSeq
  <2>2. first = failed
    BY <1>1
  <2> HIDE DEF first, failed, overflow, results
  <2> QED BY <2>1, <2>2, Zenon
<1>3. \A i \in 1..n : results[i] = Unchecked(reads[i]) /\ (i \in F <=> ~Okay(reads[i]))
  BY <1>1 DEF Okay
<1>4. IF F # {} THEN failed \in F /\ failed \in 1..n /\ \A j \in F : failed <= j ELSE \A i \in 1..n : i \notin F
  <2>1. F \in SUBSET (1..n)
    OBVIOUS
  <2> HIDE DEF F, n
  <2> QED BY <1>1, <2>1, FirstIndex
<1>5. IF O # {} THEN overflow \in O /\ overflow \in 1..n /\ \A j \in O : overflow <= j ELSE \A i \in 1..n : i \notin O
  <2>1. O \in SUBSET (1..n)
    OBVIOUS
  <2> HIDE DEF O, n
  <2> QED BY <1>1, <2>1, FirstIndex
<1>6. \A i \in 1..n : i \in O <=> reads[i].is = "overflow"
  OBVIOUS
<1>7. [i \in DOMAIN results |-> results[i].value] = ValuesOf(reads)
  BY <1>1, <1>3 DEF ValuesOf
<1> HIDE DEF results, F, O
<1>8. CASE F = {}
  <2>1. failed = 0 /\ \A i \in 1..n : Okay(reads[i])
    BY <1>3, <1>4, <1>8
  <2>2. result = Accepted(ValuesOf(reads))
    BY <1>7, <2>1
  <2>3. overflow # 0 <=> \E i \in 1..n : reads[i].is = "overflow"
    BY <1>1, <1>5, <1>6
  <2> HIDE DEF overflow, failed, result
  <2>4. All(reads) = Overflowing(reads, n, Accepted(ValuesOf(reads)))
    BY <1>2, <2>1, <2>2, <2>3, Zenon DEF Overflowing
  <2> QED BY <2>1, <2>4
<1>9. CASE F # {}
  <2>1. failed \in F /\ failed \in 1..n /\ \A j \in F : failed <= j
    BY <1>4, <1>9
  <2>2. failed # 0 /\ result = Unchecked(reads[failed])
    BY <1>1, <1>3, <2>1
  <2> HIDE DEF failed, result
  <2>3. ~Okay(reads[failed]) /\ \A i \in 1..(failed - 1) : Okay(reads[i])
    <3>1. ASSUME NEW i \in 1..(failed - 1) PROVE Okay(reads[i])
      <4>1. i \in 1..n /\ ~(failed <= i)
        BY <1>1, <2>1
      <4> QED BY <1>3, <2>1, <4>1
    <3> QED BY <1>3, <2>1, <3>1
  <2>4. overflow # 0 /\ overflow <= failed <=> \E i \in 1..failed : reads[i].is = "overflow"
    <3>1. ASSUME overflow # 0, overflow <= failed PROVE \E i \in 1..failed : reads[i].is = "overflow"
      <4>1. O # {}
        BY <3>1
      <4>2. overflow \in 1..n /\ overflow \in O
        BY <1>5, <4>1
      <4> HIDE DEF overflow
      <4>3. overflow \in 1..failed
        BY <1>1, <2>1, <3>1, <4>2
      <4> QED BY <1>6, <4>2, <4>3
    <3>2. ASSUME NEW i \in 1..failed, reads[i].is = "overflow" PROVE overflow # 0 /\ overflow <= failed
      <4>1. i \in 1..n
        BY <1>1, <2>1
      <4>2. i \in O
        BY <1>6, <3>2, <4>1
      <4>3. overflow \in 1..n /\ overflow <= i
        BY <1>5, <4>2
      <4> HIDE DEF overflow
      <4> QED BY <1>1, <2>1, <4>1, <4>3
    <3> QED BY <3>1, <3>2
  <2> HIDE DEF overflow
  <2>5. All(reads) = Overflowing(reads, failed, Unchecked(reads[failed]))
    BY <1>2, <2>2, <2>4, Zenon DEF Overflowing
  <2> QED BY <2>1, <2>3, <2>5
<1> QED BY <1>8, <1>9

\* If each of them is harmless, they are together.
LEMMA AllHarmless ==
    ASSUME NEW S, NEW reads \in Seq(S), NEW may, \A i \in 1..Len(reads) : Harmless(reads[i], may)
    PROVE  Harmless(All(reads), may)
<1>1. \A k \in 1..Len(reads) : "overflow" \notin may => ~\E i \in 1..k : reads[i].is = "overflow"
  BY DEF Harmless
<1>2. ASSUME NEW k \in 0..Len(reads), NEW result, Allowed(result, may)
      PROVE  Harmless(Overflowing(reads, k, result), may)
  <2>1. "overflow" \notin may => Overflowing(reads, k, result) = result
    BY DEF Overflowing, Harmless
  <2>2. Overflowing(reads, k, result) = result \/ Overflowing(reads, k, result) = Overflow(result)
    BY DEF Overflowing
  <2>3. result.is # "overflow"
    BY <1>2 DEF Settled, Allowed
  <2>4. Unchecked(result) = result /\ Unchecked(Overflow(result)) = result
    BY <2>3, UncheckedIs
  <2>5. Allowed(Unchecked(Overflowing(reads, k, result)), may)
    BY <1>2, <2>2, <2>4
  <2> QED BY <2>1, <2>3, <2>5 DEF Harmless
<1>3. Allowed(Accepted(ValuesOf(reads)), may)
  BY ResultsSettle DEF Allowed
<1>4. \A k \in 1..Len(reads) : Allowed(Unchecked(reads[k]), may)
  BY DEF Harmless
<1>5. Len(reads) \in 0..Len(reads) /\ \A k \in 1..Len(reads) : k \in 0..Len(reads)
  OBVIOUS
<1> QED BY <1>2, <1>3, <1>4, <1>5, AllCases

\* If they are accepted together, each of them is, and their values are what is read.
LEMMA AllOkay ==
    ASSUME NEW S, NEW reads \in Seq(S), \A i \in 1..Len(reads) : Unchecked(reads[i]).is # "overflow",
           Okay(All(reads))
    PROVE  /\ \A i \in 1..Len(reads) : Okay(reads[i])
           /\ Unchecked(All(reads)) = Accepted(ValuesOf(reads))
<1>1. ASSUME NEW k, NEW result, result.is # "overflow"
      PROVE  Unchecked(Overflowing(reads, k, result)) = result
  BY <1>1, UncheckedIs DEF Overflowing
<1>2. ASSUME NEW k \in 1..Len(reads), ~Okay(reads[k]), All(reads) = Overflowing(reads, k, Unchecked(reads[k]))
      PROVE  FALSE
  <2>1. Unchecked(All(reads)) = Unchecked(reads[k])
    BY <1>1, <1>2
  <2> QED BY <1>2, <2>1 DEF Okay
<1>3. Unchecked(Overflowing(reads, Len(reads), Accepted(ValuesOf(reads)))) = Accepted(ValuesOf(reads))
  BY <1>1, ReadParts
<1> QED BY <1>2, <1>3, AllCases

(***************************************************************************)
(* The reads of one field: what each comes to                              *)
(***************************************************************************)

\* Reads of parameters and of the prefix are settled.
LEMMA ParamsSettle ==
    ASSUME NEW m
    PROVE  /\ \A n : Settled(Param(m, n))
           /\ Settled(MessageText(m)) /\ Settled(ChannelLogin(m)) /\ Settled(OptionalChannelLogin(m))
           /\ Settled(PrefixNickname(m))
<1>1. \A n : Settled(Param(m, n))
  BY ResultsSettle DEF Param
<1>2. Settled(MessageText(m))
  <2>1. \/ MessageText(m) = Param(m, 2)
        \/ \E v : MessageText(m) = Accepted(v)
    BY Zenon DEF MessageText
  <2> QED BY <1>1, <2>1, ResultsSettle
<1>3. Settled(ChannelLogin(m))
  <2>1. \/ ChannelLogin(m) = Param(m, 1)
        \/ ChannelLogin(m) = Refused("MalformedChannel")
        \/ ChannelLogin(m) = Accepted(Tail(m.params[1]))
    BY Zenon DEF ChannelLogin
  <2> QED BY <1>1, <2>1, ResultsSettle
<1>4. Settled(OptionalChannelLogin(m))
  <2>1. \/ \E v : OptionalChannelLogin(m) = Accepted(v)
        \/ OptionalChannelLogin(m) = ChannelLogin(m)
    BY Zenon DEF OptionalChannelLogin
  <2> QED BY <1>3, <2>1, ResultsSettle
<1>5. Settled(PrefixNickname(m))
  BY ResultsSettle, Zenon DEF PrefixNickname
<1> QED BY <1>1, <1>2, <1>3, <1>4, <1>5

\* So are reads of a tag as it is,
LEMMA TagsSettle ==
    ASSUME NEW m, NEW key
    PROVE  /\ Settled(TagValue(m, key)) /\ Settled(Nonempty(m, key)) /\ Settled(OptionalNonempty(m, key))
           /\ Settled(EmoteSets(m, key))
<1>1. Settled(TagValue(m, key))
  BY ResultsSettle DEF TagValue
<1>2. Settled(Nonempty(m, key))
  BY <1>1, ResultsSettle DEF Nonempty
<1>3. Settled(OptionalNonempty(m, key))
  BY <1>2, ResultsSettle DEF OptionalNonempty
<1>4. Settled(EmoteSets(m, key))
  BY <1>1, ResultsSettle DEF EmoteSets
<1> QED BY <1>1, <1>2, <1>3, <1>4

\* as a number, a truth value or a time.
LEMMA NumbersSettle ==
    ASSUME NEW m, NEW key
    PROVE  /\ \A v, low, high : Settled(FromStr(v, low, high))
           /\ \A v : Settled(U64(v)) /\ Settled(I64(v)) /\ Settled(Truth(v))
           /\ Settled(Number(m, key)) /\ Settled(Bool(m, key)) /\ Settled(Timestamp(m, key))
<1>1. ASSUME NEW v, NEW low, NEW high PROVE Settled(FromStr(v, low, high))
  <2>1. \/ FromStr(v, low, high) = Refused("MalformedTagValue")
        \/ \E number : FromStr(v, low, high) = Accepted(number)
    BY Zenon DEF FromStr
  <2> QED BY <2>1, ResultsSettle
<1>2. ASSUME NEW v PROVE Settled(U64(v)) /\ Settled(I64(v))
  BY <1>1 DEF U64, I64
<1>3. ASSUME NEW v PROVE Settled(Truth(v))
  <2>1. Truth(v) = FromStr(v, 0, MaxU8) \/ \E b : Truth(v) = Accepted(b)
    BY Zenon DEF Truth
  <2> QED BY <1>1, <2>1, ResultsSettle
<1>4. Settled(Number(m, key)) /\ Settled(Bool(m, key))
  BY <1>2, <1>3, TagsSettle DEF Number, Bool
<1>5. Settled(Timestamp(m, key))
  <2>1. \/ Timestamp(m, key) = Nonempty(m, key)
        \/ Timestamp(m, key) = Refused("MalformedTagValue")
        \/ Timestamp(m, key) = I64(m.tags[<< key >>])
    BY Zenon DEF Timestamp
  <2> QED BY <1>2, <2>1, TagsSettle, ResultsSettle
<1> QED BY <1>1, <1>2, <1>3, <1>4, <1>5

\* Reads each of which is harmless.
HarmlessReads(reads, may) == \E S : reads \in Seq(S) /\ \A r \in S : Harmless(r, may)

\* They are, by what they are taken from.
LEMMA HarmlessFrom ==
    ASSUME NEW S, NEW reads \in Seq(S), NEW may, \A r \in S : Harmless(r, may)
    PROVE  HarmlessReads(reads, may)
BY DEF HarmlessReads

\* Then they are together, and reads that follow others of this kind are of it again.
LEMMA Together ==
    ASSUME NEW may
    PROVE  /\ \A reads : HarmlessReads(reads, may) => Harmless(All(reads), may)
           /\ \A s, t : HarmlessReads(s, may) /\ HarmlessReads(t, may) => HarmlessReads(s \o t, may)
           /\ HarmlessReads(<< >>, may)
<1>1. ASSUME NEW S, NEW reads \in Seq(S), \A r \in S : Harmless(r, may)
      PROVE  Harmless(All(reads), may)
  <2>1. \A i \in 1..Len(reads) : reads[i] \in S
    OBVIOUS
  <2> QED BY <1>1, <2>1, AllHarmless
<1>2. ASSUME NEW S, NEW T, NEW s \in Seq(S), NEW t \in Seq(T),
             \A r \in S : Harmless(r, may), \A r \in T : Harmless(r, may)
      PROVE  HarmlessReads(s \o t, may)
  <2> DEFINE U == S \cup T
  <2>1. s \in Seq(U) /\ t \in Seq(U) /\ \A r \in U : Harmless(r, may)
    BY <1>2
  <2> HIDE DEF U
  <2>2. s \o t \in Seq(U)
    BY <2>1
  <2> QED BY <2>1, <2>2 DEF HarmlessReads
<1>3. HarmlessReads(<< >>, may)
  <2> DEFINE S == {}
  <2>1. << >> \in Seq(S) /\ \A r \in S : Harmless(r, may)
    OBVIOUS
  <2> HIDE DEF S
  <2> QED BY <2>1, HarmlessFrom
<1> QED BY <1>1, <1>2, <1>3 DEF HarmlessReads

\* An optional tag is read as itself.
LEMMA OptionalIs ==
    ASSUME NEW m, NEW key, NEW read, NEW may, Harmless(read, may)
    PROVE  Harmless(Optional(m, key, read), may)
<1>1. Harmless(All(<< read >>), may)
  <2> DEFINE S == {read}
  <2>1. << read >> \in Seq(S) /\ \A r \in S : Harmless(r, may)
    OBVIOUS
  <2> HIDE DEF S
  <2>2. HarmlessReads(<< read >>, may)
    BY <2>1, HarmlessFrom
  <2> QED BY <2>2, Together
<1>2. Harmless(OptionalNonempty(m, key), may)
  BY TagsSettle, SettledIs
<1> QED BY <1>1, <1>2 DEF Optional

\* Numbers and truth values among them are harmless.
LEMMA OptionalsHarmless ==
    ASSUME NEW m, NEW key, NEW may
    PROVE  Harmless(OptionalNumber(m, key), may) /\ Harmless(OptionalBool(m, key), may)
BY NumbersSettle, SettledIs, OptionalIs DEF OptionalNumber, OptionalBool

\* What a tag is cut into are texts.
LEMMA PartsType ==
    ASSUME NEW m, OfTexts(m), NEW key, HasTag(m, key), NEW c
    PROVE  Parts(m, key, c) \in Seq(AnyText)
<1>1. m.tags[<< key >>] \in Seq(Characters)
  BY DEF OfTexts, HasTag, AnyText
<1>2. Split(m.tags[<< key >>], c) \in Seq(Seq(Characters))
  BY <1>1, SplitType DEF Texts
<1> QED BY <1>2 DEF Parts, AnyText

\* Badges are harmless: each is cut in two or refused.
LEMMA BadgesHarmless ==
    ASSUME NEW m, OfTexts(m), NEW key, NEW may
    PROVE  Harmless(Badges(m, key), may)
<1>1. CASE HasTag(m, key)
  <2> DEFINE parts == Parts(m, key, ",")
             reads == [i \in DOMAIN parts |-> Badge(parts[i])]
             S     == {Badge(p) : p \in AnyText}
  <2>1. parts \in Seq(AnyText)
    BY <1>1, PartsType
  <2>2. reads \in Seq(S)
    <3> HIDE DEF parts
    <3> QED BY <2>1
  <2>3. \A r \in S : Harmless(r, may)
    <3>1. \A p : Settled(Badge(p))
      BY ResultsSettle DEF Badge
    <3> QED BY <3>1, SettledIs
  <2>4. Badges(m, key) = All(reads)
    BY <1>1, Zenon DEF Badges
  <2> HIDE DEF reads, S
  <2> QED BY <2>2, <2>3, <2>4, Together, Zenon DEF HarmlessReads
<1>2. CASE ~HasTag(m, key)
  <2>1. Badges(m, key) = TagValue(m, key)
    BY <1>2, Zenon DEF Badges
  <2> QED BY <2>1, TagsSettle, SettledIs
<1> QED BY <1>1, <1>2

\* So is the message replied to.
LEMMA ReplyHarmless ==
    ASSUME NEW m, NEW may
    PROVE  Harmless(OptionalReplyParent(m), may)
<1> DEFINE a == TagValue(m, "reply-parent-msg-id")
           b == Nonempty(m, "reply-parent-user-id")
           c == Nonempty(m, "reply-parent-user-login")
           d == Nonempty(m, "reply-parent-display-name")
           e == TagValue(m, "reply-parent-msg-body")
           S == {a, b, c, d, e}
<1>1. \A r \in S : Harmless(r, may)
  BY TagsSettle, SettledIs
<1>2. OptionalReplyParent(m) = Accepted(<< >>) \/ OptionalReplyParent(m) = All(<< a, b, c, d, e >>)
  BY Zenon DEF OptionalReplyParent
<1> HIDE DEF a, b, c, d, e
<1>3. << a, b, c, d, e >> \in Seq(S)
  OBVIOUS
<1> HIDE DEF S
<1>4. Harmless(All(<< a, b, c, d, e >>), may)
  BY <1>1, <1>3, Together, Zenon DEF HarmlessReads
<1>5. Harmless(Accepted(<< >>), may)
  BY ResultsSettle, SettledIs
<1> QED BY <1>2, <1>4, <1>5

(***************************************************************************)
(* Numbers, colours and emotes                                             *)
(***************************************************************************)

\* One more digit of a number, and the number some digits are.
NumberStep(n, c) == 10 * n + DigitValue[c]

NumberOf(digits) == FoldLeft(NumberStep, 0, digits)

\* r[i] is the number that the first i digits are.
NumbersOf(digits, r) ==
    /\ r \in [0..Len(digits) -> Nat]
    /\ r[0] = 0
    /\ \A i \in 1..Len(digits) : r[i] = NumberStep(r[i - 1], digits[i])

\* A digit more makes a number of a number.
LEMMA NumberStepType ==
    ASSUME NEW n \in Nat, NEW c \in Digits
    PROVE  NumberStep(n, c) \in Nat
<1>1. DigitValue[c] \in 0..9
  BY FieldsAssumption
<1> QED BY <1>1 DEF NumberStep

\* The number is the last of a trace with one step for each digit, from the left.
LEMMA NumberTrace ==
    ASSUME NEW digits \in Seq(Digits)
    PROVE  \E r : NumbersOf(digits, r) /\ NumberOf(digits) = r[Len(digits)]
<1> DEFINE n == Len(digits)
           G == [p \in (1..n) \X Nat |-> NumberStep(p[2], digits[p[1]])]
           ch == [t \in SUBSET (1..n) |-> Max(t)]
           it == CHOOSE f : f = [t \in SUBSET (DOMAIN digits) |->
                                   IF t = {} THEN 0 ELSE NumberStep(f[t \ {Max(t)}], digits[Max(t)])]
<1>1. NumberOf(digits) = it[DOMAIN digits]
  BY DEF NumberOf, FoldLeft, MapThenFoldSet
<1>2. n \in Nat /\ DOMAIN digits = 1..n /\ \A i \in 1..n : digits[i] \in Digits
  OBVIOUS
<1>3. 0 \in Nat
  OBVIOUS
<1>4. ASSUME NEW i \in 1..n, NEW v \in Nat
      PROVE  G[<<i, v>>] = NumberStep(v, digits[i]) /\ G[<<i, v>>] \in Nat
  <2>1. G[<<i, v>>] = NumberStep(v, digits[i])
    OBVIOUS
  <2>2. digits[i] \in Digits
    BY <1>2
  <2>3. NumberStep(v, digits[i]) \in Nat
    BY <2>2, NumberStepType
  <2> QED BY <2>1, <2>3
<1>5. \A t \in SUBSET (1..n) : t # {} => ch[t] = Max(t) /\ ch[t] \in t
  BY <1>2, MaxIsGreatest
<1> HIDE DEF n, G, ch
<1>6. PICK f : Folds(1..n, Nat, 0, G, ch, f)
  <2> DEFINE K == 1..n
  <2>1. ResultsIn(K, Nat, G)
    BY <1>4 DEF ResultsIn
  <2>2. TakesFrom(K, ch)
    BY <1>5 DEF TakesFrom
  <2>3. IsFiniteSet(K)
    <3>1. 1 \in Int /\ n \in Int
      BY <1>2
    <3> QED BY <3>1, FS_Interval
  <2> HIDE DEF K
  <2> QED BY <1>3, <2>1, <2>2, <2>3, FoldExists DEF K
<1>7. f = [t \in SUBSET (DOMAIN digits) |->
             IF t = {} THEN 0 ELSE NumberStep(f[t \ {Max(t)}], digits[Max(t)])]
  <2>1. ASSUME NEW t \in SUBSET (1..n), t # {}
        PROVE  G[<<ch[t], f[t \ {ch[t]}]>>] = NumberStep(f[t \ {Max(t)}], digits[Max(t)])
    <3>1. ch[t] = Max(t) /\ Max(t) \in 1..n
      BY <1>5, <2>1
    <3>2. f[t \ {Max(t)}] \in Nat
      BY <1>6 DEF Folds
    <3> QED BY <1>4, <3>1, <3>2
  <2> QED BY <1>2, <1>6, <2>1 DEF Folds
<1>8. it = [t \in SUBSET (DOMAIN digits) |->
              IF t = {} THEN 0 ELSE NumberStep(it[t \ {Max(t)}], digits[Max(t)])]
  BY <1>7, Zenon
<1> HIDE DEF it
<1> DEFINE r == [i \in 0..n |-> it[1..i]]
<1>9. r[0] = 0 /\ \A i \in 1..n : r[i] = NumberStep(r[i - 1], digits[i])
  <2>1. 1..0 = {} /\ {} \in SUBSET (DOMAIN digits) /\ r[0] = it[1..0]
    BY <1>2
  <2>2. r[0] = 0
    BY <1>8, <2>1
  <2>3. ASSUME NEW i \in 1..n PROVE r[i] = NumberStep(r[i - 1], digits[i])
    <3>1. r[i] = it[1..i] /\ r[i - 1] = it[1..(i - 1)] /\ 1..i \in SUBSET (DOMAIN digits)
      BY <1>2
    <3>2. Max(1..i) = i /\ (1..i) \ {i} = 1..(i - 1) /\ 1..i # {}
      BY <1>2, MaxOfRange
    <3>3. it[1..i] = IF 1..i = {} THEN 0 ELSE NumberStep(it[(1..i) \ {Max(1..i)}], digits[Max(1..i)])
      BY <1>8, <3>1
    <3> QED BY <3>1, <3>2, <3>3
  <2> QED BY <2>2, <2>3
<1>10. r[n] = it[DOMAIN digits]
  BY <1>2
<1> DEFINE T == {i \in Nat : i <= n => r[i] \in Nat}
<1>11. 0 \in T /\ \A i \in Nat : i \in T => i + 1 \in T
  <2>1. ASSUME NEW i \in Nat, i \in T, i + 1 <= n PROVE r[i + 1] \in Nat
    <3>1. i + 1 \in 1..n /\ i + 1 - 1 = i /\ i <= n
      <4> HIDE DEF r, n
      <4> QED BY <1>2, <2>1
    <3>2. r[i] \in Nat
      <4> HIDE DEF r
      <4> QED BY <2>1, <3>1
    <3>3. r[i + 1] = NumberStep(r[i], digits[i + 1]) /\ digits[i + 1] \in Digits
      <4> HIDE DEF r, T
      <4>1. r[i + 1] = NumberStep(r[i + 1 - 1], digits[i + 1])
        BY <1>9, <3>1
      <4>2. digits[i + 1] \in Digits
        BY <1>2, <3>1
      <4> QED BY <3>1, <4>1, <4>2
    <3> HIDE DEF r
    <3> QED BY <3>2, <3>3, NumberStepType
  <2>2. 0 \in Nat
    BY <1>3
  <2> HIDE DEF r
  <2> QED BY <1>9, <2>1, <2>2
<1>12. r = [i \in 0..n |-> r[i]]
  OBVIOUS
<1> HIDE DEF r
<1>13. \A i \in Nat : i \in T
  <2> HIDE DEF T
  <2> QED BY <1>11, Induction
<1>14. r \in [0..n -> Nat]
  BY <1>2, <1>12, <1>13
<1> QED BY <1>1, <1>9, <1>10, <1>14 DEF NumbersOf, n


\* Digits are a number.
LEMMA NumberType ==
    ASSUME NEW digits \in Seq(Digits)
    PROVE  NumberOf(digits) \in Nat
<1>1. PICK r : NumbersOf(digits, r) /\ NumberOf(digits) = r[Len(digits)]
  BY NumberTrace
<1>2. Len(digits) \in 0..Len(digits)
  OBVIOUS
<1> QED BY <1>1, <1>2 DEF NumbersOf

\* What is read as a number is an integer within the bounds.
LEMMA NumberWithin ==
    ASSUME NEW v \in AnyText, NEW low \in Int, NEW high \in Int, FromStr(v, low, high).is = "ok"
    PROVE  FromStr(v, low, high).value \in low..high
<1> DEFINE signs  == IF low < 0 THEN {"+", "-"} ELSE {"+"}
           digits == IF v # << >> /\ Head(v) \in signs THEN Tail(v) ELSE v
           size   == NumberOf(digits)
           number == IF StartsWith(v, "-") THEN -size ELSE size
<1>1. FromStr(v, low, high) =
         IF digits = << >> \/ ~(ToSet(digits) \subseteq Digits) THEN Refused("MalformedTagValue")
         ELSE IF number < low \/ number > high THEN Refused("MalformedTagValue")
         ELSE Accepted(number)
  BY DEF FromStr, NumberOf, NumberStep
<1>2. digits \in Seq(Characters)
  <2>1. v \in Seq(Characters)
    BY DEF AnyText
  <2>2. v # << >> => Tail(v) \in Seq(Characters)
    BY <2>1
  <2> QED BY <2>1, <2>2
<1> HIDE DEF digits
<1>3. ToSet(digits) \subseteq Digits /\ ~(number < low) /\ ~(number > high)
      /\ FromStr(v, low, high) = Accepted(number)
  <2> HIDE DEF number
  <2> QED BY <1>1, ReadParts, Zenon
<1>4. \A i \in 1..Len(digits) : digits[i] \in Digits
  BY <1>2, <1>3, CharactersOf
<1>5. size \in Nat
  <2>1. digits \in Seq(Digits)
    BY <1>2, <1>4, Retyped
  <2> QED BY <2>1, NumberType
<1> HIDE DEF size
<1>6. number \in low..high
  BY <1>3, <1>5
<1> QED BY <1>3, <1>6, ReadParts

\* Every element of a text is one of the texts put together.
LEMMA ElementsJoined ==
    ASSUME NEW A, NEW texts \in Seq(Seq(A)), NEW i \in 1..Len(texts), NEW x \in ToSet(texts[i])
    PROVE  x \in ToSet(Concat(texts))
<1> DEFINE Has(ts) == \E j \in 1..Len(ts) : x \in ToSet(ts[j])
           S == {ts \in Seq(Seq(A)) : Has(ts) => x \in ToSet(Concat(ts))}
<1>1. << >> \in S
  OBVIOUS
<1>2. ASSUME NEW t \in Seq(A), NEW ts \in Seq(Seq(A)), ts \in S PROVE << t >> \o ts \in S
  <2> DEFINE xs == << t >> \o ts
  <2>1. /\ xs \in Seq(Seq(A)) /\ Len(xs) = Len(ts) + 1 /\ Len(ts) \in Nat
        /\ xs[1] = t /\ \A j \in 1..Len(ts) : xs[j + 1] = ts[j]
    OBVIOUS
  <2>2. Concat(xs) = t \o Concat(ts) /\ Concat(ts) \in Seq(A)
    BY ConcatCons, ConcatType
  <2> HIDE DEF xs
  <2>3. ToSet(Concat(xs)) = ToSet(t) \cup ToSet(Concat(ts))
    BY <2>2, JoinedCharacters
  <2>4. Has(ts) => x \in ToSet(Concat(ts))
    BY <1>2
  <2>5. ASSUME NEW j \in 1..Len(xs), x \in ToSet(xs[j]) PROVE x \in ToSet(t) \/ Has(ts)
    <3>1. CASE j = 1
      BY <2>1, <2>5, <3>1
    <3>2. CASE j # 1
      <4>1. j - 1 \in 1..Len(ts) /\ j - 1 + 1 = j
        BY <2>1, <3>2
      <4>2. xs[j] = ts[j - 1]
        BY <2>1, <4>1
      <4> QED BY <2>5, <4>1, <4>2
    <3> QED BY <3>1, <3>2
  <2>6. xs \in S
    BY <2>1, <2>3, <2>4, <2>5
  <2> QED BY <2>6 DEF xs
<1>3. Seq(Seq(A)) \subseteq S
  <2> HIDE DEF S
  <2> QED BY <1>1, <1>2, SequenceInduction
<1>4. texts \in S
  BY <1>3
<1> QED BY <1>4

\* Without characters of several bytes each byte is the first of its character.
LEMMA SingleBytes ==
    ASSUME NEW text \in AnyText, ToSet(text) \cap Wide = {}
    PROVE  Bytes(text) \in Seq(Characters \X {1})
<1> DEFINE f == [i \in DOMAIN text |-> IF text[i] \in Wide THEN << << text[i], 1 >>, << text[i], 2 >> >>
                                       ELSE << << text[i], 1 >> >>]
           P == Characters \X {1}
<1>1. Len(text) \in Nat /\ DOMAIN text = 1..Len(text) /\ \A i \in 1..Len(text) : text[i] \in Characters
  BY DEF AnyText
<1>2. ASSUME NEW i \in 1..Len(text) PROVE f[i] \in Seq(P)
  <2>1. text[i] \notin Wide
    <3>1. text[i] \in ToSet(text)
      BY <1>1 DEF ToSet
    <3> QED BY <3>1
  <2>2. f[i] = << << text[i], 1 >> >>
    BY <1>1, <2>1
  <2>3. << text[i], 1 >> \in P
    BY <1>1
  <2> HIDE DEF f, P
  <2> QED BY <2>2, <2>3
<1>3. f \in Seq(Seq(P))
  <2>1. f \in [1..Len(text) -> Seq(P)]
    <3>1. f = [i \in 1..Len(text) |-> f[i]]
      BY <1>1
    <3> HIDE DEF f, P
    <3> QED BY <1>2, <3>1
  <2> HIDE DEF f, P
  <2> QED BY <1>1, <2>1, FunctionIsSequence
<1>4. Bytes(text) = Concat(f)
  BY Zenon DEF Bytes
<1> HIDE DEF f
<1> QED BY <1>3, <1>4, ConcatType

\* A tag of texts has a text.
LEMMA TagIsText ==
    ASSUME NEW m, OfTexts(m), NEW key, HasTag(m, key)
    PROVE  m.tags[<< key >>] \in AnyText /\ m.tags[<< key >>] \in Seq(Characters)
BY DEF OfTexts, HasTag, AnyText

\* A colour panics only with such characters.
LEMMA ColorSettles ==
    ASSUME NEW m, OfTexts(m), NEW key, NEW may,
           ~("panic" \notin may /\ HasTag(m, key) /\ ToSet(m.tags[<< key >>]) \cap Wide # {})
    PROVE  Harmless(Color(m, key), may)
<1> DEFINE value == m.tags[<< key >>]
           bytes == Bytes(value)
           pairs == [i \in 1..3 |-> HexPair(bytes, 2 * i)]
<1>1. \/ Color(m, key) = TagValue(m, key)
      \/ Color(m, key) = Accepted(<< >>)
      \/ Color(m, key) = Refused("MalformedTagValue")
      \/ TagValue(m, key).is # "error" /\ Len(bytes) = 7 /\ Color(m, key) = All(pairs)
  BY Zenon DEF Color
<1>2. ASSUME TagValue(m, key).is # "error", Len(bytes) = 7, Color(m, key) = All(pairs)
      PROVE  Harmless(Color(m, key), may)
  <2>1. HasTag(m, key)
    BY <1>2, ReadParts DEF TagValue
  <2>2. ASSUME NEW i \in 1..3 PROVE Allowed(HexPair(bytes, 2 * i), may)
    <3>1. \/ HexPair(bytes, 2 * i) = Panic
          \/ HexPair(bytes, 2 * i) = Accepted(<< bytes[2 * i][1], bytes[2 * i + 1][1] >>)
          \/ HexPair(bytes, 2 * i) = Refused("MalformedTagValue")
      BY Zenon DEF HexPair
    <3>2. CASE "panic" \in may
      BY <3>1, <3>2, ResultsSettle, ReadParts DEF Allowed
    <3>3. CASE "panic" \notin may
      <4>1. bytes \in Seq(Characters \X {1})
        BY <2>1, <3>3, TagIsText, SingleBytes
      <4>2. /\ 2 * i \in 1..Len(bytes)
            /\ 2 * i + 2 <= Len(bytes) => 2 * i + 2 \in 1..Len(bytes)
        BY <1>2
      <4> HIDE DEF bytes
      <4>3. \A j \in 1..Len(bytes) : bytes[j][2] # 2
        BY <4>1
      <4>4. ~(bytes[2 * i][2] = 2 \/ (2 * i + 2 <= Len(bytes) /\ bytes[2 * i + 2][2] = 2))
        BY <4>2, <4>3
      <4>5. \/ HexPair(bytes, 2 * i) = Accepted(<< bytes[2 * i][1], bytes[2 * i + 1][1] >>)
            \/ HexPair(bytes, 2 * i) = Refused("MalformedTagValue")
        BY <4>4, Zenon DEF HexPair
      <4> QED BY <4>5, ResultsSettle DEF Allowed
    <3> QED BY <3>2, <3>3
  <2>3. ASSUME NEW i \in 1..3 PROVE Harmless(HexPair(bytes, 2 * i), may)
    <3>1. HexPair(bytes, 2 * i).is # "overflow"
      BY <2>2 DEF Allowed, Settled
    <3> QED BY <2>2, <3>1, UncheckedIs DEF Harmless
  <2> DEFINE S == {HexPair(bytes, 2 * i) : i \in 1..3}
  <2>4. \A r \in S : Harmless(r, may)
    BY <2>3
  <2>5. pairs \in Seq(S)
    <3>1. pairs \in [1..3 -> S]
      OBVIOUS
    <3> HIDE DEF pairs, S
    <3> QED BY <3>1, FunctionIsSequence
  <2> HIDE DEF S, pairs
  <2>6. HarmlessReads(pairs, may)
    BY <2>4, <2>5, HarmlessFrom
  <2> QED BY <1>2, <2>6, Together
<1> QED BY <1>1, <1>2, TagsSettle, ResultsSettle, SettledIs

\* A time of followers-only mode that is not too great in seconds is read or refused.
LEMMA FollowersHarmless ==
    ASSUME NEW v \in AnyText, NEW may, ~("overflow" \notin may /\ I64(v).value > MaxI64 \div 60)
    PROVE  Harmless(FollowersOnlyMode(v), may)
<1> DEFINE n == I64(v)
<1>1. CASE n.is = "error"
  <2>1. FollowersOnlyMode(v) = n
    BY <1>1, Zenon DEF FollowersOnlyMode
  <2> QED BY <2>1, NumbersSettle, SettledIs
<1>2. CASE n.is # "error" /\ "overflow" \notin may
  <2>1. n.is = "ok"
    BY <1>2, NumbersSettle DEF Settled
  <2>2. MaxI64 \in Nat
    BY FieldsAssumption
  <2>3. -MaxI64 - 1 \in Int /\ MaxI64 \in Int
    BY <2>2
  <2>4. n.value \in Int
    BY <2>1, <2>3, NumberWithin DEF I64
  <2>5. ~(n.value > MaxI64 \div 60)
    BY <1>2
  <2> DEFINE k == n.value
  <2>6. ~(k * 60 > MaxI64)
    <3> HIDE DEF k
    <3>1. k \in Int /\ ~(k > MaxI64 \div 60)
      BY <2>4, <2>5 DEF k
    <3>2. ASSUME k * 60 > MaxI64 PROVE FALSE
      <4>1. 60 * (MaxI64 \div 60) <= MaxI64 /\ MaxI64 \div 60 \in Int
        BY <2>2
      <4>2. k <= MaxI64 \div 60
        BY <3>1, <4>1
      <4> QED BY <2>2, <3>1, <3>2, <4>1, <4>2
    <3> QED BY <3>2
  <2>7. FollowersOnlyMode(v) = Accepted("Disabled") \/ FollowersOnlyMode(v) = Accepted(n.value * 60)
    BY <1>2, <2>6, Zenon DEF FollowersOnlyMode
  <2> QED BY <2>7, ResultsSettle, SettledIs
<1>3. CASE n.is # "error" /\ "overflow" \in may
  <2>1. \/ \E w : FollowersOnlyMode(v) = Accepted(w)
        \/ \E w : FollowersOnlyMode(v) = Overflow(Accepted(w))
    BY <1>3, Zenon DEF FollowersOnlyMode
  <2>2. \A w : Settled(Unchecked(Overflow(Accepted(w))))
    BY UncheckedIs, ResultsSettle
  <2> QED BY <1>3, <2>1, <2>2, ResultsSettle, SettledIs DEF Harmless, Allowed
<1> QED BY <1>1, <1>2, <1>3

(***************************************************************************)
(* Emotes                                                                  *)
(***************************************************************************)

\* A range that a build that checks arithmetic does not take: it ends before it starts,
\* or at the greatest number.
BadRange(r) == r.from > r.to + 1 \/ r.to = MaxU64

\* The numbers are at least 0, and the greatest of them is.
LEMMA NumbersAre ==
    /\ MaxU64 \in Nat /\ MaxI64 \in Nat /\ MaxU8 \in Nat /\ MaxMillis \in 0..MaxI64
    /\ \A v \in AnyText : U64(v).is = "ok" => U64(v).value \in 0..MaxU64
<1>1. MaxU64 \in Nat /\ MaxI64 \in Nat /\ MaxU8 \in Nat /\ MaxMillis \in 0..MaxI64
  BY FieldsAssumption DEF MaxU64
<1>2. ASSUME NEW v \in AnyText, U64(v).is = "ok" PROVE U64(v).value \in 0..MaxU64
  <2>1. 0 \in Int /\ MaxU64 \in Int
    BY <1>1
  <2> QED BY <1>2, <2>1, NumberWithin DEF U64
<1> QED BY <1>1, <1>2

\* Two reads that are settled come to the first that is refused, or to their values.
LEMMA BothRead ==
    ASSUME NEW a, NEW b, Settled(a), Settled(b)
    PROVE  \/ All(<< a, b >>).is = "error"
           \/ /\ a.is = "ok" /\ b.is = "ok"
              /\ All(<< a, b >>) = Accepted(<< a.value, b.value >>)
<1> DEFINE S     == {a, b}
           reads == << a, b >>
<1>1. reads \in Seq(S) /\ Len(reads) = 2 /\ reads[1] = a /\ reads[2] = b
  OBVIOUS
<1>2. \A r \in S : Settled(r) /\ Unchecked(r) = r
  BY SettledIs
<1> HIDE DEF S, reads
<1>3. \A i \in 1..Len(reads) :
         Settled(reads[i]) /\ Unchecked(reads[i]) = reads[i] /\ Unchecked(reads[i]).is # "overflow"
  BY <1>1, <1>2 DEF Settled
<1>4. Harmless(All(reads), {})
  <2>1. \A i \in 1..Len(reads) : Harmless(reads[i], {})
    BY <1>3, SettledIs
  <2> QED BY <1>1, <2>1, AllHarmless
<1>5. Settled(All(reads)) /\ Unchecked(All(reads)) = All(reads)
  <2>1. All(reads).is # "overflow"
    BY <1>4 DEF Harmless
  <2>2. Unchecked(All(reads)) = All(reads)
    BY <2>1, UncheckedIs
  <2> QED BY <1>4, <2>2 DEF Harmless, Allowed
<1>6. CASE All(reads).is = "ok"
  <2>1. Okay(All(reads))
    BY <1>5, <1>6 DEF Okay
  <2>2. (\A i \in 1..Len(reads) : Okay(reads[i])) /\ All(reads) = Accepted(ValuesOf(reads))
    BY <1>1, <1>3, <1>5, <2>1, AllOkay
  <2>3. a.is = "ok" /\ b.is = "ok"
    <3>1. 1 \in 1..Len(reads) /\ 2 \in 1..Len(reads)
      BY <1>1
    <3> QED BY <1>1, <1>3, <2>2, <3>1 DEF Okay
  <2>4. ValuesOf(reads) = << a.value, b.value >>
    <3>1. ValuesOf(reads) = [i \in 1..2 |-> Unchecked(reads[i]).value]
      BY <1>1 DEF ValuesOf
    <3>2. Unchecked(reads[1]) = a /\ Unchecked(reads[2]) = b
      BY <1>1, <1>3
    <3> QED BY <3>1, <3>2
  <2> QED BY <2>2, <2>3, <2>4 DEF reads
<1> QED BY <1>5, <1>6 DEF Settled, reads

\* The parts a text is cut into are texts.
LEMMA CutTexts ==
    ASSUME NEW s \in AnyText, NEW c
    PROVE  \/ Cut(s, c) = << s >> /\ Len(Cut(s, c)) = 1
           \/ /\ Len(Cut(s, c)) = 2 /\ Cut(s, c)[1] \in AnyText /\ Cut(s, c)[2] \in AnyText
<1>1. s \in Seq(Characters)
  BY DEF AnyText
<1>2. CASE Cut(s, c) = << s >>
  BY <1>2, Tails
<1>3. ASSUME NEW p, NEW r, CutsInto(Characters, s, c, p, r)
      PROVE  Len(Cut(s, c)) = 2 /\ Cut(s, c)[1] \in AnyText /\ Cut(s, c)[2] \in AnyText
  <2>1. p \in Seq(Characters) /\ r \in Seq(Characters) /\ Cut(s, c) = << p, r >>
    BY <1>3 DEF CutsInto
  <2> QED BY <2>1 DEF AnyText
<1> QED BY <1>1, <1>2, <1>3, CutCases

\* A range of an emote is refused, or is an emote from one number to another.
LEMMA EmoteRangeIs ==
    ASSUME NEW id, NEW range \in AnyText, NEW text
    PROVE  LET sent == RangeSent(id, range)
           IN  \/ EmoteRange(id, range, text).is = "error"
               \/ /\ EmoteRange(id, range, text) = Emote(id, sent.from, sent.to, text)
                  /\ sent.from \in 0..MaxU64 /\ sent.to \in 0..MaxU64
<1> DEFINE cut  == Cut(range, "-")
           a    == U64(cut[1])
           b    == U64(cut[2])
           ends == All(<< a, b >>)
           sent == RangeSent(id, range)
<1>1. sent.from = a.value /\ sent.to = b.value
  BY DEF RangeSent
<1>2. EmoteRange(id, range, text) =
        IF Len(cut) = 1 THEN Refused("MalformedTagValue")
        ELSE IF ends.is = "error" THEN ends ELSE Emote(id, ends.value[1], ends.value[2], text)
  BY Zenon DEF EmoteRange
<1>3. CASE Len(cut) = 1
  <2>1. EmoteRange(id, range, text) = Refused("MalformedTagValue")
    BY <1>2, <1>3, Zenon
  <2> QED BY <2>1, ReadParts
<1>4. CASE Len(cut) # 1
  <2>1. cut[1] \in AnyText /\ cut[2] \in AnyText
    BY <1>4, CutTexts
  <2>2. Settled(a) /\ Settled(b)
    BY NumbersSettle
  <2>3. \/ ends.is = "error"
        \/ a.is = "ok" /\ b.is = "ok" /\ ends = Accepted(<< a.value, b.value >>)
    BY <2>2, BothRead
  <2>4. CASE ends.is = "error"
    <3>1. EmoteRange(id, range, text) = ends
      BY <1>2, <1>4, <2>4, Zenon
    <3> QED BY <2>4, <3>1
  <2>5. CASE a.is = "ok" /\ b.is = "ok" /\ ends = Accepted(<< a.value, b.value >>)
    <3>1. a.value \in 0..MaxU64 /\ b.value \in 0..MaxU64
      BY <2>1, <2>5, NumbersAre
    <3>2. ends.is # "error" /\ ends.value = << a.value, b.value >>
      BY <2>5, ReadParts
    <3>3. << a.value, b.value >>[1] = a.value /\ << a.value, b.value >>[2] = b.value
      OBVIOUS
    <3>4. EmoteRange(id, range, text) = Emote(id, a.value, b.value, text)
      <4> HIDE DEF a, b, ends, cut
      <4> QED BY <1>2, <1>4, <3>2, <3>3, Zenon
    <3> QED BY <1>1, <3>1, <3>4
  <2> QED BY <2>3, <2>4, <2>5
<1> QED BY <1>3, <1>4

\* The emote in a range of numbers.
EmoteIn(id, from, to, text) ==
    LET length == Wrapped(Wrapped(to + 1) - from)
    IN  [id |-> id, start |-> from, end |-> Wrapped(to + 1),
         code |-> SubSeq(text, from + 1, IF from + length > Len(text) THEN Len(text) ELSE from + length)]

\* An emote overflows only if its range is a bad one.
LEMMA EmoteIs ==
    ASSUME NEW id, NEW from \in 0..MaxU64, NEW to \in 0..MaxU64, NEW text
    PROVE  Emote(id, from, to, text) =
              IF from > to + 1 \/ to = MaxU64 THEN Overflow(Accepted(EmoteIn(id, from, to, text)))
              ELSE Accepted(EmoteIn(id, from, to, text))
<1>1. RangeOverflows(from, to) <=> from > to + 1 \/ to = MaxU64
  BY NumbersAre DEF RangeOverflows
<1>2. Emote(id, from, to, text) = IF RangeOverflows(from, to) THEN Overflow(Accepted(EmoteIn(id, from, to, text)))
                                  ELSE Accepted(EmoteIn(id, from, to, text))
  BY Zenon DEF Emote, EmoteIn, RangeEnd
<1> QED BY <1>1, <1>2, Zenon

\* An emote whose range is not a bad one is harmless.
LEMMA EmoteRangeHarmless ==
    ASSUME NEW id, NEW range \in AnyText, NEW text, NEW may,
           ~("overflow" \notin may /\ BadRange(RangeSent(id, range)))
    PROVE  Harmless(EmoteRange(id, range, text), may)
<1> DEFINE sent == RangeSent(id, range)
           r    == EmoteRange(id, range, text)
<1>1. CASE r.is = "error"
  <2>1. Settled(r)
    BY <1>1 DEF Settled
  <2> QED BY <2>1, SettledIs
<1>2. CASE r = Emote(id, sent.from, sent.to, text) /\ sent.from \in 0..MaxU64 /\ sent.to \in 0..MaxU64
  <2> DEFINE e == EmoteIn(id, sent.from, sent.to, text)
  <2>1. Emote(id, sent.from, sent.to, text)
          = IF sent.from > sent.to + 1 \/ sent.to = MaxU64 THEN Overflow(Accepted(e)) ELSE Accepted(e)
    BY <1>2, EmoteIs
  <2>2. r = IF BadRange(sent) THEN Overflow(Accepted(e)) ELSE Accepted(e)
    BY <1>2, <2>1 DEF BadRange
  <2> HIDE DEF r, sent, e
  <2>3. CASE BadRange(sent)
    <3>1. r = Overflow(Accepted(e)) /\ "overflow" \in may
      BY <2>2, <2>3 DEF sent
    <3>2. Unchecked(r) = Accepted(e)
      BY <3>1, UncheckedIs
    <3> QED BY <3>1, <3>2, ResultsSettle DEF Harmless, Allowed, r
  <2>4. CASE ~BadRange(sent)
    <3>1. r = Accepted(e)
      BY <2>2, <2>4
    <3> QED BY <3>1, ResultsSettle, SettledIs DEF r
  <2> QED BY <2>3, <2>4
<1>3. \/ r.is = "error"
      \/ r = Emote(id, sent.from, sent.to, text) /\ sent.from \in 0..MaxU64 /\ sent.to \in 0..MaxU64
  BY EmoteRangeIs
<1> QED BY <1>1, <1>2, <1>3

\* The ranges of an emote, as they are cut out of a part of the tag.
Comma == ","

PartRanges(part) == IF Len(Cut(part, ":")) = 1 THEN << >> ELSE Split(Cut(part, ":")[2], Comma)

SentIn(part) == [i \in DOMAIN PartRanges(part) |-> RangeSent(Cut(part, ":")[1], PartRanges(part)[i])]

ReadIn(part, text) == [i \in DOMAIN PartRanges(part) |-> EmoteRange(Cut(part, ":")[1], PartRanges(part)[i], text)]

RangeRecords == {RangeSent(id, range) : id \in AnyText, range \in AnyText}

\* They are texts, and so are records of them.
LEMMA PartRangesAre ==
    ASSUME NEW part \in AnyText
    PROVE  /\ PartRanges(part) \in Seq(AnyText)
           /\ DOMAIN PartRanges(part) = 1..Len(PartRanges(part))
           /\ Cut(part, ":")[1] \in AnyText
           /\ SentIn(part) \in Seq(RangeRecords) /\ Len(SentIn(part)) = Len(PartRanges(part))
<1> DEFINE n  == Len(PartRanges(part))
           id == Cut(part, ":")[1]
<1>1. PartRanges(part) \in Seq(AnyText)
  <2>1. CASE Len(Cut(part, ":")) = 1
    <3>1. PartRanges(part) = << >>
      BY <2>1 DEF PartRanges
    <3> QED BY <3>1
  <2>2. CASE Len(Cut(part, ":")) # 1
    <3>1. Cut(part, ":")[2] \in Seq(Characters)
      BY <2>2, CutTexts DEF AnyText
    <3>2. Split(Cut(part, ":")[2], Comma) \in Seq(Seq(Characters))
      BY <3>1, SplitType DEF Texts
    <3> QED BY <2>2, <3>2 DEF PartRanges, AnyText
  <2> QED BY <2>1, <2>2
<1>2. id \in AnyText
  <2>1. part \in AnyText
    OBVIOUS
  <2> QED BY <2>1, CutTexts, Tails
<1>3. n \in Nat /\ DOMAIN PartRanges(part) = 1..n /\ \A i \in 1..n : PartRanges(part)[i] \in AnyText
  BY <1>1
<1>4. SentIn(part) \in [1..n -> RangeRecords]
  <2> HIDE DEF n, id
  <2>1. SentIn(part) = [i \in 1..n |-> RangeSent(id, PartRanges(part)[i])]
    BY <1>3 DEF SentIn, id
  <2>2. \A i \in 1..n : RangeSent(id, PartRanges(part)[i]) \in RangeRecords
    BY <1>2, <1>3 DEF RangeRecords
  <2> QED BY <2>1, <2>2
<1>5. SentIn(part) \in Seq(RangeRecords) /\ Len(SentIn(part)) = n
  <2> HIDE DEF n
  <2> QED BY <1>3, <1>4, FunctionIsSequence
<1> QED BY <1>1, <1>2, <1>3, <1>5

\* The emotes of a part are read one after the other.
LEMMA EmoteRangesIs ==
    ASSUME NEW part, NEW text
    PROVE  EmoteRanges(part, text) =
              IF Len(Cut(part, ":")) = 1 THEN Refused("MalformedTagValue") ELSE All(ReadIn(part, text))
<1>1. CASE Len(Cut(part, ":")) = 1
  BY <1>1, Zenon DEF EmoteRanges
<1>2. CASE Len(Cut(part, ":")) # 1
  <2>1. PartRanges(part) = Split(Cut(part, ":")[2], Comma)
    BY <1>2, Zenon DEF PartRanges
  <2>2. EmoteRanges(part, text) = All([i \in DOMAIN Split(Cut(part, ":")[2], Comma) |->
                                         EmoteRange(Cut(part, ":")[1], Split(Cut(part, ":")[2], Comma)[i], text)])
    BY <1>2, Zenon DEF EmoteRanges, Comma
  <2> QED BY <1>2, <2>1, <2>2, Zenon DEF ReadIn
<1> QED BY <1>1, <1>2

\* So are the ranges that were sent in it.
LEMMA RangesSentIs ==
    ASSUME NEW m, OfTexts(m), NEW key, HasTag(m, key)
    PROVE  LET parts == Parts(m, key, "/")
               sent  == [n \in DOMAIN parts |-> SentIn(parts[n])]
           IN  /\ parts \in Seq(AnyText) /\ DOMAIN parts = 1..Len(parts)
               /\ sent \in Seq(Seq(RangeRecords)) /\ Len(sent) = Len(parts)
               /\ RangesSent(m.tags[<< key >>]) = Concat(sent)
<1> DEFINE parts == Parts(m, key, "/")
           sent  == [n \in DOMAIN parts |-> SentIn(parts[n])]
<1>1. parts \in Seq(AnyText)
  BY PartsType
<1>2. Len(parts) \in Nat /\ DOMAIN parts = 1..Len(parts) /\ \A n \in 1..Len(parts) : parts[n] \in AnyText
  <2> HIDE DEF parts
  <2> QED BY <1>1
<1>3. sent \in [1..Len(parts) -> Seq(RangeRecords)]
  <2> HIDE DEF parts
  <2>1. sent = [n \in 1..Len(parts) |-> SentIn(parts[n])]
    BY <1>2
  <2>2. \A n \in 1..Len(parts) : SentIn(parts[n]) \in Seq(RangeRecords)
    BY <1>2, PartRangesAre
  <2> QED BY <2>1, <2>2
<1>4. RangesSent(m.tags[<< key >>]) = Concat(sent)
  BY Zenon DEF RangesSent, Parts, SentIn, PartRanges, Comma
<1>5. sent \in Seq(Seq(RangeRecords)) /\ Len(sent) = Len(parts)
  <2> HIDE DEF sent, parts
  <2> QED BY <1>2, <1>3, FunctionIsSequence
<1> QED BY <1>1, <1>2, <1>4, <1>5, Zenon

\* The emotes of a part overflow only if a range is a bad one.
LEMMA PartHarmless ==
    ASSUME NEW part \in AnyText, NEW text, NEW may,
           \A r \in ToSet(SentIn(part)) : ~("overflow" \notin may /\ BadRange(r))
    PROVE  Harmless(EmoteRanges(part, text), may)
<1> DEFINE n  == Len(PartRanges(part))
           id == Cut(part, ":")[1]
           S  == {EmoteRange(id, PartRanges(part)[i], text) : i \in 1..n}
<1>1. /\ n \in Nat /\ DOMAIN PartRanges(part) = 1..n /\ id \in AnyText
      /\ \A i \in 1..n : PartRanges(part)[i] \in AnyText
  BY PartRangesAre
<1>2. ASSUME NEW i \in 1..n PROVE Harmless(EmoteRange(id, PartRanges(part)[i], text), may)
  <2>1. RangeSent(id, PartRanges(part)[i]) \in ToSet(SentIn(part))
    <3>1. SentIn(part)[i] = RangeSent(id, PartRanges(part)[i]) /\ i \in DOMAIN SentIn(part)
      BY <1>1 DEF SentIn
    <3> QED BY <3>1 DEF ToSet
  <2> QED BY <1>1, <2>1, EmoteRangeHarmless
<1>3. ReadIn(part, text) \in Seq(S)
  <2>1. ReadIn(part, text) = [i \in 1..n |-> EmoteRange(id, PartRanges(part)[i], text)]
    BY <1>1 DEF ReadIn
  <2>2. ReadIn(part, text) \in [1..n -> S]
    BY <2>1
  <2> HIDE DEF S, n
  <2> QED BY <1>1, <2>2, FunctionIsSequence
<1>4. \A r \in S : Harmless(r, may)
  BY <1>2
<1> HIDE DEF S
<1>5. Harmless(All(ReadIn(part, text)), may)
  <2>1. HarmlessReads(ReadIn(part, text), may)
    BY <1>3, <1>4, HarmlessFrom
  <2> QED BY <2>1, Together
<1>6. Harmless(Refused("MalformedTagValue"), may)
  BY ResultsSettle, SettledIs
<1> QED BY <1>5, <1>6, EmoteRangesIs

\* Sorting changes the value of what was read and nothing else.
LEMMA ByStartIs ==
    ASSUME NEW v
    PROVE  /\ \A all : Unchecked(all).is # "ok" => ByStart(all) = all
           /\ \A all : Unchecked(all) = Accepted(v) =>
                ByStart(all) = IF all.is = "overflow" THEN Overflow(Accepted(Sorted(Concat(v))))
                               ELSE Accepted(Sorted(Concat(v)))
<1>1. ASSUME NEW all, Unchecked(all).is # "ok" PROVE ByStart(all) = all
  BY <1>1, Zenon DEF ByStart
<1>2. ASSUME NEW all, Unchecked(all) = Accepted(v)
      PROVE  ByStart(all) = IF all.is = "overflow" THEN Overflow(Accepted(Sorted(Concat(v))))
                            ELSE Accepted(Sorted(Concat(v)))
  <2>1. Unchecked(all).is = "ok" /\ Accepted(v).value = v
    BY <1>2, ReadParts
  <2>2. [Accepted(v) EXCEPT !.value = Sorted(Concat(@))] = Accepted(Sorted(Concat(v)))
    <3> DEFINE w == Sorted(Concat(v))
    <3>1. [Accepted(v) EXCEPT !.value = Sorted(Concat(@))] = [Accepted(v) EXCEPT !.value = w]
      BY <2>1, Zenon
    <3> HIDE DEF w
    <3>2. [Accepted(v) EXCEPT !.value = w] = Accepted(w)
      BY DEF Accepted
    <3> QED BY <3>1, <3>2 DEF w
  <2> QED BY <1>2, <2>1, <2>2, Zenon DEF ByStart
<1> QED BY <1>1, <1>2

\* The emotes of a tag overflow only if a range is a bad one.
LEMMA EmotesHarmless ==
    ASSUME NEW m, OfTexts(m), NEW key, NEW text, NEW may,
           ~("overflow" \notin may /\ HasTag(m, key) /\ \E r \in ToSet(RangesSent(m.tags[<< key >>])) : BadRange(r))
    PROVE  Harmless(Emotes(m, key, text), may)
<1>1. CASE ~HasTag(m, key)
  <2>1. Emotes(m, key, text) = TagValue(m, key)
    BY <1>1, Zenon DEF Emotes
  <2> QED BY <2>1, TagsSettle, SettledIs
<1>2. CASE HasTag(m, key)
  <2> DEFINE parts == Parts(m, key, "/")
             sent  == [n \in DOMAIN parts |-> SentIn(parts[n])]
             reads == [i \in DOMAIN parts |-> EmoteRanges(parts[i], text)]
             S     == {EmoteRanges(parts[i], text) : i \in 1..Len(parts)}
             all   == All(reads)
  <2>1. /\ parts \in Seq(AnyText) /\ DOMAIN parts = 1..Len(parts)
        /\ sent \in Seq(Seq(RangeRecords)) /\ Len(sent) = Len(parts)
        /\ RangesSent(m.tags[<< key >>]) = Concat(sent)
    BY <1>2, RangesSentIs
  <2>2. Emotes(m, key, text) = ByStart(all)
    BY <1>2, Zenon DEF Emotes
  <2> HIDE DEF parts
  <2>3. \A i \in 1..Len(parts) : parts[i] \in AnyText /\ sent[i] = SentIn(parts[i])
    BY <2>1
  <2> HIDE DEF sent
  <2>4. ASSUME NEW i \in 1..Len(parts) PROVE Harmless(EmoteRanges(parts[i], text), may)
    <3>1. ASSUME NEW r \in ToSet(SentIn(parts[i])) PROVE ~("overflow" \notin may /\ BadRange(r))
      <4>1. i \in 1..Len(sent) /\ r \in ToSet(sent[i])
        BY <2>1, <2>3
      <4>2. r \in ToSet(Concat(sent))
        BY <2>1, <4>1, ElementsJoined
      <4> QED BY <1>2, <2>1, <4>2
    <3> QED BY <2>3, <3>1, PartHarmless
  <2>5. reads \in Seq(S)
    <3>1. reads \in [1..Len(parts) -> S]
      BY <2>1
    <3>2. Len(parts) \in Nat
      BY <2>1
    <3> HIDE DEF reads, S
    <3> QED BY <3>1, <3>2, FunctionIsSequence
  <2>6. \A r \in S : Harmless(r, may)
    BY <2>4
  <2> HIDE DEF reads, S
  <2>7. Harmless(all, may)
    <3>1. HarmlessReads(reads, may)
      BY <2>5, <2>6, HarmlessFrom
    <3> QED BY <3>1, Together
  <2>8. \A i \in 1..Len(reads) : Unchecked(reads[i]).is # "overflow"
    <3>1. \A i \in 1..Len(reads) : reads[i] \in S
      BY <2>5
    <3> QED BY <2>6, <3>1 DEF Harmless, Allowed, Settled
  <2>9. CASE Unchecked(all).is # "ok"
    <3>1. ByStart(all) = all
      BY <2>9, ByStartIs
    <3> QED BY <2>2, <2>7, <3>1
  <2>10. CASE Unchecked(all).is = "ok"
    <3> DEFINE v == ValuesOf(reads)
               w == Sorted(Concat(v))
    <3>1. Unchecked(all) = Accepted(v)
      BY <2>5, <2>8, <2>10, AllOkay DEF Okay
    <3> HIDE DEF all, v
    <3>2. ByStart(all) = IF all.is = "overflow" THEN Overflow(Accepted(w)) ELSE Accepted(w)
      BY <3>1, ByStartIs
    <3> HIDE DEF w
    <3>3. CASE all.is = "overflow"
      <4>1. ByStart(all) = Overflow(Accepted(w)) /\ "overflow" \in may
        BY <2>7, <3>2, <3>3 DEF Harmless, all
      <4>2. Unchecked(ByStart(all)) = Accepted(w)
        BY <4>1, UncheckedIs
      <4>3. Harmless(ByStart(all), may)
        BY <4>1, <4>2, ResultsSettle DEF Harmless, Allowed
      <4> QED BY <2>2, <4>3 DEF all
    <3>4. CASE all.is # "overflow"
      <4>1. ByStart(all) = Accepted(w)
        BY <3>2, <3>4
      <4>2. Harmless(ByStart(all), may)
        BY <4>1, ResultsSettle, SettledIs
      <4> QED BY <2>2, <4>2 DEF all
    <3> QED BY <3>3, <3>4
  <2> QED BY <2>9, <2>10
<1> QED BY <1>1, <1>2

(***************************************************************************)
(* What the commands read                                                  *)
(***************************************************************************)

\* The values of Disordered that make a read do what it may not.
DisorderedIn(m, may) ==
    \/ /\ "overflow" \notin may /\ HasTag(m, "emotes")
       /\ \E r \in ToSet(RangesSent(m.tags[<< "emotes" >>])) : BadRange(r)
    \/ /\ "overflow" \notin may /\ HasTag(m, "followers-only")
       /\ I64(m.tags[<< "followers-only" >>]).value > MaxI64 \div 60
    \/ "panic" \notin may /\ HasTag(m, "color") /\ ToSet(m.tags[<< "color" >>]) \cap Wide # {}

\* A message of texts that has none of them.
Orderly(m, may) == OfTexts(m) /\ ~DisorderedIn(m, may)

\* Every field of an orderly message is harmless.
LEMMA FieldsHarmless ==
    ASSUME NEW m, NEW may, Orderly(m, may)
    PROVE  /\ \A n : Harmless(Param(m, n), may)
           /\ Harmless(MessageText(m), may) /\ Harmless(ChannelLogin(m), may)
           /\ Harmless(OptionalChannelLogin(m), may) /\ Harmless(PrefixNickname(m), may)
           /\ \A key : /\ Harmless(TagValue(m, key), may) /\ Harmless(Nonempty(m, key), may)
                       /\ Harmless(OptionalNonempty(m, key), may) /\ Harmless(EmoteSets(m, key), may)
                       /\ Harmless(Number(m, key), may) /\ Harmless(Bool(m, key), may)
                       /\ Harmless(Timestamp(m, key), may) /\ Harmless(Badges(m, key), may)
                       /\ Harmless(OptionalNumber(m, key), may) /\ Harmless(OptionalBool(m, key), may)
           /\ Harmless(OptionalReplyParent(m), may) /\ Harmless(Color(m, "color"), may)
           /\ \A text : Harmless(Emotes(m, "emotes", text), may)
           /\ \A v : Harmless(Accepted(v), may)
<1>1. OfTexts(m) /\ ~DisorderedIn(m, may)
  BY DEF Orderly
<1>2. \A r : Settled(r) => Harmless(r, may)
  BY SettledIs
<1>3. \A key : /\ Harmless(TagValue(m, key), may) /\ Harmless(Nonempty(m, key), may)
               /\ Harmless(OptionalNonempty(m, key), may) /\ Harmless(EmoteSets(m, key), may)
               /\ Harmless(Number(m, key), may) /\ Harmless(Bool(m, key), may)
               /\ Harmless(Timestamp(m, key), may)
  BY <1>2, TagsSettle, NumbersSettle
<1>4. \A key : Harmless(Badges(m, key), may)
  BY <1>1, BadgesHarmless
<1>5. \A key : Harmless(OptionalNumber(m, key), may) /\ Harmless(OptionalBool(m, key), may)
  BY OptionalsHarmless
<1>6. Harmless(Color(m, "color"), may)
  <2>1. ~("panic" \notin may /\ HasTag(m, "color") /\ ToSet(m.tags[<< "color" >>]) \cap Wide # {})
    BY <1>1, Zenon DEF DisorderedIn
  <2> QED BY <1>1, <2>1, ColorSettles
<1>7. \A text : Harmless(Emotes(m, "emotes", text), may)
  <2>1. ~("overflow" \notin may /\ HasTag(m, "emotes") /\ \E r \in ToSet(RangesSent(m.tags[<< "emotes" >>])) : BadRange(r))
    BY <1>1, Zenon DEF DisorderedIn
  <2> QED BY <1>1, <2>1, EmotesHarmless
<1>8. \A v : Harmless(Accepted(v), may)
  BY <1>2, ResultsSettle
<1>9. /\ \A n : Harmless(Param(m, n), may)
      /\ Harmless(MessageText(m), may) /\ Harmless(ChannelLogin(m), may)
      /\ Harmless(OptionalChannelLogin(m), may) /\ Harmless(PrefixNickname(m), may)
  BY <1>2, ParamsSettle
<1> QED BY <1>3, <1>4, <1>5, <1>6, <1>7, <1>8, <1>9, ReplyHarmless

\* Reads none of which panics, by their number.
LEMMA ReadsTogether ==
    ASSUME NEW may
    PROVE  /\ \A a : (\A r \in {a} : Harmless(r, may)) => HarmlessReads(<< a >>, may)
           /\ \A a, b : (\A r \in {a, b} : Harmless(r, may)) => HarmlessReads(<< a, b >>, may)
           /\ \A a, b, c
                : (\A r \in {a, b, c} : Harmless(r, may))
                    => HarmlessReads(<< a, b, c >>, may)
           /\ \A a, b, c, d
                : (\A r \in {a, b, c, d} : Harmless(r, may))
                    => HarmlessReads(<< a, b, c, d >>, may)
           /\ \A a, b, c, d, e
                : (\A r \in {a, b, c, d, e} : Harmless(r, may))
                    => HarmlessReads(<< a, b, c, d, e >>, may)
           /\ \A a, b, c, d, e, f
                : (\A r \in {a, b, c, d, e, f} : Harmless(r, may))
                    => HarmlessReads(<< a, b, c, d, e, f >>, may)
           /\ \A a, b, c, d, e, f, g
                : (\A r \in {a, b, c, d, e, f, g} : Harmless(r, may))
                    => HarmlessReads(<< a, b, c, d, e, f, g >>, may)
           /\ \A a, b, c, d, e, f, g, h
                : (\A r \in {a, b, c, d, e, f, g, h} : Harmless(r, may))
                    => HarmlessReads(<< a, b, c, d, e, f, g, h >>, may)
           /\ \A a, b, c, d, e, f, g, h, i
                : (\A r \in {a, b, c, d, e, f, g, h, i} : Harmless(r, may))
                    => HarmlessReads(<< a, b, c, d, e, f, g, h, i >>, may)
           /\ \A a, b, c, d, e, f, g, h, i, j, k, l, m, n
                : (\A r \in {a, b, c, d, e, f, g, h, i, j, k, l, m, n} : Harmless(r, may))
                    => HarmlessReads(<< a, b, c, d, e, f, g, h, i, j, k, l, m, n >>, may)
<1>1. ASSUME NEW a, \A r \in {a} : Harmless(r, may)
      PROVE  HarmlessReads(<< a >>, may)
  <2> DEFINE S == {a}
  <2>1. << a >> \in Seq(S)
    OBVIOUS
  <2>2. \A r \in S : Harmless(r, may)
    BY <1>1
  <2> HIDE DEF S
  <2> QED BY <2>1, <2>2, HarmlessFrom
<1>2. ASSUME NEW a, NEW b, \A r \in {a, b} : Harmless(r, may)
      PROVE  HarmlessReads(<< a, b >>, may)
  <2> DEFINE S == {a, b}
  <2>1. << a, b >> \in Seq(S)
    OBVIOUS
  <2>2. \A r \in S : Harmless(r, may)
    BY <1>2
  <2> HIDE DEF S
  <2> QED BY <2>1, <2>2, HarmlessFrom
<1>3. ASSUME NEW a, NEW b, NEW c, \A r \in {a, b, c} : Harmless(r, may)
      PROVE  HarmlessReads(<< a, b, c >>, may)
  <2> DEFINE S == {a, b, c}
  <2>1. << a, b, c >> \in Seq(S)
    OBVIOUS
  <2>2. \A r \in S : Harmless(r, may)
    BY <1>3
  <2> HIDE DEF S
  <2> QED BY <2>1, <2>2, HarmlessFrom
<1>4. ASSUME NEW a, NEW b, NEW c, NEW d, \A r \in {a, b, c, d} : Harmless(r, may)
      PROVE  HarmlessReads(<< a, b, c, d >>, may)
  <2> DEFINE S == {a, b, c, d}
  <2>1. << a, b, c, d >> \in Seq(S)
    OBVIOUS
  <2>2. \A r \in S : Harmless(r, may)
    BY <1>4
  <2> HIDE DEF S
  <2> QED BY <2>1, <2>2, HarmlessFrom
<1>5. ASSUME NEW a, NEW b, NEW c, NEW d, NEW e, \A r \in {a, b, c, d, e} : Harmless(r, may)
      PROVE  HarmlessReads(<< a, b, c, d, e >>, may)
  <2> DEFINE S == {a, b, c, d, e}
  <2>1. << a, b, c, d, e >> \in Seq(S)
    OBVIOUS
  <2>2. \A r \in S : Harmless(r, may)
    BY <1>5
  <2> HIDE DEF S
  <2> QED BY <2>1, <2>2, HarmlessFrom
<1>6. ASSUME NEW a, NEW b, NEW c, NEW d, NEW e, NEW f, \A r \in {a, b, c, d, e, f} : Harmless(r, may)
      PROVE  HarmlessReads(<< a, b, c, d, e, f >>, may)
  <2> DEFINE S == {a, b, c, d, e, f}
  <2>1. << a, b, c, d, e, f >> \in Seq(S)
    OBVIOUS
  <2>2. \A r \in S : Harmless(r, may)
    BY <1>6
  <2> HIDE DEF S
  <2> QED BY <2>1, <2>2, HarmlessFrom
<1>7. ASSUME NEW a, NEW b, NEW c, NEW d, NEW e, NEW f, NEW g, \A r \in {a, b, c, d, e, f, g} : Harmless(r, may)
      PROVE  HarmlessReads(<< a, b, c, d, e, f, g >>, may)
  <2> DEFINE S == {a, b, c, d, e, f, g}
  <2>1. << a, b, c, d, e, f, g >> \in Seq(S)
    OBVIOUS
  <2>2. \A r \in S : Harmless(r, may)
    BY <1>7
  <2> HIDE DEF S
  <2> QED BY <2>1, <2>2, HarmlessFrom
<1>8. ASSUME NEW a, NEW b, NEW c, NEW d, NEW e, NEW f, NEW g, NEW h, \A r \in {a, b, c, d, e, f, g, h} : Harmless(r, may)
      PROVE  HarmlessReads(<< a, b, c, d, e, f, g, h >>, may)
  <2> DEFINE S == {a, b, c, d, e, f, g, h}
  <2>1. << a, b, c, d, e, f, g, h >> \in Seq(S)
    OBVIOUS
  <2>2. \A r \in S : Harmless(r, may)
    BY <1>8
  <2> HIDE DEF S
  <2> QED BY <2>1, <2>2, HarmlessFrom
<1>9. ASSUME NEW a, NEW b, NEW c, NEW d, NEW e, NEW f, NEW g, NEW h, NEW i, \A r \in {a, b, c, d, e, f, g, h, i} : Harmless(r, may)
      PROVE  HarmlessReads(<< a, b, c, d, e, f, g, h, i >>, may)
  <2> DEFINE S == {a, b, c, d, e, f, g, h, i}
  <2>1. << a, b, c, d, e, f, g, h, i >> \in Seq(S)
    OBVIOUS
  <2>2. \A r \in S : Harmless(r, may)
    BY <1>9
  <2> HIDE DEF S
  <2> QED BY <2>1, <2>2, HarmlessFrom
<1>10. ASSUME NEW a, NEW b, NEW c, NEW d, NEW e, NEW f, NEW g, NEW h, NEW i, NEW j, NEW k, NEW l, NEW m, NEW n, \A r \in {a, b, c, d, e, f, g, h, i, j, k, l, m, n} : Harmless(r, may)
      PROVE  HarmlessReads(<< a, b, c, d, e, f, g, h, i, j, k, l, m, n >>, may)
  <2> DEFINE S == {a, b, c, d, e, f, g, h, i, j, k, l, m, n}
  <2>1. << a, b, c, d, e, f, g, h, i, j, k, l, m, n >> \in Seq(S)
    OBVIOUS
  <2>2. \A r \in S : Harmless(r, may)
    BY <1>10
  <2> HIDE DEF S
  <2> QED BY <2>1, <2>2, HarmlessFrom
<1> QED BY <1>1, <1>2, <1>3, <1>4, <1>5, <1>6, <1>7, <1>8, <1>9, <1>10

\* And so are the fields of a command together.
LEMMA SmallReads ==
    ASSUME NEW m, NEW may, Orderly(m, may)
    PROVE  /\ HarmlessReads(JoinReads(m), may) /\ HarmlessReads(PartReads(m), may)
           /\ HarmlessReads(NoticeReads(m), may) /\ HarmlessReads(ClearMsgReads(m), may)
           /\ HarmlessReads(GlobalUserStateReads(m), may) /\ HarmlessReads(UserStateReads(m), may)
           /\ HarmlessReads(WhisperReads(m), may) /\ HarmlessReads(PrivmsgReads(m), may)
           /\ HarmlessReads(ClearChatReads(m), may) /\ HarmlessReads(RoomStateReads(m), may)
<1>1. HarmlessReads(JoinReads(m), may) /\ HarmlessReads(PartReads(m), may)
  BY FieldsHarmless, ReadsTogether DEF JoinReads, PartReads
<1>2. HarmlessReads(NoticeReads(m), may)
  BY FieldsHarmless, ReadsTogether DEF NoticeReads
<1>3. HarmlessReads(ClearMsgReads(m), may)
  BY FieldsHarmless, ReadsTogether DEF ClearMsgReads
<1>4. HarmlessReads(GlobalUserStateReads(m), may)
  BY FieldsHarmless, ReadsTogether DEF GlobalUserStateReads
<1>5. HarmlessReads(UserStateReads(m), may)
  BY FieldsHarmless, ReadsTogether DEF UserStateReads
<1>6. HarmlessReads(WhisperReads(m), may)
  BY FieldsHarmless, ReadsTogether DEF WhisperReads
<1>7. HarmlessReads(PrivmsgReads(m), may)
  BY FieldsHarmless, ReadsTogether DEF PrivmsgReads
<1>8. HarmlessReads(ClearChatReads(m), may)
  <2>1. Harmless(ClearChatAction(m), may)
    <3> DEFINE reads == << Accepted(m.params[2]), Nonempty(m, "target-user-id"), OptionalNumber(m, "ban-duration") >>
    <3>1. Harmless(All(reads), may)
      <4>1. HarmlessReads(reads, may)
        BY FieldsHarmless, ReadsTogether
      <4> QED BY <4>1, Together
    <3>2. ClearChatAction(m) = Accepted(<< "ChatCleared" >>) \/ ClearChatAction(m) = All(reads)
      BY Zenon DEF ClearChatAction
    <3> QED BY <3>1, <3>2, FieldsHarmless
  <2> QED BY <2>1, FieldsHarmless, ReadsTogether DEF ClearChatReads
<1>9. HarmlessReads(RoomStateReads(m), may)
  <2> DEFINE v    == m.tags[<< "followers-only" >>]
             mode == Optional(m, "followers-only", FollowersOnlyMode(v))
  <2>1. Harmless(mode, may)
    <3>1. CASE HasTag(m, "followers-only")
      <4>1. v \in AnyText
        BY <3>1, TagIsText DEF Orderly
      <4>2. ~("overflow" \notin may /\ I64(v).value > MaxI64 \div 60)
        BY <3>1, Zenon DEF Orderly, DisorderedIn
      <4>3. Harmless(FollowersOnlyMode(v), may)
        BY <4>1, <4>2, FollowersHarmless
      <4> QED BY <4>3, OptionalIs
    <3>2. CASE ~HasTag(m, "followers-only")
      <4>1. mode = OptionalNonempty(m, "followers-only")
        BY <3>2, Zenon DEF Optional
      <4> QED BY <4>1, FieldsHarmless
    <3> QED BY <3>1, <3>2
  <2>2. RoomStateReads(m) = << ChannelLogin(m), Nonempty(m, "room-id"), OptionalBool(m, "emote-only"), mode,
                               OptionalBool(m, "r9k"), OptionalNumber(m, "slow"), OptionalBool(m, "subs-only") >>
    BY Zenon DEF RoomStateReads
  <2> HIDE DEF mode
  <2> QED BY <2>1, <2>2, FieldsHarmless, ReadsTogether
<1> QED BY <1>1, <1>2, <1>3, <1>4, <1>5, <1>6, <1>7, <1>8, <1>9

\* A promotion and the number of gifts are read or refused.
LEMMA GiftsHarmless ==
    ASSUME NEW m, NEW may, Orderly(m, may)
    PROVE  Harmless(SubGiftPromo(m), may) /\ Harmless(SenderTotalGifts(m), may)
<1>1. Harmless(SubGiftPromo(m), may)
  <2> DEFINE reads == << OptionalNumber(m, "msg-param-promo-gift-total"), OptionalNonempty(m, "msg-param-promo-name") >>
  <2>1. HarmlessReads(reads, may)
    BY FieldsHarmless, ReadsTogether
  <2>2. Harmless(All(reads), may)
    BY <2>1, Together
  <2>3. SubGiftPromo(m) = Accepted(<< >>) \/ SubGiftPromo(m) = All(reads)
    BY Zenon DEF SubGiftPromo
  <2> QED BY <2>2, <2>3, FieldsHarmless
<1>2. Harmless(SenderTotalGifts(m), may)
  <2>1. \/ \E v : SenderTotalGifts(m) = Accepted(v)
        \/ SenderTotalGifts(m) = Number(m, "msg-param-sender-count")
    BY Zenon DEF SenderTotalGifts
  <2> QED BY <2>1, FieldsHarmless
<1> QED BY <1>1, <1>2

\* So is every event,
LEMMA EventHarmless ==
    ASSUME NEW m, NEW may, Orderly(m, may), NEW id, NEW event
    PROVE  HarmlessReads(EventReads(m, id, event), may)
<1> DEFINE streak == IF Bool(m, "msg-param-should-share-streak") = Accepted(TRUE)
                     THEN Number(m, "msg-param-streak-months") ELSE Accepted("None")
           colour == IF HasTag(m, "msg-param-color") THEN TagValue(m, "msg-param-color") ELSE Accepted(<< >>)
           anon   == Accepted(id = "anonsubgift" \/ SenderIs(m, "user-id", AnonymousGifter))
           sub    == << Number(m, "msg-param-cumulative-months"), Bool(m, "msg-param-should-share-streak"),
                        streak, Nonempty(m, "msg-param-sub-plan"), Nonempty(m, "msg-param-sub-plan-name") >>
           raid   == << Number(m, "msg-param-viewerCount"), Nonempty(m, "msg-param-profileImageURL") >>
           gift   == << anon,
                        Number(m, "msg-param-months"), Nonempty(m, "msg-param-recipient-id"),
                        Nonempty(m, "msg-param-recipient-user-name"),
                        Nonempty(m, "msg-param-recipient-display-name"), Nonempty(m, "msg-param-sub-plan"),
                        Nonempty(m, "msg-param-sub-plan-name"), Number(m, "msg-param-gift-months") >>
           hidden == << Number(m, "msg-param-mass-gift-count"), Nonempty(m, "msg-param-sub-plan") >>
           mystery == << Number(m, "msg-param-mass-gift-count"), SenderTotalGifts(m), Nonempty(m, "msg-param-sub-plan") >>
           upgrade == << Nonempty(m, "msg-param-sender-login"), Nonempty(m, "msg-param-sender-name"), SubGiftPromo(m) >>
<1>1. Harmless(streak, may) /\ Harmless(colour, may) /\ Harmless(anon, may)
  BY FieldsHarmless
<1>2. EventReads(m, id, event) \in
        {sub, raid, gift, hidden, mystery, upgrade, << SubGiftPromo(m) >>, << Nonempty(m, "msg-param-ritual-name") >>,
         << Number(m, "msg-param-threshold") >>, << colour >>, << >>}
  BY Zenon DEF EventReads
<1> HIDE DEF streak, colour, anon
<1>3. HarmlessReads(sub, may) /\ HarmlessReads(raid, may) /\ HarmlessReads(hidden, may)
  BY <1>1, FieldsHarmless, ReadsTogether
<1>4. HarmlessReads(gift, may)
  BY <1>1, FieldsHarmless, ReadsTogether
<1>5. HarmlessReads(mystery, may) /\ HarmlessReads(upgrade, may)
  BY FieldsHarmless, GiftsHarmless, ReadsTogether
<1>6. /\ HarmlessReads(<< SubGiftPromo(m) >>, may) /\ HarmlessReads(<< Nonempty(m, "msg-param-ritual-name") >>, may)
      /\ HarmlessReads(<< Number(m, "msg-param-threshold") >>, may) /\ HarmlessReads(<< colour >>, may)
  BY <1>1, FieldsHarmless, GiftsHarmless, ReadsTogether
<1>7. HarmlessReads(<< >>, may)
  BY Together
<1> HIDE DEF sub, raid, gift, hidden, mystery, upgrade
<1> QED BY <1>2, <1>3, <1>4, <1>5, <1>6, <1>7

\* and with it a USERNOTICE.
LEMMA UserNoticeHarmless ==
    ASSUME NEW m, NEW may, Orderly(m, may)
    PROVE  HarmlessReads(UserNoticeReads(m), may)
<1> DEFINE msgId  == Nonempty(m, "msg-id")
           event  == IF msgId.is = "ok" /\ Len(msgId.value) = 1
                     THEN EventReads(m, Head(msgId.value), UserNoticeEvent(m, Head(msgId.value))) ELSE << >>
           emotes == IF Len(m.params) > 1 THEN Emotes(m, "emotes", m.params[2]) ELSE Accepted(<< >>)
           first  == << Nonempty(m, "user-id"), Nonempty(m, "login"), Nonempty(m, "display-name"), msgId >>
           rest   == << emotes, ChannelLogin(m), Nonempty(m, "room-id"), TagValue(m, "system-msg"),
                        Badges(m, "badge-info"), Badges(m, "badges"), Color(m, "color"), Nonempty(m, "id"),
                        Timestamp(m, "tmi-sent-ts") >>
<1>1. UserNoticeReads(m) = (first \o event) \o rest
  BY Zenon DEF UserNoticeReads
<1>2. Harmless(emotes, may) /\ Harmless(msgId, may)
  BY FieldsHarmless
<1>3. HarmlessReads(event, may)
  BY EventHarmless, Together
<1> HIDE DEF emotes, msgId, event
<1>4. HarmlessReads(first, may)
  BY <1>2, FieldsHarmless, ReadsTogether
<1>5. HarmlessReads(rest, may)
  BY <1>2, FieldsHarmless, ReadsTogether
<1> HIDE DEF first, rest
<1>6. HarmlessReads(first \o event, may)
  BY <1>3, <1>4, Together
<1>7. HarmlessReads((first \o event) \o rest, may)
  <2> DEFINE both == first \o event
  <2>1. HarmlessReads(both, may)
    BY <1>6
  <2> HIDE DEF both
  <2>2. HarmlessReads(both \o rest, may)
    BY <1>5, <2>1, Together
  <2> QED BY <2>2 DEF both
<1> QED BY <1>1, <1>7, Zenon

\* Whatever the command, what an orderly message is read for is harmless.
LEMMA ReadsHarmless ==
    ASSUME NEW m, NEW may, Orderly(m, may)
    PROVE  HarmlessReads(Reads(m), may)
<1>1. Reads(m) \in
        {ClearChatReads(m), ClearMsgReads(m), GlobalUserStateReads(m), JoinReads(m), NoticeReads(m), PartReads(m),
         PrivmsgReads(m), RoomStateReads(m), UserNoticeReads(m), UserStateReads(m), WhisperReads(m), << >>}
  BY Zenon DEF Reads
<1> QED BY <1>1, SmallReads, UserNoticeHarmless, Together

\* What a read may do in a build that checks arithmetic and one that does not.
MayIn(checks) == IF checks THEN {} ELSE {"overflow"}

\* A message without a value that a field cannot hold is typed or refused.
LEMMA OrderlyNeverPanics ==
    ASSUME NEW m, NEW checks, Orderly(m, MayIn(checks))
    PROVE  TryFrom(m, checks).is # "panic"
<1> DEFINE all == All(Reads(m))
<1>1. Harmless(all, MayIn(checks))
  BY ReadsHarmless, Together
<1> HIDE DEF all
<1>2. Settled(OrPanic(all, checks))
  <2>1. OrPanic(all, checks) = Unchecked(all)
    BY <1>1 DEF OrPanic, Harmless, MayIn
  <2>2. "panic" \notin MayIn(checks)
    BY DEF MayIn
  <2> QED BY <1>1, <2>1, <2>2 DEF Harmless, Allowed
<1>3. ASSUME NEW result, Settled(result) PROVE Outcome(m, result).is \in {"typed", "error"}
  <2>1. CASE result.is = "ok"
    <3>1. Outcome(m, result) = Typed(m, result.value)
      BY <2>1, Zenon DEF Outcome
    <3> QED BY <3>1 DEF Typed
  <2>2. CASE result.is = "error"
    <3>1. Outcome(m, result) = [is |-> "error", error |-> result.error, source |-> m]
      BY <2>2, Zenon DEF Outcome
    <3> QED BY <3>1
  <2> QED BY <1>3, <2>1, <2>2 DEF Settled
<1>4. \/ TryFrom(m, checks) = Outcome(m, OrPanic(all, checks))
      \/ TryFrom(m, checks) = Generic(m)
  BY Zenon DEF TryFrom, all
<1>5. Generic(m).is = "generic"
  BY DEF Generic
<1> QED BY <1>2, <1>3, <1>4, <1>5

\* What is handed out as a panic is of a message with one of the values that cannot be
\* held.
LEMMA PanicIsDisorder ==
    ASSUME NEW checks, NEW p \in Results, HandedOut(p, checks).is = "panic"
    PROVE  DisorderedIn(HandedOut(p, checks).source, MayIn(checks))
<1> DEFINE r == HandedOut(p, checks)
           m == r.source
<1>1. IsMessage(m) /\ p = Accepted(m)
  <2>1. r.is # "closed"
    OBVIOUS
  <2> QED BY <2>1, HandedOutKinds
<1>2. r = OrGeneric(TryFrom(m, checks))
  <2>1. p.is # "error" /\ p.value = m
    BY <1>1, ResultParts
  <2> HIDE DEF m
  <2> QED BY <2>1, Zenon DEF HandedOut
<1>3. TryFrom(m, checks).is = "panic"
  <2> HIDE DEF m
  <2>1. r.is = "panic"
    OBVIOUS
  <2>2. \A n : Generic(n).is = "generic"
    BY DEF Generic
  <2> HIDE DEF r
  <2> QED BY <1>2, <2>1, <2>2 DEF OrGeneric
<1>4. OfTexts(m)
  BY <1>1, MessageOfTexts
<1> QED BY <1>3, <1>4, OrderlyNeverPanics DEF Orderly

LEMMA FlowPanics == FlowInv => PanicsOnlyOnDisorder
<1> SUFFICES ASSUME FlowInv, NEW r \in Received, r.is = "panic" PROVE Disordered(r.source)
  BY DEF PanicsOnlyOnDisorder
<1>1. r \in Handing(checked)
  <2>1. received \in Seq(Handing(checked))
    BY DEF FlowInv, FlowTypes
  <2> QED BY <2>1 DEF Received, ToSet
<1>2. PICK p \in Results : r = HandedOut(p, checked)
  BY <1>1 DEF Handing
<1>3. DisorderedIn(r.source, MayIn(checked))
  BY <1>2, PanicIsDisorder
<1>4. "overflow" \notin MayIn(checked) => checked
  BY DEF MayIn
<1> QED BY <1>3, <1>4, Zenon DEF DisorderedIn, Disordered, BadRange

\* A client panics only on a value that a field cannot hold, whoever sends it, whatever
\* the other tags are and whatever the order of the fields.
THEOREM PanicsOnlyOnDisorderCorrect == Spec => []PanicsOnlyOnDisorder
BY FlowInvariant, FlowPanics, PTL

\* What a server meant, or a client sent within the rules of IRC, is what is
\* delivered, whatever the transport, the order of the tags and the number of
\* times it was sent on; only a disordered value makes the client panic instead.
THEOREM DeliveredAsMeantCorrect == Spec => []DeliveredAsMeant
<1>1. FlowInv => DeliveredAsMeant
  <2> SUFFICES ASSUME FlowInv, AllRead, MeansIt
               PROVE  /\ Len(received) = 1 /\ IsFrom(received[1], meant)
                      /\ received[1].is = "panic" => Disordered(meant)
    BY DEF DeliveredAsMeant, MeansIt, IsFrom
  <2>1. PICK m : m = meant /\ WellMeant(m) /\ Carries(m)
    BY DEF FlowInv, Delivery
  <2>2. received = << HandedOut(Accepted(m), checked) >>
    BY <2>1 DEF AllRead, Carries
  <2>3. Len(received) = 1 /\ received[1] = HandedOut(Accepted(m), checked)
    BY <2>2
  <2>4. IsFrom(received[1], m)
    BY <2>3, AcceptedIsHandedOut
  <2>5. received[1] \in Received
    BY <2>2 DEF Received, ToSet
  <2>6. received[1].is = "panic" => Disordered(received[1].source)
    BY <2>5, FlowPanics DEF PanicsOnlyOnDisorder
  <2> QED BY <2>1, <2>3, <2>4, <2>6 DEF IsFrom
<1> QED BY FlowInvariant, <1>1, PTL

(***************************************************************************)
(* Sorting, and what is done to each element of texts put together         *)
(***************************************************************************)

\* A number that fits is not wrapped.
LEMMA WrappedIs == ASSUME NEW n \in 0..MaxU64 PROVE Wrapped(n) = n
<1>1. MaxU64 \in Nat
  BY NumbersAre
<1> QED BY <1>1 DEF Wrapped

\* p puts the numbers of key in order.
Orders(n, key, p) ==
    /\ p \in Bijection(1..n, 1..n)
    /\ \A i, j \in 1..n : i < j => key[p[i]] <= key[p[j]]

\* Of numbers there is a greatest.
LEMMA GreatestKey ==
    ASSUME NEW n \in Nat, NEW key \in [1..(n + 1) -> Nat]
    PROVE  \E q \in 1..(n + 1) : \A i \in 1..(n + 1) : key[i] <= key[q]
<1> DEFINE S == {m \in Nat : m <= n => \E q \in 1..(m + 1) : \A i \in 1..(m + 1) : key[i] <= key[q]}
<1>1. 0 \in S
  <2>1. 1 \in 1..(0 + 1) /\ \A i \in 1..(0 + 1) : i = 1
    OBVIOUS
  <2>2. key[1] \in Nat
    OBVIOUS
  <2> QED BY <2>1, <2>2
<1>2. ASSUME NEW m \in Nat, m \in S PROVE m + 1 \in S
  <2> SUFFICES ASSUME m + 1 <= n PROVE \E q \in 1..(m + 2) : \A i \in 1..(m + 2) : key[i] <= key[q]
    OBVIOUS
  <2>1. PICK q \in 1..(m + 1) : \A i \in 1..(m + 1) : key[i] <= key[q]
    BY <1>2
  <2>2. key[q] \in Nat /\ key[m + 2] \in Nat /\ \A i \in 1..(m + 1) : key[i] \in Nat
    OBVIOUS
  <2>3. \A i \in 1..(m + 2) : i \in 1..(m + 1) \/ i = m + 2
    OBVIOUS
  <2>4. CASE key[m + 2] <= key[q]
    BY <2>1, <2>3, <2>4
  <2>5. CASE ~(key[m + 2] <= key[q])
    <3>1. \A i \in 1..(m + 1) : key[i] <= key[m + 2]
      BY <2>1, <2>2, <2>5
    <3>2. \A i \in 1..(m + 2) : key[i] <= key[m + 2]
      BY <2>2, <2>3, <3>1
    <3>3. m + 2 \in 1..(m + 2)
      OBVIOUS
    <3> QED BY <3>2, <3>3
  <2> QED BY <2>4, <2>5
<1> HIDE DEF S
<1>3. \A m \in Nat : m \in S
  BY <1>1, <1>2, Induction
<1>4. n \in S
  BY <1>3
<1> QED BY <1>4 DEF S

\* The numbers of every key can be put in order: the greatest comes last.
LEMMA OrderExists ==
    ASSUME NEW n \in Nat, NEW key \in [1..n -> Nat]
    PROVE  \E p : Orders(n, key, p)
<1> DEFINE S == {m \in Nat : \A k \in [1..m -> Nat] : \E p : Orders(m, k, p)}
<1>1. 0 \in S
  <2> SUFFICES ASSUME NEW k \in [1..0 -> Nat] PROVE \E p : Orders(0, k, p)
    OBVIOUS
  <2>1. 1..0 = {}
    OBVIOUS
  <2>2. k \in Bijection(1..0, 1..0)
    BY <2>1 DEF Bijection, Injection, Surjection, IsInjective
  <2> QED BY <2>1, <2>2 DEF Orders
<1>2. ASSUME NEW m \in Nat, m \in S PROVE m + 1 \in S
  <2> SUFFICES ASSUME NEW k \in [1..(m + 1) -> Nat] PROVE \E p : Orders(m + 1, k, p)
    OBVIOUS
  <2>1. PICK q \in 1..(m + 1) : \A i \in 1..(m + 1) : k[i] <= k[q]
    BY GreatestKey
  <2> DEFINE other == [i \in 1..m |-> IF i = q THEN m + 1 ELSE i]
             short == [i \in 1..m |-> k[other[i]]]
  <2>2. /\ \A i \in 1..m : other[i] \in 1..(m + 1) /\ other[i] # q
        /\ \A i, j \in 1..m : other[i] = other[j] => i = j
        /\ \A t \in 1..(m + 1) : t # q => \E i \in 1..m : other[i] = t
    <3>1. \A i \in 1..m : other[i] \in 1..(m + 1) /\ other[i] # q
      OBVIOUS
    <3>2. \A i, j \in 1..m : other[i] = other[j] => i = j
      OBVIOUS
    <3>3. ASSUME NEW t \in 1..(m + 1), t # q PROVE \E i \in 1..m : other[i] = t
      <4>1. CASE t = m + 1
        <5>1. q \in 1..m /\ other[q] = t
          BY <3>3, <4>1
        <5> QED BY <5>1
      <4>2. CASE t # m + 1
        <5>1. t \in 1..m /\ other[t] = t
          BY <3>3, <4>2
        <5> QED BY <5>1
      <4> QED BY <4>1, <4>2
    <3> QED BY <3>1, <3>2, <3>3
  <2> HIDE DEF other
  <2>3. short \in [1..m -> Nat] /\ \A i \in 1..m : short[i] = k[other[i]]
    BY <2>2
  <2> HIDE DEF short
  <2>4. PICK r : Orders(m, short, r)
    BY <1>2, <2>3
  <2>5. /\ r \in [1..m -> 1..m]
        /\ \A i, j \in 1..m : r[i] = r[j] => i = j
        /\ \A t \in 1..m : \E i \in 1..m : r[i] = t
        /\ \A i, j \in 1..m : i < j => short[r[i]] <= short[r[j]]
    BY <2>4 DEF Orders, Bijection, Injection, Surjection, IsInjective
  <2> DEFINE p == [i \in 1..(m + 1) |-> IF i = m + 1 THEN q ELSE other[r[i]]]
  <2>6. \A i \in 1..m : p[i] = other[r[i]] /\ r[i] \in 1..m /\ i \in 1..(m + 1)
    <3> SUFFICES ASSUME NEW i \in 1..m PROVE p[i] = other[r[i]] /\ r[i] \in 1..m /\ i \in 1..(m + 1)
      OBVIOUS
    <3>1. i \in 1..(m + 1) /\ i # m + 1
      OBVIOUS
    <3>2. r[i] \in 1..m
      BY <2>5
    <3> QED BY <3>1, <3>2
  <2>7. p[m + 1] = q /\ \A i \in 1..(m + 1) : i \in 1..m \/ i = m + 1
    OBVIOUS
  <2>8. p = [i \in 1..(m + 1) |-> p[i]]
    OBVIOUS
  <2> HIDE DEF p
  <2>9. p \in [1..(m + 1) -> 1..(m + 1)]
    <3>1. \A i \in 1..(m + 1) : p[i] \in 1..(m + 1)
      <4>1. ASSUME NEW i \in 1..m PROVE p[i] \in 1..(m + 1)
        BY <2>2, <2>6
      <4> QED BY <2>7, <4>1
    <3> QED BY <2>8, <3>1
  <2>10. ASSUME NEW i \in 1..(m + 1), NEW j \in 1..(m + 1), p[i] = p[j] PROVE i = j
    <3>1. CASE i \in 1..m /\ j \in 1..m
      <4>1. r[i] \in 1..m /\ r[j] \in 1..m /\ other[r[i]] = other[r[j]]
        BY <2>6, <2>10, <3>1
      <4>2. r[i] = r[j]
        BY <2>2, <4>1
      <4> QED BY <2>5, <3>1, <4>2
    <3>2. CASE i \in 1..m /\ j = m + 1
      <4>1. r[i] \in 1..m /\ other[r[i]] = q
        BY <2>6, <2>7, <2>10, <3>2
      <4> QED BY <2>2, <4>1
    <3>3. CASE i = m + 1 /\ j \in 1..m
      <4>1. r[j] \in 1..m /\ other[r[j]] = q
        BY <2>6, <2>7, <2>10, <3>3
      <4> QED BY <2>2, <4>1
    <3> QED BY <2>7, <3>1, <3>2, <3>3
  <2>11. ASSUME NEW t \in 1..(m + 1) PROVE \E i \in 1..(m + 1) : p[i] = t
    <3>1. CASE t = q
      BY <2>7, <3>1
    <3>2. CASE t # q
      <4>1. PICK a \in 1..m : other[a] = t
        BY <2>2, <3>2
      <4>2. PICK i \in 1..m : r[i] = a
        BY <2>5
      <4> QED BY <2>6, <4>1, <4>2
    <3> QED BY <3>1, <3>2
  <2>12. ASSUME NEW i \in 1..(m + 1), NEW j \in 1..(m + 1), i < j PROVE k[p[i]] <= k[p[j]]
    <3>1. i \in 1..m
      BY <2>12
    <3>2. CASE j \in 1..m
      <4>1. short[r[i]] <= short[r[j]]
        BY <2>5, <2>12, <3>1, <3>2
      <4> QED BY <2>3, <2>6, <3>1, <3>2, <4>1
    <3>3. CASE j = m + 1
      <4>1. p[i] \in 1..(m + 1)
        BY <2>9
      <4> QED BY <2>1, <2>7, <3>3, <4>1
    <3> QED BY <2>7, <3>2, <3>3
  <2>13. p \in Bijection(1..(m + 1), 1..(m + 1))
    BY <2>9, <2>10, <2>11 DEF Bijection, Injection, Surjection, IsInjective
  <2> QED BY <2>12, <2>13 DEF Orders
<1> HIDE DEF S
<1>3. \A m \in Nat : m \in S
  BY <1>1, <1>2, Induction
<1>4. n \in S
  BY <1>3
<1> QED BY <1>4 DEF S

\* Sorting rearranges emotes so that they stand in the order in which they start.
THEOREM SortedIs ==
    ASSUME NEW B, NEW emotes \in Seq(B), \A i \in 1..Len(emotes) : emotes[i].start \in Nat
    PROVE  \E place \in Bijection(1..Len(emotes), 1..Len(emotes)) :
              /\ Sorted(emotes) = [i \in 1..Len(emotes) |-> emotes[place[i]]]
              /\ \A i, j \in 1..Len(emotes) : i < j => emotes[place[i]].start <= emotes[place[j]].start
<1> DEFINE n     == Len(emotes)
           key   == [i \in 1..n |-> emotes[i].start]
           Fits(p) == \A i, j \in DOMAIN emotes : i < j => emotes[p[i]].start <= emotes[p[j]].start
           order == CHOOSE p \in Bijection(DOMAIN emotes, DOMAIN emotes) : Fits(p)
<1>1. n \in Nat /\ DOMAIN emotes = 1..n
  OBVIOUS
<1>2. PICK p : Orders(n, key, p)
  <2>1. key \in [1..n -> Nat]
    OBVIOUS
  <2> HIDE DEF n, key
  <2> QED BY <1>1, <2>1, OrderExists
<1>3. p \in Bijection(1..n, 1..n) /\ \A i \in 1..n : p[i] \in 1..n
  BY <1>2 DEF Orders, Bijection, Injection
<1>4. Fits(p)
  BY <1>1, <1>2, <1>3 DEF Orders
<1> HIDE DEF Fits
<1>5. order \in Bijection(DOMAIN emotes, DOMAIN emotes) /\ Fits(order)
  BY <1>1, <1>3, <1>4, Zenon
<1>6. Sorted(emotes) = [i \in DOMAIN emotes |-> emotes[order[i]]]
  BY Zenon DEF Sorted, Fits
<1> HIDE DEF order
<1>7. \A i, j \in 1..n : i < j => emotes[order[i]].start <= emotes[order[j]].start
  BY <1>1, <1>5 DEF Fits
<1> QED BY <1>1, <1>5, <1>6, <1>7

\* f of each element of texts.
EachOf(f, texts) == [n \in 1..Len(texts) |-> [i \in 1..Len(texts[n]) |-> f[texts[n][i]]]]

MapsTo(f, A, B) == f \in [A -> B]

MappedBy(f, s) == [i \in 1..Len(s) |-> f[s[i]]]

\* They are texts again.
LEMMA MappedType ==
    ASSUME NEW A, NEW B, NEW f, MapsTo(f, A, B), NEW s \in Seq(A)
    PROVE  /\ MappedBy(f, s) \in Seq(B) /\ Len(MappedBy(f, s)) = Len(s)
           /\ \A i \in 1..Len(s) : MappedBy(f, s)[i] = f[s[i]]
<1>1. Len(s) \in Nat /\ MappedBy(f, s) \in [1..Len(s) -> B]
  BY DEF MappedBy, MapsTo
<1>2. MappedBy(f, s) \in Seq(B) /\ Len(MappedBy(f, s)) = Len(s)
  BY <1>1, FunctionIsSequence
<1>3. \A i \in 1..Len(s) : MappedBy(f, s)[i] = f[s[i]]
  BY DEF MappedBy
<1> QED BY <1>2, <1>3

\* So are sequences of them.
LEMMA EachType ==
    ASSUME NEW A, NEW B, NEW f, MapsTo(f, A, B), NEW texts \in Seq(Seq(A))
    PROVE  /\ EachOf(f, texts) \in Seq(Seq(B)) /\ Len(EachOf(f, texts)) = Len(texts)
           /\ \A n \in 1..Len(texts) : EachOf(f, texts)[n] = MappedBy(f, texts[n])
<1>1. Len(texts) \in Nat /\ \A n \in 1..Len(texts) : texts[n] \in Seq(A)
  OBVIOUS
<1>2. EachOf(f, texts) = [n \in 1..Len(texts) |-> MappedBy(f, texts[n])]
  BY Zenon DEF EachOf, MappedBy
<1>3. \A n \in 1..Len(texts) : MappedBy(f, texts[n]) \in Seq(B)
  BY <1>1, MappedType
<1>4. EachOf(f, texts) \in [1..Len(texts) -> Seq(B)]
  BY <1>2, <1>3
<1>5. EachOf(f, texts) \in Seq(Seq(B)) /\ Len(EachOf(f, texts)) = Len(texts)
  BY <1>1, <1>4, FunctionIsSequence
<1> QED BY <1>2, <1>5

\* Texts of which each element was changed are put together to the elements changed of
\* the texts put together.
LEMMA EachTogether ==
    ASSUME NEW A, NEW B, NEW f, MapsTo(f, A, B), NEW texts \in Seq(Seq(A))
    PROVE  Concat(EachOf(f, texts)) = MappedBy(f, Concat(texts))
<1> DEFINE S == {ts \in Seq(Seq(A)) : Concat(EachOf(f, ts)) = MappedBy(f, Concat(ts))}
<1>1. << >> \in S
  <2>1. EachOf(f, << >>) = << >> /\ MappedBy(f, << >>) = << >>
    BY DEF EachOf, MappedBy
  <2> QED BY <2>1, ConcatNone
<1>2. ASSUME NEW t \in Seq(A), NEW ts \in Seq(Seq(A)), ts \in S PROVE << t >> \o ts \in S
  <2> DEFINE xs == << t >> \o ts
  <2>1. /\ xs \in Seq(Seq(A)) /\ Len(xs) = Len(ts) + 1 /\ Len(ts) \in Nat
        /\ xs[1] = t /\ \A i \in 1..Len(ts) : xs[i + 1] = ts[i]
    OBVIOUS
  <2>2. Concat(xs) = t \o Concat(ts) /\ Concat(ts) \in Seq(A)
    BY ConcatCons, ConcatType
  <2> HIDE DEF xs
  <2> DEFINE ft == MappedBy(f, t)
             fs == EachOf(f, ts)
             fx == EachOf(f, xs)
  <2>3. ft \in Seq(B) /\ fs \in Seq(Seq(B)) /\ Len(fs) = Len(ts) /\ fx \in Seq(Seq(B)) /\ Len(fx) = Len(xs)
    <3>1. ft \in Seq(B)
      BY MappedType
    <3>2. fs \in Seq(Seq(B)) /\ Len(fs) = Len(ts)
      BY EachType
    <3>3. fx \in Seq(Seq(B)) /\ Len(fx) = Len(xs)
      BY <2>1, EachType
    <3> QED BY <3>1, <3>2, <3>3
  <2>4. fx[1] = ft /\ \A i \in 1..Len(ts) : fx[i + 1] = fs[i]
    <3>1. 1 \in 1..Len(xs) /\ \A i \in 1..Len(ts) : i + 1 \in 1..Len(xs)
      BY <2>1
    <3>2. \A i \in 1..Len(xs) : fx[i] = MappedBy(f, xs[i])
      BY <2>1, EachType
    <3>3. \A i \in 1..Len(ts) : fs[i] = MappedBy(f, ts[i])
      BY EachType
    <3> HIDE DEF fx, fs
    <3> QED BY <2>1, <3>1, <3>2, <3>3
  <2> HIDE DEF fx, fs, ft
  <2>5. fx = << ft >> \o fs
    <3> DEFINE g == << ft >> \o fs
    <3>1. g \in Seq(Seq(B)) /\ Len(g) = Len(fs) + 1 /\ g[1] = ft /\ \A i \in 1..Len(fs) : g[i + 1] = fs[i]
      BY <2>3
    <3> HIDE DEF g
    <3>2. \A i \in 1..Len(fx) : fx[i] = g[i]
      <4>1. ASSUME NEW i \in 1..Len(fx) PROVE fx[i] = g[i]
        <5>1. CASE i = 1
          BY <2>4, <3>1, <5>1
        <5>2. CASE i # 1
          <6>1. i - 1 \in 1..Len(ts) /\ i - 1 + 1 = i
            BY <2>1, <2>3, <5>2
          <6>2. fx[i] = fs[i - 1] /\ g[i] = fs[i - 1]
            BY <2>3, <2>4, <3>1, <6>1
          <6> QED BY <6>2
        <5> QED BY <5>1, <5>2
      <4> QED BY <4>1
    <3>3. Len(fx) = Len(g)
      BY <2>1, <2>3, <3>1
    <3>4. fx = g
      BY <2>3, <3>1, <3>2, <3>3, SeqEqual
    <3> QED BY <3>4 DEF g
  <2>6. Concat(fx) = ft \o Concat(fs)
    BY <2>3, <2>5, ConcatCons
  <2>7. Concat(fs) = MappedBy(f, Concat(ts))
    BY <1>2 DEF fs
  <2>8. MappedBy(f, t \o Concat(ts)) = ft \o MappedBy(f, Concat(ts))
    <3> DEFINE c == Concat(ts)
               q == t \o c
               fc == MappedBy(f, c)
               r == ft \o fc
               fq == MappedBy(f, q)
    <3>1. c \in Seq(A) /\ q \in Seq(A) /\ Len(q) = Len(t) + Len(c)
          /\ \A i \in 1..Len(q) : q[i] = IF i <= Len(t) THEN t[i] ELSE c[i - Len(t)]
      BY <2>2
    <3> HIDE DEF c, q
    <3>2. fc \in Seq(B) /\ Len(fc) = Len(c) /\ \A i \in 1..Len(c) : fc[i] = f[c[i]]
      <4>1. c \in Seq(A)
        BY <3>1
      <4> QED BY <4>1, MappedType
    <3>3. fq \in Seq(B) /\ Len(fq) = Len(q) /\ \A i \in 1..Len(q) : fq[i] = f[q[i]]
      <4>1. q \in Seq(A)
        BY <3>1
      <4> QED BY <4>1, MappedType
    <3>4. ft \in Seq(B) /\ Len(ft) = Len(t) /\ \A i \in 1..Len(t) : ft[i] = f[t[i]]
      BY MappedType DEF ft
    <3> HIDE DEF fc, fq
    <3>8. r \in Seq(B) /\ Len(r) = Len(ft) + Len(fc)
          /\ \A i \in 1..Len(r) : r[i] = IF i <= Len(ft) THEN ft[i] ELSE fc[i - Len(ft)]
      <4>1. fc \in Seq(B) /\ ft \in Seq(B)
        BY <3>2, <3>4
      <4> QED BY ONLY <4>1
    <3> HIDE DEF r
    <3>5. Len(t) \in Nat /\ Len(c) \in Nat
      BY <3>1
    <3>6. \A i \in 1..Len(q) : fq[i] = r[i]
      <4>1. ASSUME NEW i \in 1..Len(q) PROVE fq[i] = r[i]
        <5>1. i \in 1..Len(r)
          BY <3>1, <3>2, <3>4, <3>5, <3>8
        <5>2. CASE i <= Len(t)
          <6>1. i \in 1..Len(t)
            BY <5>2
          <6>2. q[i] = t[i] /\ r[i] = ft[i]
            BY <3>1, <3>4, <3>8, <5>1, <5>2
          <6> QED BY <3>3, <3>4, <6>1, <6>2
        <5>3. CASE ~(i <= Len(t))
          <6>1. i - Len(t) \in 1..Len(c)
            BY <3>1, <3>5, <5>3
          <6>2. q[i] = c[i - Len(t)] /\ r[i] = fc[i - Len(t)]
            BY <3>1, <3>4, <3>8, <5>1, <5>3
          <6> QED BY <3>2, <3>3, <6>1, <6>2
        <5> QED BY <5>2, <5>3
      <4> QED BY <4>1
    <3>7. fq = r
      <4>1. Len(fq) = Len(r)
        BY <3>1, <3>2, <3>3, <3>4, <3>8
      <4>2. \A i \in 1..Len(fq) : fq[i] = r[i]
        BY <3>3, <3>6
      <4> QED BY <3>3, <3>8, <4>1, <4>2, SeqEqual
    <3> QED BY <3>7 DEF fq, r, q, fc, c
  <2> QED BY <2>1, <2>2, <2>6, <2>7, <2>8 DEF fx, xs
<1>3. Seq(Seq(A)) \subseteq S
  <2> HIDE DEF S
  <2> QED BY <1>1, <1>2, SequenceInduction
<1> QED BY <1>3

(***************************************************************************)
(* The emotes that are read                                                *)
(***************************************************************************)

\* The emote of a range.
EmoteOf(r, text) == EmoteIn(r.id, r.from, r.to, text)

GoodRange(r) == r.from \in 0..MaxU64 /\ r.to \in 0..MaxU64

\* What is read of a range that is one.
LEMMA RangeRead ==
    ASSUME NEW id, NEW range \in AnyText, NEW text
    PROVE  LET read == EmoteRange(id, range, text)
               sent == RangeSent(id, range)
           IN  /\ Unchecked(read).is # "overflow"
               /\ Okay(read) => GoodRange(sent) /\ Unchecked(read) = Accepted(EmoteOf(sent, text))
<1> DEFINE read == EmoteRange(id, range, text)
           sent == RangeSent(id, range)
<1>1. \/ read.is = "error"
      \/ read = Emote(id, sent.from, sent.to, text) /\ sent.from \in 0..MaxU64 /\ sent.to \in 0..MaxU64
  BY EmoteRangeIs
<1>2. sent.id = id
  BY DEF RangeSent
<1>3. CASE read.is = "error"
  <2>1. Unchecked(read) = read
    BY <1>3, UncheckedIs
  <2> QED BY <1>3, <2>1 DEF Okay
<1>4. CASE read = Emote(id, sent.from, sent.to, text) /\ sent.from \in 0..MaxU64 /\ sent.to \in 0..MaxU64
  <2> DEFINE e == EmoteIn(id, sent.from, sent.to, text)
  <2>1. Emote(id, sent.from, sent.to, text)
          = IF sent.from > sent.to + 1 \/ sent.to = MaxU64 THEN Overflow(Accepted(e)) ELSE Accepted(e)
    BY <1>4, EmoteIs
  <2>2. e = EmoteOf(sent, text)
    BY <1>2 DEF EmoteOf
  <2> HIDE DEF e, read, sent
  <2>3. read = Overflow(Accepted(e)) \/ read = Accepted(e)
    BY <1>4, <2>1
  <2>4. Unchecked(read) = Accepted(e)
    BY <2>3, UncheckedIs, ReadParts
  <2> QED BY <1>4, <2>2, <2>4, ReadParts DEF GoodRange, read, sent
<1> QED BY <1>1, <1>3, <1>4

\* Reads of which none overflows twice do not either when they are made together.
LEMMA AllSane ==
    ASSUME NEW S, NEW reads \in Seq(S), \A i \in 1..Len(reads) : Unchecked(reads[i]).is # "overflow"
    PROVE  Unchecked(All(reads)).is # "overflow"
<1>1. ASSUME NEW k, NEW result, result.is # "overflow"
      PROVE  Unchecked(Overflowing(reads, k, result)) = result
  BY <1>1, UncheckedIs DEF Overflowing
<1>2. \A v : Accepted(v).is # "overflow"
  BY ReadParts
<1> QED BY <1>1, <1>2, AllCases

\* What is read of a part: the emotes of its ranges.
LEMMA PartRead ==
    ASSUME NEW part \in AnyText, NEW text
    PROVE  LET read == EmoteRanges(part, text)
               sent == SentIn(part)
           IN  /\ Unchecked(read).is # "overflow"
               /\ Okay(read) => /\ \A i \in 1..Len(sent) : GoodRange(sent[i])
                                /\ Unchecked(read) = Accepted([i \in 1..Len(sent) |-> EmoteOf(sent[i], text)])
<1> DEFINE read  == EmoteRanges(part, text)
           sent  == SentIn(part)
           reads == ReadIn(part, text)
           n     == Len(PartRanges(part))
           id    == Cut(part, ":")[1]
           S     == {EmoteRange(id, PartRanges(part)[i], text) : i \in 1..n}
<1>1. /\ n \in Nat /\ DOMAIN PartRanges(part) = 1..n /\ id \in AnyText
      /\ \A i \in 1..n : PartRanges(part)[i] \in AnyText
      /\ Len(sent) = n
  BY PartRangesAre
<1>2. /\ \A i \in 1..n : sent[i] = RangeSent(id, PartRanges(part)[i])
      /\ reads = [i \in 1..n |-> EmoteRange(id, PartRanges(part)[i], text)]
  BY <1>1 DEF SentIn, ReadIn
<1>3. reads \in Seq(S) /\ Len(reads) = n
  <2>1. reads \in [1..n -> S]
    BY <1>2
  <2> HIDE DEF reads, n, S
  <2> QED BY <1>1, <2>1, FunctionIsSequence
<1>4. \A i \in 1..n : reads[i] = EmoteRange(id, PartRanges(part)[i], text)
  BY <1>2
<1>5. read = Refused("MalformedTagValue") \/ read = All(reads)
  BY EmoteRangesIs, Zenon
<1> HIDE DEF reads, sent, n, id, S, read
<1>6. \A i \in 1..n : /\ Unchecked(reads[i]).is # "overflow"
                      /\ Okay(reads[i]) => GoodRange(sent[i]) /\ Unchecked(reads[i]) = Accepted(EmoteOf(sent[i], text))
  BY <1>1, <1>2, <1>4, RangeRead
<1>7. CASE read = Refused("MalformedTagValue")
  <2>1. Unchecked(read).is = "error"
    BY <1>7, ReadParts, UncheckedIs
  <2> QED BY <2>1 DEF Okay, read, sent
<1>8. CASE read = All(reads)
  <2>1. Unchecked(read).is # "overflow"
    <3>1. \A i \in 1..Len(reads) : Unchecked(reads[i]).is # "overflow"
      BY <1>3, <1>6
    <3> QED BY <1>3, <1>8, <3>1, AllSane
  <2>2. ASSUME Okay(read)
        PROVE  /\ \A i \in 1..n : GoodRange(sent[i])
               /\ Unchecked(read) = Accepted([i \in 1..n |-> EmoteOf(sent[i], text)])
    <3>1. /\ \A i \in 1..n : Okay(reads[i])
          /\ Unchecked(read) = Accepted(ValuesOf(reads))
      BY <1>3, <1>6, <1>8, <2>2, AllOkay
    <3>2. ValuesOf(reads) = [i \in 1..n |-> Unchecked(reads[i]).value]
      BY <1>3 DEF ValuesOf
    <3>3. \A i \in 1..n : Unchecked(reads[i]).value = EmoteOf(sent[i], text)
      BY <1>6, <3>1, ReadParts
    <3>4. ValuesOf(reads) = [i \in 1..n |-> EmoteOf(sent[i], text)]
      BY <3>2, <3>3
    <3> QED BY <1>6, <3>1, <3>4
  <2> QED BY <1>1, <2>1, <2>2 DEF read, sent
<1> QED BY <1>5, <1>7, <1>8

\* The ranges that can be read, and the emotes of them.
GoodRanges == {r \in RangeRecords : GoodRange(r)}

EmotesOn(text) == {EmoteOf(r, text) : r \in GoodRanges}

EmoteFor(text) == [r \in GoodRanges |-> EmoteOf(r, text)]

\* What an emotes tag that is accepted is read as: the emotes of its ranges, in order.
InOrder(emotes, sent, text) ==
    \E place \in Bijection(1..Len(sent), 1..Len(sent)) :
        /\ emotes = [i \in 1..Len(sent) |-> EmoteOf(sent[place[i]], text)]
        /\ \A i, j \in 1..Len(sent) : i < j => sent[place[i]].from <= sent[place[j]].from

\* The emotes of ranges, sorted.
LEMMA SortedInOrder ==
    ASSUME NEW sent \in Seq(GoodRanges), NEW text
    PROVE  InOrder(Sorted(MappedBy(EmoteFor(text), sent)), sent, text)
<1> DEFINE f == EmoteFor(text)
           e == MappedBy(f, sent)
           B == EmotesOn(text)
<1>1. MapsTo(f, GoodRanges, B)
  BY DEF MapsTo, EmoteFor, EmotesOn
<1> HIDE DEF f, B
<1>2. e \in Seq(B) /\ Len(e) = Len(sent) /\ \A i \in 1..Len(sent) : e[i] = f[sent[i]]
  BY <1>1, MappedType
<1>3. Len(sent) \in Nat /\ \A i \in 1..Len(sent) : sent[i] \in GoodRanges
  OBVIOUS
<1>4. \A i \in 1..Len(sent) : e[i] = EmoteOf(sent[i], text)
  BY <1>2, <1>3 DEF f, EmoteFor
<1>5. \A i \in 1..Len(sent) : e[i].start = sent[i].from /\ sent[i].from \in Nat
  <2>1. \A r : EmoteOf(r, text).start = r.from
    BY DEF EmoteOf, EmoteIn
  <2>2. \A r \in GoodRanges : r.from \in Nat
    BY NumbersAre DEF GoodRanges, GoodRange
  <2> QED BY <1>3, <1>4, <2>1, <2>2
<1> HIDE DEF e
<1>6. PICK place \in Bijection(1..Len(e), 1..Len(e)) :
         /\ Sorted(e) = [i \in 1..Len(e) |-> e[place[i]]]
         /\ \A i, j \in 1..Len(e) : i < j => e[place[i]].start <= e[place[j]].start
  BY <1>2, <1>5, SortedIs
<1>7. \A i \in 1..Len(sent) : place[i] \in 1..Len(sent)
  BY <1>2 DEF Bijection, Injection
<1>8. Sorted(e) = [i \in 1..Len(sent) |-> EmoteOf(sent[place[i]], text)]
  BY <1>2, <1>4, <1>6, <1>7
<1>9. \A i, j \in 1..Len(sent) : i < j => sent[place[i]].from <= sent[place[j]].from
  <2> SUFFICES ASSUME NEW i \in 1..Len(sent), NEW j \in 1..Len(sent), i < j
               PROVE  sent[place[i]].from <= sent[place[j]].from
    OBVIOUS
  <2>1. e[place[i]].start <= e[place[j]].start
    BY <1>2, <1>6
  <2>2. e[place[i]].start = sent[place[i]].from /\ e[place[j]].start = sent[place[j]].from
    BY <1>5, <1>7
  <2> QED BY <2>1, <2>2
<1>10. place \in Bijection(1..Len(sent), 1..Len(sent))
  BY <1>2
<1> QED BY <1>8, <1>9, <1>10 DEF InOrder, e, f

\* What is read of an emotes tag.
LEMMA EmotesAre ==
    ASSUME NEW m, OfTexts(m), NEW key, NEW text
    PROVE  LET read == Emotes(m, key, text)
               sent == RangesSent(m.tags[<< key >>])
           IN  /\ Unchecked(read).is # "overflow"
               /\ Okay(read) => /\ sent \in Seq(GoodRanges)
                                /\ InOrder(Unchecked(read).value, sent, text)
<1> DEFINE read == Emotes(m, key, text)
           sent == RangesSent(m.tags[<< key >>])
<1>1. CASE ~HasTag(m, key)
  <2>1. read = Refused("MissingTag")
    BY <1>1, Zenon DEF Emotes, TagValue
  <2>2. Unchecked(read).is = "error"
    BY <2>1, ReadParts, UncheckedIs
  <2> QED BY <2>2 DEF Okay
<1>2. CASE HasTag(m, key)
  <2> DEFINE parts == Parts(m, key, "/")
             sents == [n \in DOMAIN parts |-> SentIn(parts[n])]
             reads == [i \in DOMAIN parts |-> EmoteRanges(parts[i], text)]
             S     == {EmoteRanges(parts[i], text) : i \in 1..Len(parts)}
             all   == All(reads)
             v     == ValuesOf(reads)
             f     == EmoteFor(text)
             B     == EmotesOn(text)
  <2>1. /\ parts \in Seq(AnyText) /\ DOMAIN parts = 1..Len(parts)
        /\ sents \in Seq(Seq(RangeRecords)) /\ Len(sents) = Len(parts)
        /\ sent = Concat(sents)
    BY <1>2, RangesSentIs
  <2>2. read = ByStart(all)
    BY <1>2, Zenon DEF Emotes
  <2> HIDE DEF parts
  <2>3. \A i \in 1..Len(parts) : /\ parts[i] \in AnyText /\ sents[i] = SentIn(parts[i])
                                 /\ reads[i] = EmoteRanges(parts[i], text)
    BY <2>1
  <2>4. reads \in Seq(S) /\ Len(reads) = Len(parts) /\ Len(parts) \in Nat
    <3>1. reads \in [1..Len(parts) -> S]
      BY <2>1
    <3>2. Len(parts) \in Nat
      BY <2>1
    <3> HIDE DEF reads, S
    <3> QED BY <3>1, <3>2, FunctionIsSequence
  <2> HIDE DEF sents, reads, S, read, sent
  <2>5. \A i \in 1..Len(parts) :
           /\ Unchecked(reads[i]).is # "overflow"
           /\ Okay(reads[i]) => /\ \A k \in 1..Len(sents[i]) : GoodRange(sents[i][k])
                                /\ Unchecked(reads[i])
                                     = Accepted([k \in 1..Len(sents[i]) |-> EmoteOf(sents[i][k], text)])
    BY <2>3, PartRead
  <2>6. Unchecked(all).is # "overflow"
    BY <2>4, <2>5, AllSane
  <2>7. CASE Unchecked(all).is # "ok"
    <3>1. read = all
      BY <2>2, <2>7, ByStartIs
    <3> QED BY <2>6, <2>7, <3>1 DEF Okay, read, sent
  <2>8. CASE Unchecked(all).is = "ok"
    <3>1. (\A i \in 1..Len(parts) : Okay(reads[i])) /\ Unchecked(all) = Accepted(v)
      BY <2>4, <2>5, <2>8, AllOkay DEF Okay
    <3>2. sents \in Seq(Seq(GoodRanges))
      <4>1. ASSUME NEW i \in 1..Len(parts) PROVE sents[i] \in Seq(GoodRanges)
        <5>1. sents[i] \in Seq(RangeRecords)
          BY <2>1, <2>4
        <5>2. \A k \in 1..Len(sents[i]) : GoodRange(sents[i][k])
          BY <2>5, <3>1
        <5>3. \A k \in 1..Len(sents[i]) : sents[i][k] \in RangeRecords
          BY <5>1
        <5>4. \A k \in 1..Len(sents[i]) : sents[i][k] \in GoodRanges
          BY <5>2, <5>3 DEF GoodRanges
        <5>5. sents[i] \in [1..Len(sents[i]) -> GoodRanges] /\ Len(sents[i]) \in Nat
          BY <5>1, <5>4
        <5> QED BY <5>5, FunctionIsSequence
      <4>2. sents \in [1..Len(sents) -> Seq(GoodRanges)] /\ Len(sents) \in Nat
        BY <2>1, <2>4, <4>1
      <4> QED BY <4>2, FunctionIsSequence
    <3>3. MapsTo(f, GoodRanges, B)
      BY DEF MapsTo, EmoteFor, EmotesOn
    <3>4. v = EachOf(f, sents)
      <4>1. v = [i \in 1..Len(parts) |-> Unchecked(reads[i]).value]
        BY <2>4 DEF ValuesOf
      <4>2. ASSUME NEW i \in 1..Len(parts)
            PROVE  Unchecked(reads[i]).value = [k \in 1..Len(sents[i]) |-> f[sents[i][k]]]
        <5>1. Unchecked(reads[i]).value = [k \in 1..Len(sents[i]) |-> EmoteOf(sents[i][k], text)]
          BY <2>5, <3>1, ReadParts
        <5>2. sents[i] \in Seq(GoodRanges)
          BY <2>1, <3>2
        <5>3. \A k \in 1..Len(sents[i]) : f[sents[i][k]] = EmoteOf(sents[i][k], text)
          BY <5>2 DEF EmoteFor
        <5> QED BY <5>1, <5>3
      <4>3. EachOf(f, sents) = [n \in 1..Len(parts) |-> [k \in 1..Len(sents[n]) |-> f[sents[n][k]]]]
        BY <2>1 DEF EachOf
      <4> HIDE DEF v, f
      <4> QED BY <4>1, <4>2, <4>3
    <3> HIDE DEF all, v, f, B
    <3>5. Concat(v) = MappedBy(f, sent)
      BY <2>1, <3>2, <3>3, <3>4, EachTogether
    <3>6. sent \in Seq(GoodRanges)
      BY <2>1, <3>2, ConcatType
    <3> DEFINE w == Sorted(Concat(v))
    <3>7. InOrder(w, sent, text)
      BY <3>5, <3>6, SortedInOrder DEF f
    <3>8. ByStart(all) = IF all.is = "overflow" THEN Overflow(Accepted(w)) ELSE Accepted(w)
      BY <3>1, ByStartIs
    <3> HIDE DEF w
    <3>9. read = Overflow(Accepted(w)) \/ read = Accepted(w)
      BY <2>2, <3>8 DEF all
    <3>10. Unchecked(read) = Accepted(w)
      BY <3>9, UncheckedIs, ReadParts
    <3>11. Unchecked(read).is # "overflow" /\ Unchecked(read).value = w
      BY <3>10, ReadParts
    <3> QED BY <3>6, <3>7, <3>11 DEF read, sent
  <2> QED BY <2>7, <2>8
<1> QED BY <1>1, <1>2

\* What is said of emotes that were read.
Cutting(emotes, sent, said) ==
    /\ \A i, j \in DOMAIN emotes : i < j => emotes[i].start <= emotes[j].start
    /\ \E place \in Bijection(DOMAIN emotes, DOMAIN sent) : \A i \in DOMAIN emotes :
         LET range == sent[place[i]]
         IN  /\ emotes[i].id = range.id /\ emotes[i].start = range.from
             /\ emotes[i].end = Wrapped(range.to + 1)
             /\ range.from <= range.to /\ range.to < MaxU64 =>
                  emotes[i].code = SubSeq(said, range.from + 1,
                                          IF range.to < Len(said) THEN range.to + 1 ELSE Len(said))

\* An emote of a range that can be read covers what is said there.
LEMMA EmoteCuts ==
    ASSUME NEW r, GoodRange(r), NEW said \in AnyText
    PROVE  LET e == EmoteOf(r, said)
           IN  /\ e.id = r.id /\ e.start = r.from /\ e.end = Wrapped(r.to + 1)
               /\ r.from <= r.to /\ r.to < MaxU64 =>
                    e.code = SubSeq(said, r.from + 1, IF r.to < Len(said) THEN r.to + 1 ELSE Len(said))
<1> DEFINE e == EmoteOf(r, said)
           length == Wrapped(Wrapped(r.to + 1) - r.from)
<1>1. e.id = r.id /\ e.start = r.from /\ e.end = Wrapped(r.to + 1)
  BY DEF EmoteOf, EmoteIn
<1>2. e.code = SubSeq(said, r.from + 1, IF r.from + length > Len(said) THEN Len(said) ELSE r.from + length)
  BY DEF EmoteOf, EmoteIn
<1>3. ASSUME r.from <= r.to, r.to < MaxU64
      PROVE  e.code = SubSeq(said, r.from + 1, IF r.to < Len(said) THEN r.to + 1 ELSE Len(said))
  <2>1. r.from \in Nat /\ r.to \in Nat /\ MaxU64 \in Nat
    BY NumbersAre DEF GoodRange
  <2>2. r.to + 1 \in 0..MaxU64 /\ r.to + 1 - r.from \in 0..MaxU64
    BY <1>3, <2>1
  <2>3. Wrapped(r.to + 1) = r.to + 1
    BY <2>2, WrappedIs
  <2>4. length = r.to + 1 - r.from
    <3> DEFINE w == Wrapped(r.to + 1)
               d == r.to + 1 - r.from
    <3>1. length = Wrapped(d)
      <4>1. length = Wrapped(w - r.from)
        OBVIOUS
      <4>2. w = r.to + 1
        BY <2>3
      <4> HIDE DEF length, w
      <4>3. w - r.from = d
        BY <2>1, <4>2
      <4> HIDE DEF d
      <4> QED BY <4>1, <4>3
    <3>2. Wrapped(r.to + 1 - r.from) = r.to + 1 - r.from
      BY <2>2, WrappedIs
    <3> QED BY <3>1, <3>2
  <2> HIDE DEF length, e
  <2>5. r.from + length = r.to + 1
    BY <2>1, <2>4
  <2>6. Len(said) \in Nat
    BY DEF AnyText
  <2>7. (r.from + length > Len(said)) <=> ~(r.to < Len(said))
    BY <2>1, <2>5, <2>6
  <2> QED BY <1>2, <2>5, <2>7
<1> QED BY <1>1, <1>3

\* So do all that are read of a tag.
LEMMA InOrderCuts ==
    ASSUME NEW sent \in Seq(GoodRanges), NEW said \in AnyText, NEW emotes, InOrder(emotes, sent, said)
    PROVE  Cutting(emotes, sent, said)
<1>1. PICK place \in Bijection(1..Len(sent), 1..Len(sent)) :
         /\ emotes = [i \in 1..Len(sent) |-> EmoteOf(sent[place[i]], said)]
         /\ \A i, j \in 1..Len(sent) : i < j => sent[place[i]].from <= sent[place[j]].from
  BY DEF InOrder
<1>2. \A i \in 1..Len(sent) : place[i] \in 1..Len(sent)
  BY DEF Bijection, Injection
<1>3. \A i \in 1..Len(sent) : sent[i] \in GoodRanges
  OBVIOUS
<1>4. DOMAIN emotes = 1..Len(sent) /\ DOMAIN sent = 1..Len(sent)
  BY <1>1
<1>5. \A i \in 1..Len(sent) : GoodRange(sent[place[i]]) /\ emotes[i] = EmoteOf(sent[place[i]], said)
  BY <1>1, <1>2, <1>3 DEF GoodRanges
<1>6. ASSUME NEW i \in 1..Len(sent)
      PROVE  LET range == sent[place[i]]
             IN  /\ emotes[i].id = range.id /\ emotes[i].start = range.from
                 /\ emotes[i].end = Wrapped(range.to + 1)
                 /\ range.from <= range.to /\ range.to < MaxU64 =>
                      emotes[i].code = SubSeq(said, range.from + 1,
                                              IF range.to < Len(said) THEN range.to + 1 ELSE Len(said))
  BY <1>5, EmoteCuts
<1>7. \A i, j \in 1..Len(sent) : i < j => emotes[i].start <= emotes[j].start
  <2>1. \A i \in 1..Len(sent) : emotes[i].start = sent[place[i]].from
    BY <1>6
  <2> QED BY <1>1, <2>1
<1> QED BY <1>4, <1>6, <1>7 DEF Cutting

(***************************************************************************)
(* What a typed message holds                                              *)
(***************************************************************************)

\* What a read that may do anything may do.
Anything == {"panic", "overflow"}

\* To it any message is orderly.
LEMMA AlwaysOrderly == ASSUME NEW m, OfTexts(m) PROVE Orderly(m, Anything)
<1>1. "panic" \in Anything /\ "overflow" \in Anything
  BY DEF Anything
<1> QED BY <1>1, Zenon DEF Orderly, DisorderedIn

\* What comes of a message is typed if and only if its fields are accepted.
LEMMA OutcomeTyped ==
    ASSUME NEW m, NEW made
    PROVE  /\ Outcome(m, made).is = "typed" <=> made.is = "ok"
           /\ made.is = "ok" => Outcome(m, made) = Typed(m, made.value)
<1>1. CASE made.is = "ok"
  <2>1. Outcome(m, made) = Typed(m, made.value)
    BY <1>1, Zenon DEF Outcome
  <2> QED BY <1>1, <2>1 DEF Typed
<1>2. CASE made.is # "ok"
  <2>1. \/ Outcome(m, made) = [is |-> "error", error |-> made.error, source |-> m]
        \/ Outcome(m, made) = Panicked(m)
    BY <1>2, Zenon DEF Outcome
  <2>2. Outcome(m, made).is \in {"error", "panic"}
    BY <2>1 DEF Panicked
  <2> QED BY <1>2, <2>2
<1> QED BY <1>1, <1>2

\* Whether a build checks arithmetic or not, a message is typed only when all of its
\* fields are accepted, and holds their values.
LEMMA TypedIs ==
    ASSUME NEW m, OfTexts(m), NEW checks, TryFrom(m, checks).is = "typed"
    PROVE  /\ TryFrom(m, checks) = Typed(m, ValuesOf(Reads(m)))
           /\ \A k \in 1..Len(Reads(m)) : Okay(Reads(m)[k])
           /\ \E S : Reads(m) \in Seq(S)
<1> DEFINE may   == Anything
           reads == Reads(m)
           all   == All(reads)
           made  == OrPanic(all, checks)
<1>1. HarmlessReads(reads, may)
  <2>1. Orderly(m, may)
    BY AlwaysOrderly
  <2> QED BY <2>1, ReadsHarmless
<1> HIDE DEF reads
<1>2. PICK S : reads \in Seq(S) /\ \A r \in S : Harmless(r, may)
  BY <1>1 DEF HarmlessReads
<1>3. \A i \in 1..Len(reads) : Unchecked(reads[i]).is # "overflow"
  <2>1. \A i \in 1..Len(reads) : reads[i] \in S
    BY <1>2
  <2> QED BY <1>2, <2>1 DEF Harmless, Allowed, Settled
<1>4. TryFrom(m, checks) = Outcome(m, made)
  <2>1. TryFrom(m, checks) = Outcome(m, made) \/ TryFrom(m, checks) = Generic(m)
    BY Zenon DEF TryFrom, reads
  <2>2. Generic(m).is = "generic"
    BY DEF Generic
  <2> QED BY <2>1, <2>2
<1> HIDE DEF all, made
<1>5. made.is = "ok" /\ TryFrom(m, checks) = Typed(m, made.value)
  BY <1>4, OutcomeTyped
<1>6. Unchecked(all) = made
  <2>1. made = Panic \/ made = Unchecked(all)
    BY DEF made, OrPanic
  <2> QED BY <1>5, <2>1, ReadParts
<1>7. /\ \A i \in 1..Len(reads) : Okay(reads[i])
      /\ Unchecked(all) = Accepted(ValuesOf(reads))
  <2>1. Okay(all)
    BY <1>5, <1>6 DEF Okay
  <2> QED BY <1>2, <1>3, <2>1, AllOkay DEF all
<1>8. made.value = ValuesOf(reads)
  BY <1>6, <1>7, ReadParts
<1> QED BY <1>2, <1>5, <1>7, <1>8 DEF reads

\* Where a sequence that follows another begins.
LEMMA JoinedAt ==
    ASSUME NEW S, NEW s \in Seq(S), NEW t \in Seq(S), Len(t) > 0
    PROVE  Len(s \o t) = Len(s) + Len(t) /\ (s \o t)[Len(s) + 1] = t[1]
<1> DEFINE r == s \o t
<1>1. /\ Len(r) = Len(s) + Len(t) /\ Len(s) \in Nat /\ Len(t) \in Nat
      /\ \A i \in 1..Len(r) : r[i] = IF i <= Len(s) THEN s[i] ELSE t[i - Len(s)]
  OBVIOUS
<1>2. Len(t) > 0
  OBVIOUS
<1> HIDE DEF r
<1>3. Len(s) + 1 \in 1..Len(r) /\ ~(Len(s) + 1 <= Len(s)) /\ Len(s) + 1 - Len(s) = 1
  BY <1>1, <1>2
<1> QED BY <1>1, <1>3 DEF r

\* Where the emotes of a message are among its fields.
LEMMA EmotesAt ==
    ASSUME NEW m, OfTexts(m), NEW S, Reads(m) \in Seq(S), ReadsEmotes(m),
           \A k \in 1..Len(Reads(m)) : Okay(Reads(m)[k])
    PROVE  /\ Spoken(m) \in AnyText
           /\ \E k \in 1..Len(Reads(m)) :
                /\ Reads(m)[k] = Emotes(m, "emotes", Spoken(m))
                /\ \A r : r.source = m /\ r.values = ValuesOf(Reads(m)) => EmotesOf(r) = r.values[k]
<1> DEFINE reads == Reads(m)
<1>1. m.params \in Seq(AnyText) /\ Len(m.params) \in Nat
  BY DEF OfTexts
<1>2. Len(m.params) > 1 => m.params[2] \in AnyText
  BY <1>1
<1>3. Okay(Param(m, 2)) => Len(m.params) > 1
  <2>1. Len(m.params) < 2 => Param(m, 2) = Refused("MissingParameter")
    BY <1>1 DEF Param
  <2> QED BY <1>1, <2>1, ReadParts, UncheckedIs DEF Okay
<1>4. Len(ValuesOf(reads)) = Len(reads)
  <2>1. Len(reads) \in Nat
    OBVIOUS
  <2> HIDE DEF reads
  <2> QED BY <2>1 DEF ValuesOf
<1>5. CASE m.command = << "PRIVMSG" >>
  <2> DEFINE text   == m.params[2]
             inner  == SubSeq(text, 4, Len(text) - 1)
             framed == /\ Len(text) > 3 /\ SubSeq(text, 1, 3) = << "SOH", "ACTION", Space >>
                       /\ Last(text) = "SOH"
  <2>1. reads = PrivmsgReads(m)
    BY <1>5 DEF Reads
  <2>2. reads[1] = MessageText(m) /\ reads[11] = Emotes(m, "emotes", Text(m)) /\ Len(reads) = 14
    BY <2>1 DEF PrivmsgReads
  <2>3. Okay(MessageText(m))
    BY <2>2
  <2>4. MessageText(m).is = "ok" /\ Settled(Param(m, 2))
    <3>1. Settled(MessageText(m)) /\ Settled(Param(m, 2))
      BY ParamsSettle
    <3> QED BY <2>3, <3>1, SettledIs DEF Okay
  <2>5. Param(m, 2).is # "error"
    <3>1. Param(m, 2).is = "error" => MessageText(m) = Param(m, 2)
      BY Zenon DEF MessageText
    <3> QED BY <2>4, <3>1
  <2>6. Param(m, 2) = Accepted(text) /\ Len(m.params) > 1
    BY <1>1, <2>5, ReadParts DEF Param
  <2>7. MessageText(m) = IF framed THEN Accepted([text |-> inner, action |-> TRUE])
                         ELSE Accepted([text |-> text, action |-> FALSE])
    <3>1. Param(m, 2).value = text
      BY <2>6, ReadParts
    <3> QED BY <2>5, <3>1, Zenon DEF MessageText, Space
  <2>8. Spoken(m) = IF framed THEN inner ELSE text
    BY <1>5, Zenon DEF Spoken, Space
  <2>9. text \in AnyText /\ inner \in AnyText
    <3>1. text \in Seq(Characters)
      BY <1>2, <2>6 DEF AnyText
    <3>2. inner \in Seq(Characters)
      BY <3>1
    <3> QED BY <3>1, <3>2 DEF AnyText
  <2> HIDE DEF framed, inner, text
  <2>10. MessageText(m).value.text = Spoken(m)
    BY <2>7, <2>8, ReadParts
  <2>11. Text(m) = Spoken(m)
    BY <2>4, <2>10 DEF Text
  <2>12. Spoken(m) \in AnyText
    BY <2>8, <2>9
  <2>13. \A r : r.source = m => EmotesOf(r) = r.values[11]
    BY <1>5 DEF EmotesOf
  <2> HIDE DEF reads
  <2>14. 11 \in 1..Len(reads) /\ reads[11] = Emotes(m, "emotes", Spoken(m))
    BY <2>2, <2>11
  <2> QED BY <2>12, <2>13, <2>14 DEF reads
<1>6. CASE m.command = << "WHISPER" >>
  <2> DEFINE emotes == IF Len(m.params) > 1 THEN Emotes(m, "emotes", m.params[2]) ELSE Param(m, 2)
  <2>1. reads = WhisperReads(m)
    BY <1>6 DEF Reads
  <2>2. reads[1] = Param(m, 2) /\ reads[2] = emotes /\ Len(reads) = 8
    BY <2>1 DEF WhisperReads
  <2>3. Len(m.params) > 1
    <3>1. Okay(reads[1])
      BY <2>2
    <3> QED BY <1>3, <2>2, <3>1
  <2>4. Spoken(m) = m.params[2]
    <3>1. m.command # << "PRIVMSG" >>
      BY <1>6
    <3> QED BY <3>1, Zenon DEF Spoken
  <2>5. \A r : r.source = m => EmotesOf(r) = r.values[2]
    BY <1>6 DEF EmotesOf
  <2> HIDE DEF reads
  <2>6. 2 \in 1..Len(reads) /\ reads[2] = Emotes(m, "emotes", Spoken(m))
    BY <2>2, <2>3, <2>4
  <2> QED BY <1>2, <2>3, <2>4, <2>5, <2>6 DEF reads
<1>7. CASE m.command = << "USERNOTICE" >> /\ Len(m.params) > 1
  <2> DEFINE msgId  == Nonempty(m, "msg-id")
             event  == IF msgId.is = "ok" /\ Len(msgId.value) = 1
                       THEN EventReads(m, Head(msgId.value), UserNoticeEvent(m, Head(msgId.value))) ELSE << >>
             emotes == IF Len(m.params) > 1 THEN Emotes(m, "emotes", m.params[2]) ELSE Accepted(<< >>)
             first  == << Nonempty(m, "user-id"), Nonempty(m, "login"), Nonempty(m, "display-name"), msgId >>
             rest   == << emotes, ChannelLogin(m), Nonempty(m, "room-id"), TagValue(m, "system-msg"),
                          Badges(m, "badge-info"), Badges(m, "badges"), Color(m, "color"), Nonempty(m, "id"),
                          Timestamp(m, "tmi-sent-ts") >>
             front  == first \o event
             k      == Len(reads) - 8
  <2>1. reads = front \o rest
    <3>1. reads = UserNoticeReads(m)
      BY <1>7 DEF Reads
    <3>2. UserNoticeReads(m) = front \o rest
      BY Zenon DEF UserNoticeReads
    <3> QED BY <3>1, <3>2
  <2>2. \E U : front \in Seq(U)
    <3>1. PICK T : event \in Seq(T)
      <4>1. HarmlessReads(event, Anything)
        BY AlwaysOrderly, EventHarmless, Together
      <4> QED BY <4>1 DEF HarmlessReads
    <3> DEFINE F == {first[i] : i \in 1..4}
               U == F \cup T
    <3>2. first \in Seq(F)
      OBVIOUS
    <3> HIDE DEF first, event, F
    <3>3. first \in Seq(U) /\ event \in Seq(U)
      BY <3>1, <3>2
    <3> HIDE DEF U
    <3>4. first \o event \in Seq(U)
      BY <3>3
    <3> QED BY <3>4
  <2>3. Len(rest) = 9 /\ rest[1] = emotes
    OBVIOUS
  <2>4. Spoken(m) = m.params[2]
    <3>1. m.command # << "PRIVMSG" >>
      BY <1>7
    <3> QED BY <3>1, Zenon DEF Spoken
  <2>5. \A r : r.source = m => EmotesOf(r) = r.values[Len(r.values) - 8]
    BY <1>7 DEF EmotesOf
  <2>6. k \in 1..Len(reads) /\ reads[k] = emotes
    <3> DEFINE V == {rest[i] : i \in 1..9}
    <3>1. rest \in Seq(V)
      OBVIOUS
    <3>2. PICK U : front \in Seq(U)
      BY <2>2
    <3> HIDE DEF rest, front, V, reads, emotes
    <3>3. front \in Seq(U \cup V) /\ rest \in Seq(U \cup V)
      BY <3>1, <3>2
    <3>4. /\ Len(reads) = Len(front) + 9 /\ Len(front) \in Nat
          /\ reads[Len(front) + 1] = rest[1]
      <4> DEFINE W == U \cup V
      <4>1. front \in Seq(W) /\ rest \in Seq(W)
        BY <3>3
      <4> HIDE DEF W
      <4>2. Len(front) \in Nat /\ Len(rest) = 9
        BY <2>3, <4>1
      <4>3. Len(rest) > 0
        BY <4>2
      <4>4. Len(front \o rest) = Len(front) + 9 /\ (front \o rest)[Len(front) + 1] = rest[1]
        BY <4>1, <4>2, <4>3, JoinedAt
      <4> QED BY <2>1, <4>2, <4>4
    <3>5. k = Len(front) + 1
      BY <3>4
    <3> HIDE DEF k
    <3> QED BY <2>3, <3>4, <3>5
  <2>7. \A r : r.source = m /\ r.values = ValuesOf(reads) => EmotesOf(r) = r.values[k]
    BY <1>4, <2>5
  <2>8. emotes = Emotes(m, "emotes", Spoken(m))
    BY <1>7, <2>4
  <2> HIDE DEF reads, k, emotes
  <2> QED BY <1>2, <1>7, <2>4, <2>6, <2>7, <2>8 DEF reads
<1> QED BY <1>5, <1>6, <1>7 DEF ReadsEmotes

\* What is read of the emotes of a typed message.
LEMMA TypedEmotes ==
    ASSUME NEW m, OfTexts(m), NEW checks, TryFrom(m, checks).is = "typed", ReadsEmotes(m)
    PROVE  LET r == TryFrom(m, checks)
           IN  r.source = m /\ Cutting(EmotesOf(r), RangesSent(m.tags[<< "emotes" >>]), Spoken(m))
<1> DEFINE reads  == Reads(m)
           values == ValuesOf(reads)
           r      == TryFrom(m, checks)
           sent   == RangesSent(m.tags[<< "emotes" >>])
           said   == Spoken(m)
<1>1. /\ r = Typed(m, values)
      /\ \A k \in 1..Len(reads) : Okay(reads[k])
      /\ \E S : reads \in Seq(S)
  BY TypedIs
<1>2. r.source = m /\ r.values = values
  BY <1>1 DEF Typed
<1>3. PICK S : reads \in Seq(S)
  BY <1>1
<1>4. /\ said \in AnyText
      /\ \E k \in 1..Len(reads) :
           /\ reads[k] = Emotes(m, "emotes", said)
           /\ \A x : x.source = m /\ x.values = values => EmotesOf(x) = x.values[k]
  BY <1>1, <1>3, EmotesAt
<1>5. PICK k \in 1..Len(reads) :
           /\ reads[k] = Emotes(m, "emotes", said)
           /\ \A x : x.source = m /\ x.values = values => EmotesOf(x) = x.values[k]
  BY <1>4
<1> HIDE DEF reads, r, sent, said
<1>6. EmotesOf(r) = Unchecked(Emotes(m, "emotes", said)).value
  <2>1. EmotesOf(r) = values[k]
    BY <1>2, <1>5
  <2>2. values[k] = Unchecked(reads[k]).value
    BY <1>5 DEF ValuesOf
  <2> QED BY <1>5, <2>1, <2>2
<1>7. Okay(Emotes(m, "emotes", said))
  BY <1>1, <1>5
<1>8. sent \in Seq(GoodRanges) /\ InOrder(EmotesOf(r), sent, said)
  BY <1>6, <1>7, EmotesAre DEF sent
<1>9. Cutting(EmotesOf(r), sent, said)
  BY <1>4, <1>8, InOrderCuts
<1> QED BY <1>2, <1>9 DEF r, sent, said

\* The emotes of every message that is handed out as typed are those of its tag, in the
\* order in which they start, and cover the text in the ranges that were sent, whatever
\* the tag holds and in either build.
THEOREM EmotesCutTheTextCorrect == Spec => []EmotesCutTheText
<1>1. FlowInv => EmotesCutTheText
  <2> SUFFICES ASSUME FlowInv
               PROVE  \A r \in Received : r.is = "typed" /\ ReadsEmotes(r.source) =>
                         Cutting(EmotesOf(r), RangesSent(r.source.tags[<< "emotes" >>]), Spoken(r.source))
    BY Zenon DEF EmotesCutTheText, Cutting
  <2> TAKE r \in Received
  <2> HAVE r.is = "typed" /\ ReadsEmotes(r.source)
  <2>1. r \in Handing(checked)
    <3>1. received \in Seq(Handing(checked))
      BY DEF FlowInv, FlowTypes
    <3> QED BY <3>1 DEF Received, ToSet
  <2>2. PICK p \in Results : r = HandedOut(p, checked)
    BY <2>1 DEF Handing
  <2> DEFINE m == r.source
  <2>3. IsMessage(m) /\ p = Accepted(m)
    <3>1. HandedOut(p, checked).is # "closed"
      BY <2>2
    <3> QED BY <2>2, <3>1, HandedOutKinds
  <2>4. r = OrGeneric(TryFrom(m, checked))
    <3>1. p.is # "error" /\ p.value = m
      BY <2>3, ResultParts
    <3> HIDE DEF m
    <3> QED BY <2>2, <3>1, Zenon DEF HandedOut
  <2>5. r = TryFrom(m, checked)
    <3> HIDE DEF m
    <3>1. r.is = "typed"
      OBVIOUS
    <3>2. \A n : Generic(n).is = "generic"
      BY DEF Generic
    <3> QED BY <2>4, <3>1, <3>2 DEF OrGeneric
  <2>6. OfTexts(m)
    BY <2>3, MessageOfTexts
  <2>7. TryFrom(m, checked).is = "typed" /\ ReadsEmotes(m)
    BY <2>5
  <2> HIDE DEF m
  <2>8. Cutting(EmotesOf(TryFrom(m, checked)), RangesSent(m.tags[<< "emotes" >>]), Spoken(m))
    BY <2>6, <2>7, TypedEmotes
  <2> QED BY <2>5, <2>8 DEF m
<1> QED BY FlowInvariant, <1>1, PTL

(***************************************************************************)
(* When a message is typed                                                 *)
(***************************************************************************)

\* A read is fine if it is accepted, and does not overflow in a build that checks that.
Fine(r, checks) == Okay(r) /\ (checks => r.is # "overflow")

AllFine(reads, checks) == \A k \in 1..Len(reads) : Fine(reads[k], checks)

\* What is accepted is fine; what is settled is fine only if it is accepted.
LEMMA FineIs ==
    ASSUME NEW checks
    PROVE  /\ \A v : Fine(Accepted(v), checks)
           /\ \A r : Settled(r) => (Fine(r, checks) <=> r.is = "ok")
           /\ \A r : Fine(r, TRUE) => Fine(r, checks)
<1>1. \A r : Settled(r) => Unchecked(r) = r /\ r.is # "overflow"
  BY SettledIs DEF Settled
<1>2. \A r : Settled(r) => (Fine(r, checks) <=> r.is = "ok")
  BY <1>1 DEF Fine, Okay
<1>3. \A v : Fine(Accepted(v), checks)
  BY <1>2, ResultsSettle, ReadParts
<1>4. \A r : Fine(r, TRUE) => Fine(r, checks)
  BY DEF Fine
<1> QED BY <1>2, <1>3, <1>4

\* Reads made one after the other are fine if and only if each of them is.
LEMMA AllFineIs ==
    ASSUME NEW checks, NEW reads, HarmlessReads(reads, Anything)
    PROVE  Fine(All(reads), checks) <=> AllFine(reads, checks)
<1>1. PICK S : reads \in Seq(S) /\ \A r \in S : Harmless(r, Anything)
  BY DEF HarmlessReads
<1> DEFINE n == Len(reads)
           v == ValuesOf(reads)
<1>2. \A i \in 1..n : Unchecked(reads[i]).is # "overflow"
  <2>1. \A i \in 1..n : reads[i] \in S
    BY <1>1
  <2> QED BY <1>1, <2>1 DEF Harmless, Allowed, Settled
<1>3. ASSUME NEW k, NEW result, result.is # "overflow"
      PROVE  Unchecked(Overflowing(reads, k, result)) = result
  BY <1>3, UncheckedIs DEF Overflowing
<1>4. ASSUME NEW k \in 1..n, ~Okay(reads[k]), All(reads) = Overflowing(reads, k, Unchecked(reads[k]))
      PROVE  ~Fine(All(reads), checks) /\ ~AllFine(reads, checks)
  <2>1. Unchecked(All(reads)) = Unchecked(reads[k])
    BY <1>2, <1>3, <1>4
  <2> QED BY <1>4, <2>1 DEF Okay, Fine, AllFine
<1>5. ASSUME \A i \in 1..n : Okay(reads[i]), All(reads) = Overflowing(reads, n, Accepted(v))
      PROVE  Fine(All(reads), checks) <=> AllFine(reads, checks)
  <2>1. Accepted(v).is = "ok"
    BY ReadParts
  <2>2. Unchecked(All(reads)) = Accepted(v)
    BY <1>3, <1>5, <2>1
  <2>3. Okay(All(reads))
    BY <2>1, <2>2 DEF Okay
  <2>4. All(reads).is = "overflow" <=> \E i \in 1..n : reads[i].is = "overflow"
    BY <1>5, <2>1, ReadParts DEF Overflowing
  <2> QED BY <1>5, <2>3, <2>4 DEF Fine, AllFine
<1> QED BY <1>1, <1>4, <1>5, AllCases

HasType(m) == m.command \in {<< c >> : c \in Commands}

\* A message is typed if and only if it has a type, and all of its fields are fine.
THEOREM TypedExactly ==
    ASSUME NEW m, OfTexts(m), NEW checks
    PROVE  TryFrom(m, checks).is = "typed" <=> HasType(m) /\ AllFine(Reads(m), checks)
<1> DEFINE reads == Reads(m)
           all   == All(reads)
           made  == OrPanic(all, checks)
<1>1. HarmlessReads(reads, Anything)
  BY AlwaysOrderly, ReadsHarmless
<1> HIDE DEF reads
<1>2. Fine(all, checks) <=> AllFine(reads, checks)
  BY <1>1, AllFineIs
<1>3. Fine(all, checks) <=> made.is = "ok"
  BY ReadParts DEF OrPanic, Fine, Okay
<1> HIDE DEF all, made
<1>4. Outcome(m, made).is = "typed" <=> made.is = "ok"
  BY OutcomeTyped
<1>5. TryFrom(m, checks) = IF HasType(m) THEN Outcome(m, made) ELSE Generic(m)
  BY Zenon DEF TryFrom, HasType, reads, all, made
<1>6. Generic(m).is = "generic"
  BY DEF Generic
<1>7. CASE HasType(m)
  BY <1>2, <1>3, <1>4, <1>5, <1>7 DEF reads
<1>8. CASE ~HasType(m)
  BY <1>5, <1>6, <1>8
<1> QED BY <1>7, <1>8

(***************************************************************************)
(* A message without one of its tags                                       *)
(***************************************************************************)

\* l is m without a tag: its other tags and the rest of it are as they were.
Lacks(l, m, k) ==
    /\ l.params = m.params /\ l.prefix = m.prefix /\ l.command = m.command
    /\ \A key : << key >> # k => (HasTag(l, key) <=> HasTag(m, key))
    /\ \A key : << key >> = k => ~HasTag(l, key)
    /\ \A key : HasTag(l, key) => HasTag(m, key) /\ l.tags[<< key >>] = m.tags[<< key >>]

\* A message of which a tag is left out lacks it.
LEMMA LessIs ==
    ASSUME NEW m, m = Message(m.tags, m.prefix, m.command, m.params), NEW k
    PROVE  Lacks([m EXCEPT !.tags = Restrict(m.tags, DOMAIN m.tags \ {k})], m, k)
<1> DEFINE t == Restrict(m.tags, DOMAIN m.tags \ {k})
           l == [m EXCEPT !.tags = t]
<1>1. l = Message(t, m.prefix, m.command, m.params)
  BY DEF Message
<1>2. DOMAIN t = DOMAIN m.tags \ {k} /\ \A x \in DOMAIN t : t[x] = m.tags[x]
  BY DEF Restrict
<1> HIDE DEF t, l
<1>3. l.tags = t /\ l.params = m.params /\ l.prefix = m.prefix /\ l.command = m.command
  BY <1>1, MessageParts
<1>4. Lacks(l, m, k)
  BY <1>2, <1>3 DEF HasTag, Lacks
<1> QED BY <1>4 DEF l, t

\* What does not need the tag is read as before.
LEMMA KeptReads ==
    ASSUME NEW l, NEW m, NEW k, Lacks(l, m, k)
    PROVE  /\ \A n : Param(l, n) = Param(m, n)
           /\ MessageText(l) = MessageText(m) /\ Text(l) = Text(m) /\ ChannelLogin(l) = ChannelLogin(m)
           /\ OptionalChannelLogin(l) = OptionalChannelLogin(m) /\ PrefixNickname(l) = PrefixNickname(m)
           /\ \A key : << key >> # k =>
                /\ TagValue(l, key) = TagValue(m, key) /\ Nonempty(l, key) = Nonempty(m, key)
                /\ OptionalNonempty(l, key) = OptionalNonempty(m, key) /\ EmoteSets(l, key) = EmoteSets(m, key)
                /\ Number(l, key) = Number(m, key) /\ Bool(l, key) = Bool(m, key)
                /\ Timestamp(l, key) = Timestamp(m, key) /\ Badges(l, key) = Badges(m, key)
                /\ Color(l, key) = Color(m, key)
                /\ \A text : Emotes(l, key, text) = Emotes(m, key, text)
<1>1. l.params = m.params /\ l.prefix = m.prefix
  BY DEF Lacks
<1>2. \A n : Param(l, n) = Param(m, n)
  BY <1>1 DEF Param
<1>3. MessageText(l) = MessageText(m)
  <2> DEFINE Framed(p) == LET text   == p.value
                              action == /\ Len(text) > 3
                                        /\ SubSeq(text, 1, 3) = << "SOH", "ACTION", " " >>
                                        /\ Last(text) = "SOH"
                          IN  IF p.is = "error" THEN p
                              ELSE IF action THEN Accepted([text |-> SubSeq(text, 4, Len(text) - 1), action |-> TRUE])
                              ELSE Accepted([text |-> text, action |-> FALSE])
  <2>1. MessageText(l) = Framed(Param(l, 2)) /\ MessageText(m) = Framed(Param(m, 2))
    BY Zenon DEF MessageText
  <2> HIDE DEF Framed
  <2> QED BY <1>2, <2>1
<1>4. Text(l) = Text(m)
  BY <1>3 DEF Text
<1>5. ChannelLogin(l) = ChannelLogin(m)
  BY <1>1, <1>2 DEF ChannelLogin
<1>6. OptionalChannelLogin(l) = OptionalChannelLogin(m)
  BY <1>2, <1>5, Zenon DEF OptionalChannelLogin
<1>7. PrefixNickname(l) = PrefixNickname(m)
  BY <1>1 DEF PrefixNickname
<1>8. ASSUME NEW key, << key >> # k
      PROVE  /\ TagValue(l, key) = TagValue(m, key) /\ Nonempty(l, key) = Nonempty(m, key)
             /\ OptionalNonempty(l, key) = OptionalNonempty(m, key) /\ EmoteSets(l, key) = EmoteSets(m, key)
             /\ Number(l, key) = Number(m, key) /\ Bool(l, key) = Bool(m, key)
             /\ Timestamp(l, key) = Timestamp(m, key) /\ Badges(l, key) = Badges(m, key)
             /\ Color(l, key) = Color(m, key)
             /\ \A text : Emotes(l, key, text) = Emotes(m, key, text)
  <2>1. HasTag(l, key) <=> HasTag(m, key)
    BY <1>8 DEF Lacks
  <2>2. HasTag(m, key) => l.tags[<< key >>] = m.tags[<< key >>]
    BY <2>1 DEF Lacks
  <2>3. TagValue(l, key) = TagValue(m, key)
    BY <2>1, <2>2 DEF TagValue
  <2>4. Nonempty(l, key) = Nonempty(m, key)
    BY <2>3 DEF Nonempty
  <2>5. ~HasTag(m, key) => TagValue(m, key).is = "error" /\ Nonempty(m, key).is = "error"
    <3>1. ~HasTag(m, key) => TagValue(m, key) = Refused("MissingTag")
      BY DEF TagValue
    <3>2. \A v : Refused("MissingTag") # Accepted(v)
      BY ReadParts
    <3> QED BY <3>1, <3>2, ReadParts DEF Nonempty
  <2>6. OptionalNonempty(l, key) = OptionalNonempty(m, key)
    BY <2>1, <2>2, <2>4 DEF OptionalNonempty
  <2>7. HasTag(m, key) => \A c : Parts(l, key, c) = Parts(m, key, c)
    BY <2>2 DEF Parts
  <2>8. EmoteSets(l, key) = EmoteSets(m, key)
    <3>1. CASE HasTag(m, key)
      <4>1. l.tags[<< key >>] = m.tags[<< key >>] /\ HasTag(l, key)
        BY <2>1, <2>2, <3>1
      <4> QED BY <3>1, <4>1, Zenon DEF EmoteSets, Parts
    <3>2. CASE ~HasTag(m, key)
      BY <2>1, <2>3, <3>2, Zenon DEF EmoteSets
    <3> QED BY <3>1, <3>2
  <2>9. Number(l, key) = Number(m, key) /\ Bool(l, key) = Bool(m, key)
    <3>1. ASSUME Nonempty(m, key).is = "ok" PROVE l.tags[<< key >>] = m.tags[<< key >>]
      BY <2>2, <2>5, <3>1
    <3> QED BY <2>4, <3>1 DEF Number, Bool
  <2>10. Timestamp(l, key) = Timestamp(m, key)
    <3>1. CASE HasTag(m, key)
      BY <2>2, <2>4, <3>1, Zenon DEF Timestamp
    <3>2. CASE ~HasTag(m, key)
      BY <2>4, <2>5, <3>2, Zenon DEF Timestamp
    <3> QED BY <3>1, <3>2
  <2>11. Badges(l, key) = Badges(m, key)
    <3>1. CASE HasTag(m, key)
      <4>1. l.tags[<< key >>] = m.tags[<< key >>] /\ HasTag(l, key)
        BY <2>1, <2>2, <3>1
      <4> QED BY <3>1, <4>1, Zenon DEF Badges, Parts
    <3>2. CASE ~HasTag(m, key)
      BY <2>1, <2>3, <3>2, Zenon DEF Badges
    <3> QED BY <3>1, <3>2
  <2>12. Color(l, key) = Color(m, key)
    <3>1. CASE HasTag(m, key)
      BY <2>2, <2>3, <3>1, Zenon DEF Color
    <3>2. CASE ~HasTag(m, key)
      BY <2>3, <2>5, <3>2, Zenon DEF Color
    <3> QED BY <3>1, <3>2
  <2>13. ASSUME NEW text PROVE Emotes(l, key, text) = Emotes(m, key, text)
    <3>1. CASE HasTag(m, key)
      <4>1. l.tags[<< key >>] = m.tags[<< key >>] /\ HasTag(l, key)
        BY <2>1, <2>2, <3>1
      <4> QED BY <3>1, <4>1, Zenon DEF Emotes, Parts
    <3>2. CASE ~HasTag(m, key)
      BY <2>1, <2>3, <3>2, Zenon DEF Emotes
    <3> QED BY <3>1, <3>2
  <2> QED BY <2>3, <2>4, <2>6, <2>8, <2>9, <2>10, <2>11, <2>12, <2>13
<1> QED BY <1>2, <1>3, <1>4, <1>5, <1>6, <1>7, <1>8

\* What may be absent is fine without the tag if it was with it.
LEMMA OptionalReads ==
    ASSUME NEW l, NEW m, NEW k, Lacks(l, m, k), NEW checks
    PROVE  /\ \A key : OptionalNonempty(l, key) \in {OptionalNonempty(m, key), Accepted(<< >>)}
           /\ \A key, a, b : (HasTag(l, key) => a = b) =>
                Optional(l, key, a) \in {Optional(m, key, b), Accepted(<< >>)}
           /\ \A key : /\ OptionalNumber(l, key) \in {OptionalNumber(m, key), Accepted(<< >>)}
                       /\ OptionalBool(l, key) \in {OptionalBool(m, key), Accepted(<< >>)}
<1>1. ASSUME NEW key
      PROVE  OptionalNonempty(l, key) \in {OptionalNonempty(m, key), Accepted(<< >>)}
  <2>1. CASE ~HasTag(l, key)
    BY <2>1 DEF OptionalNonempty
  <2>2. CASE HasTag(l, key)
    <3>1. << key >> # k
      BY <2>2 DEF Lacks
    <3> QED BY <3>1, KeptReads
  <2> QED BY <2>1, <2>2
<1>2. ASSUME NEW key, NEW a, NEW b, HasTag(l, key) => a = b
      PROVE  Optional(l, key, a) \in {Optional(m, key, b), Accepted(<< >>)}
  <2>1. CASE ~HasTag(l, key)
    <3>1. Optional(l, key, a) = OptionalNonempty(l, key)
      BY <2>1 DEF Optional
    <3>2. OptionalNonempty(l, key) = Accepted(<< >>)
      BY <2>1 DEF OptionalNonempty
    <3> QED BY <3>1, <3>2
  <2>2. CASE HasTag(l, key)
    <3>1. << key >> # k /\ HasTag(m, key) /\ a = b
      BY <1>2, <2>2 DEF Lacks
    <3>2. Nonempty(l, key) = Nonempty(m, key) /\ OptionalNonempty(l, key) = OptionalNonempty(m, key)
      BY <3>1, KeptReads
    <3>3. Optional(l, key, a) = Optional(m, key, b)
      BY <2>2, <3>1, <3>2, Zenon DEF Optional
    <3> QED BY <3>3
  <2> QED BY <2>1, <2>2
<1>3. ASSUME NEW key
      PROVE  /\ OptionalNumber(l, key) \in {OptionalNumber(m, key), Accepted(<< >>)}
             /\ OptionalBool(l, key) \in {OptionalBool(m, key), Accepted(<< >>)}
  <2>1. HasTag(l, key) => l.tags[<< key >>] = m.tags[<< key >>]
    BY DEF Lacks
  <2> QED BY <1>2, <2>1 DEF OptionalNumber, OptionalBool
<1> QED BY <1>1, <1>2, <1>3

\* Reads are fine together if each is.
LEMMA FineTuples ==
    ASSUME NEW checks
    PROVE  /\ \A a : AllFine(<< a >>, checks) <=> Fine(a, checks)
           /\ \A a, b, c : AllFine(<< a, b, c >>, checks) <=> \A r \in {a, b, c} : Fine(r, checks)
           /\ \A a, b, c, d : AllFine(<< a, b, c, d >>, checks) <=> \A r \in {a, b, c, d} : Fine(r, checks)
           /\ \A a, b, c, d, e, f, g :
                AllFine(<< a, b, c, d, e, f, g >>, checks) <=> \A r \in {a, b, c, d, e, f, g} : Fine(r, checks)
           /\ \A a, b, c, d, e, f, g, h, i, j, n, o, p, q :
                AllFine(<< a, b, c, d, e, f, g, h, i, j, n, o, p, q >>, checks)
                  <=> \A r \in {a, b, c, d, e, f, g, h, i, j, n, o, p, q} : Fine(r, checks)
<1>1. \A a : AllFine(<< a >>, checks) <=> Fine(a, checks)
  BY DEF AllFine
<1>2. \A a, b, c : AllFine(<< a, b, c >>, checks) <=> \A r \in {a, b, c} : Fine(r, checks)
  BY DEF AllFine
<1>3. \A a, b, c, d : AllFine(<< a, b, c, d >>, checks) <=> \A r \in {a, b, c, d} : Fine(r, checks)
  BY DEF AllFine
<1>4. \A a, b, c, d, e, f, g :
        AllFine(<< a, b, c, d, e, f, g >>, checks) <=> \A r \in {a, b, c, d, e, f, g} : Fine(r, checks)
  BY DEF AllFine
<1>5. \A a, b, c, d, e, f, g, h, i, j, n, o, p, q :
        AllFine(<< a, b, c, d, e, f, g, h, i, j, n, o, p, q >>, checks)
          <=> \A r \in {a, b, c, d, e, f, g, h, i, j, n, o, p, q} : Fine(r, checks)
  BY DEF AllFine
<1> QED BY <1>1, <1>2, <1>3, <1>4, <1>5

\* A chat message needs neither its bits nor what it replies to.
LEMMA PrivmsgKept ==
    ASSUME NEW l, NEW m, NEW k \in {<< "bits" >>, << "reply-parent-msg-id" >>}, Lacks(l, m, k),
           NEW checks, AllFine(PrivmsgReads(m), checks)
    PROVE  AllFine(PrivmsgReads(l), checks)
<1>1. \A v : Fine(Accepted(v), checks)
  BY FineIs
<1>2. /\ OptionalNumber(l, "bits") \in {OptionalNumber(m, "bits"), Accepted(<< >>)}
      /\ OptionalReplyParent(l) \in {OptionalReplyParent(m), Accepted(<< >>)}
  <2>1. CASE k = << "reply-parent-msg-id" >>
    <3>1. ~HasTag(l, "reply-parent-msg-id")
      BY <2>1 DEF Lacks
    <3>2. OptionalReplyParent(l) = Accepted(<< >>)
      BY <3>1 DEF OptionalReplyParent
    <3> QED BY <3>2, OptionalReads
  <2>2. CASE k = << "bits" >>
    <3>1. /\ HasTag(l, "reply-parent-msg-id") <=> HasTag(m, "reply-parent-msg-id")
          /\ \A key \in {"reply-parent-msg-id", "reply-parent-user-id", "reply-parent-user-login",
                         "reply-parent-display-name", "reply-parent-msg-body"} :
                TagValue(l, key) = TagValue(m, key) /\ Nonempty(l, key) = Nonempty(m, key)
      BY <2>2, KeptReads DEF Lacks
    <3>2. OptionalReplyParent(l) = OptionalReplyParent(m)
      BY <3>1 DEF OptionalReplyParent
    <3> QED BY <3>2, OptionalReads
  <2> QED BY <2>1, <2>2
<1>3. /\ MessageText(l) = MessageText(m) /\ Text(l) = Text(m) /\ ChannelLogin(l) = ChannelLogin(m)
      /\ PrefixNickname(l) = PrefixNickname(m)
      /\ \A key \in {"room-id", "user-id", "display-name", "id"} : Nonempty(l, key) = Nonempty(m, key)
      /\ \A key \in {"badge-info", "badges"} : Badges(l, key) = Badges(m, key)
      /\ Color(l, "color") = Color(m, "color") /\ Timestamp(l, "tmi-sent-ts") = Timestamp(m, "tmi-sent-ts")
      /\ \A text : Emotes(l, "emotes", text) = Emotes(m, "emotes", text)
  BY KeptReads
<1>4. /\ Fine(MessageText(m), checks) /\ Fine(ChannelLogin(m), checks) /\ Fine(Nonempty(m, "room-id"), checks)
      /\ Fine(Nonempty(m, "user-id"), checks) /\ Fine(PrefixNickname(m), checks)
      /\ Fine(Nonempty(m, "display-name"), checks) /\ Fine(Badges(m, "badge-info"), checks)
      /\ Fine(Badges(m, "badges"), checks) /\ Fine(OptionalNumber(m, "bits"), checks)
      /\ Fine(Color(m, "color"), checks) /\ Fine(Emotes(m, "emotes", Text(m)), checks)
      /\ Fine(Timestamp(m, "tmi-sent-ts"), checks) /\ Fine(Nonempty(m, "id"), checks)
      /\ Fine(OptionalReplyParent(m), checks)
  BY FineTuples DEF PrivmsgReads
<1>5. Fine(OptionalNumber(l, "bits"), checks) /\ Fine(OptionalReplyParent(l), checks)
  BY <1>1, <1>2, <1>4
<1> QED BY <1>3, <1>4, <1>5, FineTuples DEF PrivmsgReads

\* A notice needs no id.
LEMMA NoticeKept ==
    ASSUME NEW l, NEW m, NEW k \in {<< "msg-id" >>}, Lacks(l, m, k),
           NEW checks, AllFine(NoticeReads(m), checks)
    PROVE  AllFine(NoticeReads(l), checks)
<1>1. OptionalChannelLogin(l) = OptionalChannelLogin(m) /\ Param(l, 2) = Param(m, 2)
  BY KeptReads
<1>2. OptionalNonempty(l, "msg-id") \in {OptionalNonempty(m, "msg-id"), Accepted(<< >>)}
  BY OptionalReads
<1>3. Fine(OptionalChannelLogin(m), checks) /\ Fine(Param(m, 2), checks) /\ Fine(OptionalNonempty(m, "msg-id"), checks)
  BY FineTuples DEF NoticeReads
<1>4. Fine(OptionalNonempty(l, "msg-id"), checks)
  BY <1>2, <1>3, FineIs
<1> QED BY <1>1, <1>3, <1>4, FineTuples DEF NoticeReads

\* A state of a room may leave out any of its modes.
LEMMA RoomStateKept ==
    ASSUME NEW l, NEW m,
           NEW k \in {<< "emote-only" >>, << "followers-only" >>, << "r9k" >>, << "slow" >>, << "subs-only" >>},
           Lacks(l, m, k), NEW checks, AllFine(RoomStateReads(m), checks)
    PROVE  AllFine(RoomStateReads(l), checks)
<1> DEFINE Mode(x) == Optional(x, "followers-only", FollowersOnlyMode(x.tags[<< "followers-only" >>]))
<1>1. ChannelLogin(l) = ChannelLogin(m) /\ Nonempty(l, "room-id") = Nonempty(m, "room-id")
  BY KeptReads
<1>2. Mode(l) \in {Mode(m), Accepted(<< >>)}
  <2>1. HasTag(l, "followers-only") => l.tags[<< "followers-only" >>] = m.tags[<< "followers-only" >>]
    BY DEF Lacks
  <2> QED BY <2>1, OptionalReads
<1>3. /\ OptionalNumber(l, "slow") \in {OptionalNumber(m, "slow"), Accepted(<< >>)}
      /\ \A key : OptionalBool(l, key) \in {OptionalBool(m, key), Accepted(<< >>)}
  BY OptionalReads
<1>4. \A x : RoomStateReads(x) =
                << ChannelLogin(x), Nonempty(x, "room-id"), OptionalBool(x, "emote-only"), Mode(x),
                   OptionalBool(x, "r9k"), OptionalNumber(x, "slow"), OptionalBool(x, "subs-only") >>
  BY Zenon DEF RoomStateReads
<1> HIDE DEF Mode
<1>5. /\ Fine(ChannelLogin(m), checks) /\ Fine(Nonempty(m, "room-id"), checks)
      /\ Fine(OptionalBool(m, "emote-only"), checks) /\ Fine(Mode(m), checks)
      /\ Fine(OptionalBool(m, "r9k"), checks) /\ Fine(OptionalNumber(m, "slow"), checks)
      /\ Fine(OptionalBool(m, "subs-only"), checks)
  BY <1>4, FineTuples
<1>6. /\ Fine(OptionalBool(l, "emote-only"), checks) /\ Fine(Mode(l), checks)
      /\ Fine(OptionalBool(l, "r9k"), checks) /\ Fine(OptionalNumber(l, "slow"), checks)
      /\ Fine(OptionalBool(l, "subs-only"), checks)
  BY <1>2, <1>3, <1>5, FineIs
<1> QED BY <1>1, <1>4, <1>5, <1>6, FineTuples

\* A ban needs no duration: then it is forever.
LEMMA ClearChatKept ==
    ASSUME NEW l, NEW m, OfTexts(l), OfTexts(m), NEW k \in {<< "ban-duration" >>}, Lacks(l, m, k),
           NEW checks, AllFine(ClearChatReads(m), checks)
    PROVE  AllFine(ClearChatReads(l), checks)
<1> DEFINE Ban(x) == << Accepted(x.params[2]), Nonempty(x, "target-user-id"), OptionalNumber(x, "ban-duration") >>
<1>1. /\ ChannelLogin(l) = ChannelLogin(m) /\ Nonempty(l, "room-id") = Nonempty(m, "room-id")
      /\ Nonempty(l, "target-user-id") = Nonempty(m, "target-user-id")
      /\ Timestamp(l, "tmi-sent-ts") = Timestamp(m, "tmi-sent-ts")
  BY KeptReads
<1>2. l.params = m.params
  BY DEF Lacks
<1>3. OptionalNumber(l, "ban-duration") \in {OptionalNumber(m, "ban-duration"), Accepted(<< >>)}
  BY OptionalReads
<1>4. \A x : OfTexts(x) => HarmlessReads(Ban(x), Anything)
  <2> SUFFICES ASSUME NEW x, OfTexts(x) PROVE HarmlessReads(Ban(x), Anything)
    OBVIOUS
  <2>1. Orderly(x, Anything)
    BY AlwaysOrderly
  <2> QED BY <2>1, FieldsHarmless, ReadsTogether
<1>5. \A x : ClearChatAction(x) = IF Len(x.params) < 2 THEN Accepted(<< "ChatCleared" >>) ELSE All(Ban(x))
  BY Zenon DEF ClearChatAction
<1>6. AllFine(Ban(m), checks) => AllFine(Ban(l), checks)
  <2> SUFFICES ASSUME AllFine(Ban(m), checks) PROVE AllFine(Ban(l), checks)
    OBVIOUS
  <2> DEFINE first  == Accepted(m.params[2])
             second == Nonempty(m, "target-user-id")
             third  == OptionalNumber(m, "ban-duration")
             other  == OptionalNumber(l, "ban-duration")
  <2>1. Ban(m) = << first, second, third >> /\ Ban(l) = << first, second, other >>
    BY <1>1, <1>2
  <2>2. other \in {third, Accepted(<< >>)}
    BY <1>3
  <2> HIDE DEF Ban, first, second, third, other
  <2>3. \A r \in {first, second, third} : Fine(r, checks)
    BY <2>1, FineTuples
  <2>4. \A r \in {first, second, other} : Fine(r, checks)
    BY <2>2, <2>3, FineIs
  <2> QED BY <2>1, <2>4, FineTuples
<1> HIDE DEF Ban
<1>7. Fine(ClearChatAction(m), checks) => Fine(ClearChatAction(l), checks)
  <2>1. CASE Len(m.params) < 2
    <3>1. ClearChatAction(l) = Accepted(<< "ChatCleared" >>)
      BY <1>2, <1>5, <2>1
    <3> QED BY <3>1, FineIs
  <2>2. CASE ~(Len(m.params) < 2)
    <3>1. ClearChatAction(m) = All(Ban(m)) /\ ClearChatAction(l) = All(Ban(l))
      BY <1>2, <1>5, <2>2
    <3> QED BY <1>4, <1>6, <3>1, AllFineIs
  <2> QED BY <2>1, <2>2
<1>8. /\ Fine(ClearChatAction(m), checks) /\ Fine(ChannelLogin(m), checks)
      /\ Fine(Nonempty(m, "room-id"), checks) /\ Fine(Timestamp(m, "tmi-sent-ts"), checks)
  BY FineTuples DEF ClearChatReads
<1> QED BY <1>1, <1>7, <1>8, FineTuples DEF ClearChatReads

\* A promotion is fine without one of its tags.
LEMMA PromoKept ==
    ASSUME NEW l, NEW m, NEW k, Lacks(l, m, k), NEW checks, Fine(SubGiftPromo(m), checks)
    PROVE  Fine(SubGiftPromo(l), checks)
<1> DEFINE a(x) == OptionalNumber(x, "msg-param-promo-gift-total")
           b(x) == OptionalNonempty(x, "msg-param-promo-name")
           all(x) == All(<< a(x), b(x) >>)
<1>1. \A x : HarmlessReads(<< a(x), b(x) >>, Anything)
  <2> TAKE x
  <2>1. Harmless(a(x), Anything) /\ Harmless(b(x), Anything)
    BY OptionalsHarmless, TagsSettle, SettledIs
  <2> HIDE DEF a, b
  <2> QED BY <2>1, ReadsTogether
<1>2. \A x : \/ SubGiftPromo(x) = Accepted(<< >>) /\ all(x).is = "ok"
             \/ SubGiftPromo(x) = all(x)
  BY Zenon DEF SubGiftPromo
<1>3. a(l) \in {a(m), Accepted(<< >>)} /\ b(l) \in {b(m), Accepted(<< >>)}
  BY OptionalReads
<1> HIDE DEF a, b
<1>4. \A x : Fine(all(x), checks) <=> Fine(a(x), checks) /\ Fine(b(x), checks)
  <2> TAKE x
  <2>1. AllFine(<< a(x), b(x) >>, checks) <=> Fine(a(x), checks) /\ Fine(b(x), checks)
    BY DEF AllFine
  <2> QED BY <1>1, <2>1, AllFineIs
<1> HIDE DEF all
<1>5. Fine(all(m), checks)
  <2>1. ASSUME NEW r, r.is = "ok" PROVE Fine(r, checks)
    <3>1. Settled(r)
      BY <2>1 DEF Settled
    <3> QED BY <2>1, <3>1, FineIs
  <2> QED BY <1>2, <2>1
<1>6. Fine(all(l), checks)
  BY <1>3, <1>4, <1>5, FineIs
<1> QED BY <1>2, <1>6, FineIs

\* Reads that follow others are fine if both are.
LEMMA FineJoined ==
    ASSUME NEW s, NEW t, HarmlessReads(s, Anything), HarmlessReads(t, Anything), NEW checks
    PROVE  AllFine(s \o t, checks) <=> AllFine(s, checks) /\ AllFine(t, checks)
<1>1. PICK S : s \in Seq(S)
  BY DEF HarmlessReads
<1>2. PICK T : t \in Seq(T)
  BY DEF HarmlessReads
<1> DEFINE r == s \o t
           U == S \cup T
<1>3. s \in Seq(U) /\ t \in Seq(U)
  BY <1>1, <1>2
<1> HIDE DEF U
<1>4. /\ Len(r) = Len(s) + Len(t) /\ Len(s) \in Nat /\ Len(t) \in Nat
      /\ \A i \in 1..Len(r) : r[i] = IF i <= Len(s) THEN s[i] ELSE t[i - Len(s)]
  BY ONLY <1>3
<1> HIDE DEF r
<1>5. ASSUME AllFine(r, checks) PROVE AllFine(s, checks) /\ AllFine(t, checks)
  <2>1. ASSUME NEW i \in 1..Len(s) PROVE Fine(s[i], checks)
    <3>1. i \in 1..Len(r) /\ r[i] = s[i]
      BY <1>4
    <3> QED BY <1>5, <3>1 DEF AllFine
  <2>2. ASSUME NEW i \in 1..Len(t) PROVE Fine(t[i], checks)
    <3>1. i + Len(s) \in 1..Len(r) /\ ~(i + Len(s) <= Len(s)) /\ i + Len(s) - Len(s) = i
      BY <1>4
    <3>2. r[i + Len(s)] = t[i]
      BY <1>4, <3>1
    <3> QED BY <1>5, <3>1, <3>2 DEF AllFine
  <2> QED BY <2>1, <2>2 DEF AllFine
<1>6. ASSUME AllFine(s, checks), AllFine(t, checks) PROVE AllFine(r, checks)
  <2> SUFFICES ASSUME NEW i \in 1..Len(r) PROVE Fine(r[i], checks)
    BY DEF AllFine
  <2>1. CASE i <= Len(s)
    <3>1. i \in 1..Len(s) /\ r[i] = s[i]
      BY <1>4, <2>1
    <3> QED BY <1>6, <3>1 DEF AllFine
  <2>2. CASE ~(i <= Len(s))
    <3>1. i - Len(s) \in 1..Len(t) /\ r[i] = t[i - Len(s)]
      BY <1>4, <2>2
    <3> QED BY <1>6, <3>1 DEF AllFine
  <2> QED BY <2>1, <2>2
<1> QED BY <1>5, <1>6 DEF r

\* No event needs its promotion or its colour.
LEMMA EventKept ==
    ASSUME NEW l, NEW m,
           NEW k \in {<< "msg-param-promo-name" >>, << "msg-param-promo-gift-total" >>, << "msg-param-color" >>},
           Lacks(l, m, k), NEW checks, NEW id, NEW event, AllFine(EventReads(m, id, event), checks)
    PROVE  AllFine(EventReads(l, id, event), checks)
<1> DEFINE Rest == {"user-id", "login", "msg-param-cumulative-months", "msg-param-should-share-streak",
                    "msg-param-streak-months", "msg-param-sub-plan", "msg-param-sub-plan-name",
                    "msg-param-viewerCount", "msg-param-profileImageURL", "msg-param-months",
                    "msg-param-recipient-id", "msg-param-recipient-user-name",
                    "msg-param-recipient-display-name", "msg-param-gift-months", "msg-param-mass-gift-count",
                    "msg-param-sender-count", "msg-param-sender-login", "msg-param-sender-name",
                    "msg-param-ritual-name", "msg-param-threshold"}
<1>1. \A key \in Rest : << key >> # k
  OBVIOUS
<1>2. \A key \in Rest : /\ Nonempty(l, key) = Nonempty(m, key) /\ Number(l, key) = Number(m, key)
                        /\ Bool(l, key) = Bool(m, key) /\ TagValue(l, key) = TagValue(m, key)
  <2> HIDE DEF Rest
  <2> QED BY <1>1, KeptReads
<1>3. SenderTotalGifts(l) = SenderTotalGifts(m)
  <2>1. Number(l, "msg-param-sender-count") = Number(m, "msg-param-sender-count") /\ TagValue(l, "login") = TagValue(m, "login")
    BY <1>2
  <2> QED BY <2>1 DEF SenderTotalGifts, SenderIs
<1>4. \A name : SenderIs(l, "user-id", name) = SenderIs(m, "user-id", name)
  <2>1. TagValue(l, "user-id") = TagValue(m, "user-id")
    BY <1>2
  <2> QED BY <2>1 DEF SenderIs
<1>5. CASE event = "announcement"
  <2> DEFINE colour == IF HasTag(l, "msg-param-color") THEN TagValue(l, "msg-param-color") ELSE Accepted(<< >>)
  <2>1. EventReads(l, id, event) = << colour >>
    BY <1>5 DEF EventReads
  <2>2. Fine(colour, checks)
    BY FineIs DEF TagValue
  <2> HIDE DEF colour
  <2> QED BY <2>1, <2>2, FineTuples
<1>6. CASE event = "giftpaidupgrade"
  <2> DEFINE a == Nonempty(m, "msg-param-sender-login")
             b == Nonempty(m, "msg-param-sender-name")
  <2>1. \A r \in {a, b, SubGiftPromo(m)} : Fine(r, checks)
    <3>1. EventReads(m, id, event) = << a, b, SubGiftPromo(m) >>
      BY <1>6 DEF EventReads
    <3> HIDE DEF a, b
    <3> QED BY <3>1, FineTuples
  <2>2. EventReads(l, id, event) = << a, b, SubGiftPromo(l) >>
    <3>1. a = Nonempty(l, "msg-param-sender-login") /\ b = Nonempty(l, "msg-param-sender-name")
      BY <1>2
    <3> QED BY <1>6, <3>1 DEF EventReads
  <2> HIDE DEF a, b
  <2>3. \A r \in {a, b, SubGiftPromo(l)} : Fine(r, checks)
    BY <2>1, PromoKept
  <2> QED BY <2>2, <2>3, FineTuples
<1>7. CASE event = "anongiftpaidupgrade"
  <2>1. EventReads(l, id, event) = << SubGiftPromo(l) >> /\ EventReads(m, id, event) = << SubGiftPromo(m) >>
    BY <1>7 DEF EventReads
  <2> QED BY <2>1, PromoKept, FineTuples
<1>8. CASE event \notin {"announcement", "giftpaidupgrade", "anongiftpaidupgrade"}
  <2>1. EventReads(l, id, event) = EventReads(m, id, event)
    BY <1>2, <1>3, <1>4, <1>8 DEF EventReads
  <2> QED BY <2>1
<1> QED BY <1>5, <1>6, <1>7, <1>8

\* Nor does a notice of a user need them.
LEMMA UserNoticeKept ==
    ASSUME NEW l, NEW m, OfTexts(l), OfTexts(m),
           NEW k \in {<< "msg-param-promo-name" >>, << "msg-param-promo-gift-total" >>, << "msg-param-color" >>},
           Lacks(l, m, k), NEW checks, AllFine(UserNoticeReads(m), checks)
    PROVE  AllFine(UserNoticeReads(l), checks)
<1> DEFINE Event(x) ==
               IF Nonempty(x, "msg-id").is = "ok" /\ Len(Nonempty(x, "msg-id").value) = 1
               THEN EventReads(x, Head(Nonempty(x, "msg-id").value),
                               UserNoticeEvent(x, Head(Nonempty(x, "msg-id").value))) ELSE << >>
           first(x)  == << Nonempty(x, "user-id"), Nonempty(x, "login"), Nonempty(x, "display-name"), Nonempty(x, "msg-id") >>
           rest(x)   == << IF Len(x.params) > 1 THEN Emotes(x, "emotes", x.params[2]) ELSE Accepted(<< >>),
                           ChannelLogin(x), Nonempty(x, "room-id"), TagValue(x, "system-msg"),
                           Badges(x, "badge-info"), Badges(x, "badges"), Color(x, "color"), Nonempty(x, "id"),
                           Timestamp(x, "tmi-sent-ts") >>
<1>1. \A x : UserNoticeReads(x) = (first(x) \o Event(x)) \o rest(x)
  BY Zenon DEF UserNoticeReads
<1>2. /\ l.params = m.params /\ ChannelLogin(l) = ChannelLogin(m)
      /\ \A key \in {"user-id", "login", "display-name", "msg-id", "room-id", "id"} : Nonempty(l, key) = Nonempty(m, key)
      /\ \A key \in {"badge-info", "badges"} : Badges(l, key) = Badges(m, key)
      /\ \A key \in {"system-msg", "user-id"} : TagValue(l, key) = TagValue(m, key)
      /\ Color(l, "color") = Color(m, "color") /\ Timestamp(l, "tmi-sent-ts") = Timestamp(m, "tmi-sent-ts")
      /\ \A text : Emotes(l, "emotes", text) = Emotes(m, "emotes", text)
  BY KeptReads DEF Lacks
<1>3. first(l) = first(m) /\ rest(l) = rest(m)
  BY <1>2
<1>4. \A id : UserNoticeEvent(l, id) = UserNoticeEvent(m, id)
  BY <1>2 DEF UserNoticeEvent, SenderIs
<1>5. AllFine(Event(m), checks) => AllFine(Event(l), checks)
  <2> DEFINE read == Nonempty(m, "msg-id")
             id   == Head(read.value)
             what == UserNoticeEvent(m, id)
             known == read.is = "ok" /\ Len(read.value) = 1
  <2>1. Event(m) = IF known THEN EventReads(m, id, what) ELSE << >>
    OBVIOUS
  <2>2. Event(l) = IF known THEN EventReads(l, id, what) ELSE << >>
    BY <1>2, <1>4
  <2> HIDE DEF Event, known, what, id, read
  <2> QED BY <2>1, <2>2, EventKept
<1>6. \A x : OfTexts(x) => /\ HarmlessReads(first(x), Anything) /\ HarmlessReads(Event(x), Anything)
                           /\ HarmlessReads(rest(x), Anything)
  <2> SUFFICES ASSUME NEW x, OfTexts(x)
               PROVE  /\ HarmlessReads(first(x), Anything) /\ HarmlessReads(Event(x), Anything)
                      /\ HarmlessReads(rest(x), Anything)
    OBVIOUS
  <2>1. Orderly(x, Anything)
    BY AlwaysOrderly
  <2>2. HarmlessReads(first(x), Anything)
    BY <2>1, FieldsHarmless, ReadsTogether
  <2>3. HarmlessReads(Event(x), Anything)
    BY <2>1, EventHarmless, Together
  <2>4. HarmlessReads(rest(x), Anything)
    <3> DEFINE emotes == IF Len(x.params) > 1 THEN Emotes(x, "emotes", x.params[2]) ELSE Accepted(<< >>)
    <3>1. Harmless(emotes, Anything)
      BY <2>1, FieldsHarmless
    <3> HIDE DEF emotes
    <3>2. HarmlessReads(<< emotes, ChannelLogin(x), Nonempty(x, "room-id"), TagValue(x, "system-msg"),
                           Badges(x, "badge-info"), Badges(x, "badges"), Color(x, "color"), Nonempty(x, "id"),
                           Timestamp(x, "tmi-sent-ts") >>, Anything)
      BY <2>1, <3>1, FieldsHarmless, ReadsTogether
    <3> QED BY <3>2 DEF emotes
  <2> QED BY <2>2, <2>3, <2>4
<1> HIDE DEF first, rest, Event
<1>7. ASSUME NEW x, OfTexts(x)
      PROVE  AllFine(UserNoticeReads(x), checks) <=>
                AllFine(first(x), checks) /\ AllFine(Event(x), checks) /\ AllFine(rest(x), checks)
  <2> DEFINE f == first(x)
             e == Event(x)
             r == rest(x)
             both == f \o e
  <2>1. HarmlessReads(f, Anything) /\ HarmlessReads(e, Anything) /\ HarmlessReads(r, Anything)
    BY <1>6, <1>7
  <2>2. UserNoticeReads(x) = both \o r
    BY <1>1
  <2> HIDE DEF f, e, r
  <2>3. HarmlessReads(both, Anything) /\ (AllFine(both, checks) <=> AllFine(f, checks) /\ AllFine(e, checks))
    BY <2>1, FineJoined, Together
  <2> HIDE DEF both
  <2>4. AllFine(both \o r, checks) <=> AllFine(both, checks) /\ AllFine(r, checks)
    BY <2>1, <2>3, FineJoined
  <2> QED BY <2>2, <2>3, <2>4 DEF f, e, r
<1> QED BY <1>3, <1>5, <1>7

\* Whatever the command, its reads are fine without a tag that it need not have.
LEMMA TypedWithout ==
    ASSUME NEW l, NEW m, OfTexts(l), OfTexts(m), NEW k \in Optionals(m.command), Lacks(l, m, k), NEW checks,
           TryFrom(m, checks).is = "typed"
    PROVE  TryFrom(l, checks).is = "typed"
<1>1. HasType(m) /\ AllFine(Reads(m), checks)
  BY TypedExactly
<1>2. HasType(l) /\ l.command = m.command
  BY <1>1 DEF Lacks, HasType
<1>3. CASE m.command = << "PRIVMSG" >>
  <2>1. k \in {<< "bits" >>, << "reply-parent-msg-id" >>}
    BY <1>3 DEF Optionals
  <2>2. Reads(m) = PrivmsgReads(m) /\ Reads(l) = PrivmsgReads(l)
    BY <1>2, <1>3 DEF Reads
  <2>3. AllFine(Reads(l), checks)
    BY <1>1, <2>1, <2>2, PrivmsgKept
  <2> QED BY <1>2, <2>3, TypedExactly
<1>4. CASE m.command = << "CLEARCHAT" >>
  <2>1. k \in {<< "ban-duration" >>}
    BY <1>4 DEF Optionals
  <2>2. Reads(m) = ClearChatReads(m) /\ Reads(l) = ClearChatReads(l)
    BY <1>2, <1>4 DEF Reads
  <2>3. AllFine(Reads(l), checks)
    BY <1>1, <2>1, <2>2, ClearChatKept
  <2> QED BY <1>2, <2>3, TypedExactly
<1>5. CASE m.command = << "NOTICE" >>
  <2>1. k \in {<< "msg-id" >>}
    BY <1>5 DEF Optionals
  <2>2. Reads(m) = NoticeReads(m) /\ Reads(l) = NoticeReads(l)
    BY <1>2, <1>5 DEF Reads
  <2>3. AllFine(Reads(l), checks)
    BY <1>1, <2>1, <2>2, NoticeKept
  <2> QED BY <1>2, <2>3, TypedExactly
<1>6. CASE m.command = << "ROOMSTATE" >>
  <2>1. k \in {<< "emote-only" >>, << "followers-only" >>, << "r9k" >>, << "slow" >>, << "subs-only" >>}
    BY <1>6 DEF Optionals
  <2>2. Reads(m) = RoomStateReads(m) /\ Reads(l) = RoomStateReads(l)
    BY <1>2, <1>6 DEF Reads
  <2>3. AllFine(Reads(l), checks)
    BY <1>1, <2>1, <2>2, RoomStateKept
  <2> QED BY <1>2, <2>3, TypedExactly
<1>7. CASE m.command = << "USERNOTICE" >>
  <2>1. k \in {<< "msg-param-promo-name" >>, << "msg-param-promo-gift-total" >>, << "msg-param-color" >>}
    BY <1>7 DEF Optionals
  <2>2. Reads(m) = UserNoticeReads(m) /\ Reads(l) = UserNoticeReads(l)
    BY <1>2, <1>7 DEF Reads
  <2>3. AllFine(Reads(l), checks)
    BY <1>1, <2>1, <2>2, UserNoticeKept
  <2> QED BY <1>2, <2>3, TypedExactly
<1>8. m.command \in {<< "PRIVMSG" >>, << "CLEARCHAT" >>, << "NOTICE" >>, << "ROOMSTATE" >>, << "USERNOTICE" >>}
  <2>1. Optionals(m.command) # {}
    OBVIOUS
  <2> QED BY <2>1, Zenon DEF Optionals
<1> QED BY <1>3, <1>4, <1>5, <1>6, <1>7, <1>8

\* Only tags are missing that m need not have.
OnlyOptionals(m, tags) == tags \subseteq Optionals(m.command) \ DOMAIN m.tags

\* As long as that is so, what the server means has its type.
TypedSoFar ==
    /\ sender = "server" => meant # Nothing
    /\ sender # "client" /\ meant # Nothing /\ OnlyOptionals(meant, changed) => TryFrom(meant, checked).is = "typed"

\* A message of the catalogue has its type, whether the build checks arithmetic or not.
LEMMA TypedAtFirst == Init => TypedSoFar
<1> SUFFICES ASSUME Init, meant # Nothing PROVE TryFrom(meant, checked).is = "typed"
  BY DEF Init, TypedSoFar
<1>1. PICK m \in Catalogue : m = meant
  BY DEF Init
<1>2. OfTexts(m)
  BY FlowConstants, MessageOfTexts DEF WellMeant
<1>3. TryFrom(m, TRUE).is = "typed"
  BY FlowAssumption
<1>4. HasType(m) /\ AllFine(Reads(m), TRUE)
  BY <1>2, <1>3, TypedExactly
<1>5. AllFine(Reads(m), checked)
  BY <1>4, FineIs DEF AllFine
<1> QED BY <1>1, <1>2, <1>4, <1>5, TypedExactly

\* Leaving out a tag that it need not have does not change that.
LEMMA ChangeTagTyped == FlowInv /\ FlowInv' /\ TypedSoFar /\ ChangeTag => TypedSoFar'
<1> SUFFICES ASSUME FlowInv, FlowInv', TypedSoFar, ChangeTag PROVE TypedSoFar'
  OBVIOUS
<1>1. PICK m, l : m = meant /\ l = meant'
  OBVIOUS
<1>2. PICK key \in DOMAIN m.tags \ changed :
         /\ changed' = changed \cup {key}
         /\ \/ l = [m EXCEPT !.tags = Restrict(@, DOMAIN @ \ {key})]
            \/ \E value \in Values : l = [m EXCEPT !.tags[key] = value]
  BY <1>1 DEF ChangeTag
<1>3. sender = "nobody" /\ sender' = "nobody" /\ checked' = checked /\ m # Nothing
  BY <1>1 DEF ChangeTag
<1>4. WellMeant(m) /\ (l # Nothing => WellMeant(l))
  BY <1>1, <1>3 DEF FlowInv, Unsent
<1>5. ASSUME l # Nothing, OnlyOptionals(l, changed \cup {key}) PROVE TryFrom(l, checked).is = "typed"
  <2>1. OfTexts(m) /\ OfTexts(l)
    BY <1>4, <1>5, MessageOfTexts DEF WellMeant
  <2>2. m = Message(m.tags, m.prefix, m.command, m.params)
    <3>1. PICK tags, prefix : \E command \in CommandWords, ps \in ParamLists : m = Message(tags, prefix, command, ps)
      BY <1>4, Zenon DEF WellMeant, IsMessage
    <3> QED BY <3>1, MessageParts
  <2> DEFINE without == Restrict(m.tags, DOMAIN m.tags \ {key})
  <2>3. l = [m EXCEPT !.tags = without]
    <3>1. ASSUME NEW value \in Values, l = [m EXCEPT !.tags[key] = value] PROVE FALSE
      <4>1. l = Message([m.tags EXCEPT ![key] = value], m.prefix, m.command, m.params)
        BY <2>2, <3>1 DEF Message
      <4>2. l.tags = [m.tags EXCEPT ![key] = value]
        BY <4>1, MessageParts
      <4>3. key \in DOMAIN l.tags
        BY <4>2
      <4> QED BY <1>5, <4>3 DEF OnlyOptionals
    <3> QED BY <1>2, <3>1
  <2>4. Lacks(l, m, key)
    BY <2>2, <2>3, LessIs
  <2>5. l.command = m.command /\ DOMAIN l.tags = DOMAIN m.tags \ {key}
    <3>1. l = Message(without, m.prefix, m.command, m.params)
      BY <2>2, <2>3 DEF Message
    <3>2. l.tags = without /\ l.command = m.command
      BY <3>1, MessageParts
    <3> QED BY <3>2 DEF Restrict
  <2>6. key \in Optionals(m.command) /\ OnlyOptionals(m, changed)
    BY <1>5, <2>5 DEF OnlyOptionals
  <2>7. TryFrom(m, checked).is = "typed"
    BY <1>1, <1>3, <2>6 DEF TypedSoFar
  <2> QED BY <2>1, <2>4, <2>6, <2>7, TypedWithout
<1> QED BY <1>1, <1>2, <1>3, <1>5 DEF TypedSoFar

\* No other step of the server's message does.
LEMMA OthersTyped == TypedSoFar /\ [Next]_vars /\ ~ChangeTag => TypedSoFar'
<1> SUFFICES ASSUME TypedSoFar, [Next]_vars, ~ChangeTag PROVE TypedSoFar'
  OBVIOUS
<1>1. CASE Send
  BY <1>1 DEF Send, SendAs, TypedSoFar
<1>2. CASE UNCHANGED << meant, changed, checked >> /\ (sender' # "client" => sender # "client")
             /\ (sender' = "server" => sender = "server" \/ meant # Nothing)
  BY <1>2 DEF TypedSoFar, OnlyOptionals
<1>3. CASE ServerSends \/ Type \/ SendLine \/ Receive \/ SendOn \/ UNCHANGED vars
  <2>1. UNCHANGED << meant, changed, checked >>
    BY <1>3 DEF ServerSends, Type, SendLine, Receive, SendOn, vars
  <2>2. /\ sender' # "client" => sender # "client"
        /\ sender' = "server" => sender = "server" \/ meant # Nothing
    BY <1>3 DEF ServerSends, Type, SendLine, SendAs, Receive, SendOn, vars
  <2> QED BY <1>2, <2>1, <2>2
<1> QED BY <1>1, <1>3 DEF Next

\* So it stays until the message is sent, and after.
THEOREM TypedSoFarInvariant == Spec => [](FlowInv /\ TypedSoFar)
<1>1. Init => TypedSoFar
  BY TypedAtFirst
<1>2. FlowInv /\ FlowInv' /\ TypedSoFar /\ [Next]_vars => TypedSoFar'
  BY ChangeTagTyped, OthersTyped
<1> QED BY FlowInvariant, <1>1, <1>2, PTL DEF Spec

\* A message of the server has its type when only tags are missing that it need not
\* have: no type asks for more than what its fields are declared to need, for every
\* message that has its type with all of its tags.
THEOREM TypedWithoutOptionalsCorrect == Spec => []TypedWithoutOptionals
<1>1. FlowInv /\ TypedSoFar => TypedWithoutOptionals
  <2> SUFFICES ASSUME FlowInv, TypedSoFar, AllRead, sender = "server", OnlyOptionals(meant, changed)
               PROVE  received[1].is = "typed"
    BY DEF TypedWithoutOptionals, OnlyOptionals
  <2>1. PICK m : m = meant /\ WellMeant(m) /\ Carries(m)
    BY DEF FlowInv, Delivery, MeansIt
  <2>2. received[1] = HandedOut(Accepted(m), checked)
    BY <2>1 DEF AllRead, Carries
  <2>3. TryFrom(m, checked).is = "typed"
    BY <2>1 DEF TypedSoFar
  <2>4. HandedOut(Accepted(m), checked) = TryFrom(m, checked)
    BY <2>3, ReadParts DEF HandedOut, OrGeneric
  <2> QED BY <2>2, <2>3, <2>4
<1> QED BY TypedSoFarInvariant, <1>1, PTL
=============================================================================
