---------------------------- MODULE NaturalLemmas ----------------------------
(***************************************************************************)
(* Facts about natural numbers and sets of them that the proofs about the  *)
(* modules share.                                                          *)
(***************************************************************************)
EXTENDS Integers, FiniteSets, TLAPS, FiniteSetTheorems, FunctionTheorems, WellFoundedInduction

(* A number below the modulus is its own remainder: SeqOf without a wrap.  *)
LEMMA ModSmall ==
  ASSUME NEW a \in Nat, NEW m \in Nat \ {0}, a < m
  PROVE  a % m = a
  OBVIOUS

(* A remainder is a natural number no larger than what is divided: a       *)
(* sequence number never exceeds ISN plus stream position.                 *)
LEMMA ModBound ==
  ASSUME NEW a \in Nat, NEW m \in Nat \ {0}
  PROVE  a % m \in Nat /\ a % m <= a
  OBVIOUS

(* One wrap of a sequence number.                                          *)
LEMMA ModWrapped ==
  ASSUME NEW m \in Nat \ {0}, NEW a \in m .. 2 * m - 1
  PROVE  a % m = a - m
  OBVIOUS

(* Every nonempty set of naturals has a least element.                     *)
LEMMA LeastNatural ==
  ASSUME NEW T \in SUBSET Nat, T # {}
  PROVE  \E x \in T : \A y \in T : x <= y
<1> DEFINE R == {ss \in Nat \X Nat : ss[1] < ss[2]}
<1>1. R = OpToRel(<, Nat)
  BY Zenon DEF OpToRel
<1>2. IsWellFoundedOn(R, Nat)
  BY <1>1, NatLessThanWellFounded, Zenon
<1>3. \E x \in T : \A y \in T : ~ (<<y, x>> \in R)
  <2> HIDE DEF R
  <2> QED BY <1>2, WFMin
<1>4. PICK x \in T : \A y \in T : ~ (<<y, x>> \in R)
  BY <1>3
<1>5. ASSUME NEW y \in T PROVE x <= y
  <2>1. ~ (<<y, x>> \in R)
    BY <1>4
  <2>2. y \in Nat /\ x \in Nat
    OBVIOUS
  <2>3. CASE y < x
    <3> DEFINE p == <<y, x>>
    <3>1. p \in Nat \X Nat /\ p[1] = y /\ p[2] = x
      BY <2>2
    <3>2. p[1] < p[2]
      BY <3>1, <2>3
    <3> HIDE DEF p
    <3>3. p \in R
      BY <3>1, <3>2
    <3> QED BY <3>3, <2>1 DEF p
  <2> QED BY <2>2, <2>3
<1>6. QED
  BY <1>5

(* Every finite set of naturals leaves a number out, from any number on:   *)
(* the first one it leaves out is where the run that covers n ends.        *)
LEMMA FirstGap ==
  ASSUME NEW D \in SUBSET Nat, IsFiniteSet(D), NEW n \in Nat
  PROVE  \E m \in n .. n + Cardinality(D) :
           m \notin D /\ \A k \in n .. m - 1 : k \in D
<1> DEFINE card == Cardinality(D)
           window == n .. n + card
           free == {m \in window : m \notin D}
<1>1. card \in Nat
  BY FS_CardinalityType
<1>2. IsFiniteSet(window) /\ Cardinality(window) = card + 1
  <2>1. n + card \in Int /\ n \in Int /\ ~(n > n + card)
    BY <1>1
  <2> HIDE DEF card
  <2>2. QED BY <2>1, <1>1, FS_Interval
<1>3. free # {}
  <2>1. SUFFICES ASSUME window \in SUBSET D PROVE FALSE
    BY Zenon
  <2>2. Cardinality(window) <= card
    BY <2>1, FS_Subset
  <2> HIDE DEF card, window
  <2>3. QED BY <2>2, <1>2, <1>1
<1>4. free \in SUBSET Nat
  BY <1>1
<1>5. PICK m \in free : \A y \in free : m <= y
  <2> HIDE DEF free
  <2> QED BY <1>3, <1>4, LeastNatural
<1>6. \A k \in n .. m - 1 : k \in D
  <2> SUFFICES ASSUME NEW k \in n .. m - 1, k \notin D PROVE FALSE
    OBVIOUS
  <2>1. k \in window
    BY <1>1
  <2>2. k \in free
    BY <2>1
  <2>3. m <= k
    BY <2>2, <1>5
  <2>4. QED BY <2>3, <1>4
<1>7. m \in window /\ m \notin D
  OBVIOUS
<1>8. QED
  BY <1>6, <1>7

(* Every nonempty set of naturals below a bound has a greatest element.    *)
LEMMA GreatestNatural ==
  ASSUME NEW n \in Nat, NEW T \in SUBSET (1 .. n), T # {}
  PROVE  \E x \in T : \A y \in T : y <= x
<1> DEFINE U == {m \in Nat : n - m \in T}
<1>1. U # {}
  <2>1. PICK w \in T : TRUE
    OBVIOUS
  <2>2. n - w \in Nat /\ n - (n - w) = w
    OBVIOUS
  <2> QED BY <2>1, <2>2
<1>2. U \in SUBSET Nat
  OBVIOUS
<1>3. PICK m \in U : \A j \in U : m <= j
  <2> HIDE DEF U
  <2> QED BY <1>1, <1>2, LeastNatural
<1>4. m \in Nat /\ n - m \in T
  OBVIOUS
<1>5. ASSUME NEW y \in T PROVE y <= n - m
  <2>1. n - y \in Nat /\ n - (n - y) = y
    OBVIOUS
  <2>2. n - y \in U
    BY <2>1
  <2>3. m <= n - y
    <3> HIDE DEF U
    <3> QED BY <1>3, <2>2
  <2> QED BY <1>4, <2>1, <2>3
<1> QED BY <1>4, <1>5

(* The elements of a set below p: how many there are is p's place in it.   *)
Below(T, p) == {q \in T : q < p}

LEMMA PlacesRise ==
  ASSUME NEW T \in SUBSET Nat, IsFiniteSet(T), NEW p \in T, NEW q \in T, p < q
  PROVE  /\ Cardinality(Below(T, p)) \in Nat /\ Cardinality(Below(T, q)) \in Nat
         /\ Cardinality(Below(T, p)) < Cardinality(Below(T, q))
<1>1. IsFiniteSet(Below(T, p)) /\ IsFiniteSet(Below(T, q))
  BY FS_Subset DEF Below
<1>0. p \in Nat /\ q \in Nat /\ \A r \in T : r \in Nat
  OBVIOUS
<1>2. p \notin Below(T, p) /\ Below(T, p) \cup {p} \subseteq Below(T, q)
  <2>1. ~ (p < p)
    BY <1>0
  <2>2. \A r \in T : r < p => r < q
    BY <1>0
  <2> QED BY <2>1, <2>2 DEF Below
<1>3. Cardinality(Below(T, p) \cup {p}) = Cardinality(Below(T, p)) + 1
  BY <1>1, <1>2, FS_AddElement
<1>4. Cardinality(Below(T, p) \cup {p}) <= Cardinality(Below(T, q))
  BY <1>1, <1>2, FS_Subset
<1>5. Cardinality(Below(T, p)) \in Nat /\ Cardinality(Below(T, q)) \in Nat
  BY <1>1, FS_CardinalityType
<1> QED BY <1>3, <1>4, <1>5

(* Every place of a finite set of naturals is taken.                       *)
LEMMA PlacesTaken ==
  ASSUME NEW T \in SUBSET Nat, IsFiniteSet(T), NEW i \in 1 .. Cardinality(T)
  PROVE  \E p \in T : Cardinality(Below(T, p)) = i - 1
<1> DEFINE card == Cardinality(T)
           Free == {j \in 1 .. card : ~ \E p \in T : Cardinality(Below(T, p)) = j - 1}
<1>1. card \in Nat
  BY FS_CardinalityType
<1>2. Free = {}
  <2> SUFFICES ASSUME Free # {} PROVE FALSE
    OBVIOUS
  <2>1. PICK j \in Free : \A k \in Free : j <= k
    <3>1. Free \in SUBSET Nat
      BY <1>1
    <3> HIDE DEF Free
    <3> QED BY <3>1, LeastNatural
  <2>2. j \in 1 .. card /\ \A p \in T : Cardinality(Below(T, p)) # j - 1
    OBVIOUS
  <2>3. CASE j = 1
    <3>1. T # {}
      BY <1>1, <2>2, FS_EmptySet
    <3>2. PICK p \in T : \A q \in T : p <= q
      BY <3>1, LeastNatural
    <3>3. \A q \in T : ~ (q < p)
      <4>1. p \in Nat /\ \A q \in T : q \in Nat
        OBVIOUS
      <4> QED BY <3>2, <4>1
    <3>4. Below(T, p) = {}
      BY <3>3 DEF Below
    <3>5. Cardinality(Below(T, p)) = 0
      BY <3>4, FS_EmptySet
    <3> QED BY <2>2, <2>3, <3>5
  <2>4. CASE j # 1
    <3>1. j - 1 \in 1 .. card /\ j - 1 \notin Free
      <4> HIDE DEF Free
      <4> QED BY <1>1, <2>1, <2>2, <2>4
    <3>2. PICK p \in T : Cardinality(Below(T, p)) = (j - 1) - 1
      BY <3>1
    <3> DEFINE upto  == Below(T, p) \cup {p}
               above == T \ upto
    <3>3. IsFiniteSet(Below(T, p)) /\ p \notin Below(T, p)
      BY FS_Subset DEF Below
    <3>4. IsFiniteSet(upto) /\ Cardinality(upto) = j - 1
      <4>1. Cardinality(upto) = Cardinality(Below(T, p)) + 1
        BY <3>3, FS_AddElement
      <4>2. IsFiniteSet(upto)
        BY <3>3, FS_AddElement
      <4> QED BY <4>1, <4>2, <3>2, <2>2
    <3>5. above # {}
      <4>1. T # upto
        BY <3>4, <2>2, <1>1
      <4>2. upto \subseteq T
        BY DEF Below
      <4> QED BY <4>1, <4>2
    <3>6. PICK q \in above : \A r \in above : q <= r
      <4>1. above \in SUBSET Nat
        OBVIOUS
      <4> HIDE DEF above
      <4> QED BY <3>5, <4>1, LeastNatural
    <3>7. q \in T /\ p < q
      BY DEF Below
    <3>8. Below(T, q) = upto
      <4>1. \A r \in T : r < q => r \in upto
        BY <3>6, <3>7
      <4>2. \A r \in upto : r \in T /\ r < q
        BY <3>7 DEF Below
      <4> HIDE DEF upto
      <4> QED BY <4>1, <4>2 DEF Below
    <3> QED BY <3>4, <3>7, <3>8, <2>2
  <2> QED BY <2>3, <2>4
<1> QED BY <1>2

(* What lies in a set of naturals lies in a run of it that has a start.    *)
LEMMA RunCovers ==
  ASSUME NEW D \in SUBSET Nat, NEW k \in D
  PROVE  \E s \in D : s <= k /\ s - 1 \notin D /\ \A j \in s .. k : j \in D
<1> DEFINE S == {s \in Nat : s <= k /\ \A j \in s .. k : j \in D}
<1>1. k \in S
  OBVIOUS
<1>2. PICK s \in S : \A r \in S : s <= r
  <2>1. S \in SUBSET Nat
    OBVIOUS
  <2> HIDE DEF S
  <2> QED BY <1>1, <2>1, LeastNatural
<1>3. s \in Nat /\ s <= k /\ (\A j \in s .. k : j \in D) /\ s \in D
  OBVIOUS
<1>4. s - 1 \notin D
  <2> SUFFICES ASSUME s - 1 \in D PROVE FALSE
    OBVIOUS
  <2>1. s - 1 \in Nat /\ s - 1 <= k
    BY <1>3
  <2>2. \A j \in s - 1 .. k : j = s - 1 \/ j \in s .. k
    BY <1>3
  <2>3. s - 1 \in S
    BY <1>3, <2>1, <2>2
  <2>4. s <= s - 1
    <3> HIDE DEF S
    <3> QED BY <1>2, <2>3
  <2> QED BY <1>3, <2>4
<1> QED BY <1>3, <1>4

(* The starts of a set's runs are numbered in ascending order.  Nothing    *)
(* lies below the first one ...                                            *)
StartsIn(D) == {p \in D : p - 1 \notin D}

LEMMA FirstRun ==
  ASSUME NEW D \in SUBSET Nat, IsFiniteSet(D),
         NEW s \in StartsIn(D), Cardinality(Below(StartsIn(D), s)) = 0
  PROVE  \A k \in D : s <= k
<1> DEFINE T == StartsIn(D)
<1> SUFFICES ASSUME NEW k \in D, ~ (s <= k) PROVE FALSE
  OBVIOUS
<1>1. T \in SUBSET Nat /\ IsFiniteSet(T) /\ s \in Nat /\ s \in T
  BY FS_Subset DEF StartsIn
<1>2. PICK r \in D : r <= k /\ r - 1 \notin D
  BY RunCovers
<1>3. r \in T /\ r < s
  BY <1>1, <1>2 DEF StartsIn
<1> HIDE DEF T
<1>4. /\ Cardinality(Below(T, r)) \in Nat
      /\ Cardinality(Below(T, r)) < Cardinality(Below(T, s))
  BY <1>1, <1>3, PlacesRise
<1>5. Cardinality(Below(T, s)) = 0
  BY DEF T
<1> QED BY <1>4, <1>5

(* ... and nothing lies between the end of one run and the next one.       *)
LEMMA RunsInOrder ==
  ASSUME NEW D \in SUBSET Nat, IsFiniteSet(D),
         NEW r \in StartsIn(D), NEW s \in StartsIn(D),
         Cardinality(Below(StartsIn(D), s)) = Cardinality(Below(StartsIn(D), r)) + 1,
         NEW a \in Nat, r < a, a \notin D, \A k \in r .. a - 1 : k \in D
  PROVE  a < s /\ \A k \in a .. s - 1 : k \notin D
<1> DEFINE T == StartsIn(D)
<1>1. /\ T \in SUBSET Nat /\ IsFiniteSet(T) /\ s \in Nat /\ r \in Nat
      /\ s \in T /\ r \in T /\ s \in D /\ s - 1 \notin D
  BY FS_Subset DEF StartsIn
<1> HIDE DEF T
<1>2. IsFiniteSet(Below(T, s)) /\ IsFiniteSet(Below(T, r))
  BY <1>1, FS_Subset DEF Below
<1>3. Cardinality(Below(T, s)) \in Nat /\ Cardinality(Below(T, r)) \in Nat
  BY <1>2, FS_CardinalityType
<1>0. Cardinality(Below(T, s)) = Cardinality(Below(T, r)) + 1
  BY DEF T
<1>4. r < s
  <2>1. CASE s < r
    <3>1. Cardinality(Below(T, s)) < Cardinality(Below(T, r))
      BY <1>1, <2>1, PlacesRise
    <3> QED BY <1>0, <1>3, <3>1
  <2>2. s # r
    BY <1>0, <1>3
  <2> QED BY <1>1, <2>1, <2>2
<1>5. a < s
  <2> SUFFICES ASSUME s <= a PROVE FALSE
    BY <1>1
  <2>1. s # a
    BY <1>1
  <2>2. s - 1 \in r .. a - 1
    BY <1>1, <1>4, <2>1
  <2> QED BY <2>2, <1>1
<1>6. ASSUME NEW k \in a .. s - 1, k \in D PROVE FALSE
  <2>1. PICK u \in D : u <= k /\ u - 1 \notin D /\ \A j \in u .. k : j \in D
    BY <1>6, RunCovers
  <2>2. u \in T /\ u < s /\ u \in Nat
    BY <1>1, <1>6, <2>1 DEF T, StartsIn
  <2>3. a < u
    <3> SUFFICES ASSUME u <= a PROVE FALSE
      BY <2>2
    <3>1. a \in u .. k
      BY <1>6, <2>2
    <3> QED BY <3>1, <2>1
  <2>4. /\ Cardinality(Below(T, u)) \in Nat
        /\ Cardinality(Below(T, r)) < Cardinality(Below(T, u))
    <3>1. r < u
      BY <1>1, <2>2, <2>3
    <3> QED BY <3>1, <1>1, <2>2, PlacesRise
  <2>5. Cardinality(Below(T, u)) < Cardinality(Below(T, s))
    BY <1>1, <2>2, PlacesRise
  <2> QED BY <1>0, <1>3, <2>4, <2>5
<1> QED BY <1>5, <1>6

(* Nothing lies behind the end of the last run.                            *)
LEMMA LastRun ==
  ASSUME NEW D \in SUBSET Nat, IsFiniteSet(D), NEW s \in StartsIn(D),
         Cardinality(Below(StartsIn(D), s)) = Cardinality(StartsIn(D)) - 1,
         NEW a \in Nat, s < a, a \notin D
  PROVE  \A k \in D : k < a
<1> DEFINE T == StartsIn(D)
           below == Below(T, s)
<1> SUFFICES ASSUME NEW k \in D, ~ (k < a) PROVE FALSE
  OBVIOUS
<1>1. /\ T \in SUBSET Nat /\ IsFiniteSet(T) /\ Cardinality(T) \in Nat
      /\ s \in Nat /\ s \in T /\ k \in Nat
  <2>1. T \subseteq D
    BY DEF StartsIn
  <2> QED BY <2>1, FS_Subset, FS_CardinalityType
<1>2. PICK r \in D : r <= k /\ r - 1 \notin D /\ \A j \in r .. k : j \in D
  BY RunCovers
<1>3. r \in T /\ r \in Nat
  BY <1>2 DEF StartsIn
<1>4. s < r
  <2>1. a \notin r .. k
    BY <1>2
  <2> QED BY <1>1, <1>3, <2>1
<1>5. Cardinality(below) = Cardinality(T) - 1
  OBVIOUS
<1> HIDE DEF T
<1>6. /\ IsFiniteSet(below) /\ s \notin below
      /\ r \notin below \cup {s} /\ (below \cup {s}) \cup {r} \subseteq T
  BY <1>1, <1>3, <1>4, FS_Subset DEF Below
<1> HIDE DEF below
<1>7. IsFiniteSet(below \cup {s}) /\ Cardinality(below \cup {s}) = Cardinality(below) + 1
  BY <1>6, FS_AddElement
<1>8. Cardinality((below \cup {s}) \cup {r}) = Cardinality(below \cup {s}) + 1
  BY <1>6, <1>7, FS_AddElement
<1>9. Cardinality((below \cup {s}) \cup {r}) <= Cardinality(T)
  BY <1>1, <1>6, FS_Subset
<1> QED BY <1>1, <1>5, <1>7, <1>8, <1>9

(* Induction up to a bound: what holds of 0, and of i + 1 when of i.       *)
LEMMA StepByStep ==
  ASSUME NEW n \in Nat, NEW T, 0 \in T,
         \A i \in 0 .. n - 1 : i \in T => i + 1 \in T
  PROVE  \A i \in 0 .. n : i \in T
<1> DEFINE R == {i \in 0 .. n : i \notin T}
<1> SUFFICES ASSUME R # {} PROVE FALSE
  OBVIOUS
<1>1. PICK m \in R : \A j \in R : m <= j
  <2>1. R \in SUBSET Nat
    OBVIOUS
  <2> HIDE DEF R
  <2> QED BY <2>1, LeastNatural
<1>2. m \in 0 .. n /\ m # 0 /\ m \notin T
  OBVIOUS
<1>3. m - 1 \in 0 .. n - 1 /\ (m - 1) + 1 = m /\ m - 1 < m
  BY <1>2
<1>4. m - 1 \notin R
  <2> HIDE DEF R
  <2> QED BY <1>1, <1>2, <1>3
<1>5. m - 1 \in T
  BY <1>2, <1>3, <1>4
<1> QED BY <1>2, <1>3, <1>5

(* Numbered by a key that no two share, each number has its place: the     *)
(* places are 0 to n - 1, and they follow the keys.                        *)
PlaceOf(key, n, i) == Cardinality({j \in 1 .. n : key[j] < key[i]})

LEMMA SameSize ==
  ASSUME NEW S, NEW T, NEW f \in [S -> T], IsFiniteSet(S),
         \A x, y \in S : f[x] = f[y] => x = y,
         \A t \in T : \E x \in S : f[x] = t
  PROVE  IsFiniteSet(T) /\ Cardinality(T) = Cardinality(S)
<1>1. f \in Bijection(S, T)
  BY Fun_IsBij
<1>2. ExistsBijection(S, T)
  BY <1>1 DEF ExistsBijection
<1> QED BY <1>2, FS_Bijection

LEMMA PlacesByKey ==
  ASSUME NEW n \in Nat, NEW key \in [1 .. n -> Nat],
         \A i, j \in 1 .. n : key[i] = key[j] => i = j
  PROVE  /\ \A i \in 1 .. n : PlaceOf(key, n, i) + 1 \in 1 .. n
         /\ \A i, j \in 1 .. n : PlaceOf(key, n, i) < PlaceOf(key, n, j) <=> key[i] < key[j]
         /\ \A k \in 1 .. n : \E i \in 1 .. n : PlaceOf(key, n, i) = k - 1
<1> DEFINE T == {key[i] : i \in 1 .. n}
<1>1. IsFiniteSet(1 .. n) /\ Cardinality(1 .. n) = n
  BY FS_Interval
<1>2. T \in SUBSET Nat /\ IsFiniteSet(T) /\ Cardinality(T) = n
  <2>1. key \in [1 .. n -> T]
    OBVIOUS
  <2>2. \A t \in T : \E i \in 1 .. n : key[i] = t
    OBVIOUS
  <2>3. T \in SUBSET Nat
    OBVIOUS
  <2> HIDE DEF T
  <2> QED BY <1>1, <2>1, <2>2, <2>3, SameSize
<1>3. ASSUME NEW i \in 1 .. n
      PROVE  /\ key[i] \in T
             /\ PlaceOf(key, n, i) = Cardinality(Below(T, key[i]))
             /\ PlaceOf(key, n, i) \in Nat
  <2> DEFINE S == {j \in 1 .. n : key[j] < key[i]}
             B == Below(T, key[i])
             f == [j \in S |-> key[j]]
  <2>1. IsFiniteSet(S)
    BY <1>1, FS_Subset
  <2>2. f \in [S -> B]
    BY DEF Below
  <2>3. \A x, y \in S : f[x] = f[y] => x = y
    OBVIOUS
  <2>4. \A t \in B : \E x \in S : f[x] = t
    BY DEF Below
  <2>5. Cardinality(B) = Cardinality(S)
    <3> HIDE DEF f, B, S
    <3> QED BY <2>1, <2>2, <2>3, <2>4, SameSize
  <2>6. PlaceOf(key, n, i) = Cardinality(S)
    BY DEF PlaceOf
  <2>7. key[i] \in T
    OBVIOUS
  <2> HIDE DEF S, T
  <2> QED BY <2>1, <2>5, <2>6, <2>7, FS_CardinalityType
<1> HIDE DEF T
<1>4. ASSUME NEW i \in 1 .. n, NEW j \in 1 .. n, key[i] < key[j]
      PROVE  PlaceOf(key, n, i) < PlaceOf(key, n, j)
  BY <1>2, <1>3, <1>4, PlacesRise
<1>5. ASSUME NEW i \in 1 .. n, NEW j \in 1 .. n, PlaceOf(key, n, i) < PlaceOf(key, n, j)
      PROVE  key[i] < key[j]
  <2> SUFFICES ASSUME ~ (key[i] < key[j]) PROVE FALSE
    OBVIOUS
  <2>0. key[i] \in Nat /\ key[j] \in Nat
    OBVIOUS
  <2>1. PlaceOf(key, n, i) \in Nat /\ PlaceOf(key, n, j) \in Nat
    BY <1>3
  <2>2. CASE key[j] < key[i]
    <3>1. PlaceOf(key, n, j) < PlaceOf(key, n, i)
      BY <1>4, <2>2
    <3> QED BY <1>5, <2>1, <3>1
  <2>3. CASE key[i] = key[j]
    <3>1. i = j
      BY <2>3
    <3> QED BY <1>5, <2>1, <3>1
  <2> QED BY <2>0, <2>2, <2>3
<1>6. ASSUME NEW k \in 1 .. n PROVE \E i \in 1 .. n : PlaceOf(key, n, i) = k - 1
  <2>1. PICK p \in T : Cardinality(Below(T, p)) = k - 1
    BY <1>2, PlacesTaken
  <2>2. PICK i \in 1 .. n : p = key[i]
    BY DEF T
  <2> QED BY <2>1, <2>2, <1>3
<1>7. ASSUME NEW i \in 1 .. n PROVE PlaceOf(key, n, i) + 1 \in 1 .. n
  <2> DEFINE S == {j \in 1 .. n : key[j] < key[i]}
  <2>1. S \in SUBSET (1 .. n) /\ i \notin S
    OBVIOUS
  <2>2. Cardinality(S) <= n /\ Cardinality(S) # n
    <3> HIDE DEF S
    <3>1. S # 1 .. n
      BY <2>1
    <3>2. Cardinality(S) <= Cardinality(1 .. n) /\ (Cardinality(1 .. n) = Cardinality(S) => 1 .. n = S)
      BY <1>1, <2>1, FS_Subset
    <3> QED BY <1>1, <3>1, <3>2
  <2>3. PlaceOf(key, n, i) = Cardinality(S)
    BY DEF PlaceOf
  <2>4. PlaceOf(key, n, i) \in Nat
    BY <1>3
  <2> HIDE DEF S
  <2> QED BY <2>2, <2>3, <2>4
<1> QED BY <1>4, <1>5, <1>6, <1>7
==============================================================================
