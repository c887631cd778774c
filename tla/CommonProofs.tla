---------------------------- MODULE CommonProofs -----------------------------
(***************************************************************************)
(* Facts that the proof modules rest on: about the naturals, divisors and  *)
(* primes, and finite orders; about the log operators, for logs of any     *)
(* length over any set of entries; and that the fixtures' checks and runs  *)
(* are what they are documented to be, for numbers and lists of any size.  *)
(***************************************************************************)
EXTENDS LedgerLog, Fixtures, SequenceTheorems, FiniteSetTheorems, TLAPS

(* Every non-empty set of naturals has a least element. *)
LEMMA LeastNatural ==
    ASSUME NEW T, T \subseteq Nat, T # {}
    PROVE  \E x \in T : \A y \in T : x <= y
<1>1. IsWellFoundedOn(OpToRel(<, Nat), Nat)
  BY NatLessThanWellFounded
<1>2. PICK x \in T : \A y \in T : ~ (<<y, x>> \in OpToRel(<, Nat))
  BY <1>1, WFMin
<1>3. \A y \in T : <<y, x>> \in OpToRel(<, Nat) <=> y < x
  BY DEF OpToRel
<1>4. \A y \in T : ~ (y < x)
  BY <1>2, <1>3
<1> QED
  BY <1>4

(* Induction, for a property given as the set of numbers that have it. *)
LEMMA Induction ==
    ASSUME NEW P, 0 \in P, \A n \in Nat : n \in P => n + 1 \in P
    PROVE  Nat \subseteq P
<1> SUFFICES ASSUME Nat \ P # {}
             PROVE  FALSE
  OBVIOUS
<1>1. PICK m \in Nat \ P : \A n \in Nat \ P : m <= n
  BY LeastNatural
<1>2. m - 1 \in Nat /\ m - 1 \in P
  BY <1>1
<1> QED
  BY <1>1, <1>2

(* A function on the naturals may be given by its value at 0 and by how    *)
(* each further value follows from the one before.                         *)
Recursive(f, S, c, step) == /\ f \in [Nat -> S]
                            /\ f[0] = c
                            /\ \A n \in Nat : f[n + 1] = step[<<n, f[n]>>]

(* ... and there is such a function. *)
LEMMA Recursion ==
    ASSUME NEW S, NEW c \in S, NEW step \in [Nat \X S -> S]
    PROVE  \E f : Recursive(f, S, c, step)
<1> DEFINE Approx(n) == {g \in [0..n -> S] :
                            /\ g[0] = c
                            /\ \A k \in 0..(n - 1) : g[k + 1] = step[<<k, g[k]>>]}
           Upto == {n \in Nat : Approx(n) # {}}
<1>1. Nat \subseteq Upto
  <2>1. 0 \in Upto
    <3>1. [k \in 0..0 |-> c] \in Approx(0)
      OBVIOUS
    <3> QED
      BY <3>1
  <2>2. ASSUME NEW n \in Nat, n \in Upto
        PROVE  n + 1 \in Upto
    <3>1. PICK g \in Approx(n) : TRUE
      BY <2>2
    <3> DEFINE h == [k \in 0..(n + 1) |-> IF k = n + 1 THEN step[<<n, g[n]>>] ELSE g[k]]
    <3>0. /\ g \in [0..n -> S] /\ g[0] = c
          /\ \A k \in 0..(n - 1) : g[k + 1] = step[<<k, g[k]>>]
      BY <3>1
    <3>2. h \in [0..(n + 1) -> S]
      <4>1. step[<<n, g[n]>>] \in S
        BY <3>0
      <4> QED
        BY <3>0, <4>1
    <3>3. h[0] = c
      BY <3>0
    <3>4. ASSUME NEW k \in 0..n
          PROVE  h[k + 1] = step[<<k, h[k]>>]
      <4>1. k # n + 1 /\ h[k] = g[k]
        OBVIOUS
      <4>2. CASE k = n
        <5>1. h[n + 1] = step[<<n, g[n]>>]
          OBVIOUS
        <5> HIDE DEF h
        <5> QED
          BY <4>1, <4>2, <5>1
      <4>3. CASE k # n
        <5>1. k \in 0..(n - 1) /\ k + 1 \in 0..n
          BY <4>3
        <5> QED
          BY <3>0, <4>1, <5>1
      <4> QED
        BY <4>2, <4>3
    <3> HIDE DEF h
    <3>5. h \in Approx(n + 1)
      BY <3>2, <3>3, <3>4
    <3> QED
      BY <3>5
  <2> HIDE DEF Upto
  <2> QED
    BY <2>1, <2>2, Induction
<1>2. ASSUME NEW n \in Nat, NEW m \in Nat, NEW g \in Approx(n), NEW h \in Approx(m)
      PROVE  \A k \in Nat : k <= n /\ k <= m => g[k] = h[k]
  <2> DEFINE Same == {k \in Nat : k <= n /\ k <= m => g[k] = h[k]}
  <2>1. 0 \in Same
    OBVIOUS
  <2>2. ASSUME NEW k \in Nat, k \in Same
        PROVE  k + 1 \in Same
    <3> SUFFICES ASSUME k + 1 <= n, k + 1 <= m
                 PROVE  g[k + 1] = h[k + 1]
      OBVIOUS
    <3>1. k \in 0..(n - 1) /\ k \in 0..(m - 1) /\ g[k] = h[k]
      BY <2>2
    <3>2. g[k + 1] = step[<<k, g[k]>>] /\ h[k + 1] = step[<<k, h[k]>>]
      BY <3>1
    <3> QED
      BY <3>1, <3>2
  <2>3. Nat \subseteq Same
    <3> HIDE DEF Same
    <3> QED
      BY <2>1, <2>2, Induction
  <2> QED
    BY <2>3
<1> DEFINE A(n) == CHOOSE g \in Approx(n) : TRUE
           f == [n \in Nat |-> A(n)[n]]
<1>3. ASSUME NEW n \in Nat
      PROVE  A(n) \in Approx(n)
  BY <1>1
<1> HIDE DEF A
<1>4. f \in [Nat -> S]
  BY <1>3
<1>5. f[0] = c
  BY <1>3
<1>6. ASSUME NEW n \in Nat
      PROVE  f[n + 1] = step[<<n, f[n]>>]
  <2>1. A(n + 1) \in Approx(n + 1) /\ A(n) \in Approx(n)
    BY <1>3
  <2>2. A(n + 1)[n] = A(n)[n]
    <3>1. n + 1 \in Nat /\ n <= n + 1 /\ n <= n
      OBVIOUS
    <3> HIDE DEF Approx
    <3> QED
      BY <1>2, <2>1, <3>1
  <2>3. A(n + 1)[n + 1] = step[<<n, A(n + 1)[n]>>]
    BY <2>1
  <2> QED
    BY <2>2, <2>3
<1> HIDE DEF f
<1>7. Recursive(f, S, c, step)
  BY <1>4, <1>5, <1>6 DEF Recursive
<1> QED
  BY <1>7

(* A power of two counts the subsets of a set. *)
LEMMA PowersAreNatural == \A n \in Nat : 2 ^ n \in Nat
<1> TAKE n \in Nat
<1>1. IsFiniteSet(1..n) /\ Cardinality(1..n) = n
  BY FS_Interval
<1>2. IsFiniteSet(SUBSET (1..n)) /\ Cardinality(SUBSET (1..n)) = 2 ^ n
  BY <1>1, FS_SUBSET
<1> QED
  BY <1>2, FS_CardinalityType
-----------------------------------------------------------------------------
(* terminal_receipt_for returns a recorded success whenever there is one. *)
LEMMA TerminalIsASuccess ==
    ASSUME NEW S, NEW log \in Seq(S), NEW task, Successes(log, task) # {}
    PROVE  \E i \in Successes(log, task) :
               TerminalReceiptFor(log, task) = log[i].receipt
<1> DEFINE T == Successes(log, task)
           First(i) == i \in T /\ \A j \in T : i <= j
<1>1. T \subseteq Nat
  <2>1. DOMAIN log = 1..Len(log) /\ Len(log) \in Nat
    BY LenProperties
  <2> QED
    BY <2>1 DEF Successes
<1>2. \E i \in T : \A j \in T : i <= j
  BY <1>1, LeastNatural
<1> DEFINE i == CHOOSE k \in T : \A j \in T : k <= j
<1>3. i \in T
  BY <1>2
<1>4. TerminalReceiptFor(log, task) = log[i].receipt
  BY DEF TerminalReceiptFor
<1> QED
  BY <1>3, <1>4

(* The log after an append: the old entries, then the new one. *)
LEMMA AppendedLog ==
    ASSUME NEW S, NEW log \in Seq(S), NEW e \in S
    PROVE  /\ Append(log, e) \in Seq(S)
           /\ Len(log) \in Nat
           /\ Len(Append(log, e)) = Len(log) + 1
           /\ DOMAIN log = 1..Len(log)
           /\ DOMAIN Append(log, e) = 1..(Len(log) + 1)
           /\ \A i \in 1..Len(log) : Append(log, e)[i] = log[i]
           /\ Append(log, e)[Len(log) + 1] = e
<1>1. Append(log, e) \in Seq(S) /\ Len(Append(log, e)) = Len(log) + 1
      /\ Append(log, e)[Len(log) + 1] = e
      /\ \A i \in 1..Len(log) : Append(log, e)[i] = log[i]
  BY AppendProperties
<1>2. Len(log) \in Nat /\ DOMAIN log = 1..Len(log)
  BY LenProperties
<1>3. DOMAIN Append(log, e) = 1..Len(Append(log, e))
  BY <1>1, LenProperties
<1> QED
  BY <1>1, <1>2, <1>3

(* The same without positions: nothing is lost and one entry is gained. *)
LEMMA AppendedMembers ==
    ASSUME NEW S, NEW log \in Seq(S), NEW e \in S
    PROVE  /\ \E i \in DOMAIN Append(log, e) : Append(log, e)[i] = e
           /\ \A i \in DOMAIN log : /\ i \in DOMAIN Append(log, e)
                                    /\ Append(log, e)[i] = log[i]
           /\ \A i \in DOMAIN Append(log, e) :
                 \/ i \in DOMAIN log /\ Append(log, e)[i] = log[i]
                 \/ Append(log, e)[i] = e
<1> DEFINE after == Append(log, e)
<1>1. /\ Len(log) \in Nat
      /\ DOMAIN log = 1..Len(log)
      /\ DOMAIN after = 1..(Len(log) + 1)
      /\ \A i \in 1..Len(log) : after[i] = log[i]
      /\ after[Len(log) + 1] = e
  BY AppendedLog
<1> HIDE DEF after
<1>2. Len(log) + 1 \in DOMAIN after
  BY <1>1
<1>3. \A i \in DOMAIN log : i \in DOMAIN after /\ after[i] = log[i]
  BY <1>1
<1>4. \A i \in DOMAIN after : (i \in DOMAIN log /\ after[i] = log[i]) \/ after[i] = e
  BY <1>1
<1> QED
  BY <1>1, <1>2, <1>3, <1>4 DEF after

-----------------------------------------------------------------------------
(* Divisors and primes. *)

Divides(d, n) == \E q \in Nat : n = d * q

(* A remainder is zero when the divisor divides. *)
LEMMA RemainderZero ==
    ASSUME NEW d \in Nat \ {0}, NEW n \in Nat
    PROVE  n % d = 0 <=> Divides(d, n)
<1>1. n = d * (n \div d) + (n % d) /\ n \div d \in Nat
  OBVIOUS
<1>2. ASSUME n % d = 0 PROVE Divides(d, n)
  BY <1>1, <1>2 DEF Divides
<1>3. ASSUME NEW q \in Nat, n = d * q
      PROVE  n % d = 0
  BY <1>3
<1> QED
  BY <1>2, <1>3 DEF Divides

(* A divisor of a divisor divides. *)
LEMMA DividesTransitive ==
    ASSUME NEW c \in Nat, NEW d \in Nat, NEW n \in Nat, Divides(c, d), Divides(d, n)
    PROVE  Divides(c, n)
<1>1. PICK p \in Nat : d = c * p
  BY DEF Divides
<1>2. PICK q \in Nat : n = d * q
  BY DEF Divides
<1>3. p * q \in Nat /\ n = c * (p * q)
  BY <1>1, <1>2
<1> QED
  BY <1>3 DEF Divides

(* No number but 1 divides two neighbours. *)
LEMMA NeighboursShareNoDivisor ==
    ASSUME NEW d \in Nat, NEW n \in Nat, Divides(d, n), Divides(d, n + 1)
    PROVE  d = 1
<1>1. PICK p \in Nat : n = d * p
  BY DEF Divides
<1>2. PICK q \in Nat : n + 1 = d * q
  BY DEF Divides
<1>3. d * (q - p) = 1
  BY <1>1, <1>2
<1> DEFINE e == q - p
<1>4. e \in Int /\ d * e = 1
  BY <1>3
<1> HIDE DEF e
<1>5. e > 0
  BY <1>4
<1>6. d > 0
  BY <1>4
<1>7. ASSUME d >= 2 PROVE FALSE
  <2>1. d * e >= 2 * e
    BY <1>4, <1>5, <1>7
  <2> QED
    BY <1>4, <1>5, <2>1
<1> QED
  BY <1>6, <1>7

(* Some positive number is divided by each of the first n. *)
LEMMA CommonMultiple ==
    ASSUME NEW n \in Nat
    PROVE  \E m \in Nat \ {0} : \A d \in 1..n : Divides(d, m)
<1> DEFINE P == {k \in Nat : \E m \in Nat \ {0} : \A d \in 1..k : Divides(d, m)}
<1>1. 0 \in P
  <2>1. 1 \in Nat \ {0} /\ \A d \in 1..0 : Divides(d, 1)
    OBVIOUS
  <2> QED
    BY <2>1
<1>2. ASSUME NEW k \in Nat, k \in P
      PROVE  k + 1 \in P
  <2>1. PICK m \in Nat \ {0} : \A d \in 1..k : Divides(d, m)
    BY <1>2
  <2>2. m * (k + 1) \in Nat \ {0}
    <3>1. m * (k + 1) = m * k + m /\ m * k \in Nat
      OBVIOUS
    <3> QED
      BY <3>1
  <2>3. ASSUME NEW d \in 1..(k + 1)
        PROVE  Divides(d, m * (k + 1))
    <3>1. CASE d = k + 1
      <4>1. m * (k + 1) = (k + 1) * m
        OBVIOUS
      <4> QED
        BY <3>1, <4>1 DEF Divides
    <3>2. CASE d \in 1..k
      <4>1. Divides(d, m) /\ d \in Nat
        BY <2>1, <3>2
      <4>2. Divides(m, m * (k + 1))
        <5>1. k + 1 \in Nat
          OBVIOUS
        <5> QED
          BY <5>1 DEF Divides
      <4> QED
        BY <2>2, <4>1, <4>2, DividesTransitive
    <3> QED
      BY <3>1, <3>2
  <2> QED
    BY <2>2, <2>3
<1> HIDE DEF P
<1>3. n \in P
  BY <1>1, <1>2, Induction
<1> QED
  BY <1>3 DEF P

(* Euclid: beyond every number there is one without a smaller divisor. *)
LEMMA PrimesGoOn ==
    ASSUME NEW n \in Nat
    PROVE  \E q \in Nat : /\ q > n /\ q > 1
                          /\ \A d \in 2..(q - 1) : ~ Divides(d, q)
<1>1. PICK m \in Nat \ {0} : \A d \in 1..n : Divides(d, m)
  BY CommonMultiple
<1> DEFINE D == {d \in Nat : d > 1 /\ Divides(d, m + 1)}
<1>2. m + 1 \in D
  <2>1. m + 1 = (m + 1) * 1
    OBVIOUS
  <2> QED
    BY <2>1 DEF Divides
<1>3. PICK q \in D : \A d \in D : q <= d
  BY <1>2, LeastNatural
<1>4. q \in Nat /\ q > 1 /\ Divides(q, m + 1)
  OBVIOUS
<1>5. q > n
  <2> SUFFICES ASSUME q <= n PROVE FALSE
    BY <1>4
  <2>1. Divides(q, m)
    BY <1>1, <1>4
  <2> QED
    BY <1>4, <2>1, NeighboursShareNoDivisor
<1>6. ASSUME NEW d \in 2..(q - 1), Divides(d, q)
      PROVE  FALSE
  <2>1. d \in Nat /\ d > 1 /\ d < q
    BY <1>4
  <2>2. Divides(d, m + 1)
    BY <1>4, <1>6, <2>1, DividesTransitive
  <2>3. d \in D
    BY <2>1, <2>2
  <2> QED
    BY <1>3, <1>4, <2>1, <2>3
<1> QED
  BY <1>4, <1>5, <1>6

(* If a number has a divisor strictly between 1 and itself, it has one     *)
(* that is at most its square root.                                        *)
LEMMA SmallDivisor ==
    ASSUME NEW x \in Nat, NEW d \in 2..(x - 1), Divides(d, x)
    PROVE  \E e \in 2..(x - 1) : e * e <= x /\ Divides(e, x)
<1>1. PICK q \in Nat : x = d * q
  BY DEF Divides
<1>2. q >= 2
  <2>1. CASE q = 0
    BY <1>1, <2>1
  <2>2. CASE q = 1
    BY <1>1, <2>2
  <2> QED
    BY <2>1, <2>2
<1>3. CASE d <= q
  <2>1. d * d <= d * q
    BY <1>3
  <2> QED
    BY <1>1, <2>1
<1>4. CASE q < d
  <2>1. q * q <= d * q
    BY <1>4
  <2>2. q < x
    <3>1. d * q >= 2 * q
      OBVIOUS
    <3> QED
      BY <1>1, <1>2, <3>1
  <2>3. x = q * d /\ d \in Nat
    BY <1>1
  <2>4. Divides(q, x)
    BY <2>3 DEF Divides
  <2> QED
    BY <1>1, <1>2, <2>1, <2>2, <2>4
<1> QED
  BY <1>3, <1>4

-----------------------------------------------------------------------------
(* Places in a finite total order. *)

(* In a finite total order every element has a place of its own: one more  *)
(* than there are elements before it.                                      *)
TotalOrder(S, R) ==
    /\ \A x \in S : <<x, x>> \in R
    /\ \A x, y \in S : <<x, y>> \in R /\ <<y, x>> \in R => x = y
    /\ \A x, y, z \in S : <<x, y>> \in R /\ <<y, z>> \in R => <<x, z>> \in R
    /\ \A x, y \in S : <<x, y>> \in R \/ <<y, x>> \in R

UpTo(S, R, x) == {y \in S : <<y, x>> \in R}

(* The places are 1 to the number of elements, each taken by one element,  *)
(* and they follow the order.                                              *)
LEMMA PlacesInOrder ==
    ASSUME NEW S, IsFiniteSet(S), NEW R, TotalOrder(S, R)
    PROVE  /\ \A x \in S : Cardinality(UpTo(S, R, x)) \in 1..Cardinality(S)
           /\ \A x, y \in S :
                 /\ Cardinality(UpTo(S, R, x)) = Cardinality(UpTo(S, R, y)) => x = y
                 /\ Cardinality(UpTo(S, R, x)) <= Cardinality(UpTo(S, R, y))
                       <=> <<x, y>> \in R
           /\ \A k \in 1..Cardinality(S) : \E x \in S : Cardinality(UpTo(S, R, x)) = k
<1> DEFINE Place(x) == Cardinality(UpTo(S, R, x))
<1>0. Cardinality(S) \in Nat
  BY FS_CardinalityType
<1>1. ASSUME NEW x \in S
      PROVE  /\ IsFiniteSet(UpTo(S, R, x)) /\ x \in UpTo(S, R, x)
             /\ Place(x) \in 1..Cardinality(S)
  <2>1. UpTo(S, R, x) \in SUBSET S /\ x \in UpTo(S, R, x)
    BY DEF UpTo, TotalOrder
  <2>2. IsFiniteSet(UpTo(S, R, x)) /\ Place(x) <= Cardinality(S)
    BY <2>1, FS_Subset
  <2>3. Place(x) \in Nat /\ Place(x) # 0
    BY <2>1, <2>2, FS_CardinalityType, FS_EmptySet
  <2> QED
    BY <1>0, <2>1, <2>2, <2>3
<1>2. ASSUME NEW x \in S, NEW y \in S, <<x, y>> \in R
      PROVE  Place(x) <= Place(y)
  <2>1. UpTo(S, R, x) \in SUBSET UpTo(S, R, y)
    BY <1>2 DEF UpTo, TotalOrder
  <2> QED
    BY <1>1, <2>1, FS_Subset
<1>3. ASSUME NEW x \in S, NEW y \in S, <<x, y>> \in R, Place(x) = Place(y)
      PROVE  x = y
  <2>1. UpTo(S, R, x) \in SUBSET UpTo(S, R, y)
    BY <1>3 DEF UpTo, TotalOrder
  <2>2. UpTo(S, R, x) = UpTo(S, R, y)
    BY <1>1, <1>3, <2>1, FS_Subset
  <2>3. <<y, x>> \in R
    BY <1>1, <2>2 DEF UpTo
  <2> QED
    BY <1>3, <2>3 DEF TotalOrder
<1>4. ASSUME NEW x \in S, NEW y \in S, Place(x) = Place(y)
      PROVE  x = y
  <2>1. <<x, y>> \in R \/ <<y, x>> \in R
    BY DEF TotalOrder
  <2> QED
    BY <1>3, <1>4, <2>1
<1>5. ASSUME NEW x \in S, NEW y \in S, Place(x) <= Place(y)
      PROVE  <<x, y>> \in R
  <2> SUFFICES ASSUME <<y, x>> \in R
               PROVE  <<x, y>> \in R
    BY DEF TotalOrder
  <2>1. Place(x) \in Nat /\ Place(y) \in Nat
    BY <1>0, <1>1
  <2>2. Place(x) = Place(y)
    BY <1>2, <1>5, <2>1
  <2>3. x = y
    BY <1>4, <2>2
  <2> QED
    BY <2>3
<1> DEFINE place == [x \in S |-> Place(x)]
           T == 1..Cardinality(S)
<1>6. place \in Injection(S, T)
  <2>1. place \in [S -> T]
    BY <1>1
  <2>2. \A x, y \in S : place[x] = place[y] => x = y
    BY <1>4
  <2> HIDE DEF place, T
  <2> QED
    BY <2>1, <2>2 DEF Injection, IsInjective
<1>7. IsFiniteSet(T) /\ Cardinality(T) = Cardinality(S)
  BY <1>0, FS_Interval
<1>8. place \in Surjection(S, T)
  <2> HIDE DEF place, T
  <2> QED
    BY <1>6, <1>7, FS_Injection
<1>9. \A k \in T : \E x \in S : Place(x) = k
  <2>1. \A k \in T : \E x \in S : place[x] = k
    BY <1>8 DEF Surjection
  <2> QED
    BY <2>1
<1> QED
  BY <1>1, <1>2, <1>4, <1>5, <1>9

-----------------------------------------------------------------------------
(* nth_prime: trial division and the search for the next prime. *)

(* Trial division up to the square root finds the primes. *)
LEMMA TrialDivision ==
    ASSUME NEW x \in Int
    PROVE  IsPrime(x) <=> x > 1 /\ \A d \in 2..(x - 1) : ~ Divides(d, x)
<1> SUFFICES ASSUME x > 1
             PROVE  IsPrime(x) <=> \A d \in 2..(x - 1) : ~ Divides(d, x)
  BY DEF IsPrime
<1>1. \A d \in 2..(x - 1) : x % d = 0 <=> Divides(d, x)
  <2> TAKE d \in 2..(x - 1)
  <2>1. d \in Nat \ {0} /\ x \in Nat
    OBVIOUS
  <2> QED
    BY <2>1, RemainderZero
<1>2. ASSUME IsPrime(x), NEW d \in 2..(x - 1), Divides(d, x)
      PROVE  FALSE
  <2>1. PICK e \in 2..(x - 1) : e * e <= x /\ Divides(e, x)
    BY <1>2, SmallDivisor
  <2> QED
    BY <1>1, <1>2, <2>1 DEF IsPrime
<1>3. ASSUME \A d \in 2..(x - 1) : ~ Divides(d, x)
      PROVE  IsPrime(x)
  BY <1>1, <1>3 DEF IsPrime
<1> QED
  BY <1>2, <1>3

(* ... and these are the numbers with exactly two divisors. *)
LEMMA PrimesHaveTwoDivisors ==
    ASSUME NEW x \in Int
    PROVE  IsPrime(x) <=> HasTwoDivisors(<<"int", x>>)
<1> DEFINE D == {d \in 1..x : x % d = 0}
<1>1. HasTwoDivisors(<<"int", x>>) <=> D = {1, x} /\ x # 1
  BY DEF HasTwoDivisors
<1>2. CASE x <= 1
  <2>1. ~ IsPrime(x)
    BY <1>2 DEF IsPrime
  <2>2. ~ (D = {1, x} /\ x # 1)
    BY <1>2
  <2> QED
    BY <1>1, <2>1, <2>2
<1>3. CASE x > 1
  <2>1. \A d \in 1..x : x % d = 0 <=> Divides(d, x)
    <3> TAKE d \in 1..x
    <3>1. d \in Nat \ {0} /\ x \in Nat
      OBVIOUS
    <3> QED
      BY <3>1, RemainderZero
  <2>2. Divides(1, x) /\ Divides(x, x)
    <3>1. x \in Nat /\ 1 \in Nat /\ x = 1 * x /\ x = x * 1
      BY <1>3
    <3> QED
      BY <3>1 DEF Divides
  <2>3. 1 \in D /\ x \in D
    BY <1>3, <2>1, <2>2
  <2>4. D = {1, x} <=> \A d \in 2..(x - 1) : ~ Divides(d, x)
    <3>1. \A d \in 1..x : d \in D <=> Divides(d, x)
      BY <2>1
    <3>2. D \subseteq 1..x
      OBVIOUS
    <3> HIDE DEF D
    <3>3. ASSUME D = {1, x}, NEW d \in 2..(x - 1)
          PROVE  ~ Divides(d, x)
      BY <3>1, <3>3
    <3>4. ASSUME \A d \in 2..(x - 1) : ~ Divides(d, x)
          PROVE  D = {1, x}
      <4>1. ASSUME NEW d \in D PROVE d \in {1, x}
        <5>1. d \in 1..x /\ Divides(d, x)
          BY <3>1, <3>2, <4>1
        <5> QED
          BY <1>3, <3>4, <5>1
      <4> QED
        BY <2>3, <4>1
    <3> QED
      BY <3>3, <3>4
  <2> QED
    BY <1>1, <1>3, <2>4, TrialDivision
<1> QED
  BY <1>2, <1>3

(* There is always a next prime, and a first one. *)
LEMMA LeastPrime ==
    ASSUME NEW c \in Nat
    PROVE  \E q \in Nat : /\ q >= c /\ IsPrime(q)
                          /\ \A x \in c..(q - 1) : ~ IsPrime(x)
<1> DEFINE P == {q \in Nat : q >= c /\ IsPrime(q)}
<1>1. PICK q \in Nat : q > c /\ q > 1 /\ \A d \in 2..(q - 1) : ~ Divides(d, q)
  BY PrimesGoOn
<1>2. q \in P
  BY <1>1, TrialDivision
<1>3. PICK p \in P : \A x \in P : p <= x
  BY <1>2, LeastNatural
<1>4. ASSUME NEW x \in c..(p - 1), IsPrime(x)
      PROVE  FALSE
  BY <1>3, <1>4
<1> QED
  BY <1>3, <1>4

(* The search for a prime ends, and at the first there is. *)
LEMMA NextPrimeFixpoint ==
    NextPrime = [c \in Nat |-> IF IsPrime(c) THEN c ELSE NextPrime[c + 1]]
<1> DEFINE Is(f) == f = [c \in Nat |-> IF IsPrime(c) THEN c ELSE f[c + 1]]
           First(c, q) == q >= c /\ IsPrime(q) /\ \A x \in c..(q - 1) : ~ IsPrime(x)
           After(c) == CHOOSE q \in Nat : First(c, q)
           g == [c \in Nat |-> After(c)]
<1>1. \A c \in Nat : After(c) \in Nat /\ First(c, After(c))
  BY LeastPrime
<1>2. ASSUME NEW c \in Nat, NEW q \in Nat, First(c, q)
      PROVE  After(c) = q
  <2>1. After(c) \in Nat /\ First(c, After(c))
    BY <1>1
  <2> HIDE DEF After
  <2>2. ~ After(c) < q /\ ~ q < After(c)
    BY <1>2, <2>1
  <2> QED
    BY <2>1, <2>2
<1> HIDE DEF After
<1>3. ASSUME NEW c \in Nat
      PROVE  After(c) = IF IsPrime(c) THEN c ELSE After(c + 1)
  <2>1. CASE IsPrime(c)
    <3>1. First(c, c)
      BY <2>1
    <3> QED
      BY <1>2, <2>1, <3>1
  <2>2. CASE ~ IsPrime(c)
    <3>1. After(c + 1) \in Nat /\ First(c + 1, After(c + 1))
      BY <1>1
    <3>2. First(c, After(c + 1))
      <4>1. \A x \in c..(After(c + 1) - 1) : x = c \/ x \in (c + 1)..(After(c + 1) - 1)
        BY <3>1
      <4> QED
        BY <2>2, <3>1, <4>1
    <3> QED
      BY <1>2, <2>2, <3>1, <3>2
  <2> QED
    BY <2>1, <2>2
<1>4. Is(g)
  BY <1>3
<1>5. NextPrime = CHOOSE f : Is(f)
  BY DEF NextPrime
<1> HIDE DEF Is, g
<1>6. Is(NextPrime)
  BY <1>4, <1>5, Zenon
<1> QED
  BY <1>6 DEF Is

(* NextPrime is the least prime from its argument on. *)
LEMMA NextPrimeIsFirst ==
    ASSUME NEW c \in Nat
    PROVE  /\ NextPrime[c] \in Nat /\ NextPrime[c] >= c /\ IsPrime(NextPrime[c])
           /\ \A x \in c..(NextPrime[c] - 1) : ~ IsPrime(x)
<1>1. PICK q \in Nat : q >= c /\ IsPrime(q) /\ \A x \in c..(q - 1) : ~ IsPrime(x)
  BY LeastPrime
<1> DEFINE P == {k \in Nat : k <= q - c => NextPrime[q - k] = q}
<1>2. 0 \in P
  BY <1>1, NextPrimeFixpoint
<1>3. ASSUME NEW k \in Nat, k \in P
      PROVE  k + 1 \in P
  <2> SUFFICES ASSUME k + 1 <= q - c
               PROVE  NextPrime[q - (k + 1)] = q
    OBVIOUS
  <2> DEFINE x == q - (k + 1)
  <2>1. x \in Nat /\ x \in c..(q - 1) /\ x + 1 = q - k
    BY <1>1
  <2> HIDE DEF x
  <2>2. NextPrime[x] = NextPrime[x + 1]
    BY <1>1, <2>1, NextPrimeFixpoint
  <2>3. NextPrime[q - k] = q
    BY <1>3
  <2>4. NextPrime[x] = q
    BY <2>1, <2>2, <2>3
  <2> QED
    BY <2>4 DEF x
<1> HIDE DEF P
<1>4. q - c \in P /\ q - (q - c) = c
  BY <1>1, <1>2, <1>3, Induction
<1>5. NextPrime[c] = q
  BY <1>1, <1>4 DEF P
<1> QED
  BY <1>1, <1>5

(* The recursive definition of NthPrime has the solution it reads like. *)
LEMMA NthPrimeFixpoint ==
    NthPrime = [n \in Nat |-> IF n <= 1 THEN 2 ELSE NextPrime[NthPrime[n - 1] + 1]]
<1> DEFINE Is(f) == f = [n \in Nat |-> IF n <= 1 THEN 2 ELSE NextPrime[f[n - 1] + 1]]
           step == [s \in Nat \X Nat |-> IF s[1] = 0 THEN 2 ELSE NextPrime[s[2] + 1]]
<1>1. step \in [Nat \X Nat -> Nat]
  BY NextPrimeIsFirst
<1>2. ASSUME NEW n \in Nat, NEW v \in Nat
      PROVE  step[<<n, v>>] = IF n = 0 THEN 2 ELSE NextPrime[v + 1]
  OBVIOUS
<1> HIDE DEF step
<1>3. PICK f : Recursive(f, Nat, 2, step)
  BY <1>1, Recursion
<1>4. /\ f \in [Nat -> Nat] /\ f[0] = 2
      /\ \A n \in Nat : f[n + 1] = step[<<n, f[n]>>]
  BY <1>3 DEF Recursive
<1>5. ASSUME NEW n \in Nat
      PROVE  f[n] = IF n <= 1 THEN 2 ELSE NextPrime[f[n - 1] + 1]
  <2>1. CASE n = 0
    BY <1>4, <2>1
  <2>2. CASE n # 0
    <3>1. n - 1 \in Nat /\ f[n - 1] \in Nat /\ (n - 1) + 1 = n
      BY <1>4, <2>2
    <3>2. f[n] = step[<<n - 1, f[n - 1]>>]
      BY <1>4, <3>1
    <3> QED
      BY <1>2, <2>2, <3>1, <3>2
  <2> QED
    BY <2>1, <2>2
<1>6. Is(f)
  BY <1>4, <1>5
<1>7. NthPrime = CHOOSE g : Is(g)
  BY DEF NthPrime
<1> HIDE DEF Is
<1>8. Is(NthPrime)
  BY <1>6, <1>7, Zenon
<1> QED
  BY <1>8 DEF Is

(* The primes of the documented result are those of the trial division. *)
LEMMA PrimesUpToAre ==
    ASSUME NEW x \in Int
    PROVE  PrimesUpTo(x) = {q \in 2..x : IsPrime(q)}
<1>1. ASSUME NEW q \in 2..x
      PROVE  HasTwoDivisors(<<"int", q>>) <=> IsPrime(q)
  BY PrimesHaveTwoDivisors
<1> QED
  BY <1>1 DEF PrimesUpTo

(* The n-th prime is a prime, and there are n up to it. *)
LEMMA NthPrimeIsNth ==
    ASSUME NEW n \in Nat \ {0}
    PROVE  /\ NthPrime[n] \in Nat /\ IsPrime(NthPrime[n])
           /\ Cardinality(PrimesUpTo(NthPrime[n])) = n
<1> DEFINE P == {k \in Nat : /\ NthPrime[k + 1] \in Nat /\ IsPrime(NthPrime[k + 1])
                             /\ Cardinality(PrimesUpTo(NthPrime[k + 1])) = k + 1}
<1>1. 0 \in P
  <2>1. NthPrime[1] = 2
    BY NthPrimeFixpoint
  <2>2. IsPrime(2)
    BY DEF IsPrime
  <2>3. PrimesUpTo(2) = {2}
    BY <2>2, PrimesHaveTwoDivisors DEF PrimesUpTo
  <2>4. Cardinality(PrimesUpTo(2)) = 1
    BY <2>3, FS_Singleton
  <2> QED
    BY <2>1, <2>2, <2>4
<1>2. ASSUME NEW k \in Nat, k \in P
      PROVE  k + 1 \in P
  <2> DEFINE p == NthPrime[k + 1]
             q == NextPrime[p + 1]
  <2>1. p \in Nat /\ IsPrime(p) /\ Cardinality(PrimesUpTo(p)) = k + 1
    BY <1>2
  <2>2. NthPrime[(k + 1) + 1] = q
    BY NthPrimeFixpoint
  <2> HIDE DEF p
  <2>3. q \in Nat /\ q >= p + 1 /\ IsPrime(q) /\ \A x \in (p + 1)..(q - 1) : ~ IsPrime(x)
    BY <2>1, NextPrimeIsFirst
  <2> HIDE DEF q
  <2>4. PrimesUpTo(q) = PrimesUpTo(p) \cup {q}
    <3>1. \A x \in Nat : x \in PrimesUpTo(q) <=> x \in 2..q /\ IsPrime(x)
      BY <2>3, PrimesUpToAre
    <3>2. \A x \in Nat : x \in PrimesUpTo(p) <=> x \in 2..p /\ IsPrime(x)
      BY <2>1, PrimesUpToAre
    <3>3. PrimesUpTo(q) \subseteq Nat /\ PrimesUpTo(p) \subseteq Nat
      BY DEF PrimesUpTo
    <3>4. q > 1
      BY <2>3 DEF IsPrime
    <3>5. \A x \in 2..q : IsPrime(x) => x \in 2..p \/ x = q
      BY <2>1, <2>3
    <3>6. \A x \in 2..p : x \in 2..q
      BY <2>1, <2>3
    <3> QED
      BY <2>1, <2>3, <3>1, <3>2, <3>3, <3>4, <3>5, <3>6
  <2>5. q \notin PrimesUpTo(p)
    BY <2>1, <2>3 DEF PrimesUpTo
  <2>6. IsFiniteSet(PrimesUpTo(p))
    <3>1. PrimesUpTo(p) \in SUBSET (2..p)
      BY DEF PrimesUpTo
    <3>2. IsFiniteSet(2..p)
      BY <2>1, FS_Interval
    <3> QED
      BY <3>1, <3>2, FS_Subset
  <2>7. Cardinality(PrimesUpTo(q)) = (k + 1) + 1
    BY <2>1, <2>4, <2>5, <2>6, FS_AddElement
  <2> QED
    BY <2>2, <2>3, <2>7
<1> HIDE DEF P
<1>3. n - 1 \in P
  BY <1>1, <1>2, Induction
<1> QED
  BY <1>3 DEF P

-----------------------------------------------------------------------------
(* sum_range: the closed form. *)

(* SumTo by its two equations, and by the formula. *)
LEMMA SumFixpoint == SumTo = [n \in Nat |-> IF n = 0 THEN 0 ELSE n + SumTo[n - 1]]
<1> DEFINE Is(f) == f = [n \in Nat |-> IF n = 0 THEN 0 ELSE n + f[n - 1]]
           g == [n \in Nat |-> ClosedForm(n)]
<1>1. Is(g)
  <2>1. ASSUME NEW n \in Nat \ {0}
        PROVE  ClosedForm(n) = n + ClosedForm(n - 1)
    <3>1. n * (n + 1) = 2 * n + (n - 1) * n
      OBVIOUS
    <3> QED
      BY <3>1 DEF ClosedForm
  <2>2. ClosedForm(0) = 0
    BY DEF ClosedForm
  <2> QED
    BY <2>1, <2>2
<1>2. SumTo = CHOOSE f : Is(f)
  BY DEF SumTo
<1> HIDE DEF Is, g
<1>3. Is(SumTo)
  BY <1>1, <1>2, Zenon
<1> QED
  BY <1>3 DEF Is

(* The formula is the sum. *)
LEMMA ClosedFormIsSum ==
    ASSUME NEW n \in Nat
    PROVE  SumTo[n] = ClosedForm(n)
<1> DEFINE P == {k \in Nat : SumTo[k] = ClosedForm(k)}
<1>1. 0 \in P
  BY SumFixpoint DEF ClosedForm
<1>2. ASSUME NEW k \in Nat, k \in P
      PROVE  k + 1 \in P
  <2>1. SumTo[k + 1] = (k + 1) + SumTo[k]
    BY SumFixpoint
  <2>2. (k + 1) * ((k + 1) + 1) = 2 * (k + 1) + k * (k + 1)
    OBVIOUS
  <2>3. ClosedForm(k + 1) = (k + 1) + ClosedForm(k)
    BY <2>2 DEF ClosedForm
  <2> QED
    BY <1>2, <2>1, <2>3
<1> HIDE DEF P
<1>3. n \in P
  BY <1>1, <1>2, Induction
<1> QED
  BY <1>3 DEF P


-----------------------------------------------------------------------------
(* sort_list: Python's order, the check and run(). *)

(* The first position at which two lists differ, if they do. *)
Splits(v, w, i) ==
    /\ i \in DOMAIN v[2] \cap DOMAIN w[2]
    /\ Key(v[2][i]) # Key(w[2][i])
    /\ \A j \in 1..(i - 1) : Key(v[2][j]) = Key(w[2][j])

(* Lists that differ have exactly one such position, whichever comes       *)
(* first.                                                                  *)
LEMMA DifferSomewhere ==
    ASSUME NEW v, NEW w, FlatList(v), FlatList(w)
    PROVE  /\ Differ(w, v) = Differ(v, w)
           /\ Differ(v, w) \subseteq Nat
           /\ Differ(v, w) # {} => Splits(v, w, FirstDiffer(v, w))
           /\ \A i : Splits(v, w, i) =>
                 FirstDiffer(v, w) = i /\ FirstDiffer(w, v) = i /\ Differ(v, w) # {}
<1>0. /\ DOMAIN v[2] = 1..Len(v[2]) /\ Len(v[2]) \in Nat
      /\ DOMAIN w[2] = 1..Len(w[2]) /\ Len(w[2]) \in Nat
  BY DEF FlatList, Sequence
<1>1. Differ(w, v) = Differ(v, w) /\ Differ(v, w) \subseteq Nat
  BY <1>0 DEF Differ
<1> DEFINE D == Differ(v, w)
           i0 == CHOOSE i \in D : \A j \in D : i <= j
<1>2. ASSUME D # {}
      PROVE  i0 \in D /\ \A j \in D : i0 <= j
  <2>1. \E i \in D : \A j \in D : i <= j
    BY <1>1, <1>2, LeastNatural
  <2> HIDE DEF D
  <2> QED
    BY <2>1
<1>3. FirstDiffer(v, w) = i0 /\ FirstDiffer(w, v) = i0
  BY <1>1 DEF FirstDiffer
<1>4. ASSUME D # {}
      PROVE  Splits(v, w, i0)
  <2>1. i0 \in D /\ \A j \in D : i0 <= j
    BY <1>2, <1>4
  <2>2. i0 \in DOMAIN v[2] \cap DOMAIN w[2] /\ Key(v[2][i0]) # Key(w[2][i0])
    BY <2>1 DEF Differ
  <2> HIDE DEF i0
  <2>3. ASSUME NEW j \in 1..(i0 - 1)
        PROVE  Key(v[2][j]) = Key(w[2][j])
    <3>1. j \in DOMAIN v[2] \cap DOMAIN w[2] /\ j \notin D
      BY <1>0, <2>1, <2>2
    <3> QED
      BY <3>1 DEF Differ
  <2> QED
    BY <2>2, <2>3 DEF Splits
<1>5. ASSUME NEW i, Splits(v, w, i)
      PROVE  i0 = i /\ D # {}
  <2>1. i \in D
    BY <1>5 DEF Splits, Differ
  <2>2. i0 \in D /\ i0 <= i
    BY <1>2, <2>1
  <2>3. i0 \in Nat /\ i \in Nat /\ i0 >= 1
    BY <1>0, <1>1, <2>1, <2>2 DEF Differ
  <2>4. Key(v[2][i0]) # Key(w[2][i0])
    BY <2>2 DEF Differ
  <2> HIDE DEF i0
  <2> QED
    BY <1>5, <2>1, <2>2, <2>3, <2>4 DEF Splits
<1> QED
  BY <1>1, <1>3, <1>4, <1>5

(* v may stand right before w in a sorted list. *)
NotAfter(v, w) == Comparable(v, w) /\ ~ Less(w, v)

(* Two lists in order: one starts like the other, or is smaller where they *)
(* first differ.                                                           *)
SmallerAt(v, w, i) == /\ Splits(v, w, i)
                      /\ ScalarsCompare(v[2][i], w[2][i])
                      /\ v[2][i][2] < w[2][i][2]

Prefix(v, w) == Differ(v, w) = {} /\ Len(v[2]) <= Len(w[2])

(* What NotAfter says of two lists, in these terms. *)
LEMMA ListsInOrder ==
    ASSUME NEW v, NEW w, FlatList(v), FlatList(w)
    PROVE  NotAfter(v, w) <=> Prefix(v, w) \/ \E i : SmallerAt(v, w, i)
<1>0. /\ v[1] = "list" /\ w[1] = "list"
      /\ Len(v[2]) \in Nat /\ Len(w[2]) \in Nat
      /\ \A i \in DOMAIN v[2] : Scalar(v[2][i])
      /\ \A i \in DOMAIN w[2] : Scalar(w[2][i])
  BY DEF FlatList, Sequence
<1>1. CASE Differ(v, w) = {}
  <2>1. Differ(w, v) = {} /\ \A i : ~ Splits(v, w, i)
    BY <1>1, DifferSomewhere
  <2>2. Comparable(v, w) /\ (Less(w, v) <=> Len(w[2]) < Len(v[2]))
    BY <1>0, <1>1, <2>1 DEF Comparable, Less
  <2> QED
    BY <1>0, <1>1, <2>1, <2>2 DEF NotAfter, Prefix, SmallerAt
<1>2. CASE Differ(v, w) # {}
  <2>1. PICK i : i = FirstDiffer(v, w) /\ i = FirstDiffer(w, v) /\ Splits(v, w, i)
    BY <1>2, DifferSomewhere
  <2>2. \A j : Splits(v, w, j) => j = i
    BY <2>1, DifferSomewhere
  <2>3. Comparable(v, w) <=> ScalarsCompare(v[2][i], w[2][i])
    BY <1>0, <1>2, <2>1 DEF Comparable
  <2>4. Differ(w, v) # {}
    BY <1>2, DifferSomewhere
  <2>5. Less(w, v) <=> w[2][i][2] < v[2][i][2]
    BY <1>0, <2>1, <2>4 DEF Less
  <2>6. Scalar(v[2][i]) /\ Scalar(w[2][i]) /\ Key(v[2][i]) # Key(w[2][i])
    BY <1>0, <2>1 DEF Splits
  <2>7. ScalarsCompare(v[2][i], w[2][i]) =>
           /\ v[2][i][2] \in Int /\ w[2][i][2] \in Int
           /\ v[2][i][2] # w[2][i][2]
    BY <2>6 DEF ScalarsCompare, Key, Scalar, NumberKinds
  <2>8. NotAfter(v, w) <=> SmallerAt(v, w, i)
    BY <2>1, <2>3, <2>5, <2>7 DEF NotAfter, SmallerAt
  <2> QED
    BY <1>2, <2>2, <2>8 DEF Prefix, SmallerAt
<1> QED
  BY <1>1, <1>2

(* Where two lists split, both have a scalar. *)
LEMMA SplitsOf ==
    ASSUME NEW v, NEW w, NEW i, FlatList(v), FlatList(w), Splits(v, w, i)
    PROVE  /\ i \in Nat \ {0} /\ i <= Len(v[2]) /\ i <= Len(w[2])
           /\ Scalar(v[2][i]) /\ Scalar(w[2][i])
BY DEF Splits, FlatList, Sequence

(* One list starts like the other if their keys agree as far as it goes. *)
LEMMA PrefixKeys ==
    ASSUME NEW v, NEW w, FlatList(v), FlatList(w)
    PROVE  Prefix(v, w) <=>
               /\ Len(v[2]) <= Len(w[2])
               /\ \A i \in 1..Len(v[2]) : Key(v[2][i]) = Key(w[2][i])
BY DEF Prefix, Differ, FlatList, Sequence

(* A comparison does not see what Key does not. *)
LEMMA SameKeySameOrder ==
    ASSUME NEW u, NEW v, Scalar(u), Scalar(v), Key(u) = Key(v)
    PROVE  /\ u[2] = v[2]
           /\ \A w : ScalarsCompare(u, w) <=> ScalarsCompare(v, w)
           /\ \A w : ScalarsCompare(w, u) <=> ScalarsCompare(w, v)
BY DEF Key, Scalar, ScalarsCompare, NumberKinds

(* The order of lists: the earlier of two first differences decides, and   *)
(* the scalars there are ordered.                                          *)
LEMMA ListsTransitive ==
    ASSUME NEW u, NEW v, NEW w, FlatList(u), FlatList(v), FlatList(w),
           NotAfter(u, v), NotAfter(v, w)
    PROVE  NotAfter(u, w)
<1>0. /\ Len(u[2]) \in Nat /\ DOMAIN u[2] = 1..Len(u[2])
      /\ Len(v[2]) \in Nat /\ DOMAIN v[2] = 1..Len(v[2])
      /\ Len(w[2]) \in Nat /\ DOMAIN w[2] = 1..Len(w[2])
  BY DEF FlatList, Sequence
<1>1. Prefix(u, v) \/ \E i : SmallerAt(u, v, i)
  BY ListsInOrder
<1>2. Prefix(v, w) \/ \E i : SmallerAt(v, w, i)
  BY ListsInOrder
<1>3. CASE Prefix(u, v) /\ Prefix(v, w)
  <2>1. Prefix(u, w)
    BY <1>0, <1>3, PrefixKeys
  <2> QED
    BY <2>1, ListsInOrder
<1>4. ASSUME NEW j, Prefix(u, v), SmallerAt(v, w, j)
      PROVE  NotAfter(u, w)
  <2>1. /\ Splits(v, w, j) /\ ScalarsCompare(v[2][j], w[2][j]) /\ v[2][j][2] < w[2][j][2]
    BY <1>4 DEF SmallerAt
  <2>2. /\ j \in Nat \ {0} /\ j <= Len(v[2]) /\ j <= Len(w[2])
        /\ Scalar(v[2][j]) /\ Scalar(w[2][j])
    BY <2>1, SplitsOf
  <2>3. /\ Len(u[2]) <= Len(v[2])
        /\ \A i \in 1..Len(u[2]) : Key(u[2][i]) = Key(v[2][i])
    BY <1>4, PrefixKeys
  <2>4. \A i \in 1..(j - 1) : Key(v[2][i]) = Key(w[2][i])
    BY <2>1 DEF Splits
  <2>5. CASE j <= Len(u[2])
    <3>1. Scalar(u[2][j]) /\ Key(u[2][j]) = Key(v[2][j])
      BY <1>0, <2>2, <2>3, <2>5 DEF FlatList
    <3>2. Splits(u, w, j)
      BY <1>0, <2>1, <2>2, <2>3, <2>4, <2>5, <3>1 DEF Splits
    <3>3. SmallerAt(u, w, j)
      BY <2>1, <2>2, <3>1, <3>2, SameKeySameOrder DEF SmallerAt
    <3> QED
      BY <3>3, ListsInOrder
  <2>6. CASE Len(u[2]) < j
    <3>1. Prefix(u, w)
      BY <1>0, <2>2, <2>3, <2>4, <2>6, PrefixKeys
    <3> QED
      BY <3>1, ListsInOrder
  <2> QED
    BY <1>0, <2>2, <2>5, <2>6
<1>5. ASSUME NEW i, SmallerAt(u, v, i), Prefix(v, w)
      PROVE  NotAfter(u, w)
  <2>1. /\ Splits(u, v, i) /\ ScalarsCompare(u[2][i], v[2][i]) /\ u[2][i][2] < v[2][i][2]
    BY <1>5 DEF SmallerAt
  <2>2. /\ i \in Nat \ {0} /\ i <= Len(u[2]) /\ i <= Len(v[2])
        /\ Scalar(u[2][i]) /\ Scalar(v[2][i])
    BY <2>1, SplitsOf
  <2>3. /\ Len(v[2]) <= Len(w[2])
        /\ \A k \in 1..Len(v[2]) : Key(v[2][k]) = Key(w[2][k])
    BY <1>5, PrefixKeys
  <2>4. Scalar(w[2][i]) /\ Key(v[2][i]) = Key(w[2][i])
    BY <1>0, <2>2, <2>3 DEF FlatList
  <2>5. Splits(u, w, i)
    BY <1>0, <2>1, <2>2, <2>3, <2>4 DEF Splits
  <2>6. SmallerAt(u, w, i)
    BY <2>1, <2>2, <2>4, <2>5, SameKeySameOrder DEF SmallerAt
  <2> QED
    BY <2>6, ListsInOrder
<1>6. ASSUME NEW i, SmallerAt(u, v, i), NEW j, SmallerAt(v, w, j)
      PROVE  NotAfter(u, w)
  <2>1. /\ Splits(u, v, i) /\ ScalarsCompare(u[2][i], v[2][i]) /\ u[2][i][2] < v[2][i][2]
        /\ Splits(v, w, j) /\ ScalarsCompare(v[2][j], w[2][j]) /\ v[2][j][2] < w[2][j][2]
    BY <1>6 DEF SmallerAt
  <2>2. /\ i \in Nat \ {0} /\ i <= Len(u[2]) /\ i <= Len(v[2])
        /\ Scalar(u[2][i]) /\ Scalar(v[2][i])
    BY <2>1, SplitsOf
  <2>3. /\ j \in Nat \ {0} /\ j <= Len(v[2]) /\ j <= Len(w[2])
        /\ Scalar(v[2][j]) /\ Scalar(w[2][j])
    BY <2>1, SplitsOf
  <2>4. /\ \A k \in 1..(i - 1) : Key(u[2][k]) = Key(v[2][k])
        /\ \A k \in 1..(j - 1) : Key(v[2][k]) = Key(w[2][k])
    BY <2>1 DEF Splits
  <2>5. \E k : SmallerAt(u, w, k)
    <3>1. CASE i < j
      <4>1. Key(v[2][i]) = Key(w[2][i]) /\ Scalar(w[2][i]) /\ i <= Len(w[2])
        BY <1>0, <2>2, <2>3, <2>4, <3>1 DEF FlatList
      <4>2. Splits(u, w, i)
        BY <1>0, <2>1, <2>2, <2>3, <2>4, <3>1, <4>1 DEF Splits
      <4>3. SmallerAt(u, w, i)
        BY <2>1, <2>2, <4>1, <4>2, SameKeySameOrder DEF SmallerAt
      <4> QED
        BY <4>3
    <3>2. CASE j < i
      <4>1. Key(u[2][j]) = Key(v[2][j]) /\ Scalar(u[2][j]) /\ j <= Len(u[2])
        BY <1>0, <2>2, <2>3, <2>4, <3>2 DEF FlatList
      <4>2. Splits(u, w, j)
        BY <1>0, <2>1, <2>2, <2>3, <2>4, <3>2, <4>1 DEF Splits
      <4>3. SmallerAt(u, w, j)
        BY <2>1, <2>3, <4>1, <4>2, SameKeySameOrder DEF SmallerAt
      <4> QED
        BY <4>3
    <3>3. CASE i = j
      <4>1. /\ ScalarsCompare(u[2][i], w[2][i])
            /\ u[2][i][2] < w[2][i][2]
            /\ Key(u[2][i]) # Key(w[2][i])
        <5>1. PICK a, b, c : a = u[2][i] /\ b = v[2][i] /\ c = w[2][i]
          OBVIOUS
        <5>2. /\ Scalar(a) /\ Scalar(b) /\ Scalar(c)
              /\ ScalarsCompare(a, b) /\ ScalarsCompare(b, c) /\ a[2] < b[2] /\ b[2] < c[2]
          BY <2>1, <2>2, <2>3, <3>3, <5>1
        <5>3. ScalarsCompare(a, c) /\ a[2] < c[2] /\ Key(a) # Key(c)
          BY <5>2 DEF Scalar, ScalarsCompare, Key, NumberKinds
        <5> QED
          BY <5>1, <5>3
      <4>2. Splits(u, w, i)
        BY <1>0, <2>2, <2>3, <2>4, <3>3, <4>1 DEF Splits
      <4>3. SmallerAt(u, w, i)
        BY <4>1, <4>2 DEF SmallerAt
      <4> QED
        BY <4>3
    <3> QED
      BY <2>2, <2>3, <3>1, <3>2, <3>3
  <2> QED
    BY <2>5, ListsInOrder
<1> QED
  BY <1>1, <1>2, <1>3, <1>4, <1>5, <1>6

(* Python's order of numbers, of texts and of lists, wherever it does not  *)
(* raise.                                                                  *)
LEMMA OrderTransitive ==
    ASSUME NEW u, NEW v, NEW w, Element(u), Element(v), Element(w),
           NotAfter(u, v), NotAfter(v, w)
    PROVE  NotAfter(u, w)
<1>1. \A x, y : Element(x) /\ Element(y) /\ NotAfter(x, y) =>
         \/ FlatList(x) /\ FlatList(y)
         \/ /\ x[1] # "list" /\ y[1] # "list" /\ ScalarsCompare(x, y)
            /\ x[2] \in Int /\ y[2] \in Int /\ x[2] <= y[2]
  <2> SUFFICES ASSUME NEW x, NEW y, Element(x), Element(y), NotAfter(x, y)
               PROVE  \/ FlatList(x) /\ FlatList(y)
                      \/ /\ x[1] # "list" /\ y[1] # "list" /\ ScalarsCompare(x, y)
                         /\ x[2] \in Int /\ y[2] \in Int /\ x[2] <= y[2]
    OBVIOUS
  <2>1. CASE x[1] = "list" /\ y[1] = "list"
    <3>1. ~ Scalar(x) /\ ~ Scalar(y)
      BY <2>1 DEF Scalar, NumberKinds
    <3> QED
      BY <3>1 DEF Element
  <2>2. CASE ~ (x[1] = "list" /\ y[1] = "list")
    <3>1. ScalarsCompare(x, y) /\ ~ Less(y, x)
      BY <2>2 DEF NotAfter, Comparable
    <3>2. x[1] # "list" /\ y[1] # "list"
      BY <3>1 DEF ScalarsCompare, NumberKinds
    <3>3. Scalar(x) /\ Scalar(y)
      BY <3>2 DEF Element, FlatList
    <3>4. x[2] \in Int /\ y[2] \in Int
      BY <3>1, <3>3 DEF ScalarsCompare, Scalar
    <3> QED
      BY <3>1, <3>2, <3>4 DEF Less
  <2> QED
    BY <2>1, <2>2
<1>2. CASE FlatList(u) /\ FlatList(v)
  <2>1. v[1] = "list"
    BY <1>2 DEF FlatList
  <2>2. FlatList(w)
    BY <1>1, <2>1
  <2> QED
    BY <1>2, <2>2, ListsTransitive
<1>3. CASE ~ (FlatList(u) /\ FlatList(v))
  <2>1. /\ u[1] # "list" /\ v[1] # "list" /\ ScalarsCompare(u, v)
        /\ u[2] \in Int /\ v[2] \in Int /\ u[2] <= v[2]
    BY <1>1, <1>3
  <2>2. /\ w[1] # "list" /\ ScalarsCompare(v, w) /\ w[2] \in Int /\ v[2] <= w[2]
    BY <1>1, <2>1 DEF FlatList
  <2>3. ScalarsCompare(u, w)
    BY <2>1, <2>2 DEF ScalarsCompare, NumberKinds
  <2> QED
    BY <2>1, <2>2, <2>3 DEF NotAfter, Comparable, Less
<1> QED
  BY <1>2, <1>3

(* No two values are less than each other. *)
LEMMA OrderAsymmetric ==
    ASSUME NEW v, NEW w, Element(v), Element(w), Comparable(v, w), Less(v, w)
    PROVE  ~ Less(w, v)
<1>1. CASE v[1] # "list" \/ w[1] # "list"
  <2>1. ScalarsCompare(v, w)
    BY <1>1 DEF Comparable
  <2>2. v[1] # "list" /\ w[1] # "list"
    BY <2>1 DEF ScalarsCompare, NumberKinds
  <2>3. Scalar(v) /\ Scalar(w)
    BY <2>2 DEF Element, FlatList
  <2>4. v[2] \in Int /\ w[2] \in Int
    BY <2>1, <2>3 DEF ScalarsCompare, Scalar
  <2> QED
    BY <2>2, <2>4 DEF Less
<1>2. CASE v[1] = "list" /\ w[1] = "list"
  <2>1. FlatList(v) /\ FlatList(w)
    BY <1>2 DEF Element, Scalar, NumberKinds
  <2>2. Len(v[2]) \in Nat /\ Len(w[2]) \in Nat
    BY <2>1 DEF FlatList, Sequence
  <2>3. CASE Differ(v, w) = {}
    <3>1. Differ(w, v) = {}
      BY <2>1, <2>3, DifferSomewhere
    <3> QED
      BY <1>2, <2>2, <2>3, <3>1 DEF Less
  <2>4. CASE Differ(v, w) # {}
    <3>1. PICK i : i = FirstDiffer(v, w) /\ i = FirstDiffer(w, v) /\ Splits(v, w, i)
      BY <2>1, <2>4, DifferSomewhere
    <3>2. Differ(w, v) # {}
      BY <2>1, <2>4, DifferSomewhere
    <3>3. ScalarsCompare(v[2][i], w[2][i])
      BY <1>2, <2>4, <3>1 DEF Comparable
    <3>4. Scalar(v[2][i]) /\ Scalar(w[2][i])
      BY <2>1, <3>1, SplitsOf
    <3>5. v[2][i][2] \in Int /\ w[2][i][2] \in Int
      BY <3>3, <3>4 DEF ScalarsCompare, Scalar
    <3> QED
      BY <1>2, <2>4, <3>1, <3>2, <3>5 DEF Less
  <2> QED
    BY <2>3, <2>4
<1> QED
  BY <1>1, <1>2

(* The elements of a list of values. *)
Elements(s) == Sequence(s) /\ \A i \in DOMAIN s : Element(s[i])

Positions(s, key) == {i \in DOMAIN s : HKey(s[i]) = key}

(* A list's positions are finitely many, and Count counts those of a key. *)
LEMMA WithIsFinite ==
    ASSUME NEW s, Sequence(s)
    PROVE  /\ IsFiniteSet(DOMAIN s) /\ Cardinality(DOMAIN s) = Len(s)
           /\ \A key : /\ IsFiniteSet(Positions(s, key))
                       /\ Count(s, key) = Cardinality(Positions(s, key))
<1>1. Len(s) \in Nat /\ DOMAIN s = 1..Len(s)
  BY DEF Sequence
<1>2. IsFiniteSet(DOMAIN s) /\ Cardinality(DOMAIN s) = Len(s)
  <2>1. IsFiniteSet(1..Len(s)) /\ Cardinality(1..Len(s)) = IF 1 > Len(s) THEN 0 ELSE Len(s) - 1 + 1
    BY <1>1, FS_Interval
  <2> QED
    BY <1>1, <2>1
<1>3. ASSUME NEW key
      PROVE  IsFiniteSet(Positions(s, key)) /\ Count(s, key) = Cardinality(Positions(s, key))
  <2>1. Positions(s, key) \in SUBSET (DOMAIN s)
    BY DEF Positions
  <2>2. IsFiniteSet(Positions(s, key))
    BY <1>2, <2>1, FS_Subset
  <2> QED
    BY <2>2 DEF Positions, Count
<1> QED
  BY <1>2, <1>3

(* One list is made of the other's values: every position of the one has a *)
(* position of the other, with a value of the same key.                    *)
Permutes(p, out, items) ==
    /\ p \in [DOMAIN out -> DOMAIN items]
    /\ \A i, j \in DOMAIN out : p[i] = p[j] => i = j
    /\ \A k \in DOMAIN items : \E i \in DOMAIN out : p[i] = k
    /\ \A i \in DOMAIN out : HKey(out[i]) = HKey(items[p[i]])

(* Rearranging values keeps the number of each key ... *)
LEMMA PermutationKeepsCounts ==
    ASSUME NEW out, NEW items, Sequence(out), Sequence(items),
           NEW p, Permutes(p, out, items)
    PROVE  SamePerKey(out, items)
<1>1. ASSUME NEW key
      PROVE  Count(out, key) = Count(items, key)
  <2> DEFINE S == Positions(out, key)
             T == Positions(items, key)
             f == [i \in S |-> p[i]]
  <2>1. f \in [S -> T]
    BY DEF Positions, Permutes
  <2>2. \A i, j \in S : f[i] = f[j] => i = j
    BY DEF Positions, Permutes
  <2>3. \A k \in T : \E i \in S : f[i] = k
    BY DEF Positions, Permutes
  <2>4. Count(out, key) = Cardinality(S) /\ Count(items, key) = Cardinality(T) /\ IsFiniteSet(S)
    BY WithIsFinite
  <2> HIDE DEF S, T, f
  <2>5. f \in Bijection(S, T)
    BY <2>1, <2>2, <2>3 DEF Bijection, Injection, Surjection, IsInjective
  <2>6. ExistsBijection(S, T)
    BY <2>5 DEF ExistsBijection
  <2>7. Cardinality(T) = Cardinality(S)
    BY <2>4, <2>6, FS_Bijection
  <2> QED
    BY <2>4, <2>7
<1> QED
  BY <1>1 DEF SamePerKey

(* ... and lists with equal numbers of each key are rearrangements: the    *)
(* bijections of the single keys make up one of all positions.             *)
LEMMA CountsGivePermutation ==
    ASSUME NEW out, NEW items, Sequence(out), Sequence(items), SamePerKey(out, items)
    PROVE  /\ Len(out) = Len(items)
           /\ \E p : Permutes(p, out, items)
<1> DEFINE Keys == HKeys(out) \cup HKeys(items)
<1>1. ASSUME NEW key \in Keys
      PROVE  \E f : f \in Bijection(Positions(out, key), Positions(items, key))
  <2>1. Cardinality(Positions(out, key)) = Cardinality(Positions(items, key))
        /\ IsFiniteSet(Positions(out, key)) /\ IsFiniteSet(Positions(items, key))
    BY WithIsFinite DEF SamePerKey
  <2> QED
    BY <2>1, FS_SameCardinalityBij DEF ExistsBijection
<1> DEFINE b(key) == CHOOSE f : f \in Bijection(Positions(out, key), Positions(items, key))
           p == [i \in DOMAIN out |-> b(HKey(out[i]))[i]]
<1>2. ASSUME NEW key \in Keys
      PROVE  /\ b(key) \in [Positions(out, key) -> Positions(items, key)]
             /\ \A i, j \in Positions(out, key) : b(key)[i] = b(key)[j] => i = j
             /\ \A k \in Positions(items, key) : \E i \in Positions(out, key) : b(key)[i] = k
  <2>1. b(key) \in Bijection(Positions(out, key), Positions(items, key))
    BY <1>1
  <2> HIDE DEF b
  <2> QED
    BY <2>1 DEF Bijection, Injection, Surjection, IsInjective
<1> HIDE DEF b
<1>3. \A i \in DOMAIN out : HKey(out[i]) \in Keys /\ i \in Positions(out, HKey(out[i]))
  BY DEF HKeys, Positions
<1>4. \A i \in DOMAIN out : p[i] \in Positions(items, HKey(out[i]))
  BY <1>2, <1>3
<1>5. \A i \in DOMAIN out : p[i] \in DOMAIN items /\ HKey(items[p[i]]) = HKey(out[i])
  BY <1>4 DEF Positions
<1>6. ASSUME NEW i \in DOMAIN out, NEW j \in DOMAIN out, p[i] = p[j]
      PROVE  i = j
  <2>1. HKey(out[i]) = HKey(out[j])
    BY <1>5, <1>6
  <2>2. /\ i \in Positions(out, HKey(out[i])) /\ j \in Positions(out, HKey(out[i]))
        /\ HKey(out[i]) \in Keys
    BY <1>3, <2>1
  <2>3. b(HKey(out[i]))[i] = b(HKey(out[i]))[j]
    BY <1>6, <2>1
  <2> QED
    BY <1>2, <2>2, <2>3
<1>7. ASSUME NEW k \in DOMAIN items
      PROVE  \E i \in DOMAIN out : p[i] = k
  <2>1. HKey(items[k]) \in Keys /\ k \in Positions(items, HKey(items[k]))
    BY DEF HKeys, Positions
  <2>2. PICK i \in Positions(out, HKey(items[k])) : b(HKey(items[k]))[i] = k
    BY <1>2, <2>1
  <2>3. i \in DOMAIN out /\ HKey(out[i]) = HKey(items[k])
    BY <2>2 DEF Positions
  <2> QED
    BY <2>2, <2>3
<1>8. p \in [DOMAIN out -> DOMAIN items]
  BY <1>5
<1> HIDE DEF p
<1>9. Permutes(p, out, items)
  BY <1>5, <1>6, <1>7, <1>8 DEF Permutes
<1>10. Len(out) = Len(items)
  <2>1. p \in Bijection(DOMAIN out, DOMAIN items)
    BY <1>6, <1>7, <1>8 DEF Bijection, Injection, Surjection, IsInjective
  <2>2. ExistsBijection(DOMAIN out, DOMAIN items)
    BY <2>1 DEF ExistsBijection
  <2> QED
    BY <2>2, WithIsFinite, FS_Bijection
<1> QED
  BY <1>9, <1>10

(* If every neighbour is in order, every pair is. *)
LEMMA NeighboursSuffice ==
    ASSUME NEW s, Elements(s), \A i \in 1..(Len(s) - 1) : NotAfter(s[i], s[i + 1])
    PROVE  \A i, j \in DOMAIN s : i < j => NotAfter(s[i], s[j])
<1>0. Len(s) \in Nat /\ DOMAIN s = 1..Len(s)
  BY DEF Elements, Sequence
<1> SUFFICES ASSUME NEW i \in 1..Len(s)
             PROVE  \A j \in 1..Len(s) : i < j => NotAfter(s[i], s[j])
  BY <1>0
<1> DEFINE P == {d \in Nat : i + d + 1 <= Len(s) => NotAfter(s[i], s[i + d + 1])}
<1>1. 0 \in P
  BY <1>0
<1>2. ASSUME NEW d \in Nat, d \in P
      PROVE  d + 1 \in P
  <2> SUFFICES ASSUME i + (d + 1) + 1 <= Len(s)
               PROVE  NotAfter(s[i], s[i + (d + 1) + 1])
    OBVIOUS
  <2> DEFINE j == i + d + 1
  <2>1. j \in 1..(Len(s) - 1) /\ j + 1 = i + (d + 1) + 1 /\ j + 1 \in 1..Len(s)
    BY <1>0
  <2>2. NotAfter(s[i], s[j])
    BY <1>0, <1>2, <2>1
  <2> HIDE DEF j
  <2>3. NotAfter(s[j], s[j + 1])
    BY <2>1
  <2>4. Element(s[i]) /\ Element(s[j]) /\ Element(s[j + 1])
    BY <1>0, <2>1 DEF Elements
  <2>5. NotAfter(s[i], s[j + 1])
    BY <2>2, <2>3, <2>4, OrderTransitive
  <2> QED
    BY <2>1, <2>5
<1> HIDE DEF P
<1>3. ASSUME NEW j \in 1..Len(s), i < j
      PROVE  NotAfter(s[i], s[j])
  <2> DEFINE d == j - i - 1
  <2>1. d \in Nat /\ i + d + 1 = j
    BY <1>0, <1>3
  <2> HIDE DEF d
  <2>2. d \in P
    BY <1>1, <1>2, <2>1, Induction
  <2>3. i + d + 1 <= Len(s) => NotAfter(s[i], s[i + d + 1])
    BY <2>2 DEF P
  <2>4. i + d + 1 <= Len(s)
    BY <1>0, <2>1
  <2>5. NotAfter(s[i], s[i + d + 1])
    BY <2>3, <2>4
  <2> QED
    BY <2>1, <2>5
<1> QED
  BY <1>3

(* What the check of sort_list accepts is a sort of the items. *)
LEMMA SortCheckMeans ==
    ASSUME NEW items, NEW claim, Elements(items), Scalar(claim) \/ List(claim),
           items # Raised, Raised # "pass", SortCheck(items, claim) = "pass"
    PROVE  IsSort(HKey, claim, items)
<1> DEFINE out == claim[2]
           Pairs == 1..(Len(out) - 1)
<1>1. claim[1] = "list" /\ SamePerKey(out, items)
  BY DEF SortCheck, Answer
<1>2. \A i \in Pairs : Comparable(out[i], out[i + 1]) /\ ~ Less(out[i + 1], out[i])
  <2>1. /\ ~ \E i \in Pairs : /\ ~ Comparable(out[i], out[i + 1])
                              /\ \A j \in 1..i : Comparable(out[j], out[j + 1]) =>
                                                    ~ Less(out[j + 1], out[j])
        /\ \A i \in Pairs : Comparable(out[i], out[i + 1]) => ~ Less(out[i + 1], out[i])
    BY <1>1 DEF SortCheck, Answer
  <2>2. \A i \in Pairs : 1..i \subseteq Pairs
    OBVIOUS
  <2> HIDE DEF out, Pairs
  <2> QED
    BY <2>1, <2>2
<1>3. Elements(out)
  BY <1>1 DEF List, Scalar, Elements, NumberKinds
<1> HIDE DEF out
<1>4. \A i, j \in DOMAIN out : i < j => NotAfter(out[i], out[j])
  BY <1>2, <1>3, NeighboursSuffice DEF NotAfter
<1>5. PICK p : Permutes(p, out, items)
  BY <1>1, <1>3, CountsGivePermutation DEF Elements
<1>6. Len(out) = Len(items) /\ DOMAIN out = DOMAIN items
  BY <1>1, <1>3, CountsGivePermutation DEF Elements, Sequence
<1>7. /\ p \in [DOMAIN items -> DOMAIN items]
      /\ \A i, j \in DOMAIN items : p[i] = p[j] => i = j
      /\ \A i \in DOMAIN items : HKey(out[i]) = HKey(items[p[i]])
  BY <1>5, <1>6 DEF Permutes
<1>8. \A i, j \in DOMAIN items : i < j => ~ Less(out[j], out[i])
  BY <1>4, <1>6 DEF NotAfter
<1> QED
  BY <1>1, <1>6, <1>7, <1>8 DEF IsSort, out

(* The order sorted() puts the positions in. *)
Before(items, j, i) == \/ j = i
                       \/ Less(items[j], items[i])
                       \/ j < i /\ ~ Less(items[i], items[j])

Ordering(items) == {s \in (DOMAIN items) \X (DOMAIN items) : Before(items, s[1], s[2])}

AllComparable(items) ==
    \A i, j \in DOMAIN items : i # j => Comparable(items[i], items[j])

(* The order as a set of pairs. *)
LEMMA InOrdering ==
    ASSUME NEW items, NEW i \in DOMAIN items, NEW j \in DOMAIN items
    PROVE  <<j, i>> \in Ordering(items) <=> Before(items, j, i)
BY DEF Ordering

(* sorted() is stable, so that even equal items have an order, and it is   *)
(* total.                                                                  *)
LEMMA StableOrder ==
    ASSUME NEW items, Elements(items), AllComparable(items)
    PROVE  TotalOrder(DOMAIN items, Ordering(items))
<1> DEFINE D == DOMAIN items
           L(i, j) == Less(items[i], items[j])
           B(j, i) == Before(items, j, i)
<1>0. D \subseteq Int /\ \A i \in D : Element(items[i])
  BY DEF Elements, Sequence
<1>1. \A i, j \in D : i # j /\ L(i, j) => ~ L(j, i)
  BY <1>0, OrderAsymmetric DEF AllComparable
<1>2. ASSUME NEW i \in D, NEW j \in D, NEW k \in D, i # j, j # k, i # k,
             ~ L(j, i), ~ L(k, j)
      PROVE  ~ L(k, i)
  <2>1. NotAfter(items[i], items[j]) /\ NotAfter(items[j], items[k])
    BY <1>2 DEF AllComparable, NotAfter
  <2>2. NotAfter(items[i], items[k])
    BY <1>0, <2>1, OrderTransitive
  <2> QED
    BY <2>2 DEF NotAfter
<1>3. \A i, j \in D : B(j, i) <=> j = i \/ L(j, i) \/ (j < i /\ ~ L(i, j))
  BY DEF Before
<1>4. \A i, j \in D : <<j, i>> \in Ordering(items) <=> B(j, i)
  BY InOrdering
<1> HIDE DEF D, L, B
<1>5. \A x \in D : B(x, x)
  BY <1>3
<1>6. \A x, y \in D : B(x, y) /\ B(y, x) => x = y
  BY <1>0, <1>1, <1>3
<1>7. \A x, y \in D : B(x, y) \/ B(y, x)
  BY <1>0, <1>3
<1>8. ASSUME NEW x \in D, NEW y \in D, NEW z \in D, B(x, y), B(y, z)
      PROVE  B(x, z)
  <2>1. CASE x = y \/ y = z \/ x = z
    BY <1>3, <1>8, <2>1
  <2>2. CASE x # y /\ y # z /\ x # z
    <3>1. ~ L(y, x) /\ ~ L(z, y)
      BY <1>1, <1>3, <1>8, <2>2
    <3>2. ~ L(z, x)
      BY <1>2, <2>2, <3>1
    <3>3. CASE L(x, z)
      BY <1>3, <3>3
    <3>4. CASE ~ L(x, z)
      <4>1. ~ L(y, z)
        BY <1>2, <2>2, <3>1, <3>4
      <4>2. ~ L(x, y)
        BY <1>2, <2>2, <3>1, <3>4
      <4>3. x < y /\ y < z
        BY <1>3, <1>8, <2>2, <4>1, <4>2
      <4> QED
        BY <1>0, <1>3, <3>2, <4>3
    <3> QED
      BY <3>3, <3>4
  <2> QED
    BY <2>1, <2>2
<1> QED
  BY <1>4, <1>5, <1>6, <1>7, <1>8 DEF TotalOrder, D

(* What run() returns for a list that can be sorted. *)
Place(items, i) == Cardinality({j \in DOMAIN items : Before(items, j, i)})
At(items, k) == CHOOSE i \in DOMAIN items : Place(items, i) = k

(* SortRun in these terms. *)
LEMMA SortRunIs ==
    ASSUME NEW items, SortRun(items) # Raised
    PROVE  /\ items # Raised /\ AllComparable(items)
           /\ SortRun(items) = <<"list", [k \in DOMAIN items |-> items[At(items, k)]]>>
BY Zenon DEF SortRun, AllComparable, At, Place, Before

(* Every item has one place, every place one item, and a later place never *)
(* a smaller item.                                                         *)
LEMMA PlacesOfItems ==
    ASSUME NEW items, Elements(items), AllComparable(items)
    PROVE  /\ \A k \in DOMAIN items : At(items, k) \in DOMAIN items
           /\ \A k, l \in DOMAIN items : At(items, k) = At(items, l) => k = l
           /\ \A i \in DOMAIN items : \E k \in DOMAIN items : At(items, k) = i
           /\ \A k, l \in DOMAIN items : k < l =>
                  ~ Less(items[At(items, l)], items[At(items, k)])
<1> DEFINE D == DOMAIN items
           R == Ordering(items)
<1>1. /\ IsFiniteSet(D) /\ Cardinality(D) = Len(items)
      /\ D = 1..Len(items) /\ Len(items) \in Nat
  BY WithIsFinite DEF Elements, Sequence
<1>2. TotalOrder(D, R)
  BY StableOrder
<1>3. ASSUME NEW i \in D
      PROVE  Place(items, i) = Cardinality(UpTo(D, R, i))
  <2>1. UpTo(D, R, i) = {j \in D : Before(items, j, i)}
    BY InOrdering DEF UpTo
  <2> QED
    BY <2>1 DEF Place
<1> HIDE DEF D, R
<1>4. /\ \A i \in D : Place(items, i) \in D
      /\ \A i, j \in D : Place(items, i) = Place(items, j) => i = j
      /\ \A i, j \in D : Place(items, i) <= Place(items, j) <=> <<i, j>> \in R
      /\ \A k \in D : \E i \in D : Place(items, i) = k
  <2>1. /\ \A x \in D : Cardinality(UpTo(D, R, x)) \in 1..Cardinality(D)
        /\ \A x, y \in D :
              /\ Cardinality(UpTo(D, R, x)) = Cardinality(UpTo(D, R, y)) => x = y
              /\ Cardinality(UpTo(D, R, x)) <= Cardinality(UpTo(D, R, y)) <=> <<x, y>> \in R
        /\ \A k \in 1..Cardinality(D) : \E x \in D : Cardinality(UpTo(D, R, x)) = k
    BY <1>1, <1>2, PlacesInOrder, SMTT(30)
  <2> QED
    <3>1. 1..Cardinality(D) = D
      BY <1>1
    <3>2. \A i \in D : Place(items, i) \in D
      BY <1>3, <2>1, <3>1
    <3>3. ASSUME NEW i \in D, NEW j \in D
          PROVE  /\ Place(items, i) = Place(items, j) => i = j
                 /\ Place(items, i) <= Place(items, j) <=> <<i, j>> \in R
      <4>1. /\ Cardinality(UpTo(D, R, i)) = Cardinality(UpTo(D, R, j)) => i = j
            /\ Cardinality(UpTo(D, R, i)) <= Cardinality(UpTo(D, R, j)) <=> <<i, j>> \in R
        BY <2>1
      <4>2. /\ Place(items, i) = Cardinality(UpTo(D, R, i))
            /\ Place(items, j) = Cardinality(UpTo(D, R, j))
        BY <1>3
      <4> QED
        BY <4>1, <4>2
    <3>4. ASSUME NEW k \in D
          PROVE  \E i \in D : Place(items, i) = k
      <4>1. PICK i \in D : Cardinality(UpTo(D, R, i)) = k
        BY <2>1, <3>1
      <4> QED
        BY <1>3, <4>1
    <3> QED
      BY <3>2, <3>3, <3>4
<1>5. \A k \in D : At(items, k) \in D /\ Place(items, At(items, k)) = k
  BY <1>4 DEF At, D
<1>6. \A i \in D : At(items, Place(items, i)) = i
  BY <1>4, <1>5
<1>7. ASSUME NEW k \in D, NEW l \in D, k < l
      PROVE  ~ Less(items[At(items, l)], items[At(items, k)])
  <2>1. ~ Place(items, At(items, l)) <= Place(items, At(items, k))
    BY <1>1, <1>5, <1>7
  <2>2. <<At(items, l), At(items, k)>> \notin R
    BY <1>4, <1>5, <2>1
  <2> QED
    <3>1. ~ Before(items, At(items, l), At(items, k))
      BY <1>5, <2>2, InOrdering DEF R, D
    <3> QED
      BY <3>1 DEF Before
<1> QED
  BY <1>4, <1>5, <1>6, <1>7 DEF D

(* run() of sort_list returns a sort of the items, and the check accepts   *)
(* it.                                                                     *)
LEMMA SortRunSorts ==
    ASSUME NEW items, Elements(items), SortRun(items) # Raised
    PROVE  /\ IsSort(Itself, SortRun(items), items)
           /\ SortCheck(items, SortRun(items)) = "pass"
<1> DEFINE out == [k \in DOMAIN items |-> items[At(items, k)]]
           p == [k \in DOMAIN items |-> At(items, k)]
<1>1. items # Raised /\ AllComparable(items) /\ SortRun(items) = <<"list", out>>
  BY SortRunIs
<1>2. Len(items) \in Nat /\ DOMAIN items = 1..Len(items)
  BY DEF Elements, Sequence
<1>3. DOMAIN out = DOMAIN items /\ Len(out) = Len(items) /\ Sequence(out)
  BY <1>2 DEF Sequence
<1>4. /\ p \in [DOMAIN items -> DOMAIN items]
      /\ \A i, j \in DOMAIN items : p[i] = p[j] => i = j
      /\ \A k \in DOMAIN items : \E i \in DOMAIN items : p[i] = k
      /\ \A i \in DOMAIN items : out[i] = items[p[i]]
  BY <1>1, PlacesOfItems
<1>5. \A k, l \in DOMAIN items : k < l => ~ Less(out[l], out[k])
  BY <1>1, PlacesOfItems
<1> HIDE DEF out, p
<1>6. IsSort(Itself, <<"list", out>>, items)
  BY <1>3, <1>4, <1>5 DEF IsSort, Itself
<1>7. SamePerKey(out, items)
  <2>1. Permutes(p, out, items)
    BY <1>3, <1>4 DEF Permutes
  <2> QED
    BY <1>3, <2>1, PermutationKeepsCounts DEF Elements
<1>8. \A i \in 1..(Len(out) - 1) : Comparable(out[i], out[i + 1]) /\ ~ Less(out[i + 1], out[i])
  <2> TAKE i \in 1..(Len(out) - 1)
  <2>1. i \in DOMAIN items /\ i + 1 \in DOMAIN items /\ i < i + 1
    BY <1>2, <1>3
  <2>2. p[i] # p[i + 1]
    BY <1>4, <2>1
  <2>3. Comparable(items[p[i]], items[p[i + 1]])
    BY <1>1, <1>4, <2>1, <2>2 DEF AllComparable
  <2> QED
    BY <1>4, <1>5, <2>1, <2>3
<1>9. SortCheck(items, <<"list", out>>) = "pass"
  BY <1>1, <1>7, <1>8 DEF SortCheck, Answer
<1> QED
  BY <1>1, <1>6, <1>9

-----------------------------------------------------------------------------
(* dedupe: what was seen first, the check and run(). *)

(* Every value of a list is seen for a first time. *)
LEMMA FirstSeenBefore ==
    ASSUME NEW items, Sequence(items)
    PROVE  /\ FirstSeen(items) \subseteq DOMAIN items
           /\ \A j \in DOMAIN items : \E i \in FirstSeen(items) :
                 i <= j /\ HKey(items[i]) = HKey(items[j])
           /\ \A i, j \in FirstSeen(items) : HKey(items[i]) = HKey(items[j]) => i = j
           /\ \A i \in FirstSeen(items), j \in DOMAIN items :
                 HKey(items[i]) = HKey(items[j]) => i <= j
<1>0. Len(items) \in Nat /\ DOMAIN items = 1..Len(items)
  BY DEF Sequence
<1>1. FirstSeen(items) \subseteq DOMAIN items
  BY DEF FirstSeen
<1>2. ASSUME NEW j \in DOMAIN items
      PROVE  \E i \in FirstSeen(items) : i <= j /\ HKey(items[i]) = HKey(items[j])
  <2> DEFINE T == {i \in DOMAIN items : HKey(items[i]) = HKey(items[j])}
  <2>1. T \subseteq Nat /\ j \in T
    BY <1>0
  <2>2. PICK i \in T : \A k \in T : i <= k
    BY <2>1, LeastNatural
  <2>3. ASSUME NEW k \in 1..(i - 1), HKey(items[k]) = HKey(items[i])
        PROVE  FALSE
    <3>1. k \in T
      BY <1>0, <2>3
    <3> QED
      BY <1>0, <2>2, <3>1
  <2>4. i \in FirstSeen(items)
    BY <2>3 DEF FirstSeen
  <2> QED
    BY <2>1, <2>2, <2>4
<1>3. ASSUME NEW i \in FirstSeen(items), NEW j \in DOMAIN items,
             HKey(items[i]) = HKey(items[j])
      PROVE  i <= j
  <2>1. i \in DOMAIN items /\ \A k \in 1..(i - 1) : HKey(items[k]) # HKey(items[i])
    BY DEF FirstSeen
  <2> QED
    BY <1>0, <1>3, <2>1
<1>4. ASSUME NEW i \in FirstSeen(items), NEW j \in FirstSeen(items),
             HKey(items[i]) = HKey(items[j])
      PROVE  i = j
  <2>1. i <= j /\ j <= i
    BY <1>1, <1>3, <1>4
  <2> QED
    BY <1>0, <1>1, <2>1
<1> QED
  BY <1>1, <1>2, <1>3, <1>4

(* A list has as many keys as items only if no two items share one. *)
LEMMA AllKeysDiffer ==
    ASSUME NEW s, Sequence(s)
    PROVE  /\ IsFiniteSet(HKeys(s))
           /\ Len(s) = Cardinality(HKeys(s))
                 <=> \A i, j \in DOMAIN s : HKey(s[i]) = HKey(s[j]) => i = j
<1> DEFINE f == [i \in DOMAIN s |-> HKey(s[i])]
           S == DOMAIN s
           T == HKeys(s)
<1>1. IsFiniteSet(S) /\ Cardinality(S) = Len(s)
  BY WithIsFinite
<1>2. f \in [S -> T] /\ \A t \in T : \E i \in S : f[i] = t
  BY DEF HKeys
<1>3. \A i, j \in S : f[i] = f[j] <=> HKey(s[i]) = HKey(s[j])
  OBVIOUS
<1> HIDE DEF f, S, T
<1>4. f \in Surjection(S, T)
  BY <1>2 DEF Surjection
<1>5. IsFiniteSet(T) /\ (Cardinality(T) = Cardinality(S) <=> f \in Injection(S, T))
  BY <1>1, <1>4, FS_Surjection
<1>6. f \in Injection(S, T) <=> \A i, j \in S : f[i] = f[j] => i = j
  BY <1>2 DEF Injection, IsInjective
<1> QED
  BY <1>1, <1>3, <1>5, <1>6 DEF S, T

(* What the check of dedupe accepts is the items without what was seen.    *)
LEMMA DedupeCheckMeans ==
    ASSUME NEW items, NEW claim, Elements(items), Scalar(claim) \/ List(claim),
           items # Raised, DedupeCheck(items, claim) = "pass"
    PROVE  IsDedupe(HKey, claim, items)
<1> DEFINE out == claim[2]
           first(v) == CHOOSE i \in FirstSeen(items) : HKey(items[i]) = HKey(v)
           f == [i \in DOMAIN out |-> first(out[i])]
<1>1. /\ claim[1] = "list" /\ Len(out) = Cardinality(HKeys(out))
      /\ HKeys(out) = HKeys(items)
      /\ \A i, j \in DOMAIN out : i < j => f[i] <= f[j]
  BY DEF DedupeCheck, Answer
<1>2. Sequence(out) /\ Sequence(items)
  BY <1>1 DEF List, Scalar, Elements, NumberKinds
<1>3. ASSUME NEW i \in DOMAIN out
      PROVE  f[i] \in FirstSeen(items) /\ HKey(items[f[i]]) = HKey(out[i])
  <2>1. HKey(out[i]) \in HKeys(items)
    BY <1>1 DEF HKeys
  <2>2. PICK j \in DOMAIN items : HKey(items[j]) = HKey(out[i])
    BY <2>1 DEF HKeys
  <2>3. \E k \in FirstSeen(items) : HKey(items[k]) = HKey(out[i])
    BY <1>2, <2>2, FirstSeenBefore
  <2> QED
    BY <2>3
<1>4. DOMAIN f = DOMAIN out
  OBVIOUS
<1> HIDE DEF out, f
<1>5. \A i, j \in DOMAIN out : HKey(out[i]) = HKey(out[j]) => i = j
  BY <1>1, <1>2, AllKeysDiffer
<1>6. /\ DOMAIN out \subseteq Int /\ DOMAIN items \subseteq Int
      /\ FirstSeen(items) \subseteq DOMAIN items
  BY <1>2, FirstSeenBefore DEF Sequence
<1>7. \A i, j \in DOMAIN out : i < j => f[i] < f[j]
  <2> TAKE i, j \in DOMAIN out
  <2> HAVE i < j
  <2>1. f[i] # f[j]
    BY <1>3, <1>5, <1>6
  <2> QED
    BY <1>1, <1>3, <1>6, <2>1
<1>8. ASSUME NEW j \in DOMAIN items
      PROVE  \E i \in DOMAIN out : f[i] <= j /\ HKey(items[f[i]]) = HKey(items[j])
  <2>1. HKey(items[j]) \in HKeys(out)
    BY <1>1 DEF HKeys
  <2>2. PICK i \in DOMAIN out : HKey(out[i]) = HKey(items[j])
    BY <2>1 DEF HKeys
  <2>3. f[i] <= j
    BY <1>2, <1>3, <2>2, FirstSeenBefore
  <2> QED
    BY <1>3, <2>2, <2>3
<1>9. f \in [DOMAIN out -> DOMAIN items]
  BY <1>3, <1>6 DEF f
<1>10. /\ \A i, j \in DOMAIN f : i < j => f[i] < f[j]
       /\ \A i \in DOMAIN f : HKey(out[i]) = HKey(items[f[i]])
       /\ \A j \in DOMAIN items : \E i \in DOMAIN f :
             f[i] <= j /\ HKey(items[f[i]]) = HKey(items[j])
       /\ \A i, j \in DOMAIN f : HKey(out[i]) = HKey(out[j]) => i = j
  BY <1>3, <1>4, <1>5, <1>7, <1>8
<1> QED
  BY <1>1, <1>9, <1>10 DEF IsDedupe, out

(* The kept positions, in their order. *)
Nth(items, k) ==
    CHOOSE i \in FirstSeen(items) : Cardinality({j \in FirstSeen(items) : j <= i}) = k

(* DedupeRun in these terms. *)
LEMMA DedupeRunIs ==
    ASSUME NEW items, DedupeRun(items) # Raised
    PROVE  /\ items # Raised
           /\ DedupeRun(items) =
                <<"list", [k \in 1..Cardinality(FirstSeen(items)) |-> items[Nth(items, k)]]>>
BY Zenon DEF DedupeRun, Nth

(* The kept positions are numbered from 1 without gaps, in order. *)
LEMMA KeptInOrder ==
    ASSUME NEW items, Sequence(items)
    PROVE  LET n == Cardinality(FirstSeen(items))
           IN  /\ n \in Nat
               /\ \A k \in 1..n : Nth(items, k) \in FirstSeen(items)
               /\ \A k, l \in 1..n : k < l => Nth(items, k) < Nth(items, l)
               /\ \A i \in FirstSeen(items) : \E k \in 1..n : Nth(items, k) = i
<1> DEFINE S == FirstSeen(items)
           R == {s \in Nat \X Nat : s[1] <= s[2]}
           place(i) == Cardinality({j \in S : j <= i})
           n == Cardinality(S)
<1>1. S \subseteq Nat /\ S \subseteq DOMAIN items
  BY FirstSeenBefore DEF Sequence
<1>2. IsFiniteSet(S)
  <2>1. IsFiniteSet(DOMAIN items) /\ S \in SUBSET (DOMAIN items)
    BY <1>1, WithIsFinite
  <2> QED
    BY <2>1, FS_Subset
<1>3. n \in Nat
  BY <1>2, FS_CardinalityType
<1>4. \A i, j \in Nat : <<i, j>> \in R <=> i <= j
  OBVIOUS
<1> HIDE DEF S, R
<1>5. TotalOrder(S, R)
  BY <1>1, <1>4 DEF TotalOrder
<1>6. ASSUME NEW i \in S
      PROVE  place(i) = Cardinality(UpTo(S, R, i))
  <2>1. UpTo(S, R, i) = {j \in S : j <= i}
    BY <1>1, <1>4 DEF UpTo
  <2> QED
    BY <2>1
<1>7. /\ \A x \in S : Cardinality(UpTo(S, R, x)) \in 1..n
      /\ \A x, y \in S :
            /\ Cardinality(UpTo(S, R, x)) = Cardinality(UpTo(S, R, y)) => x = y
            /\ Cardinality(UpTo(S, R, x)) <= Cardinality(UpTo(S, R, y)) <=> <<x, y>> \in R
      /\ \A k \in 1..n : \E x \in S : Cardinality(UpTo(S, R, x)) = k
  BY <1>2, <1>5, PlacesInOrder
<1> HIDE DEF place, n
<1>8. \A k \in 1..n : \E i \in S : place(i) = k
  BY <1>6, <1>7
<1>9. \A k : Nth(items, k) = CHOOSE i \in S : place(i) = k
  BY DEF Nth, S, place
<1>10. \A k \in 1..n : Nth(items, k) \in S /\ place(Nth(items, k)) = k
  BY <1>8, <1>9
<1>11. ASSUME NEW i \in S
       PROVE  \E k \in 1..n : Nth(items, k) = i
  <2>1. place(i) \in 1..n
    BY <1>6, <1>7
  <2>2. Nth(items, place(i)) \in S /\ place(Nth(items, place(i))) = place(i)
    BY <1>10, <2>1
  <2>3. Nth(items, place(i)) = i
    BY <1>6, <1>7, <2>2
  <2> QED
    BY <2>1, <2>3
<1>12. ASSUME NEW k \in 1..n, NEW l \in 1..n, k < l
       PROVE  Nth(items, k) < Nth(items, l)
  <2> DEFINE x == Nth(items, k)
             y == Nth(items, l)
  <2>1. x \in S /\ y \in S /\ place(x) = k /\ place(y) = l
    BY <1>10
  <2> HIDE DEF x, y
  <2>2. ~ place(y) <= place(x)
    BY <1>3, <1>12, <2>1
  <2>3. <<y, x>> \notin R
    BY <1>6, <1>7, <2>1, <2>2
  <2>4. x < y
    BY <1>1, <1>4, <2>1, <2>3
  <2> QED
    BY <2>4 DEF x, y
<1> QED
  BY <1>3, <1>10, <1>11, <1>12 DEF S, n

(* run() of dedupe keeps every value's first occurrence, in order, and the *)
(* check accepts it.                                                       *)
LEMMA DedupeRunKeepsFirst ==
    ASSUME NEW items, Elements(items), DedupeRun(items) # Raised
    PROVE  /\ IsDedupe(Itself, DedupeRun(items), items)
           /\ DedupeCheck(items, DedupeRun(items)) = "pass"
<1> DEFINE n == Cardinality(FirstSeen(items))
           f == [k \in 1..n |-> Nth(items, k)]
           out == [k \in 1..n |-> items[Nth(items, k)]]
<1>1. items # Raised /\ DedupeRun(items) = <<"list", out>>
  BY DedupeRunIs
<1>2. Sequence(items) /\ n \in Nat
  BY KeptInOrder DEF Elements
<1>3. DOMAIN out = 1..n /\ DOMAIN f = 1..n /\ Len(out) = n /\ Sequence(out)
  BY <1>2 DEF Sequence
<1>4. /\ \A k \in 1..n : f[k] \in FirstSeen(items) /\ out[k] = items[f[k]]
      /\ \A k, l \in 1..n : k < l => f[k] < f[l]
      /\ \A i \in FirstSeen(items) : \E k \in 1..n : f[k] = i
  BY <1>2, KeptInOrder
<1> HIDE DEF f, out, n
<1>5. FirstSeen(items) \subseteq DOMAIN items /\ DOMAIN items \subseteq Int
  BY <1>2, FirstSeenBefore DEF Sequence
<1>6. \A i, j \in 1..n : HKey(out[i]) = HKey(out[j]) => i = j
  <2> TAKE i, j \in 1..n
  <2> HAVE HKey(out[i]) = HKey(out[j])
  <2>1. f[i] = f[j]
    BY <1>2, <1>4, FirstSeenBefore
  <2>2. ~ i < j /\ ~ j < i
    BY <1>4, <1>5, <2>1
  <2> QED
    BY <1>2, <2>2
<1>7. ASSUME NEW j \in DOMAIN items
      PROVE  \E k \in 1..n : f[k] <= j /\ HKey(items[f[k]]) = HKey(items[j])
  <2>1. PICK i \in FirstSeen(items) : i <= j /\ HKey(items[i]) = HKey(items[j])
    BY <1>2, FirstSeenBefore
  <2> QED
    BY <1>4, <2>1
<1>8. IsDedupe(Itself, <<"list", out>>, items)
  <2>1. f \in [DOMAIN out -> DOMAIN items]
    BY <1>3, <1>4, <1>5 DEF f
  <2>2. /\ \A i, j \in DOMAIN f : i < j => f[i] < f[j]
        /\ \A i \in DOMAIN f : out[i] = items[f[i]]
        /\ \A j \in DOMAIN items : \E i \in DOMAIN f :
              f[i] <= j /\ HKey(items[f[i]]) = HKey(items[j])
        /\ \A i, j \in DOMAIN f : HKey(out[i]) = HKey(out[j]) => i = j
    BY <1>3, <1>4, <1>6, <1>7
  <2> QED
    BY <2>1, <2>2 DEF IsDedupe, Itself
<1>9. Len(out) = Cardinality(HKeys(out))
  BY <1>3, <1>6, AllKeysDiffer
<1>10. HKeys(out) = HKeys(items)
  <2>1. ASSUME NEW i \in DOMAIN out
        PROVE  \E j \in DOMAIN items : HKey(items[j]) = HKey(out[i])
    BY <1>3, <1>4, <1>5
  <2>2. ASSUME NEW j \in DOMAIN items
        PROVE  \E i \in DOMAIN out : HKey(out[i]) = HKey(items[j])
    BY <1>3, <1>4, <1>7
  <2> QED
    BY <2>1, <2>2 DEF HKeys
<1> DEFINE first(v) == CHOOSE i \in FirstSeen(items) : HKey(items[i]) = HKey(v)
<1>11. ASSUME NEW i \in DOMAIN out
       PROVE  first(out[i]) = f[i]
  <2>1. f[i] \in FirstSeen(items) /\ HKey(items[f[i]]) = HKey(out[i])
    BY <1>3, <1>4
  <2>2. first(out[i]) \in FirstSeen(items) /\ HKey(items[first(out[i])]) = HKey(out[i])
    BY <2>1
  <2> HIDE DEF first
  <2> QED
    BY <1>2, <2>1, <2>2, FirstSeenBefore
<1>12. \A i, j \in DOMAIN out : i < j => first(out[i]) <= first(out[j])
  <2> TAKE i, j \in DOMAIN out
  <2> HAVE i < j
  <2>1. f[i] < f[j] /\ f[i] \in Int /\ f[j] \in Int
    BY <1>3, <1>4, <1>5
  <2> HIDE DEF first
  <2> QED
    BY <1>11, <2>1
<1>13. DedupeCheck(items, <<"list", out>>) = "pass"
  BY <1>1, <1>9, <1>10, <1>12 DEF DedupeCheck, Answer
<1> QED
  BY <1>1, <1>8, <1>13

-----------------------------------------------------------------------------
(* What is believed is right, and what is honest is believed. *)

(* What inputs are converted to. *)
LEMMA IntsGiven ==
    ASSUME NEW inputs, Values(inputs), NEW k, IntOf(Given(inputs, k)) # Raised
    PROVE  IntOf(Given(inputs, k)) \in Int
<1> DEFINE v == Given(inputs, k)
<1>1. v # Raised
  BY DEF IntOf
<1>2. v = Raised \/ Scalar(v) \/ List(v)
  BY DEF Given, Values, Value
<1> HIDE DEF v
<1>3. CASE v[1] \in NumberKinds
  <2>1. Scalar(v)
    BY <1>1, <1>2, <1>3 DEF List, NumberKinds
  <2> QED
    BY <1>1, <1>3, <2>1 DEF IntOf, Scalar, v
<1>4. CASE v[1] \notin NumberKinds
  <2>1. v[1] = "str" /\ v[2] \in DOMAIN Numeral /\ IntOf(v) = Numeral[v[2]]
    BY <1>1, <1>4 DEF IntOf, v
  <2> QED
    BY <2>1, NumeralAssumption DEF v
<1> QED
  BY <1>3, <1>4

(* A list of items is the one of the inputs, element by element. *)
LEMMA ItemsGiven ==
    ASSUME NEW inputs, Values(inputs), ItemsOf(Given(inputs, "items")) # Raised
    PROVE  /\ ItemsOf(Given(inputs, "items")) = inputs["items"][2]
           /\ Elements(inputs["items"][2])
<1> DEFINE v == Given(inputs, "items")
<1>1. v # Raised /\ v[1] = "list" /\ ItemsOf(v) = v[2]
  BY DEF ItemsOf
<1>2. "items" \in DOMAIN inputs /\ v = inputs["items"]
  BY <1>1 DEF Given
<1> HIDE DEF v
<1>3. List(v)
  BY <1>1, <1>2 DEF Values, Value, Scalar, NumberKinds
<1> QED
  BY <1>1, <1>2, <1>3 DEF List, Elements, v

(* Bytes are those of the inputs. *)
LEMMA BytesGiven ==
    ASSUME NEW inputs, BytesOf(Given(inputs, "blob_hex")) # Raised
    PROVE  Given(inputs, "blob_hex") = inputs["blob_hex"]
BY DEF BytesOf, Given

(* Different results have different digests. *)
LEMMA DigestsDiffer ==
    ASSUME NEW v, NEW w, ResultDigest(v) = ResultDigest(w)
    PROVE  v = w
BY DEF ResultDigest

(* The names the closed form is for. *)
Sums == {"sum_range", "slow_task", "flaky_task"}

(* What run() of these three returns is the closed form of n. *)
LEMMA RunOfSums ==
    ASSUME NEW name \in Sums, NEW inputs, NEW attempt,
           RunFixture(name, inputs, attempt) # Raised
    PROVE  LET n == IntOf(Given(inputs, "n"))
           IN  /\ n # Raised
               /\ RunFixture(name, inputs, attempt) = <<"int", ClosedForm(n)>>
<1>1. CASE name = "sum_range"
  BY <1>1 DEF RunFixture, SumRangeRun
<1>2. CASE name = "slow_task"
  BY <1>2 DEF RunFixture, SlowRun, TimerRun
<1>3. CASE name = "flaky_task"
  BY <1>3 DEF RunFixture, FlakyRun, TimerRun
<1> QED
  BY <1>1, <1>2, <1>3 DEF Sums

(* What the cheap check believes is right: the recheck of a witness needs  *)
(* nothing but the inputs.                                                 *)
LEMMA BelievedMeansRight ==
    ASSUME NEW name, NEW inputs, NEW claim, Values(inputs), Value(claim),
           CheckWitness(name, inputs, claim) = "pass",
           NEW attempt, RunFixture(name, inputs, attempt) # Raised
    PROVE  Right(HKey, name, inputs, claim)
<1>0. Scalar(claim) \/ List(claim)
  BY DEF Value
<1>1. CASE name = "sort_list"
  <2> DEFINE items == ItemsOf(Given(inputs, "items"))
  <2>1. SortRun(items) # Raised /\ SortCheck(items, claim) = "pass"
    BY <1>1 DEF RunFixture, CheckWitness
  <2>2. items # Raised
    BY <2>1 DEF SortRun
  <2>3. items = inputs["items"][2] /\ Elements(inputs["items"][2])
    BY <2>2, ItemsGiven
  <2> HIDE DEF items
  <2>4. IsSort(HKey, claim, inputs["items"][2])
    BY <1>0, <2>1, <2>2, <2>3, SortCheckMeans, RaisedAssumption
  <2> QED
    BY <1>1, <2>4 DEF Right
<1>2. CASE name = "dedupe"
  <2> DEFINE items == ItemsOf(Given(inputs, "items"))
  <2>1. DedupeRun(items) # Raised /\ DedupeCheck(items, claim) = "pass"
    BY <1>2 DEF RunFixture, CheckWitness
  <2>2. items # Raised
    BY <2>1 DEF DedupeRun
  <2>3. items = inputs["items"][2] /\ Elements(inputs["items"][2])
    BY <2>2, ItemsGiven
  <2> HIDE DEF items
  <2>4. IsDedupe(HKey, claim, inputs["items"][2])
    BY <1>0, <2>1, <2>2, <2>3, DedupeCheckMeans
  <2> QED
    BY <1>2, <2>4 DEF Right
<1>3. CASE name = "sha_blob"
  <2> DEFINE bytes == BytesOf(Given(inputs, "blob_hex"))
  <2>1. ShaRun(bytes) # Raised /\ ShaCheck(bytes, claim) = "pass"
    BY <1>3 DEF RunFixture, CheckWitness
  <2>2. bytes # Raised /\ claim = <<"str", Hex[bytes]>>
    BY <2>1 DEF ShaRun, ShaCheck, Answer
  <2>3. bytes = BytesOf(inputs["blob_hex"])
    BY <2>2, BytesGiven
  <2> HIDE DEF bytes
  <2> QED
    BY <1>3, <2>2, <2>3 DEF Right
<1>4. CASE name = "nth_prime"
  <2>1. NthPrimeCheck(claim) = "pass"
    BY <1>4 DEF CheckWitness
  <2>2. claim[1] = "int" /\ IsPrime(claim[2])
    BY <2>1, RaisedAssumption DEF NthPrimeCheck, Answer
  <2>3. claim[2] \in Int /\ claim = <<"int", claim[2]>>
    BY <1>0, <2>2 DEF Scalar, List, NumberKinds
  <2>4. HasTwoDivisors(<<"int", claim[2]>>)
    BY <2>2, <2>3, PrimesHaveTwoDivisors
  <2>5. HasTwoDivisors(claim)
    BY <2>3, <2>4
  <2> QED
    BY <1>4, <2>5 DEF Right
<1>5. CASE name \in Sums
  <2> DEFINE n == IntOf(Given(inputs, "n"))
  <2>1. SumRangeCheck(n, claim) = "pass"
    BY <1>5 DEF CheckWitness, Sums
  <2>2. n # Raised
    BY <1>5, RunOfSums
  <2>3. n \in Int
    BY <2>2, IntsGiven
  <2> HIDE DEF n
  <2>4. Key(claim) = <<"number", ClosedForm(n)>>
    BY <2>1, <2>2 DEF SumRangeCheck, Answer
  <2>5. claim[1] # "list"
    BY <2>4 DEF Key, NumberKinds
  <2>6. HKey(claim) = <<"number", ClosedForm(n)>>
    BY <2>4, <2>5 DEF HKey
  <2>7. n >= 0 => HKey(claim) = HKey(<<"int", SumTo[n]>>)
    BY <2>3, <2>6, ClosedFormIsSum DEF HKey, Key, NumberKinds
  <2>8. name \notin {"sort_list", "dedupe", "sha_blob", "nth_prime"}
    BY <1>5 DEF Sums
  <2> QED
    BY <2>7, <2>8 DEF Right, n
<1>6. CASE name \notin Registry
  BY <1>6 DEF RunFixture, Registry
<1> QED
  BY <1>1, <1>2, <1>3, <1>4, <1>5, <1>6 DEF Registry, Sums

(* At which attempt a fixture that can be repeated is run does not matter. *)
LEMMA RepeatableAgree ==
    ASSUME NEW name \in Repeatable, NEW inputs, NEW a, NEW b
    PROVE  RunFixture(name, inputs, a) = RunFixture(name, inputs, b)
BY DEF Repeatable, Registry, RunFixture

(* What run() returns is right, and passes the check that goes with it. *)
LEMMA HonestMeansRight ==
    ASSUME NEW name, NEW inputs, NEW claim, NEW attempt, Values(inputs),
           claim = RunFixture(name, inputs, attempt), claim # Raised
    PROVE  /\ Right(Itself, name, inputs, claim)
           /\ name = "nth_prime" =>
                 Cardinality(PrimesUpTo(claim[2])) = IntOf(inputs["n"])
           /\ CheckWitness(name, inputs, claim) = "pass"
           /\ name \in Registry
<1>1. CASE name = "sort_list"
  <2> DEFINE items == ItemsOf(Given(inputs, "items"))
  <2>1. claim = SortRun(items)
    BY <1>1 DEF RunFixture
  <2>2. items # Raised
    BY <2>1 DEF SortRun
  <2>3. items = inputs["items"][2] /\ Elements(inputs["items"][2])
    BY <2>2, ItemsGiven
  <2>4. CheckWitness(name, inputs, claim) = SortCheck(items, claim)
    BY <1>1 DEF CheckWitness, RunFixture
  <2> HIDE DEF items
  <2>5. IsSort(Itself, claim, inputs["items"][2]) /\ SortCheck(items, claim) = "pass"
    BY <2>1, <2>3, SortRunSorts
  <2> QED
    BY <1>1, <2>1, <2>4, <2>5 DEF Right, Registry
<1>2. CASE name = "dedupe"
  <2> DEFINE items == ItemsOf(Given(inputs, "items"))
  <2>1. claim = DedupeRun(items)
    BY <1>2 DEF RunFixture
  <2>2. items # Raised
    BY <2>1 DEF DedupeRun
  <2>3. items = inputs["items"][2] /\ Elements(inputs["items"][2])
    BY <2>2, ItemsGiven
  <2>4. CheckWitness(name, inputs, claim) = DedupeCheck(items, claim)
    BY <1>2 DEF CheckWitness, RunFixture
  <2> HIDE DEF items
  <2>5. IsDedupe(Itself, claim, inputs["items"][2]) /\ DedupeCheck(items, claim) = "pass"
    BY <2>1, <2>3, DedupeRunKeepsFirst
  <2> QED
    BY <1>2, <2>1, <2>4, <2>5 DEF Right, Registry
<1>3. CASE name = "sha_blob"
  <2> DEFINE bytes == BytesOf(Given(inputs, "blob_hex"))
  <2>1. claim = ShaRun(bytes)
    BY <1>3 DEF RunFixture
  <2>2. bytes # Raised /\ claim = <<"str", Hex[bytes]>>
    BY <2>1 DEF ShaRun
  <2>3. bytes = BytesOf(inputs["blob_hex"])
    BY <2>2, BytesGiven
  <2>4. CheckWitness(name, inputs, claim) = ShaCheck(bytes, claim)
    BY <1>3 DEF CheckWitness, RunFixture
  <2> HIDE DEF bytes
  <2>5. CheckWitness(name, inputs, claim) = "pass"
    BY <2>2, <2>4 DEF ShaCheck, Answer
  <2> QED
    BY <1>3, <2>1, <2>2, <2>3, <2>4, <2>5 DEF Right, Registry
<1>4. CASE name = "nth_prime"
  <2> DEFINE n == IntOf(Given(inputs, "n"))
  <2>1. claim = NthPrimeRun(n)
    BY <1>4 DEF RunFixture
  <2>2. /\ n # Raised /\ ~ n < 1 /\ ~ NthPrime[n] > FloatMax
        /\ claim = <<"int", NthPrime[n]>>
    BY <2>1 DEF NthPrimeRun
  <2>3. n \in Nat \ {0}
    <3>1. n \in Int
      BY <2>2, IntsGiven
    <3> QED
      BY <2>2, <3>1
  <2>4. n = IntOf(inputs["n"])
    <3>1. Given(inputs, "n") # Raised
      BY <2>2 DEF IntOf
    <3> QED
      BY <3>1 DEF Given
  <2>5. CheckWitness(name, inputs, claim) = NthPrimeCheck(claim)
    BY <1>4 DEF CheckWitness, RunFixture
  <2> HIDE DEF n
  <2>6. /\ NthPrime[n] \in Nat /\ IsPrime(NthPrime[n])
        /\ Cardinality(PrimesUpTo(NthPrime[n])) = n
    BY <2>3, NthPrimeIsNth
  <2>7. HasTwoDivisors(<<"int", NthPrime[n]>>)
    BY <2>6, PrimesHaveTwoDivisors
  <2>8. CheckWitness(name, inputs, claim) = "pass"
    BY <2>2, <2>5, <2>6 DEF NthPrimeCheck, Answer
  <2>9. Right(Itself, name, inputs, claim)
    BY <1>4, <2>2, <2>7 DEF Right
  <2>10. Cardinality(PrimesUpTo(claim[2])) = IntOf(inputs["n"])
    <3>1. claim[2] = NthPrime[n]
      BY <2>2
    <3> QED
      BY <2>4, <2>6, <3>1
  <2> QED
    BY <1>4, <2>1, <2>5, <2>8, <2>9, <2>10 DEF Registry
<1>5. CASE name \in Sums
  <2> DEFINE n == IntOf(Given(inputs, "n"))
  <2>1. n # Raised /\ claim = <<"int", ClosedForm(n)>>
    BY <1>5, RunOfSums
  <2>2. n \in Int
    BY <2>1, IntsGiven
  <2>3. CheckWitness(name, inputs, claim) = SumRangeCheck(n, claim)
    BY <1>5 DEF CheckWitness, Sums
  <2>4. CheckWitness(name, inputs, claim) = "pass"
    BY <2>1, <2>3 DEF SumRangeCheck, Answer, Key, NumberKinds
  <2>6. n >= 0 => Itself(claim) = Itself(<<"int", SumTo[n]>>)
    BY <2>1, <2>2, ClosedFormIsSum DEF Itself
  <2>7. name \notin {"sort_list", "dedupe", "sha_blob", "nth_prime"}
    BY <1>5 DEF Sums
  <2>8. Right(Itself, name, inputs, claim)
    BY <2>6, <2>7 DEF Right
  <2> QED
    BY <1>5, <2>4, <2>7, <2>8 DEF Sums, Registry
<1>6. CASE name \notin Registry
  BY <1>6 DEF RunFixture, Registry
<1> QED
  BY <1>1, <1>2, <1>3, <1>4, <1>5, <1>6 DEF Registry, Sums
=============================================================================
