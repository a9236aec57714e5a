----------------------------- MODULE RootProofs -----------------------------
(***************************************************************************)
(* The roots: the arithmetic of a factorization, the replays of the        *)
(* experiments, and the proofs of a Lean root.                             *)
(*                                                                         *)
(* For every number, every count of children and every budget a root is    *)
(* resolved only by its prime factorization, and how the merge ends does   *)
(* not depend on the order of the answers.  The proofs need division with  *)
(* remainder, the integer root, that a number without divisors up to its   *)
(* root is a prime, Euclid's lemma, and that the ranges are a partition.   *)
(*                                                                         *)
(* For every bound on the retries, every set of ablated mechanisms and     *)
(* every choice of slow answers the four properties of ScenarioRoot follow *)
(* from one invariant, ReplayInv: every attempt ended as its answer has    *)
(* it, and the records of the hooks and the observer agree with the end of *)
(* the run.                                                                *)
(*                                                                         *)
(* For any nodes, any plan and any retries a Lean root stands on checked   *)
(* proofs only, from LeanInv: what is under way waits for bound proofs,    *)
(* and the adapter's memory of a bound node is its canonical proof.        *)
(***************************************************************************)
EXTENDS Factorization, ScenarioRoot, LeanProofs, FiniteSetTheorems, WellFoundedInduction, TLAPS

-----------------------------------------------------------------------------
(* Least and greatest elements.                                            *)

\* A set of naturals has a least one.
LEMMA LeastOf ==
  ASSUME NEW S \in SUBSET Nat, S # {}
  PROVE  Min(S) \in S /\ \A y \in S : Min(S) <= y
<1>1. IsWellFoundedOn(OpToRel(<, Nat), Nat)
  BY NatLessThanWellFounded
<1>2. \E x \in S : \A y \in S : ~(<<y, x>> \in OpToRel(<, Nat))
  BY <1>1, WFMin
<1>3. PICK x \in S : \A y \in S : <<y, x>> \notin OpToRel(<, Nat)
  BY <1>2
<1>4. ASSUME NEW y \in S PROVE x <= y
  <2>1. ~(y < x)
    BY <1>3 DEF OpToRel
  <2> QED BY <2>1
<1> QED BY <1>4 DEF Min

\* A set of naturals with an upper bound has a greatest one.
LEMMA GreatestOf ==
  ASSUME NEW n \in Nat, NEW S \in SUBSET (0..n), S # {}
  PROVE  Max(S) \in S /\ \A y \in S : y <= Max(S)
<1> DEFINE T == {k \in 0..n : n - k \in S}
<1>1. T \in SUBSET Nat /\ T # {}
  <2>1. PICK x \in S : TRUE
    OBVIOUS
  <2>2. n - x \in 0..n /\ n - (n - x) = x
    BY <2>1
  <2>3. n - x \in T
    BY <2>1, <2>2
  <2>4. T \subseteq Nat
    OBVIOUS
  <2> QED BY <2>3, <2>4
<1>2. PICK k \in T : \A j \in T : k <= j
  BY <1>1, LeastOf
<1>3. n - k \in S
  OBVIOUS
<1>4. ASSUME NEW y \in S PROVE y <= n - k
  <2>1. n - y \in 0..n /\ n - (n - y) = y
    OBVIOUS
  <2> QED BY <1>2, <2>1
<1> QED BY <1>3, <1>4 DEF Max

-----------------------------------------------------------------------------
(* Division.                                                               *)

\* Division with remainder.
LEMMA Division ==
  ASSUME NEW a \in Nat, NEW d \in Nat \ {0}
  PROVE  a \div d \in Nat /\ a % d \in 0..(d - 1) /\ a = (d * (a \div d)) + (a % d)
OBVIOUS

\* A multiple has no remainder, and its quotient is the other factor.
LEMMA Multiple ==
  ASSUME NEW d \in Nat \ {0}, NEW q \in Nat
  PROVE  (d * q) % d = 0 /\ (d * q) \div d = q
<1> DEFINE a == d * q
           p == a \div d
           r == a % d
<1>1. a \in Nat
  OBVIOUS
<1>2. p \in Nat /\ r \in 0..(d - 1) /\ d * q = d * p + r
  BY <1>1, Division
<1> HIDE DEF p, r
<1>3. q = p
  <2>1. CASE q > p
    <3>1. PICK k \in Nat : q = p + 1 + k
      <4>1. q - p - 1 \in Nat /\ q = p + 1 + (q - p - 1)
        BY <1>2, <2>1
      <4> QED BY <4>1
    <3>2. d * q = d * p + d + d * k
      BY <1>2, <3>1
    <3>3. d * k \in Nat
      BY <3>1
    <3> QED BY <1>2, <3>2, <3>3
  <2>2. CASE p > q
    <3>1. PICK k \in Nat : p = q + 1 + k
      <4>1. p - q - 1 \in Nat /\ p = q + 1 + (p - q - 1)
        BY <1>2, <2>2
      <4> QED BY <4>1
    <3>2. d * p = d * q + d + d * k
      BY <1>2, <3>1
    <3>3. d * k \in Nat
      BY <3>1
    <3> QED BY <1>2, <3>2, <3>3
  <2> QED BY <1>2, <2>1, <2>2
<1>4. r = 0
  BY <1>2, <1>3
<1> QED BY <1>3, <1>4 DEF p, r

\* Divisibility as a product.
LEMMA Divisor ==
  ASSUME NEW a \in Nat, NEW d \in Nat \ {0}
  PROVE  a % d = 0 <=> \E q \in Nat : a = d * q
<1>1. ASSUME a % d = 0 PROVE \E q \in Nat : a = d * q
  <2>1. a \div d \in Nat /\ a = (d * (a \div d)) + (a % d)
    BY Division
  <2>2. PICK q \in Nat : a = (d * q) + 0
    BY <1>1, <2>1
  <2>3. d * q \in Nat
    OBVIOUS
  <2> QED BY <2>2, <2>3
<1>2. ASSUME NEW q \in Nat, a = d * q PROVE a % d = 0
  BY <1>2, Multiple
<1> QED BY <1>1, <1>2

\* Who divides two numbers divides their difference.
LEMMA DividesDifference ==
  ASSUME NEW d \in Nat \ {0}, NEW a \in Nat, NEW b \in Nat, a % d = 0, (a + b) % d = 0
  PROVE  b % d = 0
<1>1. PICK p \in Nat : a = d * p
  BY Divisor
<1>2. PICK q \in Nat : a + b = d * q
  BY Divisor
<1>3. q >= p
  <2> SUFFICES ASSUME p > q PROVE FALSE
    BY <1>1, <1>2
  <2>1. PICK k \in Nat : p = q + 1 + k
    <3>1. p - q - 1 \in Nat /\ p = q + 1 + (p - q - 1)
      OBVIOUS
    <3> QED BY <3>1
  <2>2. d * p = (d * q) + d + (d * k) /\ d * k \in Nat /\ d * q \in Nat
    BY <2>1
  <2> QED BY <1>1, <1>2, <2>2
<1>4. q - p \in Nat /\ d * (q - p) = (d * q) - (d * p)
  BY <1>3
<1>5. d * q \in Nat /\ d * p \in Nat
  OBVIOUS
<1>6. b = d * (q - p)
  BY <1>1, <1>2, <1>4, <1>5
<1> QED BY <1>4, <1>6, Divisor

\* Who divides a number divides its multiples.
LEMMA DividesMultiple ==
  ASSUME NEW d \in Nat \ {0}, NEW a \in Nat, NEW k \in Nat, a % d = 0
  PROVE  (a * k) % d = 0
<1>1. PICK p \in Nat : a = d * p
  BY Divisor
<1>2. p * k \in Nat /\ a * k = d * (p * k) /\ a * k \in Nat
  BY <1>1
<1> QED BY <1>2, Divisor

-----------------------------------------------------------------------------
(* Primes.                                                                 *)

\* The integer root.
LEMMA Root ==
  ASSUME NEW n \in Nat \ {0}
  PROVE  /\ ISqrt(n) \in 1..n /\ ISqrt(n) * ISqrt(n) <= n
         /\ \A r \in Nat \ {0} : r * r <= n => r <= ISqrt(n)
<1> DEFINE S == {r \in 1..n : r * r <= n}
<1>1. 1 \in S
  OBVIOUS
<1>2. S \in SUBSET (0..n)
  OBVIOUS
<1>3. Max(S) \in S /\ \A y \in S : y <= Max(S)
  BY <1>1, <1>2, GreatestOf
<1>4. ASSUME NEW r \in Nat \ {0}, r * r <= n PROVE r \in S
  <2>1. r <= r * r
    OBVIOUS
  <2>2. r * r \in Nat
    OBVIOUS
  <2> QED BY <1>4, <2>1, <2>2
<1> QED BY <1>3, <1>4 DEF ISqrt

\* Of two factors the smaller one is not above the root of their product.
LEMMA SmallFactor ==
  ASSUME NEW d \in Nat \ {0}, NEW q \in Nat \ {0}
  PROVE  d <= ISqrt(d * q) \/ q <= ISqrt(d * q)
<1>1. d * q \in Nat \ {0}
  OBVIOUS
<1>2. CASE d <= q
  <2>1. d * d <= d * q
    BY <1>2
  <2> QED BY <1>1, <2>1, Root
<1>3. CASE q <= d
  <2>1. q * q <= d * q
    BY <1>3
  <2> QED BY <1>1, <2>1, Root
<1> QED BY <1>2, <1>3

\* A number that no number up to its root divides is a prime.
LEMMA TrialDivision ==
  ASSUME NEW n \in Nat, n > 1, \A d \in 2..ISqrt(n) : n % d # 0
  PROVE  IsPrime(n)
<1> SUFFICES ASSUME NEW d \in 2..(n - 1), n % d = 0 PROVE FALSE
  BY DEF IsPrime
<1>1. PICK q \in Nat : n = d * q
  BY Divisor
<1>2. q # 0 /\ q # 1
  BY <1>1
<1>3. q > 1 /\ d > 1
  BY <1>2
<1>4. n % q = 0
  <2>1. n = q * d
    BY <1>1
  <2> QED BY <1>3, <2>1, Multiple
<1>5. ISqrt(n) \in Nat
  BY Root
<1>6. d <= ISqrt(n) \/ q <= ISqrt(n)
  BY <1>1, <1>3, SmallFactor
<1> QED BY <1>3, <1>4, <1>5, <1>6

\* A prime has no divisors but 1 and itself.
LEMMA PrimeDivisor ==
  ASSUME NEW p \in Nat, IsPrime(p), NEW d \in Nat \ {0}, p % d = 0
  PROVE  d = 1 \/ d = p
<1>1. PICK q \in Nat : p = d * q
  BY Divisor
<1>2. q # 0
  BY <1>1 DEF IsPrime
<1>3. d <= d * q
  BY <1>2
<1>4. d <= p
  BY <1>1, <1>3
<1> SUFFICES ASSUME d # 1, d # p PROVE FALSE
  OBVIOUS
<1>5. d \in 2..(p - 1)
  BY <1>4
<1> QED BY <1>5 DEF IsPrime

\* Euclid's lemma: a prime that divides a product divides a factor.  The least
\* number whose product with a it divides, divides them all, p among them.
LEMMA Euclid ==
  ASSUME NEW p \in Nat, IsPrime(p), NEW a \in Nat \ {0}, NEW b \in Nat \ {0}, (a * b) % p = 0
  PROVE  a % p = 0 \/ b % p = 0
<1>0. p > 1
  BY DEF IsPrime
<1> DEFINE S == {x \in Nat \ {0} : (a * x) % p = 0}
<1>1. p \in S
  <2>1. a * p = p * a
    OBVIOUS
  <2> QED BY <1>0, <2>1, Multiple
<1>2. b \in S
  OBVIOUS
<1>3. PICK m \in S : \A x \in S : m <= x
  <2>1. S \in SUBSET Nat /\ S # {}
    BY <1>2
  <2> QED BY <2>1, LeastOf
<1>4. ASSUME NEW x \in S PROVE x % m = 0
  <2> DEFINE k == x \div m
             r == x % m
  <2>1. k \in Nat /\ r \in 0..(m - 1) /\ x = (m * k) + r
    BY Division
  <2> HIDE DEF k, r
  <2>2. (a * m) * k \in Nat /\ a * r \in Nat /\ a * x = ((a * m) * k) + (a * r)
    BY <2>1
  <2>3. ((a * m) * k) % p = 0
    <3>1. a * m \in Nat /\ (a * m) % p = 0
      OBVIOUS
    <3> QED BY <1>0, <2>1, <3>1, DividesMultiple
  <2>4. (a * r) % p = 0
    BY <1>0, <2>2, <2>3, DividesDifference
  <2>5. r = 0
    <3> SUFFICES ASSUME r # 0 PROVE FALSE
      OBVIOUS
    <3>1. r \in S
      BY <2>1, <2>4
    <3>2. m <= r
      BY <1>3, <3>1
    <3>3. m \in Nat
      OBVIOUS
    <3> QED BY <2>1, <3>2, <3>3
  <2> QED BY <2>5 DEF r
<1>5. m = 1 \/ m = p
  BY <1>1, <1>3, <1>4, PrimeDivisor
<1>6. CASE m = 1
  BY <1>6
<1>7. CASE m = p
  BY <1>2, <1>4, <1>7
<1> QED BY <1>5, <1>6, <1>7

\* The trial with a budget calls nothing a prime that is none, and no prime
\* composite.
LEMMA PrimeVerdictIsTrue ==
  ASSUME NEW n \in Nat, n > 1
  PROVE  /\ PrimeVerdict(n) = "prime" => IsPrime(n)
         /\ IsPrime(n) => PrimeVerdict(n) \in {"prime", "unknown"}
<1>1. ISqrt(n) \in Nat /\ ISqrt(n) * ISqrt(n) <= n
  BY Root
<1>2. ISqrt(n) < n
  <2> SUFFICES ASSUME ISqrt(n) >= n PROVE FALSE
    BY <1>1
  <2>1. ISqrt(n) = n
    BY Root
  <2>2. n * n > n
    OBVIOUS
  <2> QED BY <1>1, <2>1, <2>2
<1>3. n % 2 \in {0, 1} /\ 2 % 2 = 0
  OBVIOUS
<1> DEFINE odd == {d \in 3..ISqrt(n) : d % 2 = 1}
           Tried(d) == (d - 1) \div 2 < Budget
<1>4. ASSUME n # 2, n % 2 = 1, \A d \in odd : n % d # 0 PROVE IsPrime(n)
  <2> SUFFICES ASSUME NEW d \in 2..ISqrt(n), n % d = 0 PROVE FALSE
    BY TrialDivision
  <2>1. d \notin odd
    BY <1>4
  <2>2. d % 2 = 0
    <3>1. d % 2 \in {0, 1}
      BY <1>1
    <3>2. d = 2 \/ d \in 3..ISqrt(n)
      BY <1>1
    <3> QED BY <1>3, <2>1, <3>1, <3>2
  <2>3. PICK q \in Nat : n = d * q
    <3>1. d \in Nat \ {0} /\ n % d = 0
      BY <1>1
    <3> QED BY <3>1, Divisor
  <2>4. n % 2 = 0
    <3>1. d \in Nat
      BY <1>1
    <3>2. (d * q) % 2 = 0
      <4> DEFINE two == 2
      <4>1. two \in Nat \ {0} /\ d \in Nat /\ q \in Nat /\ d % two = 0
        BY <2>2, <2>3, <3>1
      <4> HIDE DEF two
      <4>2. (d * q) % two = 0
        BY <4>1, DividesMultiple
      <4> QED BY <4>2 DEF two
    <3> QED BY <2>3, <3>2
  <2> QED BY <1>4, <2>4
<1>5. n = 2 => IsPrime(n)
  BY DEF IsPrime
<1>6. PrimeVerdict(n) =
        CASE n = 2 -> "prime"
          [] n > 2 /\ n % 2 = 0 -> "composite"
          [] n % 2 = 1 /\ (\E d \in odd : Tried(d) /\ n % d = 0) -> "composite"
          [] n % 2 = 1 /\ (\A d \in odd : Tried(d) /\ n % d # 0) -> "prime"
          [] OTHER -> "unknown"
  BY DEF PrimeVerdict
<1>7. PrimeVerdict(n) = "prime" => n = 2 \/ (n % 2 = 1 /\ \A d \in odd : n % d # 0)
  <2> HIDE DEF odd, Tried
  <2> QED BY <1>6
<1>8. PrimeVerdict(n) = "composite" =>
        n # 2 /\ (n % 2 = 0 \/ \E d \in odd : n % d = 0)
  <2> HIDE DEF odd, Tried
  <2> QED BY <1>3, <1>6
<1>9. PrimeVerdict(n) \in {"prime", "composite", "unknown"}
  <2> HIDE DEF odd, Tried
  <2> QED BY <1>6
<1>10. PrimeVerdict(n) = "prime" => IsPrime(n)
  BY <1>3, <1>4, <1>5, <1>7
<1>11. ASSUME IsPrime(n) PROVE PrimeVerdict(n) # "composite"
  <2> SUFFICES ASSUME n # 2, n % 2 = 0 \/ \E d \in odd : n % d = 0 PROVE FALSE
    BY <1>8
  <2>1. PICK d \in 2..(n - 1) : n % d = 0
    <3>1. 2 \in 2..(n - 1)
      OBVIOUS
    <3>2. odd \subseteq 2..(n - 1)
      BY <1>1, <1>2
    <3> QED BY <3>1, <3>2
  <2> QED BY <1>11, <2>1 DEF IsPrime
<1> QED BY <1>9, <1>10, <1>11

-----------------------------------------------------------------------------
(* The candidate ranges.                                                   *)

\* The smaller of two.
LEMMA MinOfTwo ==
  ASSUME NEW a \in Nat, NEW b \in Nat
  PROVE  Min({a, b}) = IF a <= b THEN a ELSE b
<1>1. Min({a, b}) \in {a, b} /\ \A y \in {a, b} : Min({a, b}) <= y
  <2>1. {a, b} \in SUBSET Nat /\ {a, b} # {}
    OBVIOUS
  <2> QED BY <2>1, LeastOf
<1> QED BY <1>1

\* R cuts first..last into count ranges that start in it, each number of it in
\* exactly one.
Partition(R, first, last, count) ==
  /\ DOMAIN R = 1..count
  /\ \A i \in 1..count : R[i][1] \in first..last /\ R[i][2] \in Nat
  /\ \A d \in first..last : \E i \in 1..count : d \in R[i][1]..R[i][2]
  /\ \A i, j \in 1..count : \A d \in (R[i][1]..R[i][2]) \cap (R[j][1]..R[j][2]) : i = j

\* The ranges are a partition of first..last, for any number of them that
\* leaves no range empty.
LEMMA RangesPartition ==
  ASSUME NEW first \in Nat, NEW last \in Nat, first <= last,
         NEW count \in Nat \ {0}, count <= (last - first) + 1,
         NEW R, R = ContiguousRanges(first, last, count)
  PROVE  Partition(R, first, last, count)
<1> DEFINE size  == (last - first) + 1
           base  == size \div count
           extra == size % count
           Start(i) == (first + ((i - 1) * base)) + Min({i - 1, extra})
<1>1. size \in Nat /\ count <= size
  OBVIOUS
<1>2. base \in Nat /\ extra \in 0..(count - 1) /\ size = (count * base) + extra
  <2> HIDE DEF size
  <2> QED BY <1>1, Division
<1>3. base > 0
  <2> SUFFICES ASSUME base = 0 PROVE FALSE
    BY <1>2
  <2>1. count * base = 0
    OBVIOUS
  <2> QED BY <1>1, <1>2, <2>1
<1>4. R = [i \in 1..count |-> <<Start(i), Start(i + 1) - 1>>]
  BY DEF ContiguousRanges
<1> HIDE DEF base, extra
<1>5. ASSUME NEW i \in 1..(count + 1)
      PROVE  /\ (i - 1) * base \in Nat /\ Min({i - 1, extra}) \in Nat
             /\ Start(i) \in Nat /\ first <= Start(i)
  <2>1. i - 1 \in Nat /\ extra \in Nat
    BY <1>2
  <2>2. Min({i - 1, extra}) \in Nat
    BY <2>1, MinOfTwo
  <2>3. (i - 1) * base \in Nat
    BY <1>2, <2>1
  <2> QED BY <2>2, <2>3
<1>6. ASSUME NEW i \in 1..(count + 1), NEW j \in 1..(count + 1), i < j
      PROVE  Start(i) < Start(j)
  <2>1. i - 1 \in Nat /\ j - 1 \in Nat /\ extra \in Nat
    BY <1>2
  <2>2. Min({i - 1, extra}) <= Min({j - 1, extra})
    BY <1>6, <2>1, MinOfTwo
  <2>3. (i - 1) * base < (j - 1) * base
    <3>1. PICK k \in Nat : j - 1 = ((i - 1) + 1) + k
      <4>1. (j - i) - 1 \in Nat /\ j - 1 = ((i - 1) + 1) + ((j - i) - 1)
        BY <1>6
      <4> QED BY <4>1
    <3>2. (j - 1) * base = (((i - 1) * base) + base) + (k * base) /\ k * base \in Nat
      BY <1>2, <2>1, <3>1
    <3> QED BY <1>2, <1>3, <1>5, <3>2
  <2> QED BY <1>5, <2>2, <2>3
<1>7. Start(1) = first
  <2>1. Min({1 - 1, extra}) = 0
    BY <1>2, MinOfTwo
  <2> QED BY <1>2, <2>1
<1>8. Start(count + 1) = last + 1
  <2>1. Min({count, extra}) = extra
    BY <1>2, MinOfTwo
  <2>2. (count + 1) - 1 = count
    OBVIOUS
  <2>3. Start(count + 1) = (first + (count * base)) + extra
    BY <2>1, <2>2
  <2>4. count * base \in Nat
    BY <1>2
  <2> QED BY <1>2, <2>3, <2>4
<1> HIDE DEF Start
<1>9. DOMAIN R = 1..count /\ \A i \in 1..count : R[i][1] = Start(i) /\ R[i][2] = Start(i + 1) - 1
  BY <1>4
<1>10. \A i \in 1..count : i \in 1..(count + 1) /\ i + 1 \in 1..(count + 1) /\ i < i + 1
  OBVIOUS
<1>11. count + 1 \in 1..(count + 1)
  OBVIOUS
<1>12. ASSUME NEW i \in 1..count PROVE R[i][1] \in first..last /\ R[i][2] \in Nat
  <2>1. Start(i) \in Nat /\ first <= Start(i) /\ Start(i + 1) \in Nat
    BY <1>5, <1>10
  <2>2. Start(i) < Start(i + 1) /\ Start(i) < last + 1
    BY <1>6, <1>8, <1>10, <1>11
  <2> QED BY <1>9, <2>1, <2>2
<1>13. ASSUME NEW d \in first..last PROVE \E i \in 1..count : d \in R[i][1]..R[i][2]
  <2> DEFINE S == {i \in 1..count : Start(i) <= d}
  <2>1. 1 \in S /\ S \in SUBSET (0..count)
    BY <1>7
  <2>2. PICK i \in S : \A j \in S : j <= i
    BY <2>1, GreatestOf
  <2>3. Start(i) \in Nat /\ Start(i + 1) \in Nat
    BY <1>5, <1>10
  <2>4. d < Start(i + 1)
    <3>1. CASE i = count
      BY <1>8, <3>1
    <3>2. CASE i # count
      <4>1. i + 1 \in 1..count
        BY <3>2
      <4>2. i + 1 \notin S
        BY <2>2
      <4> QED BY <2>3, <4>1, <4>2
    <3> QED BY <3>1, <3>2
  <2> QED BY <1>9, <2>3, <2>4
<1>14. ASSUME NEW i \in 1..count, NEW j \in 1..count, i < j,
              NEW d \in R[i][1]..R[i][2], d \in R[j][1]..R[j][2]
       PROVE  FALSE
  <2>1. Start(i + 1) \in Nat /\ Start(j) \in Nat
    BY <1>5, <1>10
  <2>2. Start(i + 1) <= Start(j)
    <3>1. i + 1 = j \/ i + 1 < j
      BY <1>14
    <3> QED BY <1>6, <1>10, <2>1, <3>1
  <2>3. d <= Start(i + 1) - 1 /\ Start(j) <= d
    <3>1. R[i][1] \in Nat /\ R[i][2] \in Nat /\ R[j][1] \in Nat /\ R[j][2] \in Nat
      BY <1>12
    <3> QED BY <1>9, <1>14, <3>1
  <2> QED BY <2>1, <2>2, <2>3
<1>15. \A i, j \in 1..count : \A d \in (R[i][1]..R[i][2]) \cap (R[j][1]..R[j][2]) : i = j
  <2> SUFFICES ASSUME NEW i \in 1..count, NEW j \in 1..count,
                      NEW d \in (R[i][1]..R[i][2]) \cap (R[j][1]..R[j][2]), i # j
               PROVE  FALSE
    OBVIOUS
  <2>1. i < j \/ j < i
    OBVIOUS
  <2> QED BY <1>14, <2>1
<1> QED BY <1>9, <1>12, <1>13, <1>15 DEF Partition

-----------------------------------------------------------------------------
(* The invariant: a plan is the plan of its target, and what is bound has  *)
(* passed.                                                                 *)

Kept(i) == bound[i] # NoResult => bound[i] \in Answers /\ Passes(i, bound[i])

FactorizationInv ==
  /\ target \in Nat /\ target > 1 /\ requested \in Nat \ {0} /\ policy \in Policies
  /\ ranges # <<>> => ~Direct /\ ranges = CandidateRanges
  /\ DOMAIN bound = Slots
  /\ \A i \in Slots : Kept(i)

\* The plan of a target that is not 2 or 3: ranges from 2 to the root, each
\* candidate in exactly one.
LEMMA PlanFacts ==
  ASSUME target \in Nat, target > 1, requested \in Nat \ {0}, ~Direct
  PROVE  /\ ISqrt(target) \in Nat /\ ISqrt(target) >= 2
         /\ ISqrt(target) * ISqrt(target) <= target
         /\ CandidateRanges # <<>>
         /\ \A i \in DOMAIN CandidateRanges :
              CandidateRanges[i][1] \in 2..ISqrt(target) /\ CandidateRanges[i][2] \in Nat
         /\ \A d \in 2..ISqrt(target) : \E i \in DOMAIN CandidateRanges :
              d \in CandidateRanges[i][1]..CandidateRanges[i][2]
         /\ \A i, j \in DOMAIN CandidateRanges :
              \A d \in (CandidateRanges[i][1]..CandidateRanges[i][2])
                         \cap (CandidateRanges[j][1]..CandidateRanges[j][2]) : i = j
<1> DEFINE last  == ISqrt(target)
           count == Min({last - 1, requested, MaxChildren})
<1>1. last \in Nat /\ last >= 2 /\ last * last <= target
  <2>1. target >= 4
    BY DEF Direct
  <2> QED BY <2>1, Root
<1> HIDE DEF last
<1>2. count \in Nat \ {0} /\ count <= (last - 2) + 1
  <2>1. /\ {last - 1, requested, MaxChildren} \in SUBSET Nat
        /\ \A k \in {last - 1, requested, MaxChildren} : k # 0
    BY <1>1, FactorizationAssumption
  <2>2. /\ count \in {last - 1, requested, MaxChildren}
        /\ \A k \in {last - 1, requested, MaxChildren} : count <= k
    BY <2>1, LeastOf
  <2>3. count \in Nat \ {0} /\ count <= last - 1
    BY <2>1, <2>2
  <2> QED BY <1>1, <2>3
<1>3. CandidateRanges = ContiguousRanges(2, last, count)
  BY DEF CandidateRanges, last
<1> HIDE DEF count
<1>4. /\ DOMAIN CandidateRanges = 1..count
      /\ \A i \in 1..count : CandidateRanges[i][1] \in 2..last /\ CandidateRanges[i][2] \in Nat
      /\ \A d \in 2..last : \E i \in 1..count : d \in CandidateRanges[i][1]..CandidateRanges[i][2]
      /\ \A i, j \in 1..count :
           \A d \in (CandidateRanges[i][1]..CandidateRanges[i][2])
                      \cap (CandidateRanges[j][1]..CandidateRanges[j][2]) : i = j
  <2> DEFINE two == 2
             R   == CandidateRanges
  <2>1. two \in Nat /\ last \in Nat /\ two <= last /\ count \in Nat \ {0} /\ count <= (last - two) + 1
        /\ R = ContiguousRanges(two, last, count)
    BY <1>1, <1>2, <1>3
  <2> HIDE DEF two, R
  <2>2. Partition(R, two, last, count)
    BY <2>1, RangesPartition
  <2> QED BY <2>2 DEF Partition, two, R
<1>5. CandidateRanges # <<>>
  <2>1. 1 \in DOMAIN CandidateRanges
    BY <1>2, <1>4
  <2>2. DOMAIN <<>> = {}
    OBVIOUS
  <2> QED BY <2>1, <2>2
<1> QED BY <1>1, <1>4, <1>5 DEF last

\* The same of the ranges of the root.
LEMMA RangeFacts ==
  ASSUME FactorizationInv, ranges # <<>>
  PROVE  /\ ISqrt(target) \in Nat /\ ISqrt(target) >= 2
         /\ ISqrt(target) * ISqrt(target) <= target
         /\ \A i \in Slots : ranges[i][1] \in Nat /\ ranges[i][1] >= 2 /\ ranges[i][2] \in Nat
         /\ \A d \in 2..ISqrt(target) : \E i \in Slots : d \in Within(i)
         /\ \A i, j \in Slots : \A d \in Within(i) \cap Within(j) : i = j
<1>1. /\ target \in Nat /\ target > 1 /\ requested \in Nat \ {0} /\ ~Direct
      /\ ranges = CandidateRanges
  BY DEF FactorizationInv
<1> QED BY <1>1, PlanFacts DEF Slots, Within

\* Nothing is planned.
LEMMA FactorizationInvInit == Init => FactorizationInv
BY FactorizationAssumption DEF Init, FactorizationInv, Slots

\* Every step keeps the invariant.
LEMMA FactorizationInvStep == FactorizationInv /\ [Next]_vars => FactorizationInv'
<1> SUFFICES ASSUME FactorizationInv, [Next]_vars PROVE FactorizationInv'
  OBVIOUS
<1> USE DEF FactorizationInv
<1>1. CASE Split
  <2>1. ranges' = CandidateRanges /\ UNCHANGED <<target, requested, policy>> /\ ~Direct
    BY <1>1 DEF Split
  <2>2. CandidateRanges' = CandidateRanges /\ Direct' = Direct
    BY <2>1 DEF CandidateRanges, Direct
  <2>3. DOMAIN bound' = DOMAIN ranges' /\ \A i \in DOMAIN ranges' : bound'[i] = NoResult
    BY <1>1 DEF Split
  <2> QED BY <2>1, <2>2, <2>3 DEF Slots, Kept, NoResult
<1>2. ASSUME NEW i \in Slots, CompleteChild(i) PROVE FactorizationInv'
  <2>1. UNCHANGED <<target, requested, policy, ranges>>
    BY <1>2 DEF CompleteChild
  <2>2. PICK a \in Answers : Passes(i, a) /\ bound' = [bound EXCEPT ![i] = a]
    BY <1>2 DEF CompleteChild
  <2>3. Answers' = Answers /\ \A j, b : Passes(j, b)' <=> Passes(j, b)
    BY <2>1 DEF Answers, Slots, Parses, Within, Divides, Passes, Accepts, Aligned,
       FactorHolds, NoFactorHolds
  <2>4. \A j \in Slots : Kept(j)'
    BY <2>1, <2>2, <2>3 DEF Kept, NoResult
  <2> QED BY <2>1, <2>2, <2>4 DEF Slots, CandidateRanges, Direct
<1>3. CASE UNCHANGED <<target, requested, policy, ranges, bound>>
  BY <1>3 DEF Slots, Kept, NoResult, Answers, Parses, Within, Divides, Passes, Accepts, Aligned,
     FactorHolds, NoFactorHolds, CandidateRanges, Direct
<1>4. Split \/ (\E i \in Slots : CompleteChild(i)) \/ UNCHANGED <<target, requested, policy, ranges, bound>>
  BY DEF Next, vars, CompleteDirectly, FailChild, Merge, PrematureMerge, FailRoot
<1> QED BY <1>1, <1>2, <1>3, <1>4

\* The invariant of a root, for every target.
THEOREM FactorizationInvariance == Spec => []FactorizationInv
BY FactorizationInvInit, FactorizationInvStep, PTL DEF Spec

-----------------------------------------------------------------------------
(* What a factor found says of the target.                                 *)

\* Multiplication cancels.
LEMMA Cancel ==
  ASSUME NEW d \in Nat \ {0}, NEW a \in Nat, NEW b \in Nat, d * a = d * b
  PROVE  a = b
<1>1. (d * a) \div d = a /\ (d * b) \div d = b
  BY Multiple
<1> QED BY <1>1

\* A product of two primes is a product of two numbers above 1 in one way.
LEMMA TwoPrimes ==
  ASSUME NEW p \in Nat, NEW q \in Nat, IsPrime(p), IsPrime(q),
         NEW f \in Nat, NEW c \in Nat, f > 1, c > 1, p * q = f * c
  PROVE  (f = p /\ c = q) \/ (f = q /\ c = p)
<1>1. p \in Nat \ {0} /\ q \in Nat \ {0} /\ p > 1 /\ q > 1 /\ f \in Nat \ {0} /\ c \in Nat \ {0}
  BY DEF IsPrime
<1>2. f % p = 0 \/ c % p = 0
  <2>1. (p * q) % p = 0
    BY <1>1, Multiple
  <2>2. (f * c) % p = 0
    BY <2>1
  <2> QED BY <1>1, <2>2, Euclid
<1>3. ASSUME NEW x \in Nat \ {0}, NEW y \in Nat \ {0}, x > 1, y > 1, p * q = x * y, x % p = 0
      PROVE  x = p /\ y = q
  <2>1. PICK k \in Nat : x = p * k
    BY <1>1, <1>3, Divisor
  <2>2. k # 0
    BY <1>3, <2>1
  <2>3. q = k * y
    <3>1. k * y \in Nat /\ p * q = p * (k * y)
      BY <1>3, <2>1
    <3> QED BY <1>1, <3>1, Cancel
  <2>4. k = 1 \/ k = q
    <3>1. k \in Nat \ {0} /\ q % k = 0
      BY <2>2, <2>3, Multiple
    <3> QED BY <3>1, PrimeDivisor
  <2>5. k # q
    <3>1. SUFFICES ASSUME k = q PROVE FALSE
      OBVIOUS
    <3>2. q * 1 = q * y
      BY <2>3, <3>1
    <3>3. 1 = y
      BY <1>1, <1>3, <3>2, Cancel
    <3> QED BY <1>3, <3>3
  <2>6. k = 1
    BY <2>4, <2>5
  <2> QED BY <1>3, <2>1, <2>3, <2>6
<1>4. p * q = c * f
  OBVIOUS
<1> QED BY <1>1, <1>2, <1>3, <1>4

\* A divisor up to the root and its cofactor multiply to the target, and are
\* both above 1.
LEMMA Cofactor ==
  ASSUME target \in Nat, target > 1, NEW f \in 2..ISqrt(target), target % f = 0
  PROVE  /\ f \in Nat /\ f > 1
         /\ target \div f \in Nat /\ target \div f > 1
         /\ target = f * (target \div f)
<1>1. ISqrt(target) \in Nat /\ ISqrt(target) * ISqrt(target) <= target
  BY Root
<1>2. f \in Nat /\ f > 1 /\ f <= ISqrt(target)
  BY <1>1
<1>3. PICK c \in Nat : target = f * c
  BY <1>2, Divisor
<1>4. target \div f = c
  BY <1>2, <1>3, Multiple
<1>5. c # 0
  BY <1>2, <1>3
<1>6. c # 1
  <2>1. SUFFICES ASSUME c = 1 PROVE FALSE
    OBVIOUS
  <2>2. target = f
    BY <1>2, <1>3, <2>1
  <2> DEFINE r == ISqrt(target)
  <2>3. r \in Nat /\ r * r <= r /\ r > 1
    BY <1>1, <1>2, <2>2
  <2> HIDE DEF r
  <2> QED BY <2>3
<1> QED BY <1>2, <1>3, <1>4, <1>5, <1>6

-----------------------------------------------------------------------------
(* What a bound answer says.                                               *)

\* A factor named is one of the target, from 2 to its root, and with
\* verification the answer is about the child's own range and true of it.
LEMMA BoundFacts ==
  ASSUME FactorizationInv, ranges # <<>>, NEW i \in Slots, bound[i] # NoResult
  PROVE  /\ bound[i].slot \in Slots /\ bound[i].factor \in 0..ISqrt(target)
         /\ bound[i].own /\ bound[i].factor # 0 =>
              bound[i].factor \in 2..ISqrt(target) /\ target % bound[i].factor = 0
         /\ policy.verification => Accepts(i, bound[i])
<1>1. bound[i] \in Answers /\ Passes(i, bound[i])
  BY DEF FactorizationInv, Kept
<1> DEFINE a == bound[i]
<1>2. a \in [own : BOOLEAN, index : Slots, slot : Slots, factor : 0..ISqrt(target)] /\ Parses(a)
  BY <1>1 DEF Answers
<1>3. a.slot \in Slots /\ a.factor \in 0..ISqrt(target)
  BY <1>2
<1>4. a.own /\ a.factor # 0 => a.factor \in 2..ISqrt(target) /\ target % a.factor = 0
  <2>1. SUFFICES ASSUME a.own, a.factor # 0
                 PROVE  a.factor \in 2..ISqrt(target) /\ target % a.factor = 0
    OBVIOUS
  <2>2. a.factor \in Within(a.slot) /\ target % a.factor = 0
    BY <1>2, <2>1 DEF Parses, Divides
  <2>3. ranges[a.slot][1] \in Nat /\ ranges[a.slot][1] >= 2 /\ ranges[a.slot][2] \in Nat
        /\ ISqrt(target) \in Nat
    BY <1>3, RangeFacts
  <2>4. a.factor >= 2
    BY <2>2, <2>3 DEF Within
  <2> QED BY <1>3, <2>2, <2>3, <2>4
<1> QED BY <1>1, <1>3, <1>4 DEF Passes

\* The smallest factor among children that have one is one of them.
LEMMA SmallestFactor ==
  ASSUME FactorizationInv, ranges # <<>>, NEW children \in SUBSET Slots,
         \A i \in children : bound[i] # NoResult, Witnesses(children) # {}
  PROVE  \E i \in Witnesses(children) :
           /\ Min({bound[j].factor : j \in Witnesses(children)}) = bound[i].factor
           /\ \A j \in Witnesses(children) : bound[i].factor <= bound[j].factor
<1> DEFINE S == {bound[j].factor : j \in Witnesses(children)}
<1>1. S \in SUBSET Nat /\ S # {}
  <2>1. \A j \in Witnesses(children) : bound[j].factor \in 0..ISqrt(target)
    BY BoundFacts DEF Witnesses
  <2>2. ISqrt(target) \in Nat
    BY RangeFacts
  <2> QED BY <2>1, <2>2
<1>2. Min(S) \in S /\ \A y \in S : Min(S) <= y
  BY <1>1, LeastOf
<1> QED BY <1>2

\* Answers about the whole partition of which none has a factor: the target is
\* a prime, or a verification that is off has let a false claim pass.
LEMMA CertificateIsRight ==
  ASSUME FactorizationInv, ranges # <<>>, \A i \in Slots : bound[i] # NoResult,
         Coverage(Slots), Witnesses(Slots) = {}
  PROVE  \/ IsPrime(target)
         \/ /\ ~policy.verification
            /\ \E i \in Slots : bound[i].factor = 0 /\ \E d \in Within(bound[i].slot) : Divides(d)
<1>1. SUFFICES ASSUME ~IsPrime(target)
               PROVE  /\ ~policy.verification
                      /\ \E i \in Slots : bound[i].factor = 0 /\ \E d \in Within(bound[i].slot) : Divides(d)
  OBVIOUS
<1>2. PICK d \in 2..ISqrt(target) : target % d = 0
  BY <1>1, TrialDivision DEF FactorizationInv
<1>3. PICK i \in Slots : d \in Within(bound[i].slot)
  <2> DEFINE S == {i \in Slots : d \in Within(bound[i].slot)}
  <2>1. Cardinality(S) = 1
    BY DEF Coverage
  <2>2. S # {}
    BY <2>1, FS_EmptySet
  <2> QED BY <2>2
<1>4. bound[i].factor = 0 /\ Divides(d)
  BY <1>2 DEF Witnesses, Divides
<1>5. ~policy.verification
  <2>1. SUFFICES ASSUME Accepts(i, bound[i]) PROVE FALSE
    BY BoundFacts
  <2>2. bound[i].slot = i /\ \A c \in Within(i) : ~Divides(c)
    BY <1>4, <2>1 DEF Accepts, Aligned, NoFactorHolds
  <2> QED BY <1>3, <1>4, <2>2
<1> QED BY <1>3, <1>4, <1>5

\* Two factors the verdict takes for primes are primes.
LEMMA FactorResultIsRight ==
  ASSUME target \in Nat, target > 1, NEW f \in 2..ISqrt(target), target % f = 0,
         NEW m, m = FactorResult(f), m.factors # <<>>
  PROVE  Right(m.factors)
<1> DEFINE c == target \div f
<1>1. /\ f \in Nat /\ f > 1 /\ c \in Nat /\ c > 1
      /\ target = f * c
  BY Cofactor
<1>2. m = IF PrimeVerdict(f) = "prime" /\ PrimeVerdict(c) = "prime"
            THEN Ended("semiprime", <<f, c>>) ELSE Ended("unresolved", <<>>)
  BY DEF FactorResult
<1> HIDE DEF c
<1>3. PrimeVerdict(f) = "prime" /\ PrimeVerdict(c) = "prime" /\ m.factors = <<f, c>>
  BY <1>2 DEF Ended
<1>4. IsPrime(f) /\ IsPrime(c)
  BY <1>1, <1>3, PrimeVerdictIsTrue
<1>5. Len(m.factors) = 2 /\ DOMAIN m.factors = 1..2 /\ m.factors[1] = f /\ m.factors[2] = c
  BY <1>1, <1>3
<1>6. \A k \in 1..2 : k = 1 \/ k = 2
  OBVIOUS
<1> QED BY <1>1, <1>4, <1>5, <1>6 DEF Right

\* What a merge of bound children resolves the root by is right, whatever the
\* merge checks.
LEMMA MergeIsRight ==
  ASSUME FactorizationInv, ranges # <<>>, NEW children \in SUBSET Slots,
         \A i \in children : bound[i] # NoResult, NEW integrity \in BOOLEAN,
         NEW m, m = BuildMerge(children, integrity), m.factors # <<>>
  PROVE  \/ Right(m.factors)
         \/ /\ ~policy.verification /\ m.kind = "certificate"
            /\ \E i \in Slots : bound[i].factor = 0 /\ \E d \in Within(bound[i].slot) : Divides(d)
<1>1. target \in Nat /\ target > 1
  BY DEF FactorizationInv
<1>2. m = MergeRangeResults(children, integrity) /\ (children = Slots \/ Witnesses(children) # {})
  BY DEF BuildMerge, Ended
<1>3. /\ CompleteSet(children) \/ WitnessSet(children)
      /\ m = IF Witnesses(children) = {} THEN Ended("certificate", <<target>>)
             ELSE FactorResult(Min({bound[i].factor : i \in Witnesses(children)}))
  BY <1>2 DEF MergeRangeResults, Ended
<1>4. CASE Witnesses(children) = {}
  <2>1. children = Slots /\ Coverage(Slots) /\ m.kind = "certificate" /\ m.factors = <<target>>
    BY <1>2, <1>3, <1>4 DEF CompleteSet, WitnessSet, Ended
  <2>2. CASE IsPrime(target)
    <3>1. DOMAIN m.factors = {1} /\ m.factors[1] = target
      BY <2>1
    <3> QED BY <2>1, <2>2, <3>1 DEF Right
  <2> QED BY <1>4, <2>1, <2>2, CertificateIsRight
<1>5. CASE Witnesses(children) # {}
  <2>1. PICK i \in Witnesses(children) :
          Min({bound[j].factor : j \in Witnesses(children)}) = bound[i].factor
    BY <1>5, SmallestFactor
  <2>2. i \in Slots /\ bound[i] # NoResult /\ bound[i].own /\ bound[i].factor # 0
    BY <1>3, <2>1 DEF Witnesses, CompleteSet, WitnessSet, OfOneRoot
  <2>3. bound[i].factor \in 2..ISqrt(target) /\ target % bound[i].factor = 0
    BY <2>2, BoundFacts
  <2>4. m = FactorResult(bound[i].factor)
    BY <1>3, <1>5, <2>1
  <2> QED BY <1>1, <2>3, <2>4, FactorResultIsRight
<1> QED BY <1>4, <1>5

-----------------------------------------------------------------------------
(* A root is resolved only by what is right.                               *)

\* What is ready to merge are bound children.
LEMMA ReadyIsBound ==
  ASSUME NEW children \in Ready
  PROVE  children \in SUBSET Slots /\ \A i \in children : bound[i] # NoResult /\ Passes(i, bound[i])
<1>1. children \in SmallestWitness \/ (children = Slots /\ Results = Slots)
  BY DEF Ready
<1>2. \A i \in Results : i \in Slots /\ bound[i] # NoResult /\ Passes(i, bound[i])
  BY DEF Results
<1>3. children \in SmallestWitness => \E i \in Results : children = {i}
  BY DEF SmallestWitness, Witnesses
<1> QED BY <1>1, <1>2, <1>3

\* A step ends the root, by one of the four ways, or leaves it running, or
\* changes nothing.
LEMMA Endings ==
  ASSUME [Next]_vars
  PROVE  \/ UNCHANGED vars
         \/ merged' = Running
         \/ /\ UNCHANGED <<target, requested, policy, ranges, bound, failed>>
            /\ \/ Direct /\ merged' = Ended("direct", <<target>>)
               \/ ranges # <<>> /\ \E children \in Ready : merged' = BuildMerge(children, policy.slotIntegrity)
               \/ /\ ranges # <<>> /\ Ready = {}
                  /\ merged' = [BuildMerge({i \in Slots : bound[i] # NoResult}, TRUE) EXCEPT !.early = TRUE]
               \/ merged' = Ended("failed", <<>>)
<1>1. CASE CompleteDirectly
  BY <1>1 DEF CompleteDirectly
<1>2. CASE Merge
  BY <1>2 DEF Merge
<1>3. CASE PrematureMerge
  BY <1>3 DEF PrematureMerge
<1>4. CASE FailRoot
  BY <1>4 DEF FailRoot
<1>5. CASE Split
  BY <1>5 DEF Split
<1>6. ASSUME NEW i \in Slots, CompleteChild(i) \/ FailChild(i) PROVE merged' = Running
  BY <1>6 DEF CompleteChild, FailChild
<1> QED BY <1>1, <1>2, <1>3, <1>4, <1>5, <1>6 DEF Next

\* 2 and 3 are primes.
LEMMA DirectIsRight == Direct => Right(<<target>>)
<1>1. IsPrime(2) /\ IsPrime(3)
  <2>1. \A d \in 2..(3 - 1) : d = 2
    OBVIOUS
  <2>2. 3 % 2 # 0 /\ \A d \in 2..(2 - 1) : FALSE
    OBVIOUS
  <2> QED BY <2>1, <2>2 DEF IsPrime
<1>2. \A k \in DOMAIN <<target>> : <<target>>[k] = target
  OBVIOUS
<1> QED BY <1>1, <1>2 DEF Direct, Right

\* Every merge keeps the property: with what is right, or with what verification
\* would have caught.
LEMMA ResolvedStep == FactorizationInv /\ ResolvedIsRight /\ [Next]_vars => ResolvedIsRight'
<1> SUFFICES ASSUME FactorizationInv, ResolvedIsRight, [Next]_vars PROVE ResolvedIsRight'
  OBVIOUS
<1> DEFINE FalseClaim == \E i \in Slots : bound[i].factor = 0 /\ \E d \in Within(bound[i].slot) : Divides(d)
           Fine(m) == m.factors # <<>> =>
                        Right(m.factors) \/ (~policy.verification /\ m.kind = "certificate" /\ FalseClaim)
<1>1. CASE UNCHANGED vars
  BY <1>1 DEF vars, ResolvedIsRight, Resolved, Right, Slots, Within, Divides
<1>2. CASE merged' = Running
  BY <1>2 DEF ResolvedIsRight, Resolved, Running, Ended
<1>3. ASSUME UNCHANGED <<target, requested, policy, ranges, bound, failed>>, Fine(merged')
      PROVE  ResolvedIsRight'
  BY <1>3 DEF ResolvedIsRight, Resolved, Right, Slots, Within, Divides
<1>4. Direct => Fine(Ended("direct", <<target>>))
  BY DirectIsRight DEF Ended
<1>5. Fine(Ended("failed", <<>>))
  BY DEF Ended
<1>6. ASSUME ranges # <<>>, NEW children \in Ready
      PROVE  Fine(BuildMerge(children, policy.slotIntegrity))
  <2>1. policy.slotIntegrity \in BOOLEAN
    BY DEF FactorizationInv, Policies
  <2>2. children \in SUBSET Slots /\ \A i \in children : bound[i] # NoResult
    BY ReadyIsBound
  <2> DEFINE m == BuildMerge(children, policy.slotIntegrity)
  <2>3. m = BuildMerge(children, policy.slotIntegrity)
    OBVIOUS
  <2> HIDE DEF m
  <2>4. Fine(m)
    BY <1>6, <2>1, <2>2, <2>3, MergeIsRight
  <2> QED BY <2>3, <2>4
<1>7. ASSUME ranges # <<>>, NEW verdict, verdict = [BuildMerge({i \in Slots : bound[i] # NoResult}, TRUE) EXCEPT !.early = TRUE]
      PROVE  Fine(verdict)
  <2> DEFINE m == BuildMerge({i \in Slots : bound[i] # NoResult}, TRUE)
             children == {i \in Slots : bound[i] # NoResult}
  <2>1. m = BuildMerge(children, TRUE) /\ children \in SUBSET Slots /\ \A i \in children : bound[i] # NoResult
    OBVIOUS
  <2>2. verdict.factors = m.factors /\ verdict.kind = m.kind
    BY <1>7 DEF BuildMerge, MergeRangeResults, FactorResult, Ended
  <2> HIDE DEF m, children
  <2>3. Fine(m)
    BY <1>7, <2>1, MergeIsRight
  <2> QED BY <2>2, <2>3
<1> HIDE DEF Fine
<1> QED BY <1>1, <1>2, <1>3, <1>4, <1>5, <1>6, <1>7, Endings

\* A root is resolved only by its prime factorization, for every number, count
\* of children and budget, whatever the executors answer.
THEOREM FactorizationResolvedIsRight == Spec => []ResolvedIsRight
<1>1. Init => ResolvedIsRight
  BY DEF Init, ResolvedIsRight, Resolved, Running, Ended
<1> QED BY <1>1, ResolvedStep, FactorizationInvariance, PTL DEF Spec

-----------------------------------------------------------------------------
(* The verdict does not depend on the order.                               *)

\* What the gate holds back the plugin refuses itself: when no children are
\* ready, those that are bound are neither all of them nor a witness.
LEMMA EarlyIsIncomplete ==
  ASSUME FactorizationInv, ranges # <<>>, Ready = {}
  PROVE  BuildMerge({i \in Slots : bound[i] # NoResult}, TRUE) = Ended("incomplete", <<>>)
<1> DEFINE children == {i \in Slots : bound[i] # NoResult}
<1>1. Results = children
  BY DEF Results, FactorizationInv, Kept
<1>2. Witnesses(Results) = {}
  <2>1. SUFFICES ASSUME Witnesses(Results) # {} PROVE FALSE
    OBVIOUS
  <2>2. children \in SUBSET Slots /\ \A i \in children : bound[i] # NoResult
    OBVIOUS
  <2>3. PICK i \in Witnesses(Results) :
          \A j \in Witnesses(Results) : bound[i].factor <= bound[j].factor
    BY <1>1, <2>1, <2>2, SmallestFactor
  <2>4. {i} \in SmallestWitness
    BY <2>3 DEF SmallestWitness
  <2>5. Ready = SmallestWitness
    BY <2>1 DEF Ready
  <2> QED BY <2>4, <2>5
<1>3. Results # Slots
  BY <1>2 DEF Ready
<1> QED BY <1>1, <1>2, <1>3 DEF BuildMerge

\* With verification every answer is about its own range, and all of them
\* together about each candidate once.
LEMMA VerifiedCoverage ==
  ASSUME FactorizationInv, ranges # <<>>, \A i \in Slots : bound[i].slot = i
  PROVE  Coverage(Slots)
<1> SUFFICES ASSUME NEW d \in 2..ISqrt(target)
             PROVE  Cardinality({i \in Slots : d \in Within(bound[i].slot)}) = 1
  BY DEF Coverage
<1>1. PICK i \in Slots : d \in Within(i)
  BY RangeFacts
<1>2. \A j \in Slots : d \in Within(j) => j = i
  BY <1>1, RangeFacts
<1>3. {j \in Slots : d \in Within(bound[j].slot)} = {i}
  BY <1>1, <1>2
<1> QED BY <1>3, FS_Singleton

\* Any factor of a product of two primes that the verdict leaves open leaves
\* one of these two open.
LEMMA FactorIsTheRoots ==
  ASSUME target \in Nat, target > 1, NEW f \in 2..ISqrt(target), target % f = 0,
         FactorResult(f).kind = "unresolved",
         NEW p \in 2..ISqrt(target), Right(<<p, target \div p>>)
  PROVE  "unknown" \in {PrimeVerdict(p), PrimeVerdict(target \div p)}
<1> DEFINE c == target \div f
           q == target \div p
<1>1. /\ f \in Nat /\ f > 1 /\ c \in Nat /\ c > 1
      /\ target = f * c
  BY Cofactor
<1>2. p \in Nat /\ q \in Nat /\ IsPrime(p) /\ IsPrime(q) /\ target = p * q
  <2> DEFINE factors == <<p, q>>
  <2>1. Len(factors) = 2 /\ DOMAIN factors = 1..2 /\ factors[1] = p /\ factors[2] = q /\ factors # <<target>>
    <3>1. Len(<<target>>) = 1 /\ Len(factors) = 2
      OBVIOUS
    <3> QED BY <3>1
  <2>2. Right(factors)
    OBVIOUS
  <2>3. 1 \in 1..2 /\ 2 \in 1..2
    OBVIOUS
  <2>4. target = p * q /\ IsPrime(p) /\ IsPrime(q)
    <3> HIDE DEF factors, q
    <3> QED BY <2>1, <2>2, <2>3 DEF Right
  <2>5. ISqrt(target) \in Nat
    BY Root
  <2>6. p \in Nat \ {0}
    BY <2>5
  <2> QED BY <2>4, <2>6, Division
<1>3. ~(PrimeVerdict(f) = "prime" /\ PrimeVerdict(c) = "prime")
  BY DEF FactorResult, Ended
<1> HIDE DEF c, q
<1>4. (f = p /\ c = q) \/ (f = q /\ c = p)
  <2>1. p * q = f * c
    BY <1>1, <1>2
  <2> QED BY <1>1, <1>2, <2>1, TwoPrimes
<1>5. PrimeVerdict(p) \in {"prime", "unknown"} /\ PrimeVerdict(q) \in {"prime", "unknown"}
  BY <1>1, <1>2, <1>4, PrimeVerdictIsTrue
<1>6. "unknown" \in {PrimeVerdict(p), PrimeVerdict(q)}
  BY <1>3, <1>4, <1>5
<1> QED BY <1>6 DEF q

\* A merge of what is ready is complete and accepted, and leaves unresolved
\* only what the budget leaves open.
LEMMA VerifiedMerge ==
  ASSUME FactorizationInv, ranges # <<>>, policy.verification,
         NEW children \in Ready, NEW integrity \in BOOLEAN,
         NEW m, m = BuildMerge(children, integrity)
  PROVE  /\ m.kind \notin {"refused", "incomplete"}
         /\ m.kind = "unresolved" =>
              \A p \in 2..ISqrt(target) :
                Right(<<p, target \div p>>) => "unknown" \in {PrimeVerdict(p), PrimeVerdict(target \div p)}
<1>1. children \in SUBSET Slots /\ \A i \in children : bound[i] # NoResult
  BY ReadyIsBound
<1>2. \A i \in children : bound[i].own /\ bound[i].index = i /\ bound[i].slot = i
  BY <1>1, BoundFacts DEF Accepts, Aligned
<1>3. children # {} /\ (children = Slots \/ children = Witnesses(children))
  <2>1. CASE children \in SmallestWitness
    BY <2>1 DEF SmallestWitness, Witnesses
  <2>2. CASE children = Slots
    <3>1. 2 \in 2..ISqrt(target)
      BY RangeFacts
    <3>2. \E i \in Slots : 2 \in Within(i)
      BY <3>1, RangeFacts
    <3> QED BY <2>2, <3>2
  <2> QED BY <2>1, <2>2 DEF Ready
<1>4. CompleteSet(children) \/ WitnessSet(children)
  <2>1. children = Slots => Coverage(children)
    BY <1>2, VerifiedCoverage
  <2> QED BY <1>2, <1>3, <2>1 DEF CompleteSet, WitnessSet, OfOneRoot
<1>5. m = IF Witnesses(children) = {} THEN Ended("certificate", <<target>>)
          ELSE FactorResult(Min({bound[i].factor : i \in Witnesses(children)}))
  <2>1. Bindings(children)
    BY <1>2 DEF Bindings
  <2>2. ~(children # Slots /\ Witnesses(children) = {})
    BY <1>3
  <2> QED BY <1>4, <2>1, <2>2 DEF BuildMerge, MergeRangeResults
<1>6. m.kind \notin {"refused", "incomplete"}
  BY <1>5 DEF FactorResult, Ended
<1>7. ASSUME m.kind = "unresolved", NEW p \in 2..ISqrt(target), Right(<<p, target \div p>>)
      PROVE  "unknown" \in {PrimeVerdict(p), PrimeVerdict(target \div p)}
  <2>1. Witnesses(children) # {}
    BY <1>5, <1>7 DEF Ended
  <2>2. PICK i \in Witnesses(children) :
          Min({bound[j].factor : j \in Witnesses(children)}) = bound[i].factor
    BY <1>1, <2>1, SmallestFactor
  <2>3. i \in Slots /\ bound[i] # NoResult /\ bound[i].own /\ bound[i].factor # 0
    BY <1>1, <1>2, <2>2 DEF Witnesses
  <2>4. bound[i].factor \in 2..ISqrt(target) /\ target % bound[i].factor = 0
    BY <2>3, BoundFacts
  <2>5. FactorResult(bound[i].factor).kind = "unresolved"
    BY <1>5, <1>7, <2>1, <2>2
  <2>6. target \in Nat /\ target > 1
    BY DEF FactorizationInv
  <2> QED BY <1>7, <2>4, <2>5, <2>6, FactorIsTheRoots
<1> QED BY <1>6, <1>7

\* Every ending keeps the property.
LEMMA VerdictStep == FactorizationInv /\ VerdictIsDetermined /\ [Next]_vars => VerdictIsDetermined'
<1> SUFFICES ASSUME FactorizationInv, VerdictIsDetermined, [Next]_vars PROVE VerdictIsDetermined'
  OBVIOUS
<1> DEFINE LeftOpen == \A p \in 2..ISqrt(target) :
                         Right(<<p, target \div p>>) => "unknown" \in {PrimeVerdict(p), PrimeVerdict(target \div p)}
           Fine(m) == /\ m.early => m.kind = "incomplete"
                      /\ policy.verification /\ ~m.early =>
                           /\ m.kind \notin {"refused", "incomplete"}
                           /\ m.kind = "unresolved" => LeftOpen
<1>1. CASE UNCHANGED vars
  BY <1>1 DEF vars, VerdictIsDetermined, Right
<1>2. CASE merged' = Running
  BY <1>2 DEF VerdictIsDetermined, Running, Ended
<1>3. ASSUME UNCHANGED <<target, requested, policy, ranges, bound, failed>>, Fine(merged')
      PROVE  VerdictIsDetermined'
  BY <1>3 DEF VerdictIsDetermined, Right
<1>4. Fine(Ended("direct", <<target>>)) /\ Fine(Ended("failed", <<>>))
  BY DEF Ended
<1>5. ASSUME ranges # <<>>, NEW children \in Ready
      PROVE  Fine(BuildMerge(children, policy.slotIntegrity))
  <2>1. policy.slotIntegrity \in BOOLEAN
    BY DEF FactorizationInv, Policies
  <2> DEFINE m == BuildMerge(children, policy.slotIntegrity)
  <2>2. m = BuildMerge(children, policy.slotIntegrity) /\ ~m.early
    BY DEF BuildMerge, MergeRangeResults, FactorResult, Ended
  <2> HIDE DEF m
  <2>3. policy.verification => m.kind \notin {"refused", "incomplete"} /\ (m.kind = "unresolved" => LeftOpen)
    BY <1>5, <2>1, <2>2, VerifiedMerge
  <2>4. Fine(m)
    BY <2>2, <2>3
  <2> QED BY <2>2, <2>4
<1>6. ASSUME ranges # <<>>, Ready = {}
      PROVE  Fine([BuildMerge({i \in Slots : bound[i] # NoResult}, TRUE) EXCEPT !.early = TRUE])
  <2> DEFINE m == BuildMerge({i \in Slots : bound[i] # NoResult}, TRUE)
  <2>1. m = Ended("incomplete", <<>>)
    BY <1>6, EarlyIsIncomplete
  <2> HIDE DEF m
  <2>2. [m EXCEPT !.early = TRUE].early = TRUE /\ [m EXCEPT !.early = TRUE].kind = "incomplete"
    BY <2>1 DEF Ended
  <2>3. Fine([m EXCEPT !.early = TRUE])
    BY <2>2
  <2> QED BY <2>3 DEF m
<1> HIDE DEF Fine
<1> QED BY <1>1, <1>2, <1>3, <1>4, <1>5, <1>6, Endings

\* How a merge of verified results ends does not depend on the order of the
\* children or on the witness that is merged, and what the gate holds back the
\* plugin refuses itself: for every number, count of children and budget.
THEOREM FactorizationVerdictIsDetermined == Spec => []VerdictIsDetermined
<1>1. Init => VerdictIsDetermined
  BY DEF Init, VerdictIsDetermined, Running, Ended
<1> QED BY <1>1, VerdictStep, FactorizationInvariance, PTL DEF Spec

-----------------------------------------------------------------------------
(* The plan, and what an attempt comes to under it.                        *)

Planned ==
  /\ plan.exp \in {"exp2", "exp3", "exp4"}
  /\ plan.off \subseteq Mechanisms /\ (plan.exp # "exp4" => plan.off = {})
  /\ plan.workers \in {1, 2} /\ plan.targets \subseteq Children
  /\ plan.case.domain \in {"factorization", "lean"} /\ plan.case.dependent \in BOOLEAN
  /\ plan.case.witness \subseteq Children
  /\ plan.case.dependent => plan.case.domain = "lean"
  /\ plan.exp = "exp4" => plan.kind \in Families /\ (plan.kind # "REQUIRED_CHILD_DELAY" => plan.targets = {1})
  /\ plan.every => plan.exp = "exp4" /\ plan.kind = "PARSER_REQUIRED_CANONICAL_JSON"

\* Every plan that is built fits.
LEMMA PlansFit == plan \in ReplayPlans \cup FaultPlans \cup ChallengePlans => Planned
<1>1. ASSUME plan \in ReplayPlans PROVE Planned
  <2>1. PICK k \in Cases, w \in {1, 2} :
          plan = [exp |-> "exp2", case |-> k, off |-> {}, kind |-> "none", targets |-> {}, every |-> FALSE, workers |-> w]
    BY <1>1 DEF ReplayPlans
  <2> QED BY <2>1 DEF Planned, Cases, Children, Mechanisms
<1>2. ASSUME plan \in FaultPlans PROVE Planned
  <2>1. PICK k \in Cases, f \in FaultTypes, T \in {{1}, {1, 2}} :
          plan = [exp |-> "exp3", case |-> k, off |-> {}, kind |-> f, targets |-> T, every |-> FALSE, workers |-> 2]
    BY <1>2 DEF FaultPlans
  <2> QED BY <2>1 DEF Planned, Cases, Children, Mechanisms
<1>3. ASSUME plan \in ChallengePlans PROVE Planned
  <2>1. PICK k \in Cases, f \in Families, mechanisms \in Exp4Modes \cap AllModes :
          plan = [exp |-> "exp4", case |-> k, off |-> mechanisms, kind |-> f,
                  targets |-> ChallengeTargets(f, k.domain, k.witness),
                  every |-> f = "PARSER_REQUIRED_CANONICAL_JSON", workers |-> 2]
    BY <1>3 DEF ChallengePlans
  <2>2. ChallengeTargets(f, k.domain, k.witness) \subseteq Children
    BY DEF ChallengeTargets, DelayTargets, Cases, Children
  <2>4. f # "REQUIRED_CHILD_DELAY" => ChallengeTargets(f, k.domain, k.witness) = {1}
    BY DEF ChallengeTargets
  <2>3. mechanisms \subseteq Mechanisms
    BY DEF AllModes
  <2> QED BY <2>1, <2>2, <2>3, <2>4 DEF Planned, Cases, Children
<1> QED BY <1>1, <1>2, <1>3

SourceAnswer == {"absent", "unparsed", "right", "wrong", "blind", "untestable", "empty", "garbled"}
TryEnds      == {"lost", "late", "failed", "bound", "rejected", "checker_error"}

\* The kinds of a submission and the ends of an attempt.
LEMMA EndTypes ==
  ASSUME NEW c, NEW n, NEW a, NEW slow \in BOOLEAN
  PROVE  /\ SubmittedKind(c, n, a) \in {"no_return", "late_submission", "executor_error", "succeeded", "failed"}
         /\ Kind(c, n, a) \in {"no_return", "late_submission", "executor_error", "succeeded", "failed"}
         /\ Verdict(c, n, a) \in {"bound", "rejected", "checker_error"}
         /\ EndOf(c, n, a, slow) \in TryEnds
<1>1. SubmittedKind(c, n, a) \in {"no_return", "late_submission", "executor_error", "succeeded", "failed"}
  BY DEF SubmittedKind
<1>2. Verdict(c, n, a) \in {"bound", "rejected", "checker_error"}
  BY DEF Verdict
<1>3. Kind(c, n, a) \in {"no_return", "late_submission", "executor_error", "succeeded", "failed"}
  BY <1>1 DEF Kind
<1>4. EndOf(c, n, a, slow) \in TryEnds
  BY <1>1, <1>2 DEF EndOf, TryEnds
<1> QED BY <1>1, <1>2, <1>3, <1>4

\* What is bound while the mode verifies is a right candidate that nobody has
\* touched.
LEMMA BoundIsRight ==
  ASSUME NEW c, NEW n, NEW a, NEW slow \in BOOLEAN, On("verification"), EndOf(c, n, a, slow) = "bound"
  PROVE  /\ a = "right" /\ HasCandidate(a) /\ ~Spoilt(c, n, a)
         /\ ~Faulty(c, n, {"no_return", "late_submission", "executor_error", "false_positive", "false_negative"})
<1> DEFINE k == SubmittedKind(c, n, a)
<1>1. k \in {"no_return", "late_submission", "executor_error", "succeeded", "failed"}
  BY EndTypes
<1>2. k \notin {"no_return", "late_submission"} /\ Kind(c, n, a) = "succeeded" /\ Verdict(c, n, a) = "bound"
  <2> HIDE DEF k
  <2>1. EndOf(c, n, a, slow) =
          CASE k = "no_return" -> "lost"
            [] k # "no_return" /\ (slow \/ k = "late_submission") -> "late"
            [] k # "no_return" /\ ~slow /\ k # "late_submission" ->
                 IF Kind(c, n, a) # "succeeded" THEN "failed" ELSE Verdict(c, n, a)
    BY DEF EndOf, k
  <2> QED BY <1>1, <2>1
<1>3. a = "right" /\ HasCandidate(a) /\ ~Spoilt(c, n, a) /\ ~Faulty(c, n, {"false_negative"})
  BY <1>2 DEF Verdict
<1>4. ~Faulty(c, n, {"false_positive"})
  BY <1>3 DEF Spoilt
<1>5. On("parser_policy") /\ k = "succeeded"
  BY <1>2, <1>3 DEF HasCandidate, Kind
<1>6. ~Faulty(c, n, {"no_return"}) /\ ~Faulty(c, n, {"late_submission"}) /\ ~Faulty(c, n, {"executor_error"})
  <2>1. Faulty(c, n, {"no_return"}) => k = "no_return"
    BY DEF SubmittedKind, Faulty, Challenged
  <2>2. Faulty(c, n, {"late_submission"}) => k = "late_submission"
    BY DEF SubmittedKind, Faulty, Challenged
  <2>3. Faulty(c, n, {"executor_error"}) => k = "executor_error"
    BY DEF SubmittedKind, Faulty, Challenged
  <2> QED BY <1>5, <2>1, <2>2, <2>3
<1> QED BY <1>3, <1>4, <1>6 DEF Faulty

-----------------------------------------------------------------------------
(* The invariant.                                                          *)

Tries    == [answer : SourceAnswer, slow : BOOLEAN, end : TryEnds \cup {"flight"}]
Phases   == {"ready", "flight", "retry", "requeue", "done", "failed"}
Statuses == {"not_reached", "applied", "preempted_by_merge_first"}
Outcomes == {"not_attempted", "right", "wrong", "raised", "incomplete"}
RouteRecords == [attempt : Children \X Nat, status : Statuses]
MergeRecords == [boundary : {"recovery_premerge", "normal_merge"}, attempt : Nat \X Nat,
                 gate : BOOLEAN, canonical : SUBSET Children, outcome : Outcomes]
RunEnds  == {"running", "right", "wrong", "raised", "incomplete", "premature", "failed", "checker_error",
             "requeue_refused", "no_dependency", "stalled"}

ReplayTypes ==
  /\ Planned
  /\ tries \in [Children -> Seq(Tries)] /\ phase \in [Children -> Phases] /\ ending \in RunEnds
  /\ routes \in Seq(RouteRecords) /\ merges \in Seq(MergeRecords)

\* What becomes of an answer under the plan.
Fate ==
  [c \in Children |-> [n \in Nat |-> [a \in SourceAnswer |-> [slow \in BOOLEAN |-> EndOf(c, n, a, slow)]]]]

\* An attempt ended as its answer has it; a child is done with the attempt that
\* is bound, and one that the checker could not judge ends the run.
Fits(c, n) ==
  LET t == tries[c][n]
  IN /\ t.end = IF n = Ordinal(c) /\ phase[c] = "flight" THEN "flight" ELSE Fate[c][n][t.answer][t.slow]
     /\ t.end = "bound" <=> n = Ordinal(c) /\ phase[c] = "done"
     /\ t.end = "checker_error" => ending = "checker_error"

\* The first child is tried first.
AttemptsFit ==
  /\ \A c \in Children :
       /\ phase[c] # "ready" => tries[c] # <<>>
       /\ \A n \in 1..Ordinal(c) : Fits(c, n)
  /\ tries[2] # <<>> => tries[1] # <<>>

\* How often a child is tried.
BudgetFits ==
  \A c \in Children :
    /\ Ordinal(c) <= MaxRetries + 1
    /\ phase[c] \in {"ready", "requeue"} => Ordinal(c) <= MaxRetries
    /\ phase[c] = "failed" => Ordinal(c) = MaxRetries + 1 /\ ending = "failed"
    /\ ~On("requeue") => Ordinal(c) <= 1 /\ (phase[c] = "ready" => tries[c] = <<>>)

\* A route other than "not_reached" is the last and has ended the run; so has a
\* merge before the gate that was attempted.
RoutesFit ==
  /\ \A i \in DOMAIN routes : routes[i].status # "not_reached" => i = Len(routes)
  /\ \A i \in DOMAIN routes : routes[i].status = "applied" => ending = "requeue_refused"
  /\ \A i \in DOMAIN routes : routes[i].status = "preempted_by_merge_first" => ending = "premature"
  /\ ending = "requeue_refused" =>
       plan.exp = "exp4" /\ ~On("requeue") /\ routes # <<>> /\ routes[Len(routes)].status = "applied"
  /\ ending = "premature" /\ ~On("requeue") =>
       routes # <<>> /\ routes[Len(routes)].status = "preempted_by_merge_first"

MergesFit ==
  /\ \A i \in DOMAIN merges :
       merges[i].boundary = "recovery_premerge" /\ merges[i].outcome # "not_attempted" =>
         i = Len(merges) /\ ending = "premature"
  /\ ending = "premature" =>
       /\ plan.exp = "exp4" /\ ~On("merge_gate") /\ merges # <<>>
       /\ merges[Len(merges)].boundary = "recovery_premerge" /\ merges[Len(merges)].outcome # "not_attempted"

\* Without the gate a replacement is considered only when the merge is ready;
\* while the mode verifies, a run has none of the ends that faults lead to.
EndingsFit ==
  /\ ending = "failed" => \E c \in Children : phase[c] = "failed"
  /\ ending = "requeue_refused" => \E c \in Children : phase[c] = "requeue"
  /\ ~On("merge_gate") /\ (\E c \in Children : phase[c] = "requeue") => MergeReady
  /\ On("verification") => ending \notin {"wrong", "raised", "incomplete", "stalled", "no_dependency"}

ReplayInv == ReplayTypes /\ AttemptsFit /\ BudgetFits /\ RoutesFit /\ MergesFit /\ EndingsFit

LEMMA ReplayInvInit == ReplayInit => ReplayInv
<1> SUFFICES ASSUME ReplayInit PROVE ReplayInv
  OBVIOUS
<1>1. /\ Planned /\ tries = [c \in Children |-> <<>>] /\ phase = [c \in Children |-> "ready"]
      /\ routes = <<>> /\ merges = <<>> /\ ending = "running"
  BY PlansFit DEF ReplayInit
<1>2. \A c \in Children : Ordinal(c) = 0
  BY <1>1 DEF Ordinal
<1>3. ReplayTypes
  BY <1>1 DEF ReplayTypes, Phases, RunEnds
<1>4. AttemptsFit /\ BudgetFits
  BY <1>1, <1>2, ReplayAssumption DEF AttemptsFit, BudgetFits, Children
<1>5. RoutesFit /\ MergesFit /\ EndingsFit
  BY <1>1 DEF RoutesFit, MergesFit, EndingsFit
<1> QED BY <1>3, <1>4, <1>5 DEF ReplayInv

-----------------------------------------------------------------------------
(* What merges.                                                            *)

\* What a child is done with.
LEMMA DoneIsBound ==
  ASSUME ReplayInv, NEW c \in Completed
  PROVE  /\ c \in Children /\ Ordinal(c) \in Nat \ {0}
         /\ Bound(c) = tries[c][Ordinal(c)].answer
         /\ EndOf(c, Ordinal(c), Bound(c), tries[c][Ordinal(c)].slow) = "bound"
         /\ tries[c][Ordinal(c)] \in Tries
<1>1. c \in Children /\ phase[c] = "done"
  BY DEF Completed
<1>2. tries[c] \in Seq(Tries) /\ tries[c] # <<>> /\ Ordinal(c) = Len(tries[c])
  BY <1>1 DEF ReplayInv, ReplayTypes, AttemptsFit, Ordinal
<1>3. Ordinal(c) \in Nat \ {0} /\ Ordinal(c) \in 1..Ordinal(c) /\ tries[c][Ordinal(c)] \in Tries
  BY <1>2
<1>4. Fits(c, Ordinal(c))
  BY <1>1, <1>3 DEF ReplayInv, AttemptsFit
<1>5. Bound(c) = tries[c][Ordinal(c)].answer
  BY <1>2 DEF Bound, Last
<1> QED BY <1>1, <1>3, <1>4, <1>5 DEF Fits, Fate, Tries

\* While the mode verifies, children are done with right candidates.
LEMMA VerifiedIsRight ==
  ASSUME ReplayInv, On("verification"), NEW c \in Completed
  PROVE  Bound(c) = "right" /\ IsResult(c) /\ ~Ruined(c)
<1>1. tries[c][Ordinal(c)].slow \in BOOLEAN
  BY DoneIsBound DEF Tries
<1>2. Bound(c) = "right" /\ HasCandidate(Bound(c)) /\ ~Spoilt(c, Ordinal(c), Bound(c))
  BY <1>1, DoneIsBound, BoundIsRight
<1> QED BY <1>2 DEF IsResult, Ruined

\* What they merge into is never wrong, and nothing when a child is missing.
LEMMA VerifiedMerges ==
  ASSUME ReplayInv, On("verification"), NEW C \in SUBSET Completed
  PROVE  PluginMerge(C) \in {{"right"}, {"incomplete"}}
<1>1. \A c \in C : Bound(c) = "right" /\ IsResult(c) /\ ~Ruined(c)
  BY VerifiedIsRight
<1> QED BY <1>1 DEF PluginMerge

\* What is merged when the merge is ready is enough.
LEMMA ReadyMergesRight ==
  ASSUME ReplayInv, On("verification"), MergeReady, NEW C \in Selections
  PROVE  PluginMerge(C) = {"right"}
<1>1. FactorResults = Completed
  BY VerifiedIsRight DEF FactorResults
<1>2. FactorWitnesses \subseteq Completed
  BY DEF FactorWitnesses, FactorResults
<1>3. C \in SUBSET Completed
  BY <1>2 DEF Selections
<1>4. \A c \in C : Bound(c) = "right" /\ IsResult(c) /\ ~Ruined(c)
  BY <1>3, VerifiedIsRight
<1>5. CASE Lean
  BY <1>5 DEF MergeReady, Selections, PluginMerge
<1>6. CASE ~Lean
  <2>1. C = Children \/ C \cap FactorWitnesses # {}
    BY <1>1, <1>6 DEF MergeReady, Selections
  <2> QED BY <1>4, <1>6, <2>1 DEF PluginMerge
<1> QED BY <1>5, <1>6

\* A run that verifies does not stall.
LEMMA NoStall ==
  ASSUME ReplayInv, On("verification"), Live, In("flight") = {}, ~Control,
         \A c \in Children : ~CanDispatch(c)
  PROVE  MergeReady
<1>1. \A c \in Children : phase[c] \in {"ready", "done"}
  <2> TAKE c \in Children
  <2>1. phase[c] \in Phases /\ phase[c] \notin {"flight", "retry", "requeue"}
    BY DEF ReplayInv, ReplayTypes, In, Control
  <2>2. phase[c] # "failed"
    BY DEF ReplayInv, BudgetFits, Live
  <2> QED BY <2>1, <2>2 DEF Phases
<1>2. SUFFICES ASSUME ~MergeReady PROVE FALSE
  OBVIOUS
<1>3. Cardinality(In("flight")) < plan.workers
  <2>1. Cardinality(In("flight")) = 0
    BY FS_EmptySet
  <2>2. plan.workers \in {1, 2}
    BY DEF ReplayInv, ReplayTypes, Planned
  <2> QED BY <2>1, <2>2
<1>4. \A c \in Children : ~Available(c)
  BY <1>2, <1>3 DEF CanDispatch
<1>5. phase[1] = "done"
  BY <1>1, <1>4 DEF Available, Children
<1>6. phase[2] = "done"
  BY <1>1, <1>4, <1>5 DEF Available, Children
<1>7. Completed = Children
  BY <1>5, <1>6 DEF Completed, Children
<1>8. FactorResults = Children
  BY <1>7, VerifiedIsRight DEF FactorResults
<1> QED BY <1>2, <1>7, <1>8 DEF MergeReady

\* What a merge comes to.
LEMMA MergeOutcomes ==
  ASSUME NEW C, NEW verdict \in PluginMerge(C)
  PROVE  verdict \in {"right", "wrong", "raised", "incomplete"}
BY DEF PluginMerge

-----------------------------------------------------------------------------
(* The steps.                                                              *)

\* An attempt comes to the same under the same plan.
LEMMA PlanKept == ASSUME plan' = plan PROVE Fate' = Fate
BY DEF Fate, EndOf, SubmittedKind, Kind, Verdict, Spoilt, HasCandidate, Faulty, Challenged, Applies, On

\* Whether the merge is ready depends on the children that are done and on
\* their attempts.
LEMMA ReadyKept ==
  ASSUME plan' = plan, tries' = tries, Completed' = Completed
  PROVE  MergeReady' = MergeReady
<1>1. \A a, b : a \in Completed <=> a \in Completed'
  OBVIOUS
<1>2. FactorResults' = FactorResults
  BY DEF FactorResults, IsResult, HasCandidate, Ruined, Spoilt, ClaimsFactor, Bound, Ordinal,
     Faulty, Challenged, Applies, On, Witness
<1>3. FactorWitnesses' = FactorWitnesses
  BY <1>2 DEF FactorWitnesses, ClaimsFactor, Bound, Witness
<1> QED BY <1>2, <1>3 DEF MergeReady, Lean

\* A new attempt.
LEMMA DispatchKeeps == ASSUME ReplayInv, NEW c \in Children, Dispatch(c) PROVE ReplayInv'
<1>1. PICK a \in SourceAnswers(c), slow \in BOOLEAN : tries' = [tries EXCEPT ![c] = Append(@, Attempt(a, slow))]
  BY DEF Dispatch
<1>2. /\ phase' = [phase EXCEPT ![c] = "flight"] /\ UNCHANGED <<plan, routes, merges, ending>>
      /\ phase[c] = "ready" /\ Live /\ In("requeue") = {}
  BY DEF Dispatch, CanDispatch, Available, Control
<1>3. a \in SourceAnswer
  BY DEF SourceAnswers, Readings, SourceAnswer
<1>4. /\ tries \in [Children -> Seq(Tries)] /\ phase \in [Children -> Phases] /\ Planned
      /\ \A b \in Children : Ordinal(b) = Len(tries[b]) /\ Ordinal(b) \in Nat
  BY DEF ReplayInv, ReplayTypes, Ordinal
<1>5. Attempt(a, slow) \in Tries
  BY <1>3 DEF Attempt, Tries
<1>6. /\ tries' \in [Children -> Seq(Tries)] /\ phase' \in [Children -> Phases]
      /\ tries'[c] = Append(tries[c], Attempt(a, slow)) /\ phase'[c] = "flight"
      /\ Ordinal(c)' = Ordinal(c) + 1
      /\ \A n \in 1..Ordinal(c) : tries'[c][n] = tries[c][n]
      /\ tries'[c][Ordinal(c) + 1] = Attempt(a, slow)
  BY <1>1, <1>2, <1>4, <1>5 DEF Phases, Ordinal
<1>7. \A b \in Children \ {c} : tries'[b] = tries[b] /\ phase'[b] = phase[b] /\ Ordinal(b)' = Ordinal(b)
  BY <1>1, <1>2, <1>4 DEF Ordinal
<1>8. ReplayTypes'
  BY <1>2, <1>4, <1>6 DEF ReplayInv, ReplayTypes, Planned
<1>9. AttemptsFit'
  <2>1. ASSUME NEW b \in Children \ {c} PROVE (phase'[b] # "ready" => tries'[b] # <<>>) /\ \A n \in 1..Ordinal(b)' : Fits(b, n)'
    <3>1. (phase'[b] # "ready" => tries'[b] # <<>>) /\ \A n \in 1..Ordinal(b) : Fits(b, n)
      BY <1>7, <2>1 DEF ReplayInv, AttemptsFit
    <3>2. ASSUME NEW n \in 1..Ordinal(b) PROVE Fits(b, n)'
      BY <1>2, <1>7, <2>1, <3>1, PlanKept DEF Fits
    <3> QED BY <1>7, <2>1, <3>1, <3>2
  <2>2. tries'[c] # <<>>
    BY <1>4, <1>5, <1>6
  <2>3. ASSUME NEW n \in 1..Ordinal(c) PROVE Fits(c, n)'
    <3>1. Fits(c, n) /\ n # Ordinal(c)' /\ phase[c] # "flight" /\ phase[c] # "done"
      BY <1>2, <1>4, <1>6 DEF ReplayInv, AttemptsFit
    <3> QED BY <1>2, <1>6, <3>1, PlanKept DEF Fits
  <2>4. ASSUME NEW n \in Nat, n = Ordinal(c) + 1 PROVE Fits(c, n)'
    <3>1. tries'[c][n].end = "flight"
      BY <1>4, <1>6, <2>4 DEF Attempt
    <3>2. n = Ordinal(c)' /\ phase'[c] = "flight"
      BY <1>6, <2>4
    <3> QED BY <3>1, <3>2 DEF Fits
  <2>5. \A n \in 1..Ordinal(c)' : n \in 1..Ordinal(c) \/ n = Ordinal(c) + 1
    BY <1>4, <1>6
  <2>6. \A n \in 1..Ordinal(c)' : Fits(c, n)'
    BY <1>4, <2>3, <2>4, <2>5
  <2>7. tries'[2] # <<>> => tries'[1] # <<>>
    <3>1. CASE c = 1
      BY <2>2, <3>1
    <3>2. CASE c = 2
      <4>1. phase[1] # "ready"
        BY <3>2 DEF Dispatch, CanDispatch, Available, Children
      <4>2. tries[1] # <<>>
        BY <4>1 DEF ReplayInv, AttemptsFit, Children
      <4> QED BY <1>7, <3>2, <4>2 DEF Children
    <3> QED BY <3>1, <3>2 DEF Children
  <2> QED BY <2>1, <2>2, <2>6, <2>7 DEF AttemptsFit
<1>10. BudgetFits'
  <2>1. Ordinal(c) <= MaxRetries /\ (~On("requeue") => tries[c] = <<>>) /\ MaxRetries \in Nat
    BY <1>2, ReplayAssumption DEF ReplayInv, BudgetFits
  <2>2. ~On("requeue") => Ordinal(c) = 0
    BY <2>1, <1>4
  <2>3. On("requeue")' = On("requeue")
    BY <1>2 DEF On
  <2> QED BY <1>2, <1>4, <1>6, <1>7, <2>1, <2>2, <2>3 DEF ReplayInv, BudgetFits
<1>11. RoutesFit' /\ MergesFit'
  BY <1>2 DEF ReplayInv, RoutesFit, MergesFit, On
<1>12. EndingsFit'
  <2>1. \A b \in Children : phase'[b] # "requeue"
    BY <1>2, <1>6, <1>7 DEF In
  <2> QED BY <1>2, <2>1 DEF ReplayInv, EndingsFit, Live, On
<1> QED BY <1>8, <1>9, <1>10, <1>11, <1>12 DEF ReplayInv

\* A result or its absence.
LEMMA TakeKeeps == ASSUME ReplayInv, NEW c \in Children, Take(c) PROVE ReplayInv'
<1>0. PICK k : k = Ordinal(c)
  OBVIOUS
<1> DEFINE t == tries[c][k]
           e == Fate[c][k][t.answer][t.slow]
<1>1. /\ Live /\ phase[c] = "flight" /\ In("requeue") = {} /\ UNCHANGED <<plan, routes, merges>>
  BY DEF Take
<1>2. /\ tries \in [Children -> Seq(Tries)] /\ phase \in [Children -> Phases] /\ Planned
      /\ \A b \in Children : Ordinal(b) = Len(tries[b]) /\ Ordinal(b) \in Nat
  BY DEF ReplayInv, ReplayTypes, Ordinal
<1>3. tries[c] # <<>> /\ k \in Nat \ {0} /\ k \in 1..k /\ t \in Tries
  BY <1>0, <1>1, <1>2 DEF ReplayInv, AttemptsFit
<1>4. Last(tries[c]) = t /\ e = EndOf(c, k, t.answer, t.slow)
  BY <1>0, <1>2, <1>3 DEF Last, Fate, Tries
<1>5. /\ tries' = [tries EXCEPT ![c] = [@ EXCEPT ![k] = [t EXCEPT !.end = e]]]
      /\ phase' = [phase EXCEPT ![c] = IF e = "bound" THEN "done" ELSE "retry"]
      /\ ending' = IF e = "checker_error" THEN "checker_error" ELSE ending
  BY <1>0, <1>4 DEF Take
<1>6. e \in TryEnds /\ t.slow \in BOOLEAN
  BY <1>3, <1>4, EndTypes DEF Tries
<1> HIDE DEF e
<1>7. /\ tries'[c] = [tries[c] EXCEPT ![k] = [t EXCEPT !.end = e]]
      /\ \A b \in Children \ {c} : tries'[b] = tries[b] /\ phase'[b] = phase[b] /\ Ordinal(b)' = Ordinal(b)
      /\ DOMAIN tries' = Children /\ DOMAIN phase' = Children
  BY <1>0, <1>2, <1>5 DEF Ordinal
<1>8. /\ tries'[c] \in Seq(Tries) /\ Len(tries'[c]) = Len(tries[c])
      /\ tries'[c][k] = [t EXCEPT !.end = e] /\ \A n \in 1..k : n # k => tries'[c][n] = tries[c][n]
  <2>1. [t EXCEPT !.end = e] \in Tries
    BY <1>3, <1>6 DEF Tries
  <2> QED BY <1>0, <1>2, <1>3, <1>7, <2>1
<1>9. Ordinal(c)' = k /\ phase'[c] = IF e = "bound" THEN "done" ELSE "retry"
  BY <1>0, <1>2, <1>5, <1>8 DEF Ordinal
<1>10. ReplayTypes'
  <2>1. tries' \in [Children -> Seq(Tries)]
    BY <1>2, <1>5, <1>7, <1>8
  <2>2. phase' \in [Children -> Phases]
    BY <1>2, <1>5 DEF Phases
  <2>3. ending' \in RunEnds
    BY <1>5 DEF ReplayInv, ReplayTypes, RunEnds
  <2> QED BY <1>1, <2>1, <2>2, <2>3 DEF ReplayInv, ReplayTypes, Planned
<1>11. AttemptsFit'
  <2>1. \A b \in Children : \A n \in 1..Ordinal(b) : tries[b][n].end # "checker_error"
    BY <1>1 DEF ReplayInv, AttemptsFit, Fits, Live
  <2>2. ASSUME NEW b \in Children \ {c} PROVE (phase'[b] # "ready" => tries'[b] # <<>>) /\ \A n \in 1..Ordinal(b)' : Fits(b, n)'
    <3>1. (phase'[b] # "ready" => tries'[b] # <<>>) /\ \A n \in 1..Ordinal(b) : Fits(b, n) /\ tries[b][n].end # "checker_error"
      BY <1>7, <2>1, <2>2 DEF ReplayInv, AttemptsFit
    <3>2. ASSUME NEW n \in 1..Ordinal(b) PROVE Fits(b, n)'
      BY <1>1, <1>7, <2>2, <3>1, PlanKept DEF Fits
    <3> QED BY <1>7, <2>2, <3>1, <3>2
  <2>3. tries'[c] # <<>>
    BY <1>0, <1>2, <1>3, <1>8
  <2>4. ASSUME NEW n \in 1..k, n # k PROVE Fits(c, n)'
    <3>1. Fits(c, n) /\ tries'[c][n] = tries[c][n] /\ tries[c][n].end # "checker_error"
      BY <1>0, <1>8, <2>1, <2>4 DEF ReplayInv, AttemptsFit
    <3> QED BY <1>0, <1>1, <1>9, <2>4, <3>1, PlanKept DEF Fits
  <2>5. Fits(c, k)'
    <3>1. tries'[c][k].end = e /\ tries'[c][k].answer = t.answer /\ tries'[c][k].slow = t.slow
      BY <1>3, <1>8 DEF Tries
    <3>3. e = Fate'[c][k][tries'[c][k].answer][tries'[c][k].slow]
      BY <1>1, <3>1, PlanKept DEF e
    <3>4. e \in TryEnds /\ e # "flight"
      BY <1>6 DEF TryEnds
    <3>5. k = Ordinal(c)' /\ phase'[c] # "flight" /\ (phase'[c] = "done" <=> e = "bound")
      BY <1>9
    <3>6. e = "checker_error" => ending' = "checker_error"
      BY <1>5
    <3> HIDE DEF t
    <3> QED BY <3>1, <3>3, <3>4, <3>5, <3>6 DEF Fits
  <2>6. \A n \in 1..Ordinal(c)' : Fits(c, n)'
    BY <1>9, <2>4, <2>5
  <2>7. tries'[2] # <<>> => tries'[1] # <<>>
    BY <1>1, <1>3, <1>7, <2>3 DEF ReplayInv, AttemptsFit, Children
  <2> QED BY <2>2, <2>3, <2>6, <2>7 DEF AttemptsFit
<1>12. BudgetFits'
  <2>1. On("requeue")' = On("requeue") /\ phase'[c] \in {"done", "retry"}
    BY <1>1, <1>9 DEF On
  <2>2. Ordinal(c)' = Ordinal(c) /\ \A b \in Children : phase[b] # "failed"
    BY <1>0, <1>1, <1>9 DEF ReplayInv, BudgetFits, Live
  <2> QED BY <1>7, <2>1, <2>2 DEF ReplayInv, BudgetFits
<1>13. RoutesFit' /\ MergesFit'
  BY <1>1, <1>5 DEF ReplayInv, RoutesFit, MergesFit, On, Live
<1>14. EndingsFit'
  <2>1. \A b \in Children : phase'[b] # "requeue"
    BY <1>1, <1>7, <1>9 DEF In
  <2> QED BY <1>1, <1>5, <2>1 DEF ReplayInv, EndingsFit, Live, On
<1> QED BY <1>10, <1>11, <1>12, <1>13, <1>14 DEF ReplayInv

\* A step that leaves the attempts alone and moves only children with failed
\* attempts.
LEMMA QuietStep ==
  ASSUME ReplayInv, Live, plan' = plan, tries' = tries,
         NEW c \in Children, phase[c] \in {"retry", "requeue"},
         NEW p \in {"ready", "retry", "requeue", "failed"}, phase' = [phase EXCEPT ![c] = p]
  PROVE  /\ AttemptsFit' /\ Planned' /\ tries' \in [Children -> Seq(Tries)] /\ phase' \in [Children -> Phases]
         /\ MergeReady' = MergeReady /\ phase'[c] = p
         /\ \A b \in Children : Ordinal(b)' = Ordinal(b) /\ (b # c => phase'[b] = phase[b])
         /\ \A m : On(m)' = On(m)
<1>1. /\ tries \in [Children -> Seq(Tries)] /\ phase \in [Children -> Phases] /\ Planned
      /\ phase'[c] = p /\ \A b \in Children : b # c => phase'[b] = phase[b]
  BY DEF ReplayInv, ReplayTypes
<1>2. tries' \in [Children -> Seq(Tries)] /\ phase' \in [Children -> Phases] /\ Planned'
  <2>1. p \in Phases
    BY DEF Phases
  <2> QED BY <1>1, <2>1 DEF Planned
<1>3. \A b \in Children : Ordinal(b)' = Ordinal(b)
  BY DEF Ordinal
<1>4. MergeReady' = MergeReady
  <2>1. Completed' = Completed
    BY <1>1 DEF Completed
  <2> QED BY <2>1, ReadyKept
<1>5. AttemptsFit'
  <2>1. ASSUME NEW b \in Children, NEW n \in 1..Ordinal(b) PROVE Fits(b, n)'
    <3>1. Fits(b, n) /\ ending # "checker_error"
      BY DEF ReplayInv, AttemptsFit, Live
    <3>2. (phase'[b] = "flight" <=> phase[b] = "flight") /\ (phase'[b] = "done" <=> phase[b] = "done")
      BY <1>1
    <3> QED BY <1>3, <3>1, <3>2, PlanKept DEF Fits
  <2>2. ASSUME NEW b \in Children PROVE phase'[b] # "ready" => tries'[b] # <<>>
    BY <1>1 DEF ReplayInv, AttemptsFit
  <2> QED BY <1>3, <2>1, <2>2 DEF ReplayInv, AttemptsFit
<1> QED BY <1>1, <1>2, <1>3, <1>4, <1>5 DEF On

\* While the run goes on nothing is in the records that has ended it.
LEMMA LiveRecords ==
  ASSUME ReplayInv, Live
  PROVE  /\ \A i \in DOMAIN routes : routes[i].status = "not_reached"
         /\ \A i \in DOMAIN merges : merges[i].boundary = "recovery_premerge" => merges[i].outcome = "not_attempted"
<1>1. \A i \in DOMAIN routes : routes[i].status \in Statuses
  <2>1. routes \in Seq(RouteRecords)
    BY DEF ReplayInv, ReplayTypes
  <2>2. \A i \in DOMAIN routes : routes[i] \in RouteRecords
    BY <2>1
  <2> QED BY <2>2 DEF RouteRecords
<1> QED BY <1>1 DEF ReplayInv, RoutesFit, MergesFit, Statuses, Live

\* A route is recorded, or none is.
LEMMA RouteStep ==
  ASSUME ReplayInv, Live, plan' = plan, NEW r \in RouteRecords,
         r.status = "applied" <=> ending' = "requeue_refused",
         r.status = "preempted_by_merge_first" => ending' = "premature",
         ending' = "requeue_refused" => plan.exp = "exp4" /\ ~On("requeue"),
         ending' = "premature" /\ ~On("requeue") => r.status = "preempted_by_merge_first",
         routes' = Append(routes, r)
  PROVE  routes' \in Seq(RouteRecords) /\ RoutesFit'
<1>1. routes \in Seq(RouteRecords)
  BY DEF ReplayInv, ReplayTypes
<1>2. /\ routes' \in Seq(RouteRecords) /\ Len(routes') = Len(routes) + 1 /\ routes'[Len(routes')] = r
      /\ \A i \in DOMAIN routes' : i = Len(routes') \/ (i \in DOMAIN routes /\ routes'[i] = routes[i])
  BY <1>1
<1>3. \A i \in DOMAIN routes' : i = Len(routes') \/ routes'[i].status = "not_reached"
  BY <1>2, LiveRecords
<1>4. routes' # <<>>
  BY <1>1
<1>5. \A i \in DOMAIN routes' : routes'[i].status # "not_reached" => i = Len(routes') /\ routes'[i].status = r.status
  BY <1>2, <1>3
<1> QED BY <1>2, <1>4, <1>5 DEF RoutesFit, On

LEMMA RoutesStay ==
  ASSUME ReplayInv, Live, plan' = plan, routes' = routes,
         ending' # "requeue_refused", ending' = "premature" => On("requeue")
  PROVE  routes' \in Seq(RouteRecords) /\ RoutesFit'
<1>1. routes \in Seq(RouteRecords) /\ \A i \in DOMAIN routes : routes[i].status = "not_reached"
  BY LiveRecords DEF ReplayInv, ReplayTypes
<1> QED BY <1>1 DEF RoutesFit, On

\* A merge is recorded, or none is.
LEMMA MergeStep ==
  ASSUME ReplayInv, Live, plan' = plan, NEW r \in MergeRecords,
         r.boundary = "recovery_premerge" /\ r.outcome # "not_attempted" <=> ending' = "premature",
         ending' = "premature" => plan.exp = "exp4" /\ ~On("merge_gate"),
         merges' = Append(merges, r)
  PROVE  merges' \in Seq(MergeRecords) /\ MergesFit'
<1>1. merges \in Seq(MergeRecords)
  BY DEF ReplayInv, ReplayTypes
<1>2. /\ merges' \in Seq(MergeRecords) /\ Len(merges') = Len(merges) + 1 /\ merges'[Len(merges')] = r
      /\ \A i \in DOMAIN merges' : i = Len(merges') \/ (i \in DOMAIN merges /\ merges'[i] = merges[i])
  BY <1>1
<1>3. \A i \in DOMAIN merges' :
        i = Len(merges') \/ (merges'[i].boundary = "recovery_premerge" => merges'[i].outcome = "not_attempted")
  BY <1>2, LiveRecords
<1>4. merges' # <<>>
  BY <1>1
<1> QED BY <1>2, <1>3, <1>4 DEF MergesFit, On

LEMMA MergesStay ==
  ASSUME ReplayInv, Live, plan' = plan, merges' = merges, ending' # "premature"
  PROVE  merges' \in Seq(MergeRecords) /\ MergesFit'
<1>1. /\ merges \in Seq(MergeRecords)
      /\ \A i \in DOMAIN merges : merges[i].boundary = "recovery_premerge" => merges[i].outcome = "not_attempted"
  BY LiveRecords DEF ReplayInv, ReplayTypes
<1> QED BY <1>1 DEF MergesFit

\* A record of a merge is one.
LEMMA RecordsFit ==
  ASSUME ReplayInv, NEW boundary \in {"recovery_premerge", "normal_merge"}, NEW c \in Children \cup {0}, NEW verdict \in Outcomes
  PROVE  /\ MergeRecord(boundary, c, verdict) \in MergeRecords
         /\ MergeRecord(boundary, c, verdict).boundary = boundary /\ MergeRecord(boundary, c, verdict).outcome = verdict
<1>1. c \in Nat /\ (IF c = 0 THEN 0 ELSE Ordinal(c)) \in Nat
  <2>1. \A b \in Children : Ordinal(b) \in Nat
    BY DEF ReplayInv, ReplayTypes, Ordinal
  <2> QED BY <2>1 DEF Children
<1>2. Completed \in SUBSET Children
  BY DEF Completed
<1>3. MergeReady \in BOOLEAN
  BY DEF MergeReady
<1> QED BY <1>1, <1>2, <1>3 DEF MergeRecord, MergeRecords

\* A step that only ends the run.
LEMMA StillStep ==
  ASSUME ReplayInv, Live, plan' = plan, tries' = tries, phase' = phase,
         ending' \in RunEnds, ending' # "failed", ending' = "requeue_refused" => \E c \in Children : phase[c] = "requeue",
         On("verification") => ending' \notin {"wrong", "raised", "incomplete", "stalled", "no_dependency"}
  PROVE  /\ Planned' /\ tries' \in [Children -> Seq(Tries)] /\ phase' \in [Children -> Phases] /\ ending' \in RunEnds
         /\ AttemptsFit' /\ BudgetFits' /\ EndingsFit'
<1>1. tries' \in [Children -> Seq(Tries)] /\ phase' \in [Children -> Phases] /\ Planned'
  BY DEF ReplayInv, ReplayTypes, Planned
<1>2. /\ \A b \in Children : Ordinal(b)' = Ordinal(b)
      /\ \A m : On(m)' = On(m)
  BY DEF Ordinal, On
<1>3. MergeReady' = MergeReady
  <2>1. Completed' = Completed
    BY DEF Completed
  <2> QED BY <2>1, ReadyKept
<1>4. AttemptsFit'
  <2>1. ASSUME NEW b \in Children, NEW n \in 1..Ordinal(b) PROVE Fits(b, n)'
    <3>1. Fits(b, n) /\ ending # "checker_error"
      BY DEF ReplayInv, AttemptsFit, Live
    <3> QED BY <1>2, <3>1, PlanKept DEF Fits
  <2> QED BY <1>2, <2>1 DEF ReplayInv, AttemptsFit
<1>5. BudgetFits'
  <2>1. \A b \in Children : phase[b] # "failed"
    BY DEF ReplayInv, BudgetFits, Live
  <2> QED BY <1>2, <2>1 DEF ReplayInv, BudgetFits
<1>6. EndingsFit'
  BY <1>2, <1>3 DEF ReplayInv, EndingsFit
<1> QED BY <1>1, <1>4, <1>5, <1>6

\* A failed attempt is followed by a replacement, a premature merge or the end.
LEMMA RetryKeeps == ASSUME ReplayInv, NEW c \in Children, Retry(c) PROVE ReplayInv'
<1>1. /\ Live /\ phase[c] = "retry" /\ plan' = plan /\ tries' = tries
      /\ Ordinal(c) <= MaxRetries + 1 /\ Ordinal(c) \in Nat /\ MaxRetries \in Nat
      /\ (~On("merge_gate") \/ ~On("requeue")) => plan.exp = "exp4"
  <2>1. Ordinal(c) \in Nat
    BY DEF ReplayInv, ReplayTypes, Ordinal
  <2>2. (~On("merge_gate") \/ ~On("requeue")) => plan.exp = "exp4"
    BY DEF ReplayInv, ReplayTypes, Planned, On
  <2> QED BY <2>1, <2>2, ReplayAssumption DEF Retry, ReplayInv, BudgetFits
<1>2. CASE Ordinal(c) > MaxRetries
  <2>1. phase' = [phase EXCEPT ![c] = "failed"] /\ ending' = "failed" /\ UNCHANGED <<routes, merges>>
    BY <1>2 DEF Retry
  <2>2. /\ AttemptsFit' /\ Planned' /\ tries' \in [Children -> Seq(Tries)] /\ phase' \in [Children -> Phases]
        /\ MergeReady' = MergeReady /\ phase'[c] = "failed"
        /\ \A b \in Children : Ordinal(b)' = Ordinal(b) /\ (b # c => phase'[b] = phase[b])
        /\ \A m : On(m)' = On(m)
    BY <1>1, <2>1, QuietStep
  <2>3. routes' \in Seq(RouteRecords) /\ RoutesFit' /\ merges' \in Seq(MergeRecords) /\ MergesFit'
    BY <1>1, <2>1, RoutesStay, MergesStay
  <2>4. ReplayTypes'
    BY <2>1, <2>2, <2>3 DEF ReplayTypes, RunEnds
  <2>5. BudgetFits'
    <3>1. Ordinal(c) = MaxRetries + 1
      BY <1>1, <1>2
    <3>2. \A b \in Children : phase[b] # "failed"
      BY <1>1 DEF ReplayInv, BudgetFits, Live
    <3> QED BY <1>1, <2>1, <2>2, <3>1, <3>2 DEF ReplayInv, BudgetFits
  <2>6. EndingsFit'
    BY <2>1, <2>2 DEF ReplayInv, EndingsFit
  <2> QED BY <2>2, <2>3, <2>4, <2>5, <2>6 DEF ReplayInv
<1>3. ASSUME ~(Ordinal(c) > MaxRetries), phase' = [phase EXCEPT ![c] = "requeue"], routes' = routes, ending' = ending,
             MergeReady \/ On("merge_gate"),
             merges' = merges \/ merges' = Append(merges, MergeRecord("recovery_premerge", c, "not_attempted"))
      PROVE  ReplayInv'
  <2>1. /\ AttemptsFit' /\ Planned' /\ tries' \in [Children -> Seq(Tries)] /\ phase' \in [Children -> Phases]
        /\ MergeReady' = MergeReady /\ phase'[c] = "requeue"
        /\ \A b \in Children : Ordinal(b)' = Ordinal(b) /\ (b # c => phase'[b] = phase[b])
        /\ \A m : On(m)' = On(m)
    BY <1>1, <1>3, QuietStep
  <2>2. ending' = "running"
    BY <1>1, <1>3 DEF Live
  <2>3. routes' \in Seq(RouteRecords) /\ RoutesFit'
    BY <1>1, <1>3, <2>2, RoutesStay
  <2>4. merges' \in Seq(MergeRecords) /\ MergesFit'
    <3>1. CASE merges' = merges
      BY <1>1, <2>2, <3>1, MergesStay
    <3>2. CASE merges' = Append(merges, MergeRecord("recovery_premerge", c, "not_attempted"))
      <4>1. /\ MergeRecord("recovery_premerge", c, "not_attempted") \in MergeRecords
            /\ MergeRecord("recovery_premerge", c, "not_attempted").outcome = "not_attempted"
        BY RecordsFit DEF Outcomes
      <4> HIDE DEF MergeRecord
      <4> QED BY <1>1, <2>2, <3>2, <4>1, MergeStep
    <3> QED BY <1>3, <3>1, <3>2
  <2>5. ReplayTypes'
    BY <2>1, <2>2, <2>3, <2>4 DEF ReplayTypes, RunEnds
  <2>6. BudgetFits'
    BY <1>1, <1>3, <2>1, <2>2 DEF ReplayInv, BudgetFits
  <2>7. EndingsFit'
    BY <1>3, <2>1, <2>2 DEF ReplayInv, EndingsFit
  <2> QED BY <2>1, <2>3, <2>4, <2>5, <2>6, <2>7 DEF ReplayInv
<1>4. ASSUME ~(Ordinal(c) > MaxRetries), plan.exp = "exp4", ~MergeReady, ~On("merge_gate"),
             NEW verdict \in PluginMerge(Completed), phase' = phase,
             merges' = Append(merges, MergeRecord("recovery_premerge", c, IF verdict = "raised" THEN "not_attempted" ELSE verdict)),
             ending' = IF verdict = "raised" THEN "raised" ELSE "premature",
             routes' = IF verdict = "raised" \/ On("requeue") THEN routes
                       ELSE Append(routes, [attempt |-> <<c, Ordinal(c)>>, status |-> "preempted_by_merge_first"])
      PROVE  ReplayInv'
  <2>1. PICK o : o = IF verdict = "raised" THEN "not_attempted" ELSE verdict
    OBVIOUS
  <2>2. verdict \in {"right", "wrong", "raised", "incomplete"} /\ o \in Outcomes
    <3>1. verdict \in {"right", "wrong", "raised", "incomplete"}
      BY <1>4, MergeOutcomes
    <3> QED BY <2>1, <3>1 DEF Outcomes
  <2>3. On("verification") => verdict # "raised"
    BY <1>4, VerifiedMerges
  <2>4. ending' \in RunEnds /\ ending' \in {"raised", "premature"} /\ (ending' = "premature" <=> o # "not_attempted")
    BY <1>4, <2>1, <2>2 DEF RunEnds
  <2>5. /\ Planned' /\ tries' \in [Children -> Seq(Tries)] /\ phase' \in [Children -> Phases] /\ ending' \in RunEnds
        /\ AttemptsFit' /\ BudgetFits' /\ EndingsFit'
    BY <1>1, <1>4, <2>3, <2>4, StillStep
  <2>6. merges' \in Seq(MergeRecords) /\ MergesFit'
    <3>1. PICK r : r = MergeRecord("recovery_premerge", c, o)
      OBVIOUS
    <3>2. r \in MergeRecords /\ r.boundary = "recovery_premerge" /\ r.outcome = o
      BY <2>2, <3>1, RecordsFit
    <3>3. merges' = Append(merges, r)
      BY <1>4, <2>1, <3>1
    <3> QED BY <1>1, <1>4, <2>4, <3>2, <3>3, MergeStep
  <2>7. routes' \in Seq(RouteRecords) /\ RoutesFit'
    <3>1. CASE verdict = "raised" \/ On("requeue")
      BY <1>1, <1>4, <2>4, <3>1, RoutesStay
    <3>2. CASE ~(verdict = "raised" \/ On("requeue"))
      <4>1. PICK r : r = [attempt |-> <<c, Ordinal(c)>>, status |-> "preempted_by_merge_first"]
        OBVIOUS
      <4>2. r \in RouteRecords /\ r.status = "preempted_by_merge_first"
        BY <1>1, <4>1 DEF RouteRecords, Statuses
      <4>3. routes' = Append(routes, r) /\ ending' = "premature"
        BY <1>4, <3>2, <4>1
      <4> QED BY <1>1, <4>2, <4>3, RouteStep
    <3> QED BY <3>1, <3>2
  <2>8. ReplayTypes'
    BY <2>5, <2>6, <2>7 DEF ReplayTypes
  <2> QED BY <2>5, <2>6, <2>7, <2>8 DEF ReplayInv
<1>5. CASE ~(Ordinal(c) > MaxRetries) /\ plan.exp = "exp4"
  <2>1. RecoveryMerge(c)
    BY <1>5 DEF Retry
  <2>2. CASE MergeReady \/ On("merge_gate")
    BY <1>3, <1>5, <2>1, <2>2 DEF RecoveryMerge
  <2>3. CASE ~(MergeReady \/ On("merge_gate"))
    BY <1>4, <1>5, <2>1, <2>3 DEF RecoveryMerge
  <2> QED BY <2>2, <2>3
<1>6. CASE ~(Ordinal(c) > MaxRetries) /\ plan.exp # "exp4"
  BY <1>1, <1>3, <1>6 DEF Retry
<1> QED BY <1>2, <1>5, <1>6

\* A failed attempt is replaced, or the run ends without the replacement.
LEMMA RequeueKeeps == ASSUME ReplayInv, NEW c \in Children, Requeue(c) PROVE ReplayInv'
<1>1. /\ Live /\ phase[c] = "requeue" /\ plan' = plan /\ tries' = tries /\ merges' = merges
      /\ Ordinal(c) <= MaxRetries /\ Ordinal(c) \in Nat
      /\ ~On("requeue") => plan.exp = "exp4"
  <2>1. Ordinal(c) \in Nat
    BY DEF ReplayInv, ReplayTypes, Ordinal
  <2>2. ~On("requeue") => plan.exp = "exp4"
    BY DEF ReplayInv, ReplayTypes, Planned, On
  <2> QED BY <2>1, <2>2 DEF Requeue, ReplayInv, BudgetFits
<1>2. PICK r : r = RequeueRoute(c)
  OBVIOUS
<1>3. r \in RouteRecords /\ r.status = IF On("requeue") THEN "not_reached" ELSE "applied"
  BY <1>1, <1>2 DEF RequeueRoute, RouteRecords, Statuses
<1>4. routes' = IF plan.exp = "exp4" THEN Append(routes, r) ELSE routes
  BY <1>2 DEF Requeue
<1>5. CASE On("requeue")
  <2>1. phase' = [phase EXCEPT ![c] = "ready"] /\ ending' = ending
    BY <1>5 DEF Requeue
  <2>2. /\ AttemptsFit' /\ Planned' /\ tries' \in [Children -> Seq(Tries)] /\ phase' \in [Children -> Phases]
        /\ MergeReady' = MergeReady /\ phase'[c] = "ready"
        /\ \A b \in Children : Ordinal(b)' = Ordinal(b) /\ (b # c => phase'[b] = phase[b])
        /\ \A m : On(m)' = On(m)
    BY <1>1, <2>1, QuietStep
  <2>3. ending' = "running"
    BY <1>1, <2>1 DEF Live
  <2>4. routes' \in Seq(RouteRecords) /\ RoutesFit'
    <3>1. CASE plan.exp = "exp4"
      BY <1>1, <1>3, <1>4, <1>5, <2>3, <3>1, RouteStep
    <3>2. CASE plan.exp # "exp4"
      BY <1>1, <1>4, <2>3, <3>2, RoutesStay
    <3> QED BY <3>1, <3>2
  <2>5. merges' \in Seq(MergeRecords) /\ MergesFit'
    BY <1>1, <2>3, MergesStay
  <2>6. ReplayTypes'
    BY <2>2, <2>3, <2>4, <2>5 DEF ReplayTypes, RunEnds
  <2>7. BudgetFits'
    <3>1. \A b \in Children : phase[b] # "failed"
      BY <1>1 DEF ReplayInv, BudgetFits, Live
    <3> QED BY <1>1, <1>5, <2>2, <2>3, <3>1 DEF ReplayInv, BudgetFits
  <2>8. EndingsFit'
    BY <2>2, <2>3 DEF ReplayInv, EndingsFit
  <2> QED BY <2>2, <2>4, <2>5, <2>6, <2>7, <2>8 DEF ReplayInv
<1>6. CASE ~On("requeue")
  <2>1. phase' = phase /\ ending' = "requeue_refused"
    BY <1>6 DEF Requeue
  <2>2. /\ Planned' /\ tries' \in [Children -> Seq(Tries)] /\ phase' \in [Children -> Phases] /\ ending' \in RunEnds
        /\ AttemptsFit' /\ BudgetFits' /\ EndingsFit'
    <3>1. ending' \in RunEnds
      BY <2>1 DEF RunEnds
    <3> QED BY <1>1, <2>1, <3>1, StillStep
  <2>3. routes' \in Seq(RouteRecords) /\ RoutesFit'
    BY <1>1, <1>3, <1>4, <1>6, <2>1, RouteStep
  <2>4. merges' \in Seq(MergeRecords) /\ MergesFit'
    BY <1>1, <2>1, MergesStay
  <2>5. ReplayTypes'
    BY <2>2, <2>3, <2>4 DEF ReplayTypes
  <2> QED BY <2>2, <2>3, <2>4, <2>5 DEF ReplayInv
<1> QED BY <1>5, <1>6

\* The merge of the root, or a stall.
LEMMA MergeKeeps == ASSUME ReplayInv, MergeOrStall PROVE ReplayInv'
<1>1. /\ Live /\ In("flight") = {} /\ ~Control /\ \A c \in Children : ~CanDispatch(c)
      /\ plan' = plan /\ tries' = tries /\ phase' = phase /\ routes' = routes
  BY DEF MergeOrStall
<1>2. /\ ending' \in {"right", "wrong", "raised", "incomplete", "stalled"}
      /\ On("verification") => ending' = "right"
  <2>1. CASE MergeReady
    <3>1. PICK C \in Selections : ending' \in PluginMerge(C)
      BY <2>1 DEF MergeOrStall
    <3>2. ending' \in {"right", "wrong", "raised", "incomplete"}
      BY <3>1, MergeOutcomes
    <3>3. On("verification") => PluginMerge(C) = {"right"}
      BY <2>1, ReadyMergesRight
    <3> QED BY <3>1, <3>2, <3>3
  <2>2. CASE ~MergeReady
    BY <1>1, <2>2, NoStall DEF MergeOrStall
  <2> QED BY <2>1, <2>2
<1>3. ending' \in RunEnds /\ ending' \notin {"premature", "requeue_refused", "failed"}
  BY <1>2 DEF RunEnds
<1>4. /\ Planned' /\ tries' \in [Children -> Seq(Tries)] /\ phase' \in [Children -> Phases] /\ ending' \in RunEnds
      /\ AttemptsFit' /\ BudgetFits' /\ EndingsFit'
  BY <1>1, <1>2, <1>3, StillStep
<1>5. routes' \in Seq(RouteRecords) /\ RoutesFit'
  BY <1>1, <1>3, RoutesStay
<1>6. merges' \in Seq(MergeRecords) /\ MergesFit'
  <2>1. PICK r : r = MergeRecord("normal_merge", 0, "not_attempted")
    OBVIOUS
  <2>2. r \in MergeRecords /\ r.outcome = "not_attempted"
    BY <2>1, RecordsFit DEF Outcomes
  <2>3. merges' = IF plan.exp = "exp4" THEN Append(merges, r) ELSE merges
    BY <2>1 DEF MergeOrStall
  <2> QED BY <1>1, <1>3, <2>2, <2>3, MergeStep, MergesStay
<1>7. ReplayTypes'
  BY <1>4, <1>5, <1>6 DEF ReplayTypes
<1> QED BY <1>4, <1>5, <1>6, <1>7 DEF ReplayInv

\* The dependency that is missing.
LEMMA DependencyKeeps == ASSUME ReplayInv, DependencyUnavailable PROVE ReplayInv'
<1>1. /\ Live /\ ~On("verification") /\ plan' = plan /\ tries' = tries /\ phase' = phase
      /\ routes' = routes /\ merges' = merges /\ ending' = "no_dependency"
  BY DEF DependencyUnavailable, CanDispatch
<1>2. /\ Planned' /\ tries' \in [Children -> Seq(Tries)] /\ phase' \in [Children -> Phases] /\ ending' \in RunEnds
      /\ AttemptsFit' /\ BudgetFits' /\ EndingsFit'
  <2>1. ending' \in RunEnds
    BY <1>1 DEF RunEnds
  <2> QED BY <1>1, <2>1, StillStep
<1>3. routes' \in Seq(RouteRecords) /\ RoutesFit' /\ merges' \in Seq(MergeRecords) /\ MergesFit'
  BY <1>1, RoutesStay, MergesStay
<1>4. ReplayTypes'
  BY <1>2, <1>3 DEF ReplayTypes
<1> QED BY <1>2, <1>3, <1>4 DEF ReplayInv

LEMMA ReplayInvStep == ReplayInv /\ [ReplayNext]_replayVars => ReplayInv'
<1> SUFFICES ASSUME ReplayInv, [ReplayNext]_replayVars PROVE ReplayInv'
  OBVIOUS
<1>1. CASE UNCHANGED replayVars
  <2>1. /\ \A b \in Children : Ordinal(b)' = Ordinal(b)
        /\ \A m : On(m)' = On(m)
        /\ MergeReady' = MergeReady
    <3>1. Completed' = Completed
      BY <1>1 DEF replayVars, Completed
    <3> QED BY <1>1, <3>1, ReadyKept DEF replayVars, Ordinal, On
  <2>2. ReplayTypes' /\ BudgetFits' /\ RoutesFit' /\ MergesFit' /\ EndingsFit'
    BY <1>1, <2>1 DEF replayVars, ReplayInv, ReplayTypes, Planned, BudgetFits, RoutesFit, MergesFit, EndingsFit
  <2>3. ASSUME NEW b \in Children, NEW n \in 1..Ordinal(b) PROVE Fits(b, n)'
    <3>1. Fits(b, n)
      BY DEF ReplayInv, AttemptsFit
    <3> QED BY <1>1, <2>1, <3>1, PlanKept DEF replayVars, Fits
  <2>4. AttemptsFit'
    BY <1>1, <2>1, <2>3 DEF replayVars, ReplayInv, AttemptsFit
  <2> QED BY <2>2, <2>4 DEF ReplayInv
<1>2. ASSUME NEW c \in Children, Dispatch(c) PROVE ReplayInv'
  BY <1>2, DispatchKeeps
<1>3. ASSUME NEW c \in Children, Take(c) PROVE ReplayInv'
  BY <1>3, TakeKeeps
<1>4. ASSUME NEW c \in Children, Retry(c) PROVE ReplayInv'
  BY <1>4, RetryKeeps
<1>5. ASSUME NEW c \in Children, Requeue(c) PROVE ReplayInv'
  BY <1>5, RequeueKeeps
<1>6. CASE DependencyUnavailable
  BY <1>6, DependencyKeeps
<1>7. CASE MergeOrStall
  BY <1>7, MergeKeeps
<1> QED BY <1>1, <1>2, <1>3, <1>4, <1>5, <1>6, <1>7 DEF ReplayNext

\* A run of the replay keeps its attempts, its records and its end together.
THEOREM ReplayInvariance == ReplaySpec => []ReplayInv
<1> QED BY ReplayInvInit, ReplayInvStep, PTL DEF ReplaySpec

-----------------------------------------------------------------------------
(* The projector and the reducer.                                          *)

\* An executed attempt.
LEMMA TryFits ==
  ASSUME ReplayInv, NEW e \in Executed
  PROVE  /\ e[1] \in Children /\ e[2] \in Nat \ {0} /\ e[2] \in 1..Ordinal(e[1]) /\ Ordinal(e[1]) \in Nat
         /\ Try(e) \in Tries /\ Fits(e[1], e[2])
         /\ Try(e).end # "flight" => EndOf(e[1], e[2], Try(e).answer, Try(e).slow) = Try(e).end
         /\ Try(e).end = "flight" => e[2] = Ordinal(e[1]) /\ phase[e[1]] = "flight"
<1>1. e[1] \in Children /\ e[2] \in 1..(MaxRetries + 1) /\ e[2] <= Ordinal(e[1])
  BY DEF Executed
<1>2. tries[e[1]] \in Seq(Tries) /\ Ordinal(e[1]) = Len(tries[e[1]])
  BY <1>1 DEF ReplayInv, ReplayTypes, Ordinal
<1>3. e[2] \in Nat \ {0} /\ e[2] \in 1..Ordinal(e[1]) /\ Ordinal(e[1]) \in Nat
  BY <1>1, <1>2, ReplayAssumption
<1>4. Try(e) \in Tries /\ Try(e) = tries[e[1]][e[2]]
  BY <1>2, <1>3 DEF Try
<1>5. Fits(e[1], e[2])
  BY <1>1, <1>3 DEF ReplayInv, AttemptsFit
<1>6. /\ Try(e).end # "flight" => Fate[e[1]][e[2]][Try(e).answer][Try(e).slow] = Try(e).end
      /\ Try(e).end = "flight" => Fate[e[1]][e[2]][Try(e).answer][Try(e).slow] = "flight" \/ (e[2] = Ordinal(e[1]) /\ phase[e[1]] = "flight")
  BY <1>4, <1>5 DEF Fits
<1>7. /\ Fate[e[1]][e[2]][Try(e).answer][Try(e).slow] = EndOf(e[1], e[2], Try(e).answer, Try(e).slow)
      /\ EndOf(e[1], e[2], Try(e).answer, Try(e).slow) \in TryEnds
  <2>1. Try(e).answer \in SourceAnswer /\ Try(e).slow \in BOOLEAN
    BY <1>4 DEF Tries
  <2> QED BY <1>1, <1>3, <2>1, EndTypes DEF Fate
<1> QED BY <1>1, <1>3, <1>4, <1>5, <1>6, <1>7 DEF TryEnds

\* An attempt that is bound while the mode verifies.
LEMMA EscapedIsRight ==
  ASSUME ReplayInv, On("verification"), NEW e \in Executed, Escaped(e)
  PROVE  /\ Try(e).answer = "right" /\ HasCandidate(Try(e).answer) /\ ~Spoilt(e[1], e[2], Try(e).answer)
         /\ ~Faulty(e[1], e[2], {"no_return", "late_submission", "executor_error", "false_positive", "false_negative"})
<1>1. EndOf(e[1], e[2], Try(e).answer, Try(e).slow) = "bound" /\ Try(e).slow \in BOOLEAN
  BY TryFits DEF Escaped, Tries
<1> QED BY <1>1, BoundIsRight

\* The record of a challenged attempt.
LEMMA ChallengeRecords ==
  ASSUME ReplayInv, plan.exp = "exp4", NEW c, NEW n, NEW a
  PROVE  /\ Applies(c, n) => ChallengeRecord(c, n, a).boundary = Boundary[plan.kind]
         /\ ChallengeRecord(c, n, a).injected = ChallengeRecord(c, n, a).opportunity
         /\ ChallengeRecord(c, n, a).injected => Applies(c, n) /\ ChallengeRecord(c, n, a) # NoRecord
         /\ ChallengeRecord(c, n, a).injected /\ plan.kind \notin Losses => IsJson(a) \/ HasCandidate(a)
         /\ ChallengeRecord(c, n, a).wrong => plan.kind = "INVALID_PARSED_CANDIDATE" /\ Applies(c, n) /\ HasCandidate(a)
         /\ Applies(c, n) /\ plan.kind \in Losses => ChallengeRecord(c, n, a).injected
<1>1. plan.kind \in {"INVALID_PARSED_CANDIDATE", "PARSER_REQUIRED_CANONICAL_JSON", "RECOVERABLE_NO_RETURN", "REQUIRED_CHILD_DELAY"}
  BY DEF ReplayInv, ReplayTypes, Planned, Families, Boundary
<1>2. CASE ~Applies(c, n)
  <2>1. ChallengeRecord(c, n, a) = NoRecord
    BY <1>2 DEF ChallengeRecord, Challenged
  <2> QED BY <1>2, <2>1 DEF NoRecord
<1>3. CASE Applies(c, n) /\ plan.kind \in Losses
  <2>1. ChallengeRecord(c, n, a) = Record(Boundary[plan.kind], TRUE, FALSE)
    BY <1>3 DEF ChallengeRecord, Challenged, Losses
  <2> QED BY <1>3, <2>1 DEF Record, NoRecord, Losses
<1>4. CASE Applies(c, n) /\ plan.kind = "PARSER_REQUIRED_CANONICAL_JSON"
  <2>1. ChallengeRecord(c, n, a) = Record("before_plugin_parser", IsJson(a), FALSE)
    BY <1>4 DEF ChallengeRecord, Challenged, Losses
  <2>2. Boundary[plan.kind] = "before_plugin_parser"
    BY <1>4 DEF Boundary
  <2> QED BY <1>4, <2>1, <2>2 DEF Record, NoRecord, Losses
<1>5. CASE Applies(c, n) /\ plan.kind = "INVALID_PARSED_CANDIDATE"
  <2>1. ChallengeRecord(c, n, a) = Record("after_parser_before_verification", HasCandidate(a), HasCandidate(a))
    BY <1>5 DEF ChallengeRecord, Challenged, Losses
  <2>2. Boundary[plan.kind] = "after_parser_before_verification"
    BY <1>5 DEF Boundary
  <2> QED BY <1>5, <2>1, <2>2 DEF Record, NoRecord, Losses
<1> QED BY <1>1, <1>2, <1>3, <1>4, <1>5 DEF Losses

\* The evidence of a challenge fits together in every run.
LEMMA EvidenceFits == ReplayInv => ChallengeEvidence
<1> SUFFICES ASSUME ReplayInv, NEW e \in Executed, plan.exp = "exp4", Applies(e[1], e[2])
             PROVE  RecordOf(e).boundary = Boundary[plan.kind] /\ (RecordOf(e).injected => RecordOf(e).opportunity)
  BY DEF ChallengeEvidence
<1> QED BY ChallengeRecords DEF RecordOf

\* What the projector makes of an ended run.
LEMMA Projections ==
  ASSUME ReplayInv, RunEnded
  PROVE  /\ Projected = "correct_final" => ending \in {"right", "wrong"}
         /\ Projected = "infrastructure_invalid" => ending = "checker_error" \/ Raised
         /\ Projected = "error" => ending = "failed" /\ ~NaturalRejection
<1>1. ChallengeEvidence
  BY EvidenceFits
<1>2. ending \in RunEnds \ {"running"}
  BY DEF ReplayInv, ReplayTypes, RunEnded
<1>3. ending \in {"premature", "requeue_refused"} => ProcessingFailure
  <2>1. CASE ending = "premature"
    <3>1. plan.exp = "exp4" /\ Len(merges) \in Probed
      <4>1. merges \in Seq(MergeRecords) /\ merges # <<>>
        BY <2>1 DEF ReplayInv, ReplayTypes, MergesFit
      <4>2. Len(merges) \in DOMAIN merges
        BY <4>1
      <4> QED BY <2>1, <4>2 DEF ReplayInv, MergesFit, Probed
    <3> QED BY <3>1 DEF ProcessingFailure
  <2>2. CASE ending = "requeue_refused"
    <3>1. plan.exp = "exp4" /\ Len(routes) \in Applied
      <4>1. routes \in Seq(RouteRecords) /\ routes # <<>>
        BY <2>2 DEF ReplayInv, ReplayTypes, RoutesFit
      <4>2. Len(routes) \in DOMAIN routes
        BY <4>1
      <4> QED BY <2>2, <4>2 DEF ReplayInv, RoutesFit, Applied
    <3> QED BY <3>1 DEF ProcessingFailure
  <2> QED BY <2>1, <2>2
<1>4. CASE ending \in {"right", "wrong"}
  <2>1. Projected = "correct_final"
    BY <1>1, <1>4 DEF Projected, Raised
  <2> QED BY <1>4, <2>1
<1>5. CASE ending = "failed"
  <2>1. Projected = IF NaturalRejection THEN "no_final" ELSE "error"
    BY <1>1, <1>5 DEF Projected, Raised
  <2> QED BY <1>5, <2>1
<1>6. CASE ending = "checker_error"
  <2>1. Projected = "infrastructure_invalid"
    BY <1>1, <1>6 DEF Projected, Raised
  <2> QED BY <1>6, <2>1
<1>7. CASE ending \in {"premature", "requeue_refused"}
  <2>1. Projected = "no_final"
    BY <1>1, <1>3, <1>7 DEF Projected, Raised
  <2> QED BY <2>1
<1>8. CASE Raised
  <2>1. Projected = IF ControlledNoFinal THEN "no_final" ELSE "infrastructure_invalid"
    BY <1>1, <1>8 DEF Projected, Raised
  <2> QED BY <1>8, <2>1
<1> QED BY <1>2, <1>4, <1>5, <1>6, <1>7, <1>8 DEF RunEnds, Raised

\* While the mode verifies, no fault and no challenge gets through.
LEMMA VerifiedRoots == ReplayInv => WrongNeedsAblation
<1> SUFFICES ASSUME ReplayInv, On("verification")
             PROVE  /\ \A e \in Wrong : Status(e) \in {"accepted", "rejected"} => e \in Intercepted
                    /\ \A e \in Executed : FaultRecord(e[1], e[2], Try(e).answer) => ~Escaped(e)
                    /\ \A c \in Completed : Bound(c) = "right" /\ HasCandidate(Bound(c)) /\ ~Ruined(c)
                    /\ RunEnded /\ Projected = "correct_final" => ending = "right"
                    /\ RunEnded /\ Projected = "infrastructure_invalid" => ending = "checker_error"
  BY DEF WrongNeedsAblation
<1>1. ASSUME NEW e \in Wrong, Status(e) \in {"accepted", "rejected"} PROVE e \in Intercepted
  <2>1. e \in Executed
    BY DEF Wrong, Injected
  <2>2. ~Escaped(e)
    <3>1. SUFFICES ASSUME Escaped(e) PROVE FALSE
      OBVIOUS
    <3>2. CASE plan.exp = "exp4"
      <4>1. RecordOf(e).wrong
        BY <3>2 DEF Wrong
      <4>2. plan.kind = "INVALID_PARSED_CANDIDATE" /\ Applies(e[1], e[2]) /\ HasCandidate(Try(e).answer)
        BY <3>2, <4>1, ChallengeRecords DEF RecordOf
      <4>3. Spoilt(e[1], e[2], Try(e).answer)
        BY <3>2, <4>2 DEF Spoilt, Challenged
      <4> QED BY <2>1, <3>1, <4>3, EscapedIsRight
    <3>3. CASE plan.exp # "exp4"
      <4>1. Faulty(e[1], e[2], {"false_positive"})
        BY <3>3 DEF Wrong
      <4> QED BY <2>1, <3>1, <4>1, EscapedIsRight DEF Faulty
    <3> QED BY <3>2, <3>3
  <2>3. Status(e) = "rejected"
    BY <1>1, <2>2 DEF Status, Escaped
  <2> QED BY <2>3 DEF Intercepted
<1>2. ASSUME NEW e \in Executed, FaultRecord(e[1], e[2], Try(e).answer) PROVE ~Escaped(e)
  BY <1>2, EscapedIsRight DEF FaultRecord, Faulty
<1>3. ASSUME NEW c \in Completed PROVE Bound(c) = "right" /\ HasCandidate(Bound(c)) /\ ~Ruined(c)
  BY VerifiedIsRight DEF IsResult
<1>4. ending \notin {"wrong", "raised", "incomplete", "stalled", "no_dependency"}
  BY DEF ReplayInv, EndingsFit
<1>5. RunEnded /\ Projected = "correct_final" => ending = "right"
  BY <1>4, Projections
<1>6. RunEnded /\ Projected = "infrastructure_invalid" => ending = "checker_error"
  BY <1>4, Projections DEF Raised
<1> QED BY <1>1, <1>2, <1>3, <1>5, <1>6

\* The child that failed, and its last attempt.
LEMMA FailedChild ==
  ASSUME ReplayInv, ending = "failed"
  PROVE  /\ Failed \in Children /\ phase[Failed] = "failed" /\ Ordinal(Failed) = MaxRetries + 1
         /\ <<Failed, Ordinal(Failed)>> \in Executed
         /\ Last(tries[Failed]) = Try(<<Failed, Ordinal(Failed)>>)
         /\ \A e \in Executed : e[1] = Failed => Try(e).end \in {"lost", "late", "failed", "rejected"}
<1>1. Failed \in Children /\ phase[Failed] = "failed"
  <2>1. \E c \in Children : phase[c] = "failed"
    BY DEF ReplayInv, EndingsFit
  <2> QED BY <2>1 DEF Failed
<1> HIDE DEF Failed
<1>2. Ordinal(Failed) = MaxRetries + 1 /\ MaxRetries \in Nat
  BY <1>1, ReplayAssumption DEF ReplayInv, BudgetFits
<1>3. <<Failed, Ordinal(Failed)>> \in Executed
  BY <1>1, <1>2 DEF Executed
<1>4. Last(tries[Failed]) = Try(<<Failed, Ordinal(Failed)>>)
  BY DEF Last, Try, Ordinal
<1>5. ASSUME NEW e \in Executed, e[1] = Failed PROVE Try(e).end \in {"lost", "late", "failed", "rejected"}
  <2>1. /\ Try(e).end \in TryEnds \cup {"flight"} /\ Try(e).end # "flight"
    BY <1>1, <1>5, TryFits DEF Tries
  <2>2. Try(e).end # "bound" /\ Try(e).end # "checker_error"
    BY <1>1, <1>5, TryFits DEF Fits, Try
  <2> QED BY <2>1, <2>2 DEF TryEnds
<1> QED BY <1>1, <1>2, <1>3, <1>4, <1>5

\* Only a first attempt is lost without its answer.
LEMMA LostIsFirst ==
  ASSUME ReplayInv, NEW c, NEW n, NEW a, NEW slow \in BOOLEAN, EndOf(c, n, a, slow) = "lost"
  PROVE  n = 1
<1>1. SubmittedKind(c, n, a) = "no_return"
  <2>1. SubmittedKind(c, n, a) \in {"no_return", "late_submission", "executor_error", "succeeded", "failed"}
    BY EndTypes
  <2>2. Verdict(c, n, a) # "lost"
    BY EndTypes
  <2> QED BY <2>1, <2>2 DEF EndOf
<1>2. Faulty(c, n, {"no_return"}) \/ Challenged(c, n, Losses)
  BY <1>1 DEF SubmittedKind
<1>3. Applies(c, n) /\ ~plan.every
  BY <1>2 DEF Faulty, Challenged, Losses, ReplayInv, ReplayTypes, Planned
<1> QED BY <1>3 DEF Applies

\* The one run that the projector refuses.
LEMMA RefusedRoots == ReplayInv => OnlyLateFailuresAreRefused
<1> SUFFICES ASSUME ReplayInv, RunEnded, Projected = "error"
             PROVE  /\ ending = "failed" /\ Last(tries[Failed]).end = "late"
                    /\ Kind(Failed, Ordinal(Failed), Last(tries[Failed]).answer) # "succeeded"
  BY DEF OnlyLateFailuresAreRefused
<1>1. ending = "failed" /\ ~NaturalRejection
  BY Projections
<1>2. PICK e \in Executed : e = <<Failed, Ordinal(Failed)>>
  BY <1>1, FailedChild
<1>3. /\ e[1] = Failed /\ e[2] = Ordinal(Failed) /\ Last(tries[Failed]) = Try(e)
      /\ Try(e).end \in {"lost", "late", "failed", "rejected"} /\ e[2] # 1
  <2>1. e[2] = MaxRetries + 1 /\ MaxRetries \in Nat \ {0}
    BY <1>1, <1>2, FailedChild, ReplayAssumption
  <2> QED BY <1>1, <1>2, <2>1, FailedChild
<1>4. /\ Try(e).end \notin {"rejected", "failed"}
      /\ ~(Try(e).end = "late" /\ Kind(Failed, Ordinal(Failed), Try(e).answer) = "succeeded")
  BY <1>1, <1>3 DEF NaturalRejection
<1>5. Try(e).end # "lost"
  <2>1. SUFFICES ASSUME Try(e).end = "lost" PROVE FALSE
    OBVIOUS
  <2>2. EndOf(e[1], e[2], Try(e).answer, Try(e).slow) = "lost" /\ Try(e).slow \in BOOLEAN
    BY <2>1, TryFits DEF Tries
  <2> QED BY <1>3, <2>2, LostIsFirst
<1> QED BY <1>1, <1>3, <1>4, <1>5

\* The causes are few.
LEMMA CausesAreFew == IsFiniteSet(Causes)
<1>1. Causes \subseteq {"provider_transport_exhausted"} \cup {"model_parse_exhausted"} \cup {"model_verification_exhausted"}
  BY DEF Causes, Cause
<1>2. IsFiniteSet({"provider_transport_exhausted"} \cup {"model_parse_exhausted"} \cup {"model_verification_exhausted"})
  BY FS_Singleton, FS_Union
<1> QED BY <1>1, <1>2, FS_Subset

\* The origin of a failed root.
LEMMA Origins == ReplayInv => OriginIsTheChilds
<1> SUFFICES ASSUME ReplayInv, ending = "failed", FailureOrigin # "mixed_candidate_acquisition_failure",
                    NEW e \in Executed, e[1] = Failed
             PROVE  Cause(e) = FailureOrigin
  BY DEF OriginIsTheChilds
<1>1. Cardinality(Causes) = 1
  BY DEF FailureOrigin
<1>2. PICK o : Causes = {o}
  BY <1>1, CausesAreFew, FS_Singleton
<1>3. FailureOrigin = o
  BY <1>1, <1>2 DEF FailureOrigin
<1>4. Explained(e)
  BY FailedChild DEF Explained
<1>5. Cause(e) # "none"
  <2>1. Try(e).end \in {"lost", "late", "failed", "rejected"}
    BY FailedChild
  <2> QED BY <2>1 DEF Cause
<1>6. Cause(e) \in Causes
  BY <1>4, <1>5 DEF Causes
<1> QED BY <1>2, <1>3, <1>6

\* A route that is not reached decides nothing; another is the last.
LEMMA RequeueRoutes ==
  ASSUME ReplayInv, ~On("requeue")
  PROVE  /\ RouteStatus("requeue") = "applied" <=> ending = "requeue_refused"
         /\ RouteStatus("requeue") = "preempted_by_merge_first" <=> ending = "premature"
<1>1. routes \in Seq(RouteRecords) /\ \A i \in DOMAIN routes : routes[i].status \in Statuses
  <2>1. routes \in Seq(RouteRecords)
    BY DEF ReplayInv, ReplayTypes
  <2>2. \A i \in DOMAIN routes : routes[i] \in RouteRecords
    BY <2>1
  <2> QED BY <2>1, <2>2 DEF RouteRecords
<1>2. RouteStatus("requeue") = IF Decided = {} THEN "missing" ELSE routes[Max(Decided)].status
  BY DEF RouteStatus
<1>3. CASE Decided = {}
  <2>1. ending \notin {"requeue_refused", "premature"}
    <3>1. SUFFICES ASSUME ending \in {"requeue_refused", "premature"} PROVE FALSE
      OBVIOUS
    <3>2. routes # <<>> /\ routes[Len(routes)].status # "not_reached"
      BY <3>1 DEF ReplayInv, RoutesFit
    <3>3. Len(routes) \in DOMAIN routes
      BY <1>1, <3>2
    <3> QED BY <1>3, <3>2, <3>3 DEF Decided
  <2> QED BY <1>2, <1>3, <2>1
<1>4. CASE Decided # {}
  <2>1. PICK i \in DOMAIN routes : routes[i].status # "not_reached" /\ i = Len(routes)
    BY <1>4 DEF ReplayInv, RoutesFit, Decided
  <2>2. Decided = {i}
    BY <2>1 DEF ReplayInv, RoutesFit, Decided
  <2>3. Max({i}) = i
    <3>1. i \in Nat
      BY <1>1
    <3> QED BY <3>1 DEF Max
  <2>4. RouteStatus("requeue") = routes[i].status
    BY <1>2, <1>4, <2>2, <2>3
  <2> QED BY <1>1, <2>1, <2>4 DEF ReplayInv, RoutesFit, Statuses
<1> QED BY <1>3, <1>4

\* The last merge before a recovery decides.
LEMMA MergeRoutes ==
  ASSUME ReplayInv
  PROVE  RouteStatus("merge_gate") = "applied" <=> ending = "premature"
<1>1. merges \in Seq(MergeRecords) /\ DOMAIN merges = 1..Len(merges) /\ Len(merges) \in Nat
  BY DEF ReplayInv, ReplayTypes
<1>2. RouteStatus("merge_gate") =
        IF Premerges = {} THEN "missing"
        ELSE IF merges[Max(Premerges)].outcome = "not_attempted" THEN "not_reached" ELSE "applied"
  BY DEF RouteStatus
<1>3. Premerges \in SUBSET (0..Len(merges))
  BY <1>1 DEF Premerges
<1>4. Premerges # {} => Max(Premerges) \in Premerges /\ \A i \in Premerges : i <= Max(Premerges)
  BY <1>1, <1>3, GreatestOf
<1>5. ASSUME ending = "premature" PROVE RouteStatus("merge_gate") = "applied"
  <2>1. merges # <<>> /\ merges[Len(merges)].boundary = "recovery_premerge" /\ merges[Len(merges)].outcome # "not_attempted"
    BY <1>5 DEF ReplayInv, MergesFit
  <2>2. Len(merges) \in Premerges
    BY <1>1, <2>1 DEF Premerges
  <2>3. Max(Premerges) = Len(merges)
    <3>1. PICK m \in Premerges : m = Max(Premerges) /\ Len(merges) <= m
      BY <1>4, <2>2
    <3>2. m \in 0..Len(merges)
      BY <1>3
    <3> QED BY <1>1, <3>1, <3>2
  <2> QED BY <1>2, <2>1, <2>2, <2>3
<1>6. ASSUME RouteStatus("merge_gate") = "applied" PROVE ending = "premature"
  <2>1. Premerges # {} /\ merges[Max(Premerges)].outcome # "not_attempted"
    BY <1>2, <1>6
  <2>2. Max(Premerges) \in DOMAIN merges /\ merges[Max(Premerges)].boundary = "recovery_premerge"
    BY <1>4, <2>1 DEF Premerges
  <2> QED BY <2>1, <2>2 DEF ReplayInv, MergesFit
<1> QED BY <1>5, <1>6

\* A replacement that was refused is that of a challenged attempt, or of one
\* that came after it.
LEMMA StuckIsInjected ==
  ASSUME ReplayInv, plan.exp = "exp4", plan.kind = "RECOVERABLE_NO_RETURN", ending = "requeue_refused"
  PROVE  Injected # {}
<1>1. tries[1] # <<>>
  <2>1. PICK c \in Children : phase[c] = "requeue"
    BY DEF ReplayInv, EndingsFit
  <2>2. tries[c] # <<>>
    BY <2>1 DEF ReplayInv, AttemptsFit
  <2> QED BY <2>2 DEF ReplayInv, AttemptsFit, Children
<1>2. 1 \in Children /\ Ordinal(1) >= 1
  <2>1. tries[1] \in Seq(Tries)
    BY DEF ReplayInv, ReplayTypes, Children
  <2> QED BY <1>1, <2>1 DEF Ordinal, Children
<1>3. PICK e : e = <<1, 1>>
  OBVIOUS
<1>4. e \in Executed /\ e[1] = 1 /\ e[2] = 1
  BY <1>2, <1>3, ReplayAssumption DEF Executed
<1>5. Applies(e[1], e[2])
  BY <1>4 DEF Applies, ReplayInv, ReplayTypes, Planned
<1>6. RecordOf(e).injected
  BY <1>5, ChallengeRecords DEF RecordOf, Losses
<1> QED BY <1>4, <1>6 DEF Injected

\* A rate is at most one.
LEMMA RatesFit ==
  ASSUME ReplayInv, plan.exp = "exp4", NEW r \in Applicable
  PROVE  Numerator[r] <= Denominator[r]
<1>1. IsFiniteSet(Executed)
  <2>1. IsFiniteSet(Children) /\ IsFiniteSet(1..(MaxRetries + 1))
    <3>1. Children = 1..2
      BY DEF Children
    <3>2. 1 \in Int /\ 2 \in Int /\ MaxRetries + 1 \in Int
      BY ReplayAssumption
    <3>3. IsFiniteSet(1..2) /\ IsFiniteSet(1..(MaxRetries + 1))
      BY <3>2, FS_Interval
    <3> QED BY <3>1, <3>3
  <2>2. IsFiniteSet(Children \X (1..(MaxRetries + 1)))
    BY <2>1, FS_Product
  <2>3. Executed \in SUBSET (Children \X (1..(MaxRetries + 1)))
    BY DEF Executed
  <2> QED BY <2>2, <2>3, FS_Subset
<1>2. CASE r = "wrong_canonical"
  <2>1. IsFiniteSet(Wrong)
    <3>1. Wrong \in SUBSET Executed
      BY DEF Wrong, Injected
    <3> QED BY <1>1, <3>1, FS_Subset
  <2>2. Cardinality(Wrong) \in Nat /\ (WrongBound # {} => Cardinality(Wrong) # 0)
    <3>1. WrongBound \subseteq Wrong
      BY DEF WrongBound
    <3> QED BY <2>1, <3>1, FS_CardinalityType, FS_EmptySet
  <2> QED BY <1>2, <2>2 DEF Numerator, Denominator, Once
<1>3. CASE r = "raw_only"
  <2>1. RawAccepted # {} => RawExposed # {}
    BY DEF RawAccepted
  <2> QED BY <1>3, <2>1 DEF Numerator, Denominator, Once
<1>4. CASE r = "stuck"
  <2>1. plan.kind = "RECOVERABLE_NO_RETURN" /\ ~On("requeue")
    BY <1>4 DEF Applicable
  <2>2. RouteStatus("requeue") = "applied" => Injected # {}
    BY <2>1, RequeueRoutes, StuckIsInjected
  <2> QED BY <1>4, <2>2 DEF Numerator, Denominator, Once
<1> QED BY <1>2, <1>3, <1>4 DEF Applicable

\* An ablation is credited with the end of a run if and only if it ended it.
LEMMA Routes == ReplayInv => RoutesExplained
<1> SUFFICES ASSUME ReplayInv, RunEnded, plan.exp = "exp4"
             PROVE  /\ ~On("requeue") =>
                         /\ Replaced = {}
                         /\ RouteStatus("requeue") = "applied" <=> ending = "requeue_refused"
                         /\ RouteStatus("requeue") = "preempted_by_merge_first" <=> ending = "premature"
                    /\ ~On("merge_gate") =>
                         /\ RouteStatus("merge_gate") = "applied" <=> ending = "premature"
                         /\ ending = "requeue_refused" => MergeReady
                    /\ \A e \in Executed :
                         RecordOf(e).injected /\ plan.kind \notin Losses =>
                           /\ ~On("parser_policy") => RouteStatus("parser_policy") = "applied"
                           /\ ~On("verification") /\ Escaped(e) => RouteStatus("verification") = "applied"
                    /\ ending \in {"requeue_refused", "premature"} => plan.off \cap {"requeue", "merge_gate"} # {}
                    /\ \A r \in Applicable : Numerator[r] <= Denominator[r]
  BY DEF RoutesExplained
<1>1. ~On("requeue") => Replaced = {}
  <2>1. SUFFICES ASSUME ~On("requeue"), NEW e \in Replaced PROVE FALSE
    OBVIOUS
  <2>2. e \in Executed /\ <<e[1], e[2] + 1>> \in Executed
    BY <2>1 DEF Replaced
  <2>3. e[1] \in Children /\ e[2] \in Nat \ {0} /\ e[2] + 1 <= Ordinal(e[1]) /\ Ordinal(e[1]) \in Nat
    BY <2>2, TryFits DEF Executed
  <2>4. Ordinal(e[1]) <= 1
    BY <2>1, <2>3 DEF ReplayInv, BudgetFits
  <2> QED BY <2>3, <2>4
<1>2. ~On("merge_gate") /\ ending = "requeue_refused" => MergeReady
  BY DEF ReplayInv, EndingsFit
<1>3. ASSUME NEW e \in Executed, RecordOf(e).injected, plan.kind \notin Losses
      PROVE  /\ ~On("parser_policy") => RouteStatus("parser_policy") = "applied"
             /\ ~On("verification") /\ Escaped(e) => RouteStatus("verification") = "applied"
  <2>1. /\ Applies(e[1], e[2]) /\ RecordOf(e) # NoRecord
        /\ IsJson(Try(e).answer) \/ HasCandidate(Try(e).answer)
    BY <1>3, ChallengeRecords DEF RecordOf
  <2>2. e \in TargetTries
    BY <2>1 DEF TargetTries, Applies
  <2>3. ASSUME ~On("parser_policy") PROVE RouteStatus("parser_policy") = "applied"
    <3>1. ParserRecord(Try(e).answer) = "bypassed"
      BY <2>1, <2>3 DEF HasCandidate, IsJson, IsText, ParserRecord
    <3> QED BY <2>2, <3>1 DEF RouteStatus
  <2>4. ASSUME Escaped(e) PROVE RouteStatus("verification") = "applied"
    BY <2>1, <2>2, <2>4 DEF RouteStatus
  <2> QED BY <2>3, <2>4
<1>4. ending \in {"requeue_refused", "premature"} => plan.off \cap {"requeue", "merge_gate"} # {}
  BY DEF ReplayInv, RoutesFit, MergesFit, On
<1>5. \A r \in Applicable : Numerator[r] <= Denominator[r]
  BY RatesFit
<1> QED BY <1>1, <1>2, <1>3, <1>4, <1>5, RequeueRoutes, MergeRoutes

-----------------------------------------------------------------------------
(* The properties.                                                         *)

\* There is one run the projector refuses: the last attempt of a child failed,
\* and its submission came after the lease had expired.
THEOREM ReplayRefusesOnlyLateFailures == ReplaySpec => []OnlyLateFailuresAreRefused
<1> QED BY ReplayInvariance, RefusedRoots, PTL

\* A failed root names one cause only if every attempt of the failed child came
\* to nothing by it.
THEOREM ReplayOriginIsTheChilds == ReplaySpec => []OriginIsTheChilds
<1> QED BY ReplayInvariance, Origins, PTL

\* While the mode verifies, no fault and no challenge gets through.
THEOREM ReplayWrongNeedsAblation == ReplaySpec => []WrongNeedsAblation
<1> QED BY ReplayInvariance, VerifiedRoots, PTL

\* An ablation is credited with the end of a run if and only if it ended it,
\* and no rate exceeds one.
THEOREM ReplayRoutesExplained == ReplaySpec => []RoutesExplained
<1> QED BY ReplayInvariance, Routes, PTL
-----------------------------------------------------------------------------
(* A Lean root: what is remembered, carried and bound.                     *)

Flights  == {"none", "sent", "nothing", "accepted", "rejected", "broken", "unchecked"}
LeanEnds == {"planned", "running", "blocked", "dependency", "infrastructure", "failed", "completed", "incomplete"}

LeanTypes ==
  /\ deps \in [Nodes -> SUBSET Nodes] /\ root \in Nodes
  /\ retries \in [Nodes -> Nat] /\ flight \in [Nodes -> Flights] /\ DOMAIN carried = Nodes
  /\ memory \in [Nodes -> Nat] /\ canonical \in [Nodes -> Nat]
  /\ outcome \in LeanEnds /\ early \subseteq {"incomplete"}

\* Nothing is under way for a node that is completed, and what is under way
\* waits for completed nodes.
FlightsFit ==
  \A n \in Nodes :
    /\ canonical[n] # 0 => flight[n] = "none"
    /\ flight[n] # "none" \/ canonical[n] # 0 => deps[n] \subseteq Done

\* While the mode verifies, an accepted proof is the one that is remembered,
\* the memory of a completed node is its canonical proof, and requests carry
\* canonical proofs; otherwise nothing is remembered.
MemoryFits ==
  \A n \in Nodes :
    /\ Active("verification") =>
         /\ flight[n] # "unchecked"
         /\ flight[n] = "accepted" => memory[n] = AttemptOf(n)
         /\ canonical[n] # 0 => memory[n] = canonical[n]
         /\ flight[n] # "none" \/ canonical[n] # 0 => \A d \in deps[n] : carried[n][d] = canonical[d]
    /\ ~Active("verification") => flight[n] # "accepted" /\ memory[n] = 0

\* A root completes over bound and checked proofs, and comes to a dead end or
\* merges before its time only without verification.
EndsFit ==
  /\ outcome = "completed" => Active("verification") /\ Done = Nodes
  /\ outcome \in {"dependency", "incomplete"} => ~Active("verification")
  /\ early \subseteq {"incomplete"}

LeanInv == LeanTypes /\ FlightsFit /\ MemoryFits /\ EndsFit

\* What a merge may come to.
LEMMA LeanMerges ==
  ASSUME LeanInv
  PROVE  /\ Done # Required => BuildLeanMerge(Done) = {"incomplete"}
         /\ Done = Required /\ Active("verification") => "incomplete" \notin BuildLeanMerge(Done)
         /\ "accepted" \in BuildLeanMerge(Done) => Done = Required /\ Active("verification")
         /\ BuildLeanMerge(Done) \subseteq {"incomplete", "broken", "accepted", "rejected"}
<1>1. Active("verification") => Done \subseteq Remembered
  BY DEF LeanInv, MemoryFits, Done, Remembered
<1>2. ~Active("verification") => Remembered # Required
  BY DEF LeanInv, LeanTypes, MemoryFits, Remembered, Required
<1>3. Remembered \subseteq Nodes
  BY DEF Remembered
<1>4. RootVerdicts \subseteq {"broken", "accepted", "rejected"}
  BY DEF RootVerdicts, ChildVerdicts, GraphVerdicts
<1> QED BY <1>1, <1>2, <1>3, <1>4 DEF BuildLeanMerge, Required

LEMMA LeanInvInit == LeanInit => LeanInv
<1> SUFFICES ASSUME LeanInit PROVE LeanInv
  OBVIOUS
<1>1. LeanTypes
  BY DEF LeanInit, LeanTypes, Flights, LeanEnds
<1>2. FlightsFit /\ MemoryFits
  BY DEF LeanInit, FlightsFit, MemoryFits, Done
<1>3. EndsFit
  BY DEF LeanInit, EndsFit
<1> QED BY <1>1, <1>2, <1>3 DEF LeanInv

LEMMA LeanInvStep == LeanInv /\ [LeanNext]_leanVars => LeanInv'
<1> SUFFICES ASSUME LeanInv, [LeanNext]_leanVars PROVE LeanInv'
  OBVIOUS
<1> USE DEF LeanInv
<1>1. CASE UNCHANGED leanVars
  BY <1>1 DEF leanVars, LeanTypes, FlightsFit, MemoryFits, EndsFit, Done, Active, AttemptOf
<1>2. CASE SplitPlan
  <2>1. LeanTypes' /\ FlightsFit' /\ MemoryFits'
    BY <1>2 DEF SplitPlan, leanPlan, LeanTypes, LeanEnds, FlightsFit, MemoryFits, Done, Active, AttemptOf
  <2>2. EndsFit'
    BY <1>2 DEF SplitPlan, leanPlan, EndsFit
  <2> QED BY <2>1, <2>2
<1>3. ASSUME NEW n \in Nodes, Prepare(n) PROVE LeanInv'
  <2>1. LeanTypes'
    BY <1>3 DEF Prepare, leanPlan, LeanTypes, LeanEnds, Flights
  <2>2. FlightsFit'
    BY <1>3 DEF Prepare, leanPlan, LeanTypes, FlightsFit, Done, Awaits
  <2>3. MemoryFits'
    BY <1>3 DEF Prepare, leanPlan, LeanTypes, MemoryFits, Done, Awaits, Active, AttemptOf, DependencySources
  <2>4. EndsFit'
    BY <1>3 DEF Prepare, leanPlan, EndsFit, MemoryFits, LeanTypes, Done, Remembered, Active, Awaits
  <2> QED BY <2>1, <2>2, <2>3, <2>4
<1>4. ASSUME NEW n \in Nodes, Execute(n) PROVE LeanInv'
  <2>1. PICK result \in BridgeResults :
          /\ flight' = [flight EXCEPT ![n] = result]
          /\ memory' = IF result = "accepted" THEN [memory EXCEPT ![n] = AttemptOf(n)] ELSE memory
    BY <1>4 DEF Execute
  <2>2. /\ result \in Flights \ {"none", "sent"} /\ (Active("verification") => result # "unchecked")
        /\ (~Active("verification") => result # "accepted")
    BY DEF BridgeResults, CheckerVerdicts, Flights
  <2>3. AttemptOf(n) \in Nat
    BY DEF AttemptOf, LeanTypes
  <2>4. LeanTypes'
    BY <1>4, <2>1, <2>2, <2>3 DEF Execute, leanPlan, LeanTypes
  <2>5. FlightsFit'
    BY <1>4, <2>1, <2>2 DEF Execute, leanPlan, LeanTypes, FlightsFit, Done
  <2>6. MemoryFits'
    BY <1>4, <2>1, <2>2 DEF Execute, leanPlan, LeanTypes, FlightsFit, MemoryFits, Done, Active, AttemptOf
  <2>7. EndsFit'
    BY <1>4 DEF Execute, leanPlan, EndsFit, LeanTypes
  <2> QED BY <2>4, <2>5, <2>6, <2>7
<1>5. ASSUME NEW n \in Nodes, Bind(n) PROVE LeanInv'
  <2>1. AttemptOf(n) \in Nat \ {0}
    BY DEF AttemptOf, LeanTypes
  <2>2. LeanTypes'
    BY <1>5, <2>1 DEF Bind, leanPlan, LeanTypes, Flights
  <2>3. FlightsFit'
    BY <1>5, <2>1 DEF Bind, Verified, leanPlan, LeanTypes, FlightsFit, Done
  <2>4. MemoryFits'
    BY <1>5, <2>1 DEF Bind, Verified, leanPlan, LeanTypes, FlightsFit, MemoryFits, Done, Active, AttemptOf
  <2>5. EndsFit'
    BY <1>5 DEF Bind, leanPlan, EndsFit, LeanTypes
  <2> QED BY <2>2, <2>3, <2>4, <2>5
<1>6. ASSUME NEW n \in Nodes, Break(n) PROVE LeanInv'
  <2>1. LeanTypes' /\ FlightsFit' /\ MemoryFits'
    BY <1>6 DEF Break, leanPlan, LeanTypes, LeanEnds, FlightsFit, MemoryFits, Done, Active, AttemptOf
  <2>2. EndsFit'
    BY <1>6 DEF Break, leanPlan, EndsFit, LeanTypes
  <2> QED BY <2>1, <2>2
<1>7. ASSUME NEW n \in Nodes, Recover(n) PROVE LeanInv'
  <2>1. n \notin Done
    BY <1>7 DEF Recover, FlightsFit, Done
  <2>2. early' \subseteq {"incomplete"}
    BY <1>7, <2>1, LeanMerges DEF Recover, LeanTypes, Required
  <2>3. outcome' \in {"running", "failed"}
    BY <1>7 DEF Recover
  <2>4. LeanTypes'
    BY <1>7, <2>2, <2>3 DEF Recover, leanPlan, LeanTypes, LeanEnds, Flights
  <2>5. FlightsFit'
    BY <1>7, <2>1 DEF Recover, leanPlan, LeanTypes, FlightsFit, Done
  <2>6. MemoryFits'
    BY <1>7, <2>1 DEF Recover, leanPlan, LeanTypes, MemoryFits, Done, Active, AttemptOf
  <2>7. EndsFit'
    BY <2>2, <2>3 DEF EndsFit
  <2> QED BY <2>4, <2>5, <2>6, <2>7
<1>8. CASE MergeProofs
  <2>1. PICK verdict \in BuildLeanMerge(Done) : outcome' = Ends(verdict)
    BY <1>8 DEF MergeProofs
  <2>2. Done = Required
    BY <1>8 DEF MergeProofs, ProofsReady, Required, Done
  <2>3. verdict \in {"incomplete", "broken", "accepted", "rejected"}
    BY <2>1, LeanMerges
  <2>4. /\ outcome' \in LeanEnds \ {"dependency"}
        /\ (outcome' = "completed" <=> verdict = "accepted") /\ (outcome' = "incomplete" <=> verdict = "incomplete")
    BY <2>1, <2>3 DEF Ends, LeanEnds
  <2>5. LeanTypes' /\ FlightsFit' /\ MemoryFits'
    BY <1>8, <2>4 DEF MergeProofs, leanPlan, LeanTypes, FlightsFit, MemoryFits, Done, Active, AttemptOf
  <2>6. EndsFit'
    <3>1. outcome' = "completed" => Active("verification") /\ Done = Nodes
      BY <2>1, <2>2, <2>4, LeanMerges DEF Required
    <3>2. outcome' = "incomplete" => ~Active("verification")
      BY <2>1, <2>2, <2>4, LeanMerges
    <3> QED BY <1>8, <2>4, <3>1, <3>2 DEF MergeProofs, leanPlan, LeanTypes, EndsFit, Active, Done
  <2> QED BY <2>5, <2>6
<1> QED BY <1>1, <1>2, <1>3, <1>4, <1>5, <1>6, <1>7, <1>8 DEF LeanNext

\* A slot always gets the proof of some node.
LEMMA SlottedNode ==
  ASSUME NEW n \in Nodes
  PROVE  Slotted(n) \in Nodes
<1> DEFINE k == Cardinality(Nodes)
<1>1. k \in Nat /\ Nodes = 1..k
  BY LeanAssumption, FS_CardinalityType
<1> HIDE DEF k
<1>2. n \in 1..k /\ k > 0
  BY <1>1
<1>3. n % k \in 0..(k - 1)
  BY <1>1, <1>2
<1>4. 1 + (n % k) \in 1..k
  BY <1>1, <1>3
<1> QED BY <1>1, <1>4 DEF Slotted, k

\* The slots of a completed root hold canonical proofs, their own with slot
\* integrity.
LEMMA LeanSlots == LeanInv => CompletedIsChecked
<1> SUFFICES ASSUME LeanInv, outcome = "completed", NEW n \in Bodies
             PROVE  /\ Assembled(n).attempt = canonical[Assembled(n).node]
                    /\ Active("slot_integrity") => Assembled(n).node = n
  BY DEF LeanInv, EndsFit, CompletedIsChecked
<1>1. n \in Nodes
  BY DEF Bodies
<1>2. Slotted(n) \in Done
  BY <1>1, SlottedNode DEF LeanInv, EndsFit
<1>3. memory[Slotted(n)] = canonical[Slotted(n)]
  BY <1>2 DEF LeanInv, EndsFit, MemoryFits, Done
<1> QED BY <1>3 DEF Assembled, Slotted

\* What a Lean root stands on is proved: what dependents and the merge read
\* from the adapter's memory is what the engine has bound; a root completes over
\* the canonical, checked proofs of all its nodes alone, each in its own slot
\* unless the slot integrity is off.
THEOREM LeanProofsHold == LeanSpec => []ProofsHold
<1>1. LeanInv => MemoryIsCanonical
  BY DEF LeanInv, LeanTypes, MemoryFits, MemoryIsCanonical, Done
<1>2. LeanInv => ProofsHold
  BY <1>1, LeanSlots DEF ProofsHold
<1> QED BY <1>2, LeanInvInit, LeanInvStep, PTL DEF LeanSpec
=============================================================================
