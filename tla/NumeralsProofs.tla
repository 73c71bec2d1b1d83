--------------------------- MODULE NumeralsProofs ---------------------------
(***************************************************************************)
(* What the functions that write a number write, proved for every width    *)
(* and every argument.                                                     *)
(***************************************************************************)
EXTENDS Numerals, SequenceTheorems, WellFoundedInduction, TLAPS

(***************************************************************************)
(* Numbers.                                                                *)
(***************************************************************************)

(* Induction, for the set of the numbers that have a property. *)
Smaller == {p \in Nat \X Nat : p[1] < p[2]}
LEMMA InductionInSet ==
  ASSUME NEW T \in SUBSET Nat,
         \A n \in Nat : (\A m \in 0..(n - 1) : m \in T) => n \in T
  PROVE  T = Nat
<1>1. IsWellFoundedOn(Smaller, Nat)
  BY NatLessThanWellFounded DEF OpToRel, Smaller
<1> SUFFICES ASSUME Nat \ T # {} PROVE FALSE
  OBVIOUS
<1>2. PICK n \in Nat \ T : \A m \in Nat \ T : <<m, n>> \notin Smaller
  BY <1>1, WFMin
<1>3. ASSUME NEW m \in 0..(n - 1) PROVE m \in T
  <2>1. m \in Nat /\ m < n /\ <<m, n>> \in Nat \X Nat
    BY <1>2
  <2>2. <<m, n>> \in Smaller
    BY <2>1 DEF Smaller
  <2> QED
    BY <1>2, <2>1, <2>2
<1> QED
  BY <1>2, <1>3

(* A function given by recursion exists: up to low it is base, and then    *)
(* each of its values comes from an earlier one.                           *)
Recursion(f, V, n, low, base, from, next) ==
  /\ f \in [0..n -> V]
  /\ \A k \in 0..n : f[k] = IF k < low THEN base ELSE next[<<k, f[from[k]]>>]

HasRecursion(V, n, low, base, from, next) ==
  \E f : Recursion(f, V, n, low, base, from, next)

LEMMA RecursionExists ==
  ASSUME NEW V, NEW n \in Nat, NEW low \in Nat, low >= 1, NEW base \in V,
         NEW from \in [Nat -> Nat], \A k \in Nat : k >= low => from[k] < k,
         NEW next \in [Nat \X V -> V]
  PROVE  HasRecursion(V, n, low, base, from, next)
<1> DEFINE Right(f, m) == Recursion(f, V, m, low, base, from, next)
           T == {m \in Nat : \E f : Right(f, m)}
<1>1. ASSUME NEW m \in Nat, \A l \in 0..(m - 1) : l \in T PROVE m \in T
  <2>1. CASE m = 0
    <3> DEFINE g == [k \in 0..m |-> base]
    <3>1. Right(g, m)
      BY <2>1 DEF Recursion
    <3> QED
      BY <3>1
  <2>2. CASE m # 0
    <3>0. m - 1 \in 0..(m - 1) /\ m - 1 \in Nat
      BY <1>1, <2>2
    <3>1. m - 1 \in T /\ m - 1 \in Nat
      BY <1>1, <3>0
    <3>2. PICK f : Right(f, m - 1)
      BY <3>1
    <3> DEFINE top == IF m < low THEN base ELSE next[<<m, f[from[m]]>>]
               g == [k \in 0..m |-> IF k = m THEN top ELSE f[k]]
    <3>3. f \in [0..(m - 1) -> V]
      BY <3>2 DEF Recursion
    <3>4. m >= low => from[m] \in 0..(m - 1)
      OBVIOUS
    <3>5. top \in V
      <4>1. CASE m < low
        BY <4>1
      <4>2. CASE m >= low
        <5>1. <<m, f[from[m]]>> \in Nat \X V
          BY <1>1, <3>3, <3>4, <4>2
        <5> QED
          BY <1>1, <4>2, <5>1
      <4> QED
        BY <1>1, <4>1, <4>2
    <3>6. g \in [0..m -> V]
      BY <3>1, <3>3, <3>5
    <3>7. /\ g[m] = top
          /\ \A k \in 0..(m - 1) : g[k] = f[k]
      BY <3>1
    <3> HIDE DEF g
    <3>8. ASSUME NEW k \in 0..m
          PROVE  g[k] = IF k < low THEN base ELSE next[<<k, g[from[k]]>>]
      <4>1. k >= low => from[k] \in 0..(m - 1)
        BY <3>1
      <4>2. CASE k = m
        BY <3>7, <4>1, <4>2
      <4>3. CASE k # m
        <5>1. k \in 0..(m - 1)
          BY <4>3
        <5>2. f[k] = IF k < low THEN base ELSE next[<<k, f[from[k]]>>]
          BY <3>2, <5>1 DEF Recursion
        <5> QED
          BY <3>7, <4>1, <5>1, <5>2
      <4> QED
        BY <4>2, <4>3
    <3>9. Right(g, m)
      BY <3>6, <3>8 DEF Recursion
    <3> QED
      BY <3>9
  <2> QED
    BY <2>1, <2>2
<1> HIDE DEF T
<1>2. T = Nat
  BY <1>1, InductionInSet DEF T
<1> QED
  BY <1>2 DEF T, HasRecursion

LEMMA DivisionIs ==
  ASSUME NEW a \in Nat, NEW p \in Nat, p >= 1
  PROVE  /\ a \div p \in Nat /\ a % p \in 0..(p - 1)
         /\ a = (a \div p) * p + (a % p)
OBVIOUS

LEMMA QuotientIs ==
  ASSUME NEW a \in Nat, NEW p \in Nat, p >= 1, NEW q \in Nat, NEW r \in 0..(p - 1),
         a = q * p + r
  PROVE  a \div p = q /\ a % p = r
<1> DEFINE b == a \div p
           s == a % p
<1>1. b \in Nat /\ s \in 0..(p - 1) /\ a = b * p + s
  BY DivisionIs
<1> HIDE DEF b, s
<1>2. CASE b >= q + 1
  <2> DEFINE d == b - q - 1
  <2>1. d \in Nat /\ b = q + 1 + d
    BY <1>1, <1>2
  <2>2. b * p = q * p + p + d * p /\ d * p >= 0
    BY <2>1
  <2> QED
    BY <1>1, <2>2
<1>3. CASE q >= b + 1
  <2> DEFINE d == q - b - 1
  <2>1. d \in Nat /\ q = b + 1 + d
    BY <1>1, <1>3
  <2>2. q * p = b * p + p + d * p /\ d * p >= 0
    BY <1>1, <2>1
  <2> QED
    BY <1>1, <2>2
<1> QED
  BY <1>1, <1>2, <1>3 DEF b, s

(* The digit that a division by 16 p leaves out. *)
LEMMA DivisionStep ==
  ASSUME NEW a \in Nat, NEW p \in Nat, p >= 1
  PROVE  a \div p = 16 * (a \div (16 * p)) + ((a \div p) % 16)
<1> DEFINE q == a \div p
           r == a % p
           q2 == q \div 16
           d == q % 16
<1>1. q \in Nat /\ r \in 0..(p - 1) /\ a = q * p + r
  BY DivisionIs
<1> HIDE DEF q, r
<1>2. q2 \in Nat /\ d \in 0..15 /\ q = 16 * q2 + d
  BY <1>1
<1> HIDE DEF q2, d
<1>3. d * p \in Nat /\ d * p <= 15 * p
  <2>1. d * p = p * d /\ (15 - d) * p >= 0 /\ (15 - d) * p = 15 * p - d * p
    BY <1>2
  <2> QED
    BY <1>2, <2>1
<1>4. d * p + r \in 0..(16 * p - 1)
  BY <1>1, <1>3
<1>5. a = q2 * (16 * p) + (d * p + r)
  BY <1>1, <1>2
<1>6. a \div (16 * p) = q2
  BY <1>2, <1>4, <1>5, QuotientIs
<1> QED
  BY <1>2, <1>6 DEF q, d

LEMMA QuotientBelow ==
  ASSUME NEW a \in Nat, NEW p \in Nat, p >= 1, NEW c \in Nat, a < c * p
  PROVE  a \div p < c
<1> DEFINE q == a \div p
           r == a % p
<1>1. q \in Nat /\ r \in 0..(p - 1) /\ a = q * p + r
  BY DivisionIs
<1> HIDE DEF q, r
<1> SUFFICES ASSUME q >= c PROVE FALSE
  BY <1>1 DEF q
<1>2. q * p = c * p + (q - c) * p /\ (q - c) * p >= 0
  BY <1>1
<1> QED
  BY <1>1, <1>2

(***************************************************************************)
(* The recursive functions of the model.                                   *)
(***************************************************************************)

(* The powers of 16; each of them is 1 modulo 5. *)
LEMMA PowersExist ==
  Power16 = [n \in 0..Digits |-> IF n = 0 THEN 1 ELSE 16 * Power16[n - 1]]
<1> DEFINE Right(f) == f = [n \in 0..Digits |-> IF n = 0 THEN 1 ELSE 16 * f[n - 1]]
           from == [k \in Nat |-> IF k = 0 THEN 0 ELSE k - 1]
           next == [q \in Nat \X Nat |-> 16 * q[2]]
<1>1. Digits \in Nat
  BY NumeralsAssumption DEF Digits
<1>2. /\ from \in [Nat -> Nat] /\ \A k \in Nat : k >= 1 => from[k] = k - 1
      /\ next \in [Nat \X Nat -> Nat] /\ \A k, x \in Nat : next[<<k, x>>] = 16 * x
  OBVIOUS
<1> HIDE DEF from, next
<1>3. PICK f : Recursion(f, Nat, Digits, 1, 1, from, next)
  <2>1. \A k \in Nat : k >= 1 => from[k] < k
    BY <1>2
  <2>2. HasRecursion(Nat, Digits, 1, 1, from, next)
    <3> DEFINE V == Nat
               one == 1
    <3>1. /\ one \in Nat /\ one \in V /\ one >= 1 /\ from \in [Nat -> Nat]
          /\ next \in [Nat \X V -> V] /\ \A k \in Nat : k >= one => from[k] < k
      BY <1>2, <2>1
    <3> HIDE DEF V, one
    <3>2. HasRecursion(V, Digits, one, one, from, next)
      BY <1>1, <3>1, RecursionExists
    <3> QED
      BY <3>2 DEF V, one
  <2> QED
    BY <2>2 DEF HasRecursion
<1>4. Right(f)
  <2>1. f \in [0..Digits -> Nat]
    BY <1>3 DEF Recursion
  <2>2. ASSUME NEW k \in 0..Digits PROVE f[k] = IF k = 0 THEN 1 ELSE 16 * f[k - 1]
    <3>1. f[k] = IF k < 1 THEN 1 ELSE next[<<k, f[from[k]]>>]
      BY <1>3 DEF Recursion
    <3>2. CASE k = 0
      BY <3>1, <3>2
    <3>3. CASE k # 0
      <4>1. k - 1 \in 0..Digits /\ from[k] = k - 1 /\ k \in Nat
        BY <1>1, <1>2, <3>3
      <4>2. f[k - 1] \in Nat
        BY <2>1, <4>1
      <4> QED
        BY <1>2, <3>1, <3>3, <4>1, <4>2
    <3> QED
      BY <3>2, <3>3
  <2> QED
    BY <2>1, <2>2
<1>5. \E g : Right(g)
  BY <1>4
<1>6. Power16 = CHOOSE g : Right(g)
  BY DEF Power16
<1> HIDE DEF Right
<1>7. Right(Power16)
  BY <1>5, <1>6
<1> QED
  BY <1>7 DEF Right

LEMMA Powers ==
  /\ Digits \in Nat /\ Digits >= 2 /\ Power16[0] = 1
  /\ \A n \in 0..Digits : Power16[n] \in Nat /\ Power16[n] >= 1 /\ Power16[n] % 5 = 1
  /\ \A n \in 1..Digits : Power16[n] = 16 * Power16[n - 1]
<1>1. Digits \in Nat /\ Digits >= 2
  BY NumeralsAssumption DEF Digits
<1>2. Power16[0] = 1 /\ \A n \in 1..Digits : Power16[n] = 16 * Power16[n - 1]
  <2>1. ASSUME NEW n \in 0..Digits PROVE Power16[n] = IF n = 0 THEN 1 ELSE 16 * Power16[n - 1]
    BY PowersExist
  <2> QED
    BY <1>1, <2>1
<1> DEFINE Good(x) == x \in Nat /\ x >= 1 /\ x % 5 = 1
           T == {n \in Nat : n <= Digits => Good(Power16[n])}
<1>3. ASSUME NEW n \in Nat, \A m \in 0..(n - 1) : m \in T PROVE n \in T
  <2>1. CASE n = 0
    BY <1>2, <2>1
  <2>2. CASE n # 0 /\ n <= Digits
    <3>1. n - 1 \in 0..(n - 1) /\ n - 1 <= Digits /\ n \in 1..Digits
      BY <1>1, <2>2
    <3>2. Good(Power16[n - 1])
      BY <1>3, <3>1
    <3>3. Power16[n] = 16 * Power16[n - 1]
      BY <1>2, <3>1
    <3> DEFINE x == Power16[n - 1]
               y == Power16[n]
    <3> HIDE DEF x, y
    <3>4. Good(x) /\ y = 16 * x
      BY <3>2, <3>3 DEF x, y
    <3>5. Good(y)
      BY <3>4
    <3> QED
      BY <3>5 DEF y
  <2> QED
    BY <2>1, <2>2
<1> HIDE DEF T
<1>4. T = Nat
  BY <1>3, InductionInSet DEF T
<1>5. ASSUME NEW n \in 0..Digits PROVE Good(Power16[n])
  <2>1. n \in T /\ n <= Digits
    BY <1>1, <1>4
  <2> QED
    BY <2>1 DEF T
<1> QED
  BY <1>1, <1>2, <1>5

(* The range of a number. *)
Half == Range2 \div 2
LEMMA RangeIs ==
  /\ Half \in Nat /\ Half >= 128 /\ Range2 = 2 * Half /\ Half % 5 = 3
  /\ MaxInt = Half - 1 /\ Power16[1] = 16 /\ Power16[2] = 256
<1>1. Digits \in 1..Digits /\ 1 \in 1..Digits /\ 2 \in 1..Digits /\ Digits \in 0..Digits
  BY Powers
<1>2. Power16[1] = 16 /\ Power16[2] = 256
  <2>1. Power16[1] = 16 * Power16[1 - 1] /\ Power16[2] = 16 * Power16[2 - 1]
    BY <1>1, Powers
  <2> QED
    BY <2>1, Powers
<1> DEFINE q == Power16[Digits - 1]
<1>3. Range2 = 16 * q /\ q \in Nat /\ Range2 % 5 = 1 /\ q >= 16
  <2>1. Power16[Digits] = 16 * Power16[Digits - 1] /\ Power16[Digits] % 5 = 1
    BY <1>1, Powers
  <2>2. Digits - 1 \in 0..Digits
    BY Powers
  <2>3. q \in Nat /\ q >= 1
    BY <2>2, Powers
  <2>4. q >= 16
    <3>1. Digits - 1 \in 1..Digits /\ Digits - 1 - 1 \in 0..Digits
      BY Powers
    <3>2. q = 16 * Power16[Digits - 1 - 1] /\ Power16[Digits - 1 - 1] >= 1 /\ Power16[Digits - 1 - 1] \in Nat
      BY <3>1, Powers
    <3> QED
      BY <3>2
  <2> QED
    BY <2>1, <2>3, <2>4 DEF Range2
<1> HIDE DEF q
<1>4. Half = 8 * q
  BY <1>3 DEF Half
<1> QED
  BY <1>2, <1>3, <1>4 DEF Half, MaxInt

LEMMA DivisionBy10 ==
  \A k \in Nat : /\ k \div 10 \in Nat /\ k \div 10 <= k /\ k = 10 * (k \div 10) + (k % 10)
                 /\ k % 10 \in 0..9 /\ (k >= 1 => k \div 10 < k)
OBVIOUS

(* The power of ten that a loop starts with. *)
LEMMA TopPowExists ==
  TopPow = [max \in 0..Range2 |-> IF max < 10 THEN 1 ELSE 10 * TopPow[max \div 10]]
<1> DEFINE Right(f) == f = [max \in 0..Range2 |-> IF max < 10 THEN 1 ELSE 10 * f[max \div 10]]
           V == Nat
           low == 10
           one == 1
           from == [k \in Nat |-> k \div 10]
           next == [q \in Nat \X V |-> 10 * q[2]]
<1>1. Range2 \in Nat
  BY RangeIs
<1>2. /\ from \in [Nat -> Nat] /\ \A k \in Nat : from[k] = k \div 10
      /\ \A k \in Nat : k >= low => from[k] < k
      /\ next \in [Nat \X V -> V] /\ \A k \in Nat, x \in V : next[<<k, x>>] = 10 * x
      /\ low \in Nat /\ low >= 1 /\ one \in V
  BY DivisionBy10
<1> HIDE DEF from, next, V, low, one
<1>3. PICK f : Recursion(f, V, Range2, low, one, from, next)
  <2>1. HasRecursion(V, Range2, low, one, from, next)
    BY <1>1, <1>2, RecursionExists
  <2> QED
    BY <2>1 DEF HasRecursion
<1>4. Right(f)
  <2>1. f \in [0..Range2 -> V]
    BY <1>3 DEF Recursion
  <2>2. ASSUME NEW k \in 0..Range2 PROVE f[k] = IF k < 10 THEN 1 ELSE 10 * f[k \div 10]
    <3>1. f[k] = IF k < low THEN one ELSE next[<<k, f[from[k]]>>]
      BY <1>3 DEF Recursion
    <3>2. k \in Nat /\ from[k] = k \div 10 /\ k \div 10 \in 0..Range2
      BY <1>1, <1>2, DivisionBy10
    <3>3. f[k \div 10] \in V
      BY <2>1, <3>2
    <3>4. next[<<k, f[k \div 10]>>] = 10 * f[k \div 10]
      BY <1>2, <3>2, <3>3
    <3> QED
      BY <3>1, <3>2, <3>4 DEF low, one
  <2> QED
    BY <2>1, <2>2
<1>5. \E g : Right(g)
  BY <1>4
<1>6. TopPow = CHOOSE g : Right(g)
  BY DEF TopPow
<1> HIDE DEF Right
<1>7. Right(TopPow)
  BY <1>5, <1>6
<1> QED
  BY <1>7 DEF Right

(* The powers of ten that occur: 1, and 10 times another one; the one for  *)
(* max has as many digits as max.                                          *)
Tens == {TopPow[m] : m \in 0..Range2}
LEMMA TopPowIs ==
  \A m \in 0..Range2 : TopPow[m] \in Nat /\ TopPow[m] >= 1 /\ m < 10 * TopPow[m]
<1>1. Range2 \in Nat
  BY RangeIs
<1> DEFINE Good(m) == TopPow[m] \in Nat /\ TopPow[m] >= 1 /\ m < 10 * TopPow[m]
           T == {m \in Nat : m <= Range2 => Good(m)}
<1>2. ASSUME NEW m \in Nat, \A k \in 0..(m - 1) : k \in T PROVE m \in T
  <2> SUFFICES ASSUME m <= Range2 PROVE Good(m)
    OBVIOUS
  <2>1. TopPow[m] = IF m < 10 THEN 1 ELSE 10 * TopPow[m \div 10]
    BY <1>1, TopPowExists
  <2>2. CASE m < 10
    BY <2>1, <2>2
  <2>3. CASE m >= 10
    <3> DEFINE k == m \div 10
               y == TopPow[m]
               x == TopPow[k]
    <3>1. k \in 0..(m - 1) /\ k <= Range2 /\ m = 10 * k + (m % 10) /\ m % 10 \in 0..9 /\ k \in Nat
      BY <1>1, <2>3, DivisionBy10
    <3>2. Good(k)
      BY <1>2, <3>1
    <3>3. y = 10 * x
      BY <2>1, <2>3
    <3> HIDE DEF x, y, k
    <3>4. x \in Nat /\ x >= 1 /\ k < 10 * x
      BY <3>2 DEF x
    <3>5. y \in Nat /\ y >= 1 /\ m < 10 * y
      BY <3>1, <3>3, <3>4
    <3> QED
      BY <3>5 DEF y
  <2> QED
    BY <2>2, <2>3
<1>3. T = Nat
  <2> HIDE DEF T
  <2>1. T \in SUBSET Nat
    BY DEF T
  <2> QED
    BY <1>2, <2>1, InductionInSet
<1>4. ASSUME NEW m \in 0..Range2 PROVE Good(m)
  <2>1. m \in T /\ m <= Range2
    BY <1>1, <1>3
  <2> QED
    BY <2>1 DEF T
<1> QED
  BY <1>4

LEMMA TensAre ==
  ASSUME NEW p \in Tens
  PROVE  /\ p \in Nat /\ p >= 1
         /\ \/ p = 1 /\ p \div 10 = 0
            \/ p \div 10 \in Tens /\ p = 10 * (p \div 10) /\ p \div 10 >= 1
<1>1. PICK m \in 0..Range2 : p = TopPow[m]
  BY DEF Tens
<1>2. p \in Nat /\ p >= 1
  BY <1>1, TopPowIs
<1>3. p = IF m < 10 THEN 1 ELSE 10 * TopPow[m \div 10]
  BY <1>1, TopPowExists
<1>4. CASE m < 10
  BY <1>3, <1>4
<1>5. CASE m >= 10
  <2> DEFINE x == TopPow[m \div 10]
  <2>1. m \div 10 \in 0..Range2
    BY RangeIs, DivisionBy10
  <2>2. x \in Nat /\ x >= 1 /\ x \in Tens
    BY <2>1, TopPowIs DEF Tens
  <2>3. p = 10 * x
    BY <1>3, <1>5
  <2> HIDE DEF x
  <2>4. p \div 10 = x
    BY <2>2, <2>3
  <2> QED
    BY <1>2, <2>2, <2>3, <2>4
<1> QED
  BY <1>2, <1>4, <1>5

(* The decimal digits of a number. *)
LEMMA DigitsOfExists ==
  /\ DigitsOf = [x \in 0..Range2 |-> IF x < 1 THEN <<>> ELSE Append(DigitsOf[x \div 10], x % 10)]
  /\ \A x \in 0..Range2 : DigitsOf[x] \in Seq(0..9)
<1> DEFINE Right(f) == f = [x \in 0..Range2 |->
                              IF x < 1 THEN <<>> ELSE Append(f[x \div 10], x % 10)]
           V == Seq(0..9)
           low == 1
           none == <<>>
           from == [k \in Nat |-> k \div 10]
           next == [q \in Nat \X V |-> Append(q[2], q[1] % 10)]
<1>1. Range2 \in Nat
  BY RangeIs
<1>a. \A x \in V, d \in 0..9 : Append(x, d) \in V
  OBVIOUS
<1>b. low \in Nat /\ low >= 1 /\ none \in V
  OBVIOUS
<1>c. next \in [Nat \X V -> V] /\ \A k \in Nat, x \in V : next[<<k, x>>] = Append(x, k % 10)
  <2> HIDE DEF V
  <2>1. \A k \in Nat : k % 10 \in 0..9
    BY DivisionBy10
  <2>2. ASSUME NEW q \in Nat \X V PROVE Append(q[2], q[1] % 10) \in V
    <3>1. q[1] \in Nat /\ q[2] \in V
      OBVIOUS
    <3> DEFINE d == q[1] % 10
    <3>2. d \in 0..9
      BY <2>1, <3>1
    <3> HIDE DEF d
    <3>3. Append(q[2], d) \in V
      BY <1>a, <3>1, <3>2
    <3> QED
      BY <3>3 DEF d
  <2> QED
    BY <2>2
<1>2. /\ from \in [Nat -> Nat] /\ \A k \in Nat : from[k] = k \div 10
      /\ \A k \in Nat : k >= low => from[k] < k
  BY DivisionBy10
<1> HIDE DEF from, next, V, low, none
<1>3. PICK f : Recursion(f, V, Range2, low, none, from, next)
  <2>1. HasRecursion(V, Range2, low, none, from, next)
    BY <1>1, <1>b, <1>c, <1>2, RecursionExists
  <2> QED
    BY <2>1 DEF HasRecursion
<1>4. Right(f)
  <2>1. f \in [0..Range2 -> V]
    BY <1>3 DEF Recursion
  <2>2. ASSUME NEW k \in 0..Range2
        PROVE  f[k] = IF k < 1 THEN <<>> ELSE Append(f[k \div 10], k % 10)
    <3>1. f[k] = IF k < low THEN none ELSE next[<<k, f[from[k]]>>]
      BY <1>3 DEF Recursion
    <3>2. k \in Nat /\ from[k] = k \div 10 /\ k \div 10 \in 0..Range2
      BY <1>1, <1>2, DivisionBy10
    <3>3. f[k \div 10] \in V
      BY <2>1, <3>2
    <3>4. next[<<k, f[k \div 10]>>] = Append(f[k \div 10], k % 10)
      BY <1>c, <3>2, <3>3
    <3> QED
      BY <3>1, <3>2, <3>4 DEF low, none
  <2> QED
    BY <2>1, <2>2
<1>5. \E g : Right(g)
  BY <1>4
<1>6. DigitsOf = CHOOSE g : Right(g)
  BY DEF DigitsOf
<1> HIDE DEF Right
<1>7. Right(DigitsOf)
  BY <1>5, <1>6
<1>8. ASSUME NEW g, Right(g) PROVE \A x \in 0..Range2 : g[x] \in V
  <2> DEFINE T == {n \in Nat : n <= Range2 => g[n] \in V}
  <2>1. ASSUME NEW n \in Nat, \A m \in 0..(n - 1) : m \in T PROVE n \in T
    <3> SUFFICES ASSUME n <= Range2 PROVE g[n] \in V
      OBVIOUS
    <3>0. n \in 0..Range2
      BY <1>1
    <3>1. g[n] = IF n < 1 THEN <<>> ELSE Append(g[n \div 10], n % 10)
      BY <1>8, <3>0 DEF Right
    <3>2. CASE n < 1
      BY <3>1, <3>2, <1>b DEF none
    <3>3. CASE n >= 1
      <4>1. n \div 10 \in 0..(n - 1) /\ n \div 10 <= Range2 /\ n % 10 \in 0..9
        BY <1>1, <3>3, DivisionBy10
      <4>2. g[n \div 10] \in V
        BY <2>1, <4>1
      <4> DEFINE d == n % 10
                 r == g[n \div 10]
      <4>3. g[n] = Append(r, d) /\ r \in V /\ d \in 0..9
        BY <3>1, <3>3, <4>1, <4>2
      <4> HIDE DEF d, r
      <4> QED
        BY <4>3, <1>a
    <3> QED
      BY <3>2, <3>3
  <2>2. T = Nat
    <3> HIDE DEF T
    <3>1. T \in SUBSET Nat
      BY DEF T
    <3> QED
      BY <2>1, <3>1, InductionInSet
  <2>3. ASSUME NEW x \in 0..Range2 PROVE g[x] \in V
    <3>1. x \in T /\ x <= Range2
      BY <1>1, <2>2
    <3> QED
      BY <3>1 DEF T
  <2> QED
    BY <2>3
<1> QED
  BY <1>7, <1>8 DEF Right, V

LEMMA DigitsOfIs ==
  ASSUME NEW x \in 0..Range2, NEW m \in 0..Range2, NEW d \in 0..9, x = 10 * m + d
  PROVE  /\ DigitsOf[m] \in Seq(0..9) /\ DigitsOf[0] = <<>>
         /\ x # 0 => DigitsOf[x] = Append(DigitsOf[m], d)
<1>1. x \div 10 = m /\ x % 10 = d
  BY RangeIs
<1>2. 0 \in 0..Range2
  BY RangeIs
<1>3. DigitsOf[x] = IF x < 1 THEN <<>> ELSE Append(DigitsOf[x \div 10], x % 10)
  BY DigitsOfExists
<1>4. DigitsOf[0] = <<>>
  BY <1>2, DigitsOfExists
<1>5. DigitsOf[m] \in Seq(0..9)
  BY DigitsOfExists
<1>6. x # 0 => ~(x < 1)
  OBVIOUS
<1>7. x # 0 => DigitsOf[x] = Append(DigitsOf[m], d)
  <2> SUFFICES ASSUME x # 0 PROVE DigitsOf[x] = Append(DigitsOf[x \div 10], x % 10)
    BY <1>1
  <2> QED
    BY <1>3, <1>6
<1> QED
  BY <1>4, <1>5, <1>7

(* The value of a numeral. *)
LEMMA DigitValueIs ==
  /\ \A c : DigitValue(c) \in Nat
  /\ \A d \in 0..9 : DigitValue(ASCII0 + d) = d /\ DigitValue(d + ASCII0) = d
  /\ \A d \in 10..15 : DigitValue(d + ASCII0) = 99
  /\ \A d \in 0..15 : DigitValue(hexdigit(d)) = d
BY DEF DigitValue, hexdigit, ASCII0, ASCIIA

Counts(f, b, s) ==
  f[0] = 0 /\ \A n \in 1..Len(s) : f[n] = b * f[n - 1] + DigitValue(s[n])
CanCount(b, s) == \E f : Counts(f, b, s)
LEMMA ValueInIs ==
  ASSUME NEW S, NEW s \in Seq(S), NEW b \in Nat
  PROVE  /\ ValueIn(b, s) \in Nat /\ (s = <<>> => ValueIn(b, s) = 0)
         /\ CanCount(b, s) /\ \A f : Counts(f, b, s) => ValueIn(b, s) = f[Len(s)]
<1> DEFINE Right(f) == f = [n \in 0..Len(s) |->
                              IF n = 0 THEN 0 ELSE b * f[n - 1] + DigitValue(s[n])]
           V == Nat
           low == 1
           zero == 0
           from == [k \in Nat |-> IF k = 0 THEN 0 ELSE k - 1]
           digit == [k \in Nat |-> DigitValue(s[k])]
           next == [q \in Nat \X V |-> b * q[2] + digit[q[1]]]
<1>1. Len(s) \in Nat
  OBVIOUS
<1>a. \A k \in Nat : digit[k] \in Nat /\ digit[k] = DigitValue(s[k])
  BY DigitValueIs
<1>b. \A x \in Nat : b * x \in Nat
  OBVIOUS
<1>2. /\ from \in [Nat -> Nat] /\ \A k \in Nat : k >= 1 => from[k] = k - 1
      /\ \A k \in Nat : k >= low => from[k] < k
      /\ low \in Nat /\ low >= 1 /\ zero \in V
  OBVIOUS
<1>c. next \in [Nat \X V -> V] /\ \A k \in Nat, x \in V : next[<<k, x>>] = b * x + digit[k]
  <2> HIDE DEF digit
  <2>1. ASSUME NEW q \in Nat \X V PROVE b * q[2] + digit[q[1]] \in V
    <3>1. q[1] \in Nat /\ q[2] \in Nat
      OBVIOUS
    <3>2. b * q[2] \in Nat /\ digit[q[1]] \in Nat
      BY <1>a, <1>b, <3>1
    <3> QED
      BY <3>2
  <2> QED
    BY <2>1
<1> HIDE DEF from, next, digit, V, low, zero
<1>3. PICK f : Recursion(f, V, Len(s), low, zero, from, next)
  <2>1. HasRecursion(V, Len(s), low, zero, from, next)
    BY <1>1, <1>2, <1>c, RecursionExists
  <2> QED
    BY <2>1 DEF HasRecursion
<1>4. f \in [0..Len(s) -> V] /\ Right(f)
  <2>1. f \in [0..Len(s) -> V]
    BY <1>3 DEF Recursion
  <2>2. ASSUME NEW k \in 0..Len(s)
        PROVE  f[k] = IF k = 0 THEN 0 ELSE b * f[k - 1] + DigitValue(s[k])
    <3>1. f[k] = IF k < low THEN zero ELSE next[<<k, f[from[k]]>>]
      BY <1>3 DEF Recursion
    <3>2. CASE k = 0
      BY <3>1, <3>2 DEF low, zero
    <3>3. CASE k # 0
      <4>1. k \in Nat /\ from[k] = k - 1 /\ k - 1 \in 0..Len(s)
        BY <1>1, <1>2, <3>3
      <4>2. f[k - 1] \in V
        BY <2>1, <4>1
      <4>3. next[<<k, f[k - 1]>>] = b * f[k - 1] + DigitValue(s[k])
        BY <1>a, <1>c, <4>1, <4>2
      <4> QED
        BY <3>1, <3>3, <4>1, <4>3 DEF low
    <3> QED
      BY <3>2, <3>3
  <2> QED
    BY <2>1, <2>2
<1>5. \A g, h : /\ Right(g)
                /\ h[0] = 0
                /\ \A n \in 1..Len(s) : h[n] = b * h[n - 1] + DigitValue(s[n])
                => g[Len(s)] = h[Len(s)]
  <2> SUFFICES ASSUME NEW g, NEW h, Right(g), h[0] = 0,
                      \A n \in 1..Len(s) : h[n] = b * h[n - 1] + DigitValue(s[n])
               PROVE  g[Len(s)] = h[Len(s)]
    OBVIOUS
  <2> DEFINE T == {n \in Nat : n <= Len(s) => g[n] = h[n]}
  <2>1. ASSUME NEW n \in Nat, \A m \in 0..(n - 1) : m \in T PROVE n \in T
    <3> SUFFICES ASSUME n <= Len(s) PROVE g[n] = h[n]
      OBVIOUS
    <3>1. g[n] = IF n = 0 THEN 0 ELSE b * g[n - 1] + DigitValue(s[n])
      BY <1>1
    <3>2. CASE n = 0
      BY <3>1, <3>2
    <3>3. CASE n # 0
      <4>1. n - 1 \in 0..(n - 1) /\ n - 1 <= Len(s) /\ n \in 1..Len(s)
        BY <1>1, <3>3
      <4>2. g[n - 1] = h[n - 1]
        BY <2>1, <4>1
      <4> QED
        BY <3>1, <3>3, <4>1, <4>2
    <3> QED
      BY <3>2, <3>3
  <2>2. T = Nat
    <3> HIDE DEF T
    <3>1. T \in SUBSET Nat
      BY DEF T
    <3> QED
      BY <2>1, <3>1, InductionInSet
  <2>3. Len(s) \in T
    BY <1>1, <2>2
  <2> QED
    BY <2>3
<1> DEFINE v == CHOOSE g : Right(g)
<1>6. ValueIn(b, s) = v[Len(s)]
  BY DEF ValueIn
<1>7. Right(v)
  <2>1. \E g : Right(g)
    BY <1>4
  <2> HIDE DEF Right
  <2> QED
    BY <2>1
<1> HIDE DEF v, Right
<1>8. \A h : Counts(h, b, s) => ValueIn(b, s) = h[Len(s)]
  BY <1>5, <1>6, <1>7 DEF Counts
<1>9. ValueIn(b, s) = f[Len(s)] /\ f[0] = 0 /\ Counts(f, b, s)
  <2>1. Counts(f, b, s)
    BY <1>1, <1>4 DEF Right, Counts
  <2> QED
    BY <1>8, <2>1 DEF Counts
<1>10. f[Len(s)] \in Nat
  BY <1>1, <1>4 DEF V
<1>11. CanCount(b, s)
  BY <1>9 DEF CanCount
<1> QED
  BY <1>8, <1>9, <1>10, <1>11

LEMMA ValueGrows ==
  ASSUME NEW S, NEW s \in Seq(S), NEW c \in S, NEW b \in Nat
  PROVE  ValueIn(b, Append(s, c)) = b * ValueIn(b, s) + DigitValue(c)
<1> DEFINE t == Append(s, c)
<1>1. t \in Seq(S) /\ Len(t) = Len(s) + 1 /\ Len(s) \in Nat /\ t[Len(s) + 1] = c
  OBVIOUS
<1>2. \A n \in 1..Len(s) : t[n] = s[n]
  OBVIOUS
<1> HIDE DEF t
<1>3. PICK f : Counts(f, b, t)
  BY <1>1, ValueInIs DEF CanCount
<1>4. Counts(f, b, s)
  BY <1>1, <1>2, <1>3 DEF Counts
<1>5. ValueIn(b, s) = f[Len(s)] /\ ValueIn(b, t) = f[Len(s) + 1]
  BY <1>1, <1>3, <1>4, ValueInIs
<1>6. Len(s) + 1 \in 1..Len(t) /\ Len(s) + 1 - 1 = Len(s)
  BY <1>1
<1>7. f[Len(s) + 1] = b * f[Len(s) + 1 - 1] + DigitValue(t[Len(s) + 1])
  BY <1>3, <1>6 DEF Counts
<1> QED
  BY <1>1, <1>5, <1>6, <1>7 DEF t

(* A numeral that is being written, and its next digit. *)
Numeral(s, base, x) ==
  /\ s \in Seq(Nat) /\ \A k \in 1..Len(s) : DigitValue(s[k]) < base
  /\ ValueIn(base, s) = x
LEMMA NumeralStarts ==
  ASSUME NEW b \in Nat
  PROVE  Numeral(<<>>, b, 0)
<1> DEFINE none == <<>>
<1>1. none = <<>> /\ none \in Seq(Nat) /\ Len(none) = 0
  OBVIOUS
<1> HIDE DEF none
<1>2. ValueIn(b, none) = 0
  BY <1>1, ValueInIs
<1> QED
  BY <1>1, <1>2 DEF Numeral
LEMMA NumeralGrows ==
  ASSUME NEW s, NEW b \in Nat, NEW x, Numeral(s, b, x), NEW c \in Nat, DigitValue(c) < b
  PROVE  Numeral(Append(s, c), b, b * x + DigitValue(c))
<1>1. s \in Seq(Nat) /\ x = ValueIn(b, s)
  BY DEF Numeral
<1>2. ValueIn(b, Append(s, c)) = b * ValueIn(b, s) + DigitValue(c)
  BY <1>1, ValueGrows
<1>3. ASSUME NEW k \in 1..Len(Append(s, c)) PROVE DigitValue(Append(s, c)[k]) < b
  <2>1. Append(s, c)[k] = IF k = Len(s) + 1 THEN c ELSE s[k]
    BY <1>1
  <2>2. k \in 1..(Len(s) + 1)
    BY <1>1
  <2>3. CASE k = Len(s) + 1
    BY <2>1, <2>3
  <2>4. CASE k # Len(s) + 1
    <3>1. k \in 1..Len(s)
      BY <1>1, <2>2, <2>4
    <3> QED
      BY <2>1, <2>4, <3>1 DEF Numeral
  <2> QED
    BY <2>3, <2>4
<1> QED
  BY <1>1, <1>2, <1>3 DEF Numeral

(***************************************************************************)
(* The invariant.                                                          *)
(***************************************************************************)
TypeInv ==
  /\ fun \in Funs /\ arg \in Arguments(fun) /\ print_zero_flag \in BOOLEAN
  /\ pc \in {"digits", "finish", "done"}

(* Of a decimal number the digits of m have been written. *)
Magnitude == IF arg < 0 THEN -arg ELSE arg
Signs(x) == IF arg < 0 THEN -x ELSE x

(* The digit that stands for d in a negative number: abs takes 2 off it.   *)
Shift(d) == IF d = 0 THEN 0 ELSE d - 2
Shifted(s) == [k \in 1..Len(s) |-> ASCII0 + Shift(s[k])]

Spelled(a, s, m) ==
  /\ a < 0  => s = <<Minus>> \o Shifted(DigitsOf[m])
  /\ a >= 0 => Numeral(s, 10, m) /\ (s = <<>> <=> m = 0) /\ (m # 0 => s[1] # ASCII0)
Written(m) ==
  m \in 0..Magnitude /\ (print_zero_flag <=> m # 0) /\ Spelled(arg, out, m)

(* The loop has written the digits above pow, and value is what is left. *)
DecimalInv ==
  fun \in Decimal =>
    /\ arg < 0 => fun = "printint"
    /\ pc = "digits" => /\ pow \in Tens /\ Written(Magnitude \div (10 * pow))
                        /\ value = Signs(Magnitude % (10 * pow))
    /\ pc = "finish" => Written(Magnitude)
    /\ pc = "done"   => IF arg = 0 THEN out = <<ASCII0>> ELSE Written(Magnitude)

(* The part of the argument that pos digits of n stand for. *)
Above(n) == arg \div Power16[n - pos]

(* printhex writes digits from the first one that is not 0. *)
PrinthexIs(flag, s, x) ==
  /\ flag <=> x # 0
  /\ Numeral(s, 16, x) /\ (Len(s) = 0 <=> x = 0) /\ (Len(s) < 2 <=> x < 16)
PrinthexInv ==
  fun = "printhex" =>
    /\ pc = "digits" => /\ pos \in 0..(Digits - 1)
                        /\ PrinthexIs(print_zero_flag, AfterPrefix, Above(Digits))
    /\ pc = "finish" => PrinthexIs(print_zero_flag, AfterPrefix, arg)
    /\ pc = "done"   => /\ AfterPrefix # <<>>
                        /\ Numeral(AfterPrefix, 16, IF arg < 16 THEN 16 * arg ELSE arg)

(* The others write all of them. *)
Width == IF fun = "hexstr64" THEN Digits ELSE 2
FixedInv ==
  fun \in {"hexstr64", "printbyte"} =>
    /\ pc # "finish" /\ Len(AfterPrefix) = pos
    /\ pc = "digits" => pos \in 0..(Width - 1) /\ Numeral(AfterPrefix, 16, Above(Width))
    /\ pc = "done"   => pos = Width /\ Numeral(AfterPrefix, 16, arg)
Hexstr8Inv ==
  fun = "hexstr8" =>
    /\ pc # "finish"
    /\ pc = "digits" => pos \in {0, 1}
                        /\ AfterPrefix = IF pos = 0 THEN <<>> ELSE <<(arg \div 16) + ASCII0>>
    /\ pc = "done"   => AfterPrefix = <<(arg \div 16) + ASCII0, (arg % 16) + ASCII0>>

PrefixInv ==
  fun \notin Decimal =>
    /\ AfterPrefix \in Seq(Nat) /\ out = Prefix \o AfterPrefix
    /\ fun \notin {"printhex", "hexstr64", "printbyte", "hexstr8"} => pc = "digits"

NInv == /\ TypeInv /\ DecimalInv /\ PrefixInv
        /\ PrinthexInv /\ FixedInv /\ Hexstr8Inv

(***************************************************************************)
(* Sequences.                                                              *)
(***************************************************************************)
Appends(s, t, c) == Append(s \o t, c) = s \o Append(t, c)
LEMMA AppendToJoin ==
  ASSUME NEW S, NEW s \in Seq(S), NEW t \in Seq(S), NEW c \in S
  PROVE  Appends(s, t, c)
<1>1. s \o t \in Seq(S) /\ <<c>> \in Seq(S)
  OBVIOUS
<1>2. Append(s \o t, c) = (s \o t) \o <<c>>
  BY <1>1, AppendIsConcat
<1>3. Append(t, c) = t \o <<c>>
  BY AppendIsConcat
<1> QED
  BY <1>1, <1>2, <1>3, ConcatAssociative DEF Appends

LEMMA FunctionIsSeq ==
  ASSUME NEW S, NEW n \in Nat, NEW f \in [1..n -> S]
  PROVE  f \in Seq(S) /\ Len(f) = n
BY LenProperties

LEMMA ShiftedIs ==
  ASSUME NEW s \in Seq(0..9), NEW d \in 0..9
  PROVE  /\ Shifted(s) \in Seq(Int) /\ (s = <<>> => Shifted(s) = <<>>)
         /\ Shifted(Append(s, d)) = Append(Shifted(s), ASCII0 + Shift(d))
<1> DEFINE t == Append(s, d)
           f == [k \in 1..Len(s) |-> ASCII0 + Shift(s[k])]
           g == [k \in 1..Len(t) |-> ASCII0 + Shift(t[k])]
<1>1. t \in Seq(0..9) /\ Len(t) = Len(s) + 1 /\ Len(s) \in Nat /\ t[Len(s) + 1] = d
  OBVIOUS
<1>2. \A k \in 1..Len(s) : t[k] = s[k]
  OBVIOUS
<1>3. \A e \in 0..9 : ASCII0 + Shift(e) \in Int
  BY DEF ASCII0, Shift
<1>4. f \in [1..Len(s) -> Int] /\ g \in [1..Len(t) -> Int]
  <2> HIDE DEF t
  <2>1. \A k \in 1..Len(s) : s[k] \in 0..9
    OBVIOUS
  <2>2. \A k \in 1..Len(t) : t[k] \in 0..9
    BY <1>1
  <2> QED
    BY <1>3, <2>1, <2>2
<1>5. \A k \in 1..Len(s) : g[k] = f[k]
  <2> HIDE DEF t
  <2> QED
    BY <1>1, <1>2
<1>6. g[Len(s) + 1] = ASCII0 + Shift(d)
  <2> HIDE DEF t
  <2>1. Len(s) + 1 \in 1..Len(t)
    BY <1>1
  <2> QED
    BY <1>1, <2>1
<1>7. Shifted(s) = f /\ Shifted(t) = g
  BY DEF Shifted
<1> HIDE DEF f, g, t
<1>8. f \in Seq(Int) /\ Len(f) = Len(s) /\ g \in Seq(Int) /\ Len(g) = Len(s) + 1
  <2>1. Len(t) \in Nat
    BY <1>1
  <2>2. f \in Seq(Int) /\ Len(f) = Len(s)
    BY <1>1, <1>4, FunctionIsSeq
  <2>3. g \in Seq(Int) /\ Len(g) = Len(t)
    BY <1>4, <2>1, FunctionIsSeq
  <2> QED
    BY <1>1, <2>2, <2>3
<1>9. s = <<>> => f = <<>>
  BY <1>8
<1> DEFINE c == ASCII0 + Shift(d)
<1>10. c \in Int /\ g[Len(s) + 1] = c
  BY <1>3, <1>6
<1> HIDE DEF c
<1>11. g = Append(f, c)
  BY <1>5, <1>8, <1>10, AppendProperties
<1> QED
  BY <1>7, <1>8, <1>9, <1>11 DEF t, c

(***************************************************************************)
(* Decimal numbers.                                                        *)
(***************************************************************************)
LEMMA ArgIs ==
  ASSUME TypeInv
  PROVE  /\ arg \in Int /\ Magnitude \in 0..(Range2 - 1)
         /\ fun = "printint" => Magnitude <= Half
         /\ fun # "printint" => arg >= 0
         /\ fun \in {"printbyte", "hexstr8"} => arg \in 0..255
<1>1. arg \in Arguments(fun)
  BY DEF TypeInv
<1>2. CASE fun = "printint"
  BY <1>1, <1>2, RangeIs DEF Arguments, Signed, Magnitude
<1>3. CASE fun = "printbyte" \/ fun = "hexstr8"
  BY <1>1, <1>3, RangeIs DEF Arguments, Magnitude
<1>4. CASE fun \notin {"printint", "printbyte", "hexstr8"}
  BY <1>1, <1>4, RangeIs DEF Arguments, Unsigned, Magnitude
<1> QED
  BY <1>2, <1>3, <1>4

LEMMA AbsIs ==
  \A d \in 0..9 : abs(d) = d /\ abs(-d) = Shift(d)
<1> SUFFICES ASSUME NEW d \in 0..9 PROVE abs(d) = d /\ abs(-d) = Shift(d)
  OBVIOUS
<1>1. CASE d < 1
  <2>1. d = 0 /\ -d = 0 /\ ~(d < 0) /\ ~(-d < 0)
    BY <1>1
  <2> QED
    BY <2>1 DEF abs, Shift
<1>2. CASE d >= 1
  <2>1. d - 2 + Half \in 0..(Range2 - 1) /\ Range2 \in Nat /\ Range2 >= 1
    BY <1>2, RangeIs
  <2>2. (d - 2 + Half) % Range2 = d - 2 + Half
    <3> DEFINE x == d - 2 + Half
    <3> HIDE DEF x
    <3>1. x = 0 * Range2 + x /\ x \in Nat /\ x \in 0..(Range2 - 1)
      BY <2>1 DEF x
    <3> QED
      BY <2>1, <3>1, QuotientIs DEF x
  <2>3. ToInt(d - 2) = d - 2
    BY <2>2, RangeIs DEF ToInt, Half
  <2>4. -d < 0 /\ (-(-d) - 1) + (-1) = d - 2
    BY <1>2
  <2> QED
    BY <1>2, <2>3, <2>4 DEF abs, Shift
<1> QED
  BY <1>1, <1>2

(* The digit that a turn of the loop writes. *)
LEMMA NextDigit ==
  ASSUME NEW a \in Nat, NEW p \in Nat, p >= 1
  PROVE  /\ a \div (10 * p) \in 0..a /\ a % (10 * p) \in Nat
         /\ (a % (10 * p)) \div p \in 0..9
         /\ a \div p \in 0..a /\ a \div p = 10 * (a \div (10 * p)) + ((a % (10 * p)) \div p)
         /\ a % p = (a % (10 * p)) - ((a % (10 * p)) \div p) * p
<1> DEFINE t == 10 * p
           m == a \div t
           r == a % t
           d == r \div p
           e == r % p
<1>1. t \in Nat /\ t >= 1 /\ t = 10 * p
  OBVIOUS
<1> HIDE DEF t
<1>2. m \in Nat /\ r \in 0..(t - 1) /\ a = m * t + r
  BY <1>1, DivisionIs
<1> HIDE DEF m, r
<1>3. d \in Nat /\ e \in 0..(p - 1) /\ r = d * p + e
  <2>1. r \in Nat
    BY <1>1, <1>2
  <2> QED
    BY <2>1, DivisionIs
<1>4. d < 10
  BY <1>1, <1>2, QuotientBelow
<1> HIDE DEF d, e
<1>5. m * t = 10 * (m * p) /\ m * p \in Nat
  BY <1>1, <1>2
<1>6. (10 * m + d) * p = 10 * (m * p) + d * p
  BY <1>2, <1>3
<1>7. 10 * m + d \in Nat /\ a = (10 * m + d) * p + e
  BY <1>2, <1>3, <1>5, <1>6
<1>8. a \div p = 10 * m + d /\ a % p = e
  BY <1>3, <1>7, QuotientIs
<1>9. 10 * m + d <= a
  <2>1. (10 * m + d) * p = (10 * m + d) + (10 * m + d) * (p - 1) /\ (10 * m + d) * (p - 1) >= 0
    BY <1>2, <1>3
  <2> QED
    BY <1>3, <1>7, <2>1
<1>10. d * p \in Int
  BY <1>3
<1> QED
  BY <1>2, <1>3, <1>4, <1>8, <1>9, <1>10 DEF t, m, r, d

LEMMA QuotIs ==
  ASSUME NEW r \in Nat, NEW p \in Nat, p >= 1
  PROVE  Quot(r, p) = r \div p /\ Quot(-r, p) = -(r \div p)
<1>1. CASE r < 1
  <2>1. r = 0 /\ r = 0 * p + r /\ r \in 0..(p - 1) /\ 0 \in Nat /\ -r = 0
    BY <1>1
  <2>2. r \div p = 0
    BY <2>1, QuotientIs
  <2> QED
    BY <2>1, <2>2 DEF Quot
<1>2. CASE r >= 1
  BY <1>2 DEF Quot
<1> QED
  BY <1>1, <1>2

LEMMA SpelledStarts ==
  /\ \A a \in Int : a >= 0 => Spelled(a, <<>>, 0)
  /\ \A a \in Int : a < 0  => Spelled(a, <<Minus>>, 0)
<1>1. DigitsOf[0] = <<>>
  <2>1. 0 \in 0..Range2 /\ 0 = 10 * 0 + 0 /\ 0 \in 0..9
    BY RangeIs
  <2> QED
    BY <2>1, DigitsOfIs
<1>2. Shifted(DigitsOf[0]) = <<>>
  <2> DEFINE none == DigitsOf[0]
  <2>1. none \in Seq(0..9) /\ none = <<>> /\ 0 \in 0..9
    BY <1>1
  <2> HIDE DEF none
  <2>2. Shifted(none) = <<>>
    BY <2>1, ShiftedIs
  <2> QED
    BY <2>2 DEF none
<1>3. <<Minus>> \o <<>> = <<Minus>>
  BY DEF Minus
<1>4. Numeral(<<>>, 10, 0)
  BY NumeralStarts
<1> QED
  BY <1>2, <1>3, <1>4 DEF Spelled

LEMMA SpelledGrows ==
  ASSUME NEW a \in Int, NEW s, NEW m \in 0..Range2, Spelled(a, s, m),
         NEW d \in 0..9, 10 * m + d \in 0..Range2, 10 * m + d # 0
  PROVE  Spelled(a, Append(s, ASCII0 + (IF a < 0 THEN Shift(d) ELSE d)), 10 * m + d)
<1>1. CASE a < 0
  <2> DEFINE w == DigitsOf[m]
             c == ASCII0 + Shift(d)
             one == <<Minus>>
  <2>1. DigitsOf[10 * m + d] = Append(w, d) /\ w \in Seq(0..9)
    BY DigitsOfIs
  <2> HIDE DEF w
  <2>2. Shifted(Append(w, d)) = Append(Shifted(w), c) /\ Shifted(w) \in Seq(Int)
    BY <2>1, ShiftedIs
  <2>3. c \in Int /\ one \in Seq(Int)
    BY DEF Shift, ASCII0, Minus
  <2> HIDE DEF c, one
  <2>4. s = one \o Shifted(w)
    BY <1>1 DEF Spelled, one, w
  <2>5. Append(s, c) = one \o Append(Shifted(w), c)
    <3> DEFINE z == Shifted(w)
               S == Int
    <3>1. z \in Seq(S) /\ s = one \o z /\ one \in Seq(S) /\ c \in S
      BY <2>2, <2>3, <2>4
    <3> HIDE DEF z, S
    <3>2. Appends(one, z, c)
      BY <3>1, AppendToJoin
    <3> QED
      BY <3>1, <3>2 DEF z, Appends
  <2> QED
    BY SMTT(30), <1>1, <2>1, <2>2, <2>5 DEF Spelled, c, one
<1>2. CASE a >= 0
  <2> DEFINE c == ASCII0 + d
  <2>1. c \in Nat /\ DigitValue(c) = d /\ d < 10 /\ (c = ASCII0 => d = 0)
    BY DigitValueIs DEF ASCII0
  <2> HIDE DEF c
  <2>2. Numeral(s, 10, m) /\ (s = <<>> <=> m = 0) /\ (m # 0 => s[1] # ASCII0)
    BY <1>2 DEF Spelled
  <2>3. Numeral(Append(s, c), 10, 10 * m + d)
    <3>1. 10 \in Nat /\ DigitValue(c) < 10
      BY <2>1
    <3>2. Numeral(Append(s, c), 10, 10 * m + DigitValue(c))
      BY <2>1, <2>2, <3>1, NumeralGrows
    <3> QED
      BY <2>1, <3>2
  <2>4. s \in Seq(Nat)
    BY <2>2 DEF Numeral
  <2>5. Append(s, c) # <<>>
    <3>1. Len(Append(s, c)) = Len(s) + 1 /\ Len(s) \in Nat
      BY <2>1, <2>4, AppendProperties
    <3>2. Len(<<>>) = 0
      OBVIOUS
    <3> QED
      BY <3>1, <3>2
  <2>6. Append(s, c)[1] # ASCII0
    <3>1. CASE m = 0
      BY <2>1, <2>2, <2>4, <3>1
    <3>2. CASE m # 0
      <4>1. s # <<>>
        BY <2>2, <3>2
      <4>2. Append(s, c)[1] = s[1]
        BY <2>1, <2>4, <4>1
      <4> QED
        BY <2>2, <3>2, <4>2
    <3> QED
      BY <3>1, <3>2
  <2>7. ~(a < 0)
    BY <1>2
  <2> QED
    BY <1>2, <2>3, <2>5, <2>6, <2>7 DEF Spelled, c
<1> QED
  BY <1>1, <1>2

(* The type invariant; every step keeps the call.                          *)
LEMMA Typed == Spec => []TypeInv
<1>1. Init => TypeInv
  BY DEF Init, TypeInv
<1>2. TypeInv /\ [Next]_vars => TypeInv'
  <2> SUFFICES ASSUME TypeInv, [Next]_vars PROVE TypeInv'
    OBVIOUS
  <2>1. ASSUME DecimalDigit PROVE TypeInv'
    BY <2>1 DEF DecimalDigit, Shown, TypeInv
  <2>2. ASSUME DecimalEnd PROVE TypeInv'
    BY <2>2 DEF DecimalEnd, TypeInv
  <2>3. ASSUME PrinthexDigit PROVE TypeInv'
    BY <2>3 DEF PrinthexDigit, TypeInv
  <2>4. ASSUME PrinthexEnd PROVE TypeInv'
    BY <2>4 DEF PrinthexEnd, TypeInv
  <2>5. ASSUME FixedDigit PROVE TypeInv'
    BY <2>5 DEF FixedDigit, TypeInv
  <2>6. ASSUME UNCHANGED vars PROVE TypeInv'
    BY <2>6 DEF vars, TypeInv
  <2> QED
    BY <2>1, <2>2, <2>3, <2>4, <2>5, <2>6 DEF Next
<1> QED
  BY <1>1, <1>2, PTL DEF Spec

(* The first power of ten is the one of the highest digit: for printint    *)
(* also of the number that is one larger than any positive one, as that is *)
(* not 10 times a power of ten.                                            *)
LEMMA TopPowIsEnough ==
  ASSUME Init, fun \in Decimal
  PROVE  pow \in Tens /\ Magnitude < 10 * pow
<1>1. TypeInv
  BY DEF Init, TypeInv
<1>2. Magnitude \in 0..(Range2 - 1)
  BY <1>1, ArgIs
<1>3. CASE fun = "printint"
  <2>1. pow = TopPow[MaxInt] /\ MaxInt \in 0..Range2 /\ MaxInt = Half - 1
    BY <1>3, RangeIs DEF Init
  <2>2. pow \in Tens /\ pow \in Nat /\ MaxInt < 10 * pow
    BY <2>1, TopPowIs DEF Tens
  <2>3. Half % 5 = 3 /\ Half \in Nat
    BY RangeIs
  <2>4. Half # 10 * pow
    <3> SUFFICES ASSUME Half = 10 * pow PROVE FALSE
      OBVIOUS
    <3>1. Half % 5 = 0
      BY <2>2
    <3> QED
      BY <2>3, <3>1
  <2>5. Magnitude <= Half
    BY <1>1, <1>3, ArgIs
  <2> QED
    BY <1>2, <2>1, <2>2, <2>3, <2>4, <2>5
<1>4. CASE fun # "printint"
  <2>1. pow = TopPow[Range2 - 1] /\ Range2 - 1 \in 0..Range2
    BY <1>4, RangeIs DEF Init
  <2>2. pow \in Tens /\ pow \in Nat /\ Range2 - 1 < 10 * pow
    BY <2>1, TopPowIs DEF Tens
  <2> QED
    BY <1>2, <2>2, RangeIs
<1> QED
  BY <1>3, <1>4

LEMMA DecimalInit ==
  ASSUME Init PROVE DecimalInv
<1> SUFFICES ASSUME fun \in Decimal PROVE DecimalInv
  BY DEF DecimalInv
<1>1. TypeInv /\ pc = "digits" /\ value = arg /\ print_zero_flag = FALSE
  BY DEF Init, TypeInv
<1>2. pow \in Tens /\ Magnitude < 10 * pow
  BY TopPowIsEnough
<1>3. /\ arg \in Int /\ Magnitude \in Nat /\ arg = Signs(Magnitude)
      /\ arg < 0 => fun = "printint"
  BY <1>1, ArgIs DEF Magnitude, Signs
<1>4. Magnitude \div (10 * pow) = 0 /\ Magnitude % (10 * pow) = Magnitude
  <2> DEFINE p == 10 * pow
             x == Magnitude
  <2>1. p \in Nat /\ p >= 1 /\ x \in Nat /\ x < p
    BY <1>2, <1>3, TensAre
  <2> HIDE DEF p, x
  <2>2. x = 0 * p + x /\ x \in 0..(p - 1) /\ 0 \in Nat
    BY <2>1
  <2>3. x \div p = 0 /\ x % p = x
    BY <2>1, <2>2, QuotientIs
  <2> QED
    BY <2>3 DEF p, x
<1>5. Written(0)
  <2>1. Spelled(arg, out, 0)
    <3>1. CASE arg < 0
      <4>1. out = <<Minus>>
        BY <1>3, <3>1 DEF Init, Sign
      <4> QED
        BY <1>3, <3>1, <4>1, SpelledStarts
    <3>2. CASE arg >= 0
      <4>1. ~(arg < 0)
        BY <1>3, <3>2
      <4>2. out = <<>>
        BY <4>1 DEF Init, Sign
      <4> QED
        BY <1>3, <3>2, <4>2, SpelledStarts
    <3> QED
      BY <1>3, <3>1, <3>2
  <2> QED
    BY <1>1, <1>3, <2>1 DEF Written
<1> QED
  BY <1>1, <1>2, <1>3, <1>4, <1>5 DEF DecimalInv

LEMMA DecimalTurn ==
  ASSUME TypeInv, DecimalInv, DecimalDigit
  PROVE  DecimalInv'
<1> DEFINE a == Magnitude
           m == a \div (10 * pow)
           r == a % (10 * pow)
           d == r \div pow
           n == a \div pow
           res == Quot(value, pow)
           Carried == /\ Spelled(arg, out', n) /\ (print_zero_flag' <=> n # 0)
                      /\ value' = Signs(a % pow)
<1>1. /\ fun \in Decimal /\ pow \in Tens /\ Written(m) /\ value = Signs(r)
      /\ arg < 0 => fun = "printint"
  BY DEF DecimalInv, DecimalDigit
<1>2. /\ arg \in Int /\ a \in 0..Range2 /\ a \in Nat /\ fun' = fun /\ arg' = arg
      /\ Magnitude' = Magnitude /\ \A x : Signs(x)' = Signs(x')
      /\ pc' = IF pow \div 10 > 0 THEN "digits" ELSE "finish"
      /\ pow' = pow \div 10
  BY ArgIs, RangeIs DEF DecimalDigit, Magnitude, Signs
<1>3. pow \in Nat /\ pow >= 1
  BY <1>1, TensAre
<1>4. /\ m \in 0..a /\ r \in Nat /\ d \in 0..9 /\ n \in 0..a /\ n = 10 * m + d
      /\ a % pow = r - d * pow
  BY <1>2, <1>3, NextDigit
<1>5. res = Signs(d)
  <2> HIDE DEF r
  <2>1. Quot(r, pow) = r \div pow /\ Quot(-r, pow) = -(r \div pow)
    BY <1>3, <1>4, QuotIs
  <2> QED
    BY <1>1, <2>1 DEF Signs
<1>6. abs(res) = IF arg < 0 THEN Shift(d) ELSE d
  <2> HIDE DEF d, res
  <2> QED
    BY <1>4, <1>5, AbsIs DEF Signs
<1>7. res = 0 <=> d = 0
  <2> HIDE DEF d, res
  <2> QED
    BY <1>4, <1>5 DEF Signs
<1>8. print_zero_flag <=> m # 0
  BY <1>1 DEF Written
<1>9. n = 0 <=> (d = 0 /\ m = 0)
  <2> HIDE DEF d, m, n
  <2> QED
    BY <1>4
<1>10. Spelled(arg, out, m)
  BY <1>1 DEF Written
<1>11. ASSUME n # 0 PROVE Carried
  <2>1. Shown(res)
    BY <1>7, <1>8, <1>9, <1>11 DEF Shown
  <2>2. /\ print_zero_flag' = TRUE /\ value' = value - res * pow
        /\ out' = Append(out, ASCII0 + abs(res))
    BY <2>1 DEF DecimalDigit
  <2>3. m \in 0..Range2 /\ 10 * m + d \in 0..Range2 /\ 10 * m + d # 0
    <3> HIDE DEF m, n, d
    <3> QED
      BY <1>2, <1>4, <1>11, RangeIs
  <2>4. Spelled(arg, out', n)
    <3> HIDE DEF m, n, d, res
    <3>1. Spelled(arg, Append(out, ASCII0 + (IF arg < 0 THEN Shift(d) ELSE d)), 10 * m + d)
      BY <1>2, <1>4, <1>10, <2>3, SpelledGrows
    <3> QED
      BY <1>4, <1>6, <2>2, <3>1
  <2>5. value' = Signs(a % pow)
    <3> HIDE DEF m, n, d, res, r
    <3>1. value' = Signs(r) - Signs(d) * pow
      BY <1>1, <1>5, <2>2
    <3>2. (-d) * pow = -(d * pow) /\ d * pow \in Int
      BY <1>3, <1>4
    <3> QED
      BY <1>4, <3>1, <3>2 DEF Signs
  <2>6. print_zero_flag' <=> n # 0
    BY <1>11, <2>2
  <2> HIDE DEF n, a
  <2>7. Carried
    BY <2>4, <2>5, <2>6
  <2> QED
    BY <2>7
<1>12. ASSUME n = 0 PROVE Carried
  <2>1. d = 0 /\ m = 0
    BY <1>9, <1>12
  <2>2. UNCHANGED <<print_zero_flag, value, out>> /\ print_zero_flag = FALSE
    BY <1>7, <1>8, <2>1 DEF DecimalDigit, Shown, TypeInv
  <2>3. d * pow = 0
    <3> HIDE DEF d
    <3> QED
      BY <1>3, <2>1
  <2>4. a % pow = r
    <3> HIDE DEF d, r, a
    <3> QED
      BY <1>4, <2>3
  <2>5. Spelled(arg, out', n)
    BY <1>10, <1>12, <2>1, <2>2
  <2>6. value' = Signs(a % pow)
    BY <1>1, <2>2, <2>4
  <2>7. print_zero_flag' <=> n # 0
    BY <1>12, <2>2
  <2> HIDE DEF n, a
  <2> QED
    BY <2>5, <2>6, <2>7
<1>13. Carried
  <2> HIDE DEF Carried
  <2> QED
    BY <1>11, <1>12
<1>14. CASE pow = 1
  <2>1. pow \div 10 = 0
    BY <1>14
  <2>2. pc' = "finish"
    BY <1>2, <2>1
  <2>3. n = a
    BY <1>2, <1>14
  <2>4. Written(a)'
    <3> HIDE DEF n, a
    <3>1. a' = a
      BY <1>2 DEF a
    <3> QED
      BY <1>2, <1>13, <2>3, <3>1 DEF Written, a
  <2> QED
    BY <1>1, <1>2, <2>2, <2>4 DEF DecimalInv
<1>15. CASE pow # 1
  <2>1. pow' \in Tens /\ 10 * pow' = pow /\ pow' >= 1 /\ pc' = "digits"
    BY <1>1, <1>2, <1>3, <1>15, TensAre
  <2>2. (Magnitude \div (10 * pow))' = n /\ (Magnitude % (10 * pow))' = a % pow
    BY <1>2, <2>1
  <2>3. Written(Magnitude \div (10 * pow))'
    <3> HIDE DEF n
    <3> QED
      BY <1>2, <1>4, <1>13, <2>2 DEF Written
  <2>4. value' = Signs(Magnitude % (10 * pow))'
    BY <1>2, <1>13, <2>2 DEF Signs
  <2> QED
    BY <1>1, <1>2, <2>1, <2>3, <2>4 DEF DecimalInv
<1> QED
  BY <1>14, <1>15

LEMMA DecimalIsEnded ==
  ASSUME TypeInv, DecimalInv, DecimalEnd
  PROVE  DecimalInv'
<1>1. /\ fun \in Decimal /\ fun' = fun /\ arg' = arg /\ Written(Magnitude)
      /\ print_zero_flag' = print_zero_flag /\ pc' = "done"
      /\ arg < 0 => fun = "printint"
  BY DEF DecimalEnd, DecimalInv
<1>2. arg \in Int /\ Magnitude' = Magnitude /\ (Magnitude = 0 <=> arg = 0)
  BY <1>1, ArgIs DEF Magnitude
<1>3. CASE arg = 0
  <2>1. out = <<>> /\ ~print_zero_flag
    <3>1. Spelled(arg, out, Magnitude) /\ Magnitude = 0 /\ arg >= 0 /\ ~print_zero_flag
      BY <1>1, <1>2, <1>3 DEF Written
    <3> QED
      BY <3>1 DEF Spelled
  <2>2. out' = <<ASCII0>>
    BY <2>1 DEF DecimalEnd
  <2> QED
    BY <1>1, <1>3, <2>2 DEF DecimalInv
<1>4. CASE arg # 0
  <2>1. print_zero_flag /\ out' = out
    BY <1>1, <1>2, <1>4 DEF Written, DecimalEnd
  <2>2. Written(Magnitude)'
    BY <1>1, <1>2, <2>1 DEF Written
  <2> QED
    BY <1>1, <1>4, <2>2 DEF DecimalInv
<1> QED
  BY <1>3, <1>4

(***************************************************************************)
(* Hexadecimal numbers.                                                    *)
(***************************************************************************)
Body(s) == SubSeq(s, 3, Len(s))
LEMMA BodyIs ==
  ASSUME NEW t \in Seq(Nat)
  PROVE  /\ Body(Prefix \o t) = t /\ SubSeq(Prefix \o t, 1, 2) = Prefix
         /\ Prefix \o t \in Seq(Nat) /\ Len(Prefix \o t) = Len(t) + 2 /\ Len(Prefix) = 2
<1> DEFINE p == Prefix
           s == p \o t
<1>1. p \in Seq(Nat) /\ Len(p) = 2
  BY DEF Prefix, ASCII0
<1> HIDE DEF p
<1>2. /\ s \in Seq(Nat) /\ Len(s) = Len(t) + 2 /\ Len(t) \in Nat
      /\ \A i \in 1..Len(s) : s[i] = IF i <= 2 THEN p[i] ELSE t[i - 2]
  <2>1. Len(t) \in Nat
    BY LenProperties
  <2>2. /\ s \in Seq(Nat) /\ Len(s) = Len(p) + Len(t)
        /\ \A i \in 1..(Len(p) + Len(t)) : s[i] = IF i <= Len(p) THEN p[i] ELSE t[i - Len(p)]
    BY <1>1, ConcatProperties
  <2> HIDE DEF s
  <2> QED
    BY <1>1, <2>1, <2>2
<1> HIDE DEF s
<1>3. \A i \in 1..Len(s) : s[i] \in Nat
  BY <1>2
<1>4. Body(s) = t
  <2> DEFINE b == Body(s)
  <2>1. /\ b \in Seq(Nat) /\ Len(b) = (IF 3 <= Len(s) THEN Len(s) - 3 + 1 ELSE 0)
        /\ \A i \in 1..(Len(s) - 3 + 1) : b[i] = s[3 + i - 1]
    <3>1. \A i \in 3..Len(s) : s[i] \in Nat
      BY <1>2, <1>3
    <3> QED
      BY <1>2, <3>1, SubSeqProperties DEF Body
  <2> HIDE DEF b
  <2>2. Len(b) = Len(t)
    BY <1>2, <2>1
  <2>3. ASSUME NEW i \in 1..Len(b) PROVE b[i] = t[i]
    <3>1. i \in 1..(Len(s) - 3 + 1) /\ 3 + i - 1 = i + 2 /\ i + 2 \in 1..Len(s)
      BY <1>2, <2>2
    <3>2. b[i] = s[i + 2]
      BY <2>1, <3>1
    <3>3. s[i + 2] = IF i + 2 <= 2 THEN p[i + 2] ELSE t[i + 2 - 2]
      BY <1>2, <3>1
    <3>4. ~(i + 2 <= 2) /\ i + 2 - 2 = i
      BY <3>1
    <3> QED
      BY <3>2, <3>3, <3>4
  <2>4. b = t
    BY <2>1, <2>2, <2>3, SeqEqual
  <2> QED
    BY <2>4 DEF b
<1>5. SubSeq(s, 1, 2) = p
  <2> DEFINE b == SubSeq(s, 1, 2)
  <2>1. /\ b \in Seq(Nat) /\ Len(b) = 2
        /\ \A i \in 1..2 : b[i] = s[i]
    <3>1. \A i \in 1..2 : s[i] \in Nat
      BY <1>2, <1>3
    <3>2. /\ b \in Seq(Nat) /\ Len(b) = (IF 1 <= 2 THEN 2 - 1 + 1 ELSE 0)
          /\ \A i \in 1..(2 - 1 + 1) : b[i] = s[1 + i - 1]
      BY <3>1, SubSeqProperties
    <3> QED
      BY <3>2
  <2> HIDE DEF b
  <2>2. \A i \in 1..Len(b) : b[i] = p[i]
    BY <1>2, <2>1
  <2>3. b = p
    BY <1>1, <2>1, <2>2, SeqEqual
  <2> QED
    BY <2>3 DEF b
<1> QED
  BY <1>1, <1>2, <1>4, <1>5 DEF s, p

(* A character is written. *)
LEMMA BodyGrows ==
  ASSUME NEW t \in Seq(Nat), NEW c \in Nat
  PROVE  Append(Prefix \o t, c) = Prefix \o Append(t, c) /\ Append(t, c) \in Seq(Nat)
<1>1. Prefix \in Seq(Nat)
  BY DEF Prefix, ASCII0
<1> DEFINE S == Nat
           p == Prefix
<1>2. t \in Seq(S) /\ p \in Seq(S) /\ c \in S
  BY <1>1
<1> HIDE DEF S, p
<1>3. Appends(p, t, c)
  BY <1>2, AppendToJoin
<1> QED
  BY <1>3 DEF Appends, p

LEMMA OutGrows ==
  ASSUME PrefixInv, fun \notin Decimal, NEW c \in Nat
  PROVE  /\ Body(out) = AfterPrefix /\ AfterPrefix \in Seq(Nat)
         /\ Len(out) = Len(AfterPrefix) + 2 /\ SubSeq(out, 1, 2) = Prefix
         /\ Body(Append(out, c)) = Append(AfterPrefix, c)
         /\ Append(AfterPrefix, c) \in Seq(Nat)
         /\ Append(out, c) = Prefix \o Append(AfterPrefix, c)
<1> DEFINE t == AfterPrefix
<1>1. t \in Seq(Nat) /\ out = Prefix \o t
  BY DEF PrefixInv
<1>2. Body(out) = t
  BY DEF Body, AfterPrefix
<1> HIDE DEF t
<1>3. Append(out, c) = Prefix \o Append(t, c) /\ Append(t, c) \in Seq(Nat)
  BY <1>1, BodyGrows
<1>4. Body(Append(out, c)) = Append(t, c)
  BY <1>3, BodyIs
<1>5. Len(out) = Len(t) + 2 /\ SubSeq(out, 1, 2) = Prefix
  BY <1>1, BodyIs
<1> QED
  BY <1>1, <1>2, <1>3, <1>4, <1>5 DEF t

(* The digit that is written next, and the part of the argument that the   *)
(* digits then stand for.                                                  *)
LEMMA NibbleIs ==
  ASSUME arg \in Nat, NEW n \in 1..Digits, pos \in 0..(n - 1)
  PROVE  /\ Nibble(n) \in 0..15 /\ Above(n) \in Nat
         /\ arg \div Power16[n - (pos + 1)] = 16 * Above(n) + Nibble(n)
<1> DEFINE k == n - 1 - pos
           p == Power16[k]
<1>1. k \in 0..Digits /\ n - pos \in 1..Digits /\ n - pos - 1 = k /\ n - (pos + 1) = k
  BY Powers
<1>2. p \in Nat /\ p >= 1 /\ Power16[n - pos] = 16 * p
  <2>1. Power16[n - pos] = 16 * Power16[n - pos - 1]
    BY <1>1, Powers
  <2> QED
    BY <1>1, <2>1, Powers
<1>3. Nibble(n) = (arg \div p) % 16 /\ Above(n) = arg \div (16 * p)
  BY <1>2 DEF Nibble, Above
<1>4. arg \div Power16[n - (pos + 1)] = arg \div p
  BY <1>1
<1> HIDE DEF p, k
<1>5. arg \div p = 16 * (arg \div (16 * p)) + ((arg \div p) % 16) /\ arg \div p \in Nat
  BY <1>2, DivisionStep, DivisionIs
<1>6. arg \div (16 * p) \in Nat
  <2>1. 16 * p \in Nat /\ 16 * p >= 1
    BY <1>2
  <2> QED
    BY <2>1, DivisionIs
<1>7. (arg \div p) % 16 \in 0..15
  BY <1>5
<1> QED
  BY <1>3, <1>4, <1>5, <1>6, <1>7

(* Before the first digit this part is 0, after the last one it is all.    *)
LEMMA AboveAtEnds ==
  ASSUME NEW a \in Nat
  PROVE  /\ \A n \in 0..Digits : a < Power16[n] => a \div Power16[n] = 0
         /\ a \div Power16[0] = a
<1>1. ASSUME NEW n \in 0..Digits, a < Power16[n] PROVE a \div Power16[n] = 0
  <2> DEFINE p == Power16[n]
  <2>1. p \in Nat /\ p >= 1 /\ a < p
    BY <1>1, Powers
  <2> HIDE DEF p
  <2>2. a = 0 * p + a /\ a \in 0..(p - 1) /\ 0 \in Nat
    BY <2>1
  <2>3. a \div p = 0
    BY <2>1, <2>2, QuotientIs
  <2> QED
    BY <2>3 DEF p
<1>2. a \div Power16[0] = a
  BY Powers
<1> QED
  BY <1>1, <1>2

HexInv == PrefixInv /\ PrinthexInv /\ FixedInv /\ Hexstr8Inv

LEMMA HexInit ==
  ASSUME Init, fun \notin Decimal PROVE HexInv
<1>1. TypeInv /\ pc = "digits" /\ print_zero_flag = FALSE /\ pos = 0 /\ out = Prefix
  BY DEF Init, TypeInv
<1>2. arg \in Nat /\ arg < Power16[Digits] /\ (fun = "printbyte" => arg < Power16[2])
  <2>1. fun # "printint"
    BY DEF Decimal
  <2>2. arg >= 0 /\ arg \in Int /\ arg <= Range2 - 1
    BY <1>1, <2>1, ArgIs, RangeIs DEF Magnitude
  <2> QED
    BY <1>1, <2>2, ArgIs, RangeIs DEF Range2
<1> DEFINE none == <<>>
<1>3. none \in Seq(Nat) /\ none = <<>> /\ Len(none) = 0 /\ Prefix \o none = Prefix
  <2>1. Prefix \in Seq(Nat)
    BY DEF Prefix, ASCII0
  <2> QED
    BY <2>1, ConcatEmptySeq
<1> HIDE DEF none
<1>4. AfterPrefix = none
  <2>1. Body(Prefix \o none) = none
    BY <1>3, BodyIs
  <2> QED
    BY <1>1, <1>3, <2>1 DEF Body, AfterPrefix
<1>5. Numeral(AfterPrefix, 16, 0)
  BY <1>3, <1>4, NumeralStarts
<1>6. PrefixInv
  BY <1>1, <1>3, <1>4 DEF PrefixInv
<1>7. PrinthexInv
  <2> SUFFICES ASSUME fun = "printhex" PROVE PrinthexInv
    BY DEF PrinthexInv
  <2>1. Digits \in 0..Digits /\ Digits - pos = Digits /\ pos \in 0..(Digits - 1)
    BY <1>1, Powers
  <2>2. Above(Digits) = 0
    BY <1>2, <2>1, AboveAtEnds DEF Above
  <2>3. PrinthexIs(print_zero_flag, AfterPrefix, 0)
    BY <1>1, <1>3, <1>4, <1>5 DEF PrinthexIs
  <2> QED
    BY <1>1, <2>1, <2>2, <2>3 DEF PrinthexInv
<1>8. FixedInv
  <2> SUFFICES ASSUME fun \in {"hexstr64", "printbyte"} PROVE FixedInv
    BY DEF FixedInv
  <2>1. Width \in 0..Digits /\ Width - pos = Width /\ pos \in 0..(Width - 1) /\ arg < Power16[Width]
    <3>1. CASE fun = "hexstr64"
      BY <1>1, <1>2, <3>1, Powers DEF Width
    <3>2. CASE fun = "printbyte"
      BY <1>1, <1>2, <3>2, Powers DEF Width
    <3> QED
      BY <3>1, <3>2
  <2>2. Above(Width) = 0
    BY <1>2, <2>1, AboveAtEnds DEF Above
  <2> QED
    BY <1>1, <1>3, <1>4, <1>5, <2>1, <2>2 DEF FixedInv
<1>9. Hexstr8Inv
  BY <1>1, <1>3, <1>4 DEF Hexstr8Inv
<1> QED
  BY <1>6, <1>7, <1>8, <1>9 DEF HexInv

LEMMA HexdigitIs ==
  ASSUME NEW d \in 0..15
  PROVE  hexdigit(d) \in Nat /\ DigitValue(hexdigit(d)) = d /\ DigitValue(hexdigit(d)) < 16
BY DigitValueIs DEF hexdigit, ASCII0, ASCIIA

LEMMA PrinthexTurn ==
  ASSUME TypeInv, HexInv, PrinthexDigit
  PROVE  HexInv'
<1> DEFINE d == Nibble(Digits)
           x == Above(Digits)
           y == 16 * x + d
           c == hexdigit(d)
           t == AfterPrefix
<1>1. /\ fun = "printhex" /\ fun' = fun /\ arg' = arg /\ pos' = pos + 1
      /\ pos \in 0..(Digits - 1) /\ PrinthexIs(print_zero_flag, t, x)
      /\ PrefixInv /\ fun \notin Decimal
      /\ pc' = IF pos + 1 = Digits THEN "finish" ELSE "digits"
  BY DEF PrinthexDigit, HexInv, PrinthexInv, Decimal
<1>2. arg \in Nat /\ Digits \in 1..Digits
  <2>1. fun # "printint"
    BY <1>1
  <2> QED
    BY <2>1, ArgIs, Powers
<1>3. d \in 0..15 /\ x \in Nat /\ arg \div Power16[Digits - (pos + 1)] = y
  BY <1>1, <1>2, NibbleIs
<1>4. /\ print_zero_flag <=> x # 0
      /\ Numeral(t, 16, x) /\ (Len(t) = 0 <=> x = 0) /\ (Len(t) < 2 <=> x < 16)
  BY <1>1 DEF PrinthexIs
<1>5. /\ IF d # 0 \/ print_zero_flag
            THEN print_zero_flag' = TRUE /\ out' = Append(out, c)
            ELSE print_zero_flag' = print_zero_flag /\ out' = out
  BY DEF PrinthexDigit
<1>6. c \in Nat /\ DigitValue(c) = d /\ DigitValue(c) < 16
  BY <1>3, HexdigitIs
<1>7. AfterPrefix' = Body(out')
  BY DEF AfterPrefix, Body
<1> HIDE DEF d, x, c, t
<1>8. y \in Nat /\ (y = 0 <=> x = 0 /\ d = 0) /\ (y < 16 <=> x = 0)
  BY <1>3
<1>9. /\ Body(out) = t /\ t \in Seq(Nat) /\ Append(t, c) \in Seq(Nat)
      /\ Body(Append(out, c)) = Append(t, c) /\ Append(out, c) = Prefix \o Append(t, c)
  BY <1>1, <1>6, OutGrows DEF t
<1>10. Numeral(Append(t, c), 16, y)
  <2>1. 16 \in Nat
    OBVIOUS
  <2>2. Numeral(Append(t, c), 16, 16 * x + DigitValue(c))
    BY <1>4, <1>6, <2>1, NumeralGrows
  <2> QED
    BY <1>6, <2>2
<1>11. PrefixInv' /\ PrinthexIs(print_zero_flag', AfterPrefix', y)
  <2>1. Len(t) \in Nat /\ Len(Append(t, c)) = Len(t) + 1
    BY <1>6, <1>9, AppendProperties, LenProperties
  <2>2. CASE d # 0 \/ print_zero_flag
    <3>1. /\ print_zero_flag' = TRUE /\ AfterPrefix' = Append(t, c)
          /\ out' = Prefix \o AfterPrefix' /\ AfterPrefix' \in Seq(Nat)
      BY <1>5, <1>7, <1>9, <2>2
    <3>2. y # 0
      BY <1>4, <1>8, <2>2
    <3>3. (Len(t) + 1 < 2 <=> y < 16) /\ Len(t) + 1 # 0
      BY <1>4, <1>8, <2>1
    <3> HIDE DEF y
    <3>4. PrefixInv'
      BY <1>1, <3>1 DEF PrefixInv
    <3>5. PrinthexIs(print_zero_flag', AfterPrefix', y)
      BY <1>10, <2>1, <3>1, <3>2, <3>3 DEF PrinthexIs
    <3> QED
      BY <3>4, <3>5
  <2>3. CASE ~(d # 0 \/ print_zero_flag)
    <3>1. print_zero_flag' = print_zero_flag /\ out' = out /\ d = 0 /\ x = 0
      BY <1>4, <1>5, <2>3
    <3>2. AfterPrefix' = t /\ y = x
      BY <1>7, <1>8, <1>9, <3>1
    <3> HIDE DEF y
    <3>3. PrefixInv'
      BY <1>1, <3>1, <3>2 DEF PrefixInv, t
    <3>4. PrinthexIs(print_zero_flag', AfterPrefix', y)
      BY <1>1, <3>1, <3>2
    <3> QED
      BY <3>3, <3>4
  <2> QED
    BY <2>2, <2>3
<1> HIDE DEF y
<1>12. PrinthexInv'
  <2>1. CASE pos + 1 = Digits
    <3>1. Digits - (pos + 1) = 0 /\ pc' = "finish"
      BY <1>1, <1>2, <2>1
    <3>2. y = arg
      BY <1>2, <1>3, <3>1, AboveAtEnds
    <3> QED
      BY <1>1, <1>11, <3>1, <3>2 DEF PrinthexInv
  <2>2. CASE pos + 1 # Digits
    <3>1. pos' \in 0..(Digits - 1) /\ pc' = "digits"
      BY <1>1, <1>2, <2>2
    <3>2. Above(Digits)' = y
      BY <1>1, <1>3 DEF Above
    <3> QED
      BY <1>1, <1>11, <3>1, <3>2 DEF PrinthexInv
  <2> QED
    BY <2>1, <2>2
<1>13. FixedInv' /\ Hexstr8Inv'
  BY <1>1 DEF FixedInv, Hexstr8Inv
<1> QED
  BY <1>11, <1>12, <1>13 DEF HexInv

LEMMA TwoAre ==
  ASSUME NEW a \in Nat, NEW b \in Nat
  PROVE  Append(<<a>>, b) = <<a, b>>
<1> DEFINE one == <<a>>
           two == <<a, b>>
<1>1. one \in Seq(Nat) /\ Len(one) = 1 /\ one[1] = a
  OBVIOUS
<1>2. two \in Seq(Nat) /\ Len(two) = 2 /\ two[1] = a /\ two[2] = b
  OBVIOUS
<1> HIDE DEF one, two
<1> DEFINE s == Append(one, b)
<1>3. s \in Seq(Nat) /\ Len(s) = 2 /\ s[1] = a /\ s[2] = b
  <2>1. s \in Seq(Nat) /\ Len(s) = Len(one) + 1 /\ s[Len(one) + 1] = b
    BY ZenonT(60), <1>1, AppendProperties
  <2>2. s[1] = one[1]
    <3>1. \A i \in 1..Len(one) : s[i] = one[i]
      BY <1>1, AppendProperties
    <3>2. 1 \in 1..Len(one)
      BY <1>1
    <3> HIDE DEF s
    <3> QED
      BY <3>1, <3>2
  <2> HIDE DEF s
  <2> QED
    BY <1>1, <2>1, <2>2
<1> HIDE DEF s
<1>4. \A i \in 1..Len(s) : s[i] = two[i]
  BY <1>2, <1>3
<1>5. s = two
  BY <1>2, <1>3, <1>4, SeqEqual
<1> QED
  BY <1>5 DEF s, one, two

(* The zeros that printhex adds.                                           *)
Zeros(n) == [k \in 1..n |-> ASCII0]
Padded(s, n) ==
  /\ n = 2  => s \o Zeros(n) = Append(Append(s, ASCII0), ASCII0)
  /\ n = 1  => s \o Zeros(n) = Append(s, ASCII0)
  /\ n <= 0 => s \o Zeros(n) = s
LEMMA PaddingIs ==
  ASSUME NEW s \in Seq(Nat), NEW n \in Int
  PROVE  Padded(s, n)
<1> DEFINE z == Zeros(n)
           c == ASCII0
           one == <<c>>
           two == <<c, c>>
           none == <<>>
<1>0. c \in Nat
  BY DEF ASCII0
<1> HIDE DEF c
<1>1. one \in Seq(Nat) /\ two \in Seq(Nat) /\ Append(s, c) \in Seq(Nat)
  BY <1>0
<1>2. ASSUME n = 2 PROVE s \o Zeros(n) = Append(Append(s, ASCII0), ASCII0)
  <2>1. z \in [1..2 -> Nat] /\ z[1] = c /\ z[2] = c
    BY <1>0, <1>2 DEF c, Zeros
  <2>2. z \in Seq(Nat) /\ Len(z) = 2
    <3> HIDE DEF z
    <3>1. 2 \in Nat
      OBVIOUS
    <3> QED
      BY <2>1, <3>1, FunctionIsSeq
  <2>3. z = two
    <3> HIDE DEF z
    <3>1. Len(two) = 2 /\ two[1] = c /\ two[2] = c
      OBVIOUS
    <3> HIDE DEF two
    <3>2. \A i \in 1..Len(z) : z[i] = two[i]
      BY <2>1, <2>2, <3>1
    <3> QED
      BY <1>1, <2>2, <3>1, <3>2, SeqEqual
  <2>4. Append(Append(s, c), c) = (s \o one) \o one
    BY <1>0, <1>1, AppendIsConcat
  <2>5. one \o one = two
    <3>1. Append(one, c) = one \o one
      BY <1>0, <1>1, AppendIsConcat
    <3>2. Append(one, c) = two
      BY <1>0, TwoAre
    <3> QED
      BY <3>1, <3>2
  <2>6. (s \o one) \o one = s \o two
    BY <1>1, <2>5, ConcatAssociative
  <2> QED
    BY <2>3, <2>4, <2>6 DEF c
<1>3. ASSUME n = 1 PROVE s \o Zeros(n) = Append(s, ASCII0)
  <2>1. z \in [1..1 -> Nat] /\ z[1] = c
    BY <1>0, <1>3 DEF c, Zeros
  <2>2. z \in Seq(Nat) /\ Len(z) = 1
    <3> HIDE DEF z
    <3>1. 1 \in Nat
      OBVIOUS
    <3> QED
      BY <2>1, <3>1, FunctionIsSeq
  <2>3. z = one
    <3> HIDE DEF z
    <3>1. Len(one) = 1 /\ one[1] = c
      OBVIOUS
    <3> HIDE DEF one
    <3>2. \A i \in 1..Len(z) : z[i] = one[i]
      BY <2>1, <2>2, <3>1
    <3> QED
      BY <1>1, <2>2, <3>1, <3>2, SeqEqual
  <2>4. Append(s, c) = s \o one
    BY <1>0, AppendIsConcat
  <2> QED
    BY <2>3, <2>4 DEF c
<1>4. ASSUME n <= 0 PROVE s \o Zeros(n) = s
  <2>1. 1..n = {} /\ 1..0 = {}
    BY <1>4
  <2>2. z \in [1..0 -> Nat]
    BY <2>1 DEF Zeros
  <2>3. z \in Seq(Nat) /\ Len(z) = 0
    <3> HIDE DEF z
    <3>1. 0 \in Nat
      OBVIOUS
    <3> QED
      BY <2>2, <3>1, FunctionIsSeq
  <2>4. z = none
    <3> HIDE DEF z
    <3> QED
      BY <2>3
  <2>5. s \o none = s
    BY ConcatEmptySeq
  <2> QED
    BY <2>4, <2>5
<1> QED
  BY <1>2, <1>3, <1>4 DEF Padded

LEMMA PrinthexIsEnded ==
  ASSUME TypeInv, HexInv, PrinthexEnd
  PROVE  HexInv'
<1> DEFINE t == AfterPrefix
           c == ASCII0
           t1 == Append(t, c)
           t2 == Append(t1, c)
           o1 == Append(out, c)
           o2 == Append(o1, c)
           right == IF arg < 16 THEN 16 * arg ELSE arg
<1>1. /\ fun = "printhex" /\ fun' = fun /\ arg' = arg /\ pc' = "done"
      /\ PrinthexIs(print_zero_flag, t, arg) /\ PrefixInv /\ fun \notin Decimal
      /\ out' = out \o [k \in 1..(2 - (Len(out) - Len(Prefix))) |-> ASCII0]
  BY DEF PrinthexEnd, HexInv, PrinthexInv, Decimal
<1>2. arg \in Nat
  <2>1. fun # "printint"
    BY <1>1
  <2> QED
    BY <2>1, ArgIs
<1>3. Numeral(t, 16, arg) /\ (Len(t) = 0 <=> arg = 0) /\ (Len(t) < 2 <=> arg < 16)
  BY <1>1 DEF PrinthexIs
<1>4. c \in Nat /\ DigitValue(c) = 0 /\ DigitValue(c) < 16
  BY HexdigitIs, DigitValueIs DEF ASCII0
<1>5. AfterPrefix' = Body(out')
  BY DEF AfterPrefix, Body
<1>a. out = Prefix \o t
  BY <1>1 DEF PrefixInv
<1> HIDE DEF c, t
<1>6. /\ Body(out) = t /\ t \in Seq(Nat) /\ t1 \in Seq(Nat) /\ Len(out) = Len(t) + 2
      /\ Body(o1) = t1 /\ o1 = Prefix \o t1
  BY <1>1, <1>4, OutGrows DEF t
<1> HIDE DEF t1, o1
<1>7. /\ o2 = Prefix \o t2 /\ t2 \in Seq(Nat)
  BY <1>4, <1>6, BodyGrows
<1>8. Body(o2) = t2
  BY <1>7, BodyIs
<1>9. Len(t) \in Nat /\ Len(t1) = Len(t) + 1 /\ Len(t2) = Len(t) + 2
  BY <1>4, <1>6, AppendProperties, LenProperties DEF t1
<1>b. Len(t) = 0 \/ Len(t) = 1 \/ (Len(t) >= 2 /\ Len(t) # 0 /\ Len(t) # 1)
  <2> DEFINE l == Len(t)
  <2>1. l \in Nat
    BY <1>9
  <2> HIDE DEF l
  <2>2. l = 0 \/ l = 1 \/ (l >= 2 /\ l # 0 /\ l # 1)
    BY <2>1
  <2> QED
    BY <2>2 DEF l
<1>10. out' = IF Len(t) = 0 THEN o2 ELSE IF Len(t) = 1 THEN o1 ELSE out
  <2> DEFINE n == 2 - (Len(out) - Len(Prefix))
  <2>1. n = 2 - Len(t) /\ n \in Int /\ n <= 2 /\ out \in Seq(Nat)
    <3>1. Len(Prefix) = 2 /\ out \in Seq(Nat)
      BY <1>6, <1>a, BodyIs
    <3> QED
      BY <1>6, <1>9, <3>1
  <2>2. out' = out \o Zeros(n)
    BY <1>1 DEF Zeros
  <2> HIDE DEF n
  <2>3. Padded(out, n)
    BY <2>1, PaddingIs
  <2>4. /\ n = 2  => out' = o2
        /\ n = 1  => out' = o1
        /\ n <= 0 => out' = out
    BY <2>2, <2>3 DEF Padded, o1, c
  <2> HIDE DEF o2
  <2>5. CASE Len(t) = 0
    BY <2>1, <2>4, <2>5
  <2>6. CASE Len(t) = 1
    BY <2>1, <2>4, <2>6
  <2>7. CASE Len(t) >= 2 /\ Len(t) # 0 /\ Len(t) # 1
    <3>1. n <= 0 /\ Len(t) # 0 /\ Len(t) # 1
      BY <1>9, <2>1, <2>7
    <3> QED
      BY <2>4, <3>1
  <2> QED
    BY <1>b, <2>5, <2>6, <2>7
<1>11. Numeral(t1, 16, 16 * arg)
  <2>1. 16 \in Nat
    OBVIOUS
  <2>2. Numeral(t1, 16, 16 * arg + DigitValue(c))
    BY <1>3, <1>4, <2>1, NumeralGrows DEF t1
  <2> QED
    BY <1>2, <1>4, <2>2
<1>12. Numeral(t2, 16, 16 * (16 * arg))
  <2>1. 16 \in Nat
    OBVIOUS
  <2>2. Numeral(t2, 16, 16 * (16 * arg) + DigitValue(c))
    BY <1>4, <1>11, <2>1, NumeralGrows
  <2> QED
    BY <1>2, <1>4, <2>2
<1> HIDE DEF t2, o2
<1>13. /\ out' = Prefix \o AfterPrefix' /\ AfterPrefix' \in Seq(Nat) /\ AfterPrefix' # <<>>
       /\ Numeral(AfterPrefix', 16, right)
  <2>1. CASE Len(t) = 0
    <3>1. AfterPrefix' = t2 /\ out' = o2
      BY <1>5, <1>8, <1>10, <2>1
    <3>2. 16 * (16 * arg) = right
      BY <1>2, <1>3, <2>1
    <3>3. t2 # <<>>
      BY <1>9
    <3> HIDE DEF right
    <3> QED
      BY <1>7, <1>12, <3>1, <3>2, <3>3
  <2>2. CASE Len(t) = 1
    <3>1. AfterPrefix' = t1 /\ out' = o1
      BY <1>5, <1>6, <1>10, <2>2
    <3>2. 16 * arg = right
      BY <1>2, <1>3, <2>2
    <3>3. t1 # <<>>
      BY <1>9
    <3> HIDE DEF right
    <3> QED
      BY <1>6, <1>11, <3>1, <3>2, <3>3
  <2>3. CASE Len(t) >= 2 /\ Len(t) # 0 /\ Len(t) # 1
    <3>0. Len(t) # 0 /\ Len(t) # 1
      BY <2>3
    <3>1. AfterPrefix' = t /\ out' = out
      BY <1>5, <1>6, <1>10, <3>0
    <3>2. arg = right
      BY <1>2, <1>3, <2>3
    <3>3. t # <<>>
      BY <2>3
    <3> HIDE DEF right
    <3> QED
      BY <1>3, <1>6, <1>a, <3>1, <3>2, <3>3
  <2> QED
    BY <1>b, <2>1, <2>2, <2>3
<1>14. PrefixInv'
  BY <1>1, <1>13 DEF PrefixInv
<1>15. PrinthexInv'
  BY <1>1, <1>13 DEF PrinthexInv
<1>16. FixedInv' /\ Hexstr8Inv'
  BY <1>1 DEF FixedInv, Hexstr8Inv
<1> QED
  BY <1>14, <1>15, <1>16 DEF HexInv

(* The functions that write all digits. *)
LEMMA FixedTurn ==
  ASSUME TypeInv, HexInv, FixedDigit, fun # "hexstr8"
  PROVE  HexInv'
<1> DEFINE n == Width
           d == Nibble(n)
           x == Above(n)
           y == 16 * x + d
           c == hexdigit(d)
           t == AfterPrefix
<1>1. /\ fun \in {"hexstr64", "printbyte"} /\ fun' = fun /\ arg' = arg /\ pos' = pos + 1
      /\ pos \in 0..(n - 1) /\ Numeral(t, 16, x) /\ Len(t) = pos /\ PrefixInv
      /\ fun \notin Decimal /\ fun # "printhex" /\ out' = Append(out, c)
      /\ pc' = IF pos + 1 = n THEN "done" ELSE "digits"
  BY DEF FixedDigit, HexInv, FixedInv, Decimal, Width
<1>2. arg \in Nat /\ n \in 1..Digits /\ n' = n
  <2>1. fun # "printint"
    BY <1>1
  <2> QED
    BY <1>1, <2>1, ArgIs, Powers DEF Width
<1>3. d \in 0..15 /\ x \in Nat /\ arg \div Power16[n - (pos + 1)] = y
  <2> HIDE DEF n
  <2> QED
    BY <1>1, <1>2, NibbleIs
<1>4. c \in Nat /\ DigitValue(c) = d /\ DigitValue(c) < 16
  <2> HIDE DEF d
  <2> QED
    BY <1>3, HexdigitIs
<1>5. AfterPrefix' = Body(out')
  BY DEF AfterPrefix, Body
<1>6. /\ t \in Seq(Nat) /\ Append(t, c) \in Seq(Nat)
      /\ Body(Append(out, c)) = Append(t, c) /\ Append(out, c) = Prefix \o Append(t, c)
  <2> HIDE DEF c
  <2> QED
    BY <1>1, <1>4, OutGrows
<1>7. Len(Append(t, c)) = pos + 1
  <2> HIDE DEF c, t
  <2> QED
    BY <1>1, <1>4, <1>6, AppendProperties
<1>8. Numeral(Append(t, c), 16, y)
  <2> HIDE DEF c, t, x, d
  <2>1. 16 \in Nat
    OBVIOUS
  <2>2. Numeral(Append(t, c), 16, 16 * x + DigitValue(c))
    BY <1>1, <1>4, <2>1, NumeralGrows
  <2> QED
    BY <1>4, <2>2
<1> HIDE DEF c
<1>9. /\ AfterPrefix' = Append(t, c) /\ out' = Prefix \o AfterPrefix'
      /\ AfterPrefix' \in Seq(Nat)
  BY <1>1, <1>5, <1>6
<1>10. PrefixInv'
  BY <1>1, <1>9 DEF PrefixInv
<1> HIDE DEF y, n
<1>11. FixedInv'
  <2>1. CASE pos + 1 = n
    <3>1. n - (pos + 1) = 0 /\ pc' = "done"
      BY <1>1, <1>2, <2>1
    <3>2. y = arg
      BY <1>2, <1>3, <3>1, AboveAtEnds
    <3> QED
      BY <1>1, <1>2, <1>7, <1>8, <1>9, <2>1, <3>1, <3>2 DEF FixedInv, n
  <2>2. CASE pos + 1 # n
    <3>1. pos' \in 0..(n - 1) /\ pc' = "digits"
      BY <1>1, <1>2, <2>2
    <3>2. Above(Width)' = y
      BY <1>1, <1>2, <1>3 DEF Above, n
    <3> QED
      BY <1>1, <1>2, <1>7, <1>8, <1>9, <3>1, <3>2 DEF FixedInv, n
  <2> QED
    BY <2>1, <2>2
<1>12. PrinthexInv' /\ Hexstr8Inv'
  BY <1>1 DEF PrinthexInv, Hexstr8Inv
<1> QED
  BY <1>10, <1>11, <1>12 DEF HexInv

LEMMA Hexstr8Turn ==
  ASSUME TypeInv, HexInv, FixedDigit, fun = "hexstr8"
  PROVE  HexInv'
<1> DEFINE d == Nibble(2)
           c == d + ASCII0
           t == AfterPrefix
           high == (arg \div 16) + ASCII0
           low == (arg % 16) + ASCII0
<1>1. /\ fun = "hexstr8" /\ fun' = fun /\ arg' = arg /\ pos' = pos + 1
      /\ pos \in {0, 1} /\ t = IF pos = 0 THEN <<>> ELSE <<high>>
      /\ PrefixInv /\ fun \notin Decimal /\ out' = Append(out, c)
      /\ pc' = IF pos + 1 = 2 THEN "done" ELSE "digits"
  BY DEF FixedDigit, HexInv, Hexstr8Inv, Decimal
<1>2. arg \in 0..255
  BY <1>1, ArgIs
<1>3. c = IF pos = 0 THEN high ELSE low
  <2>1. CASE pos = 0
    <3>1. d = (arg \div Power16[1]) % 16
      BY <2>1 DEF Nibble
    <3>2. (arg \div 16) % 16 = arg \div 16
      BY <1>2
    <3> QED
      BY <2>1, <3>1, <3>2, RangeIs
  <2>2. CASE pos = 1
    <3>1. d = (arg \div Power16[0]) % 16
      BY <2>2 DEF Nibble
    <3>2. arg \div Power16[0] = arg
      BY <1>2, AboveAtEnds
    <3> QED
      BY <2>2, <3>1, <3>2
  <2> QED
    BY <1>1, <2>1, <2>2
<1>4. c \in Nat
  <2>1. high \in Nat /\ low \in Nat
    BY <1>2 DEF ASCII0
  <2> QED
    BY <1>3, <2>1
<1>5. AfterPrefix' = Body(out')
  BY DEF AfterPrefix, Body
<1> HIDE DEF c, t, high, low
<1>6. /\ t \in Seq(Nat) /\ Append(t, c) \in Seq(Nat)
      /\ Body(Append(out, c)) = Append(t, c) /\ Append(out, c) = Prefix \o Append(t, c)
  BY <1>1, <1>4, OutGrows DEF t
<1>7. /\ AfterPrefix' = Append(t, c) /\ out' = Prefix \o AfterPrefix'
      /\ AfterPrefix' \in Seq(Nat)
  BY <1>1, <1>5, <1>6
<1>8. PrefixInv'
  BY <1>1, <1>7 DEF PrefixInv
<1>9. Hexstr8Inv'
  <2>1. CASE pos = 0
    <3>1. AfterPrefix' = <<high>> /\ pc' = "digits" /\ pos' = 1
      BY <1>1, <1>3, <1>7, <2>1
    <3> QED
      BY <1>1, <3>1 DEF Hexstr8Inv, high
  <2>2. CASE pos = 1
    <3>1. pos # 0 /\ t = <<high>> /\ c = low /\ pc' = "done"
      BY <1>1, <1>3, <2>2
    <3>2. AfterPrefix' = <<high, low>>
      <4>1. high \in Nat /\ low \in Nat
        BY <1>2 DEF ASCII0, high, low
      <4> QED
        BY <1>7, <3>1, <4>1, TwoAre
    <3> QED
      BY <1>1, <3>1, <3>2 DEF Hexstr8Inv, high, low
  <2> QED
    BY <1>1, <2>1, <2>2
<1>10. PrinthexInv' /\ FixedInv'
  BY <1>1 DEF PrinthexInv, FixedInv
<1> QED
  BY <1>8, <1>9, <1>10 DEF HexInv

(***************************************************************************)
(* The invariant holds, and the properties follow from it.                 *)
(***************************************************************************)
LEMMA Invariance == Spec => []NInv
<1>1. Init => NInv
  <2> SUFFICES ASSUME Init PROVE NInv
    OBVIOUS
  <2>1. TypeInv
    BY DEF Init, TypeInv
  <2>2. CASE fun \in Decimal
    <3>1. HexInv
      BY <2>2 DEF HexInv, PrefixInv, PrinthexInv, FixedInv, Hexstr8Inv, Decimal
    <3> QED
      BY <2>1, <3>1, DecimalInit DEF NInv, HexInv
  <2>3. CASE fun \notin Decimal
    <3>1. DecimalInv
      BY <2>3 DEF DecimalInv
    <3> QED
      BY <2>1, <2>3, <3>1, HexInit DEF NInv, HexInv
  <2> QED
    BY <2>2, <2>3
<1>2. TypeInv /\ TypeInv' /\ NInv /\ [Next]_vars => NInv'
  <2> SUFFICES ASSUME TypeInv, TypeInv', NInv, [Next]_vars PROVE NInv'
    OBVIOUS
  <2>1. DecimalInv /\ HexInv
    BY DEF NInv, HexInv
  <2>2. ASSUME fun' = fun, fun \in Decimal PROVE HexInv'
    BY <2>2 DEF HexInv, PrefixInv, PrinthexInv, FixedInv, Hexstr8Inv, Decimal
  <2>3. ASSUME fun' = fun, fun \notin Decimal PROVE DecimalInv'
    BY <2>3 DEF DecimalInv
  <2>4. ASSUME DecimalDigit PROVE DecimalInv' /\ HexInv'
    BY <2>1, <2>2, <2>4, DecimalTurn DEF DecimalDigit
  <2>5. ASSUME DecimalEnd PROVE DecimalInv' /\ HexInv'
    BY <2>1, <2>2, <2>5, DecimalIsEnded DEF DecimalEnd
  <2>6. ASSUME PrinthexDigit PROVE DecimalInv' /\ HexInv'
    BY <2>1, <2>3, <2>6, PrinthexTurn DEF PrinthexDigit, Decimal
  <2>7. ASSUME PrinthexEnd PROVE DecimalInv' /\ HexInv'
    BY <2>1, <2>3, <2>7, PrinthexIsEnded DEF PrinthexEnd, Decimal
  <2>8. ASSUME FixedDigit PROVE DecimalInv' /\ HexInv'
    BY <2>1, <2>3, <2>8, FixedTurn, Hexstr8Turn DEF FixedDigit, Decimal
  <2>9. ASSUME UNCHANGED vars PROVE DecimalInv' /\ HexInv'
    <3>1. DecimalInv'
      BY <2>1, <2>9 DEF vars, DecimalInv, Written, Magnitude, Signs
    <3>2. HexInv'
      BY <2>1, <2>9 DEF vars, HexInv, PrefixInv, PrinthexInv, FixedInv, Hexstr8Inv,
                        AfterPrefix, Above, Width
    <3> QED
      BY <3>1, <3>2
  <2> QED
    BY <2>4, <2>5, <2>6, <2>7, <2>8, <2>9 DEF Next, NInv, HexInv
<1>3. NInv => TypeInv
  BY DEF NInv
<1> QED
  BY <1>1, <1>2, <1>3, Typed, PTL DEF Spec

LEMMA NumeralIs ==
  ASSUME NEW s, NEW b, NEW x, Numeral(s, b, x), s # <<>>
  PROVE  IsNumeral(s, b, x)
BY DEF Numeral, IsNumeral

(* itos writes the decimal numeral of its argument, for every width and    *)
(* every argument, and so does printint for arguments that are not         *)
(* negative (io.c, str.c).                                                 *)
THEOREM DecimalWrites == Spec => []DecimalRight
<1>1. NInv => DecimalRight
  <2> SUFFICES ASSUME NInv, pc = "done", fun \in Decimal, arg >= 0
               PROVE  IsNumeral(out, 10, arg) /\ NoLeadingZero(out)
    BY DEF DecimalRight
  <2>1. arg \in Int /\ Magnitude = arg
    BY ArgIs DEF NInv, Magnitude
  <2>2. IF arg = 0 THEN out = <<ASCII0>> ELSE Written(Magnitude)
    BY DEF NInv, DecimalInv
  <2>3. CASE arg = 0
    <3> DEFINE none == <<>>
               c == ASCII0
    <3>1. none \in Seq(Nat) /\ c \in Nat /\ DigitValue(c) = 0 /\ DigitValue(c) < 10
      BY DigitValueIs DEF ASCII0
    <3>2. Numeral(none, 10, 0)
      BY NumeralStarts
    <3> HIDE DEF c
    <3>3. Append(none, c) = <<c>>
      BY <3>1
    <3> HIDE DEF none
    <3>4. Numeral(Append(none, c), 10, 10 * 0 + DigitValue(c))
      BY <3>1, <3>2, NumeralGrows
    <3>5. Numeral(<<c>>, 10, 0)
      BY <3>1, <3>3, <3>4
    <3>6. <<c>> # <<>> /\ ~(Len(<<c>>) > 1)
      OBVIOUS
    <3> QED
      BY <2>2, <2>3, <3>5, <3>6, NumeralIs DEF NoLeadingZero, c
  <2>4. CASE arg # 0
    <3>1. Spelled(arg, out, arg)
      BY <2>1, <2>2, <2>4 DEF Written
    <3>2. Numeral(out, 10, arg) /\ out # <<>> /\ out[1] # ASCII0
      BY <2>4, <3>1 DEF Spelled
    <3> QED
      BY <3>2, NumeralIs DEF NoLeadingZero
  <2> QED
    BY <2>3, <2>4
<1> QED
  BY <1>1, Invariance, PTL

(* For a negative argument, the lowest included, printint writes the sign  *)
(* and one character for each digit, a 0 for each 0, for every width       *)
(* (io.c:142).                                                             *)
THEOREM NegativesAreShaped == Spec => []NegativeShape
<1>1. NInv => NegativeShape
  <2> SUFFICES ASSUME NInv, pc = "done", fun = "printint", arg < 0
               PROVE  /\ Len(out) = 1 + Len(DigitsOf[-arg]) /\ out[1] = Minus
                      /\ \A k \in 1..Len(DigitsOf[-arg]) :
                           DigitsOf[-arg][k] = 0 => out[k + 1] = ASCII0
    BY DEF NegativeShape
  <2> DEFINE w == DigitsOf[-arg]
  <2>1. arg \in Int /\ Magnitude = -arg /\ arg # 0 /\ -arg \in 0..Range2
    BY ArgIs, RangeIs DEF NInv, Magnitude
  <2>2. out = <<Minus>> \o Shifted(w)
    BY <2>1 DEF NInv, DecimalInv, Written, Spelled, Decimal
  <2>3. w \in Seq(0..9)
    <3> DEFINE x == -arg
               m == x \div 10
               d == x % 10
    <3>1. x \in 0..Range2 /\ x # 0 /\ m \in 0..Range2 /\ d \in 0..9 /\ x = 10 * m + d
      BY <2>1, RangeIs
    <3> HIDE DEF x, m, d
    <3>2. DigitsOf[m] \in Seq(0..9) /\ DigitsOf[x] = Append(DigitsOf[m], d)
      BY <3>1, DigitsOfIs
    <3>3. DigitsOf[x] \in Seq(0..9)
      BY <3>1, <3>2
    <3> QED
      BY <3>3 DEF x
  <2> HIDE DEF w
  <2>4. /\ Shifted(w) \in Seq(Int) /\ Len(Shifted(w)) = Len(w) /\ Len(w) \in Nat
        /\ \A k \in 1..Len(w) : Shifted(w)[k] = ASCII0 + Shift(w[k])
    BY <2>3, LenProperties DEF Shifted, Shift, ASCII0
  <2> DEFINE z == Shifted(w)
             one == <<Minus>>
  <2>5. one \in Seq(Int) /\ Len(one) = 1 /\ one[1] = Minus
    BY DEF Minus
  <2>6. z \in Seq(Int) /\ out = one \o z
    BY <2>2, <2>4
  <2> HIDE DEF z, one
  <2>7. /\ Len(out) = 1 + Len(z) /\ out[1] = one[1]
        /\ \A k \in 1..Len(z) : out[k + 1] = z[k]
    <3> DEFINE c == one \o z
    <3>0. /\ Len(c) = Len(one) + Len(z)
          /\ \A k \in 1..(Len(one) + Len(z)) :
               c[k] = IF k <= Len(one) THEN one[k] ELSE z[k - Len(one)]
      BY <2>5, <2>6, ConcatProperties
    <3> HIDE DEF c
    <3>1. Len(c) = 1 + Len(z) /\ Len(z) \in Nat
      BY <2>5, <2>6, <3>0
    <3>2. \A k \in 1..(1 + Len(z)) : c[k] = IF k <= 1 THEN one[k] ELSE z[k - 1]
      BY <2>5, <3>0
    <3>3. ASSUME NEW k \in 1..Len(z) PROVE c[k + 1] = z[k]
      <4>1. k + 1 \in 1..(1 + Len(z)) /\ ~(k + 1 <= 1) /\ k + 1 - 1 = k
        BY <3>1
      <4> QED
        BY <3>2, <4>1
    <3>4. c[1] = one[1]
      BY <3>1, <3>2
    <3> QED
      BY <2>6, <3>1, <3>3, <3>4 DEF c
  <2>8. \A k \in 1..Len(w) : w[k] = 0 => z[k] = ASCII0
    BY <2>4 DEF z, Shift, ASCII0
  <2> QED
    BY <2>4, <2>5, <2>7, <2>8 DEF w, z
<1> QED
  BY <1>1, Invariance, PTL

(* What the hexadecimal functions write, for every width and every         *)
(* argument, but for the two cases in which it is not the number (io.c,    *)
(* str.c).                                                                 *)
THEOREM HexWrites == Spec => []HexRight
<1>1. NInv => HexRight
  <2> SUFFICES ASSUME NInv, pc = "done", fun \notin Decimal
               PROVE  HexRight
    BY DEF HexRight
  <2>1. PrefixInv /\ PrinthexInv /\ FixedInv /\ Hexstr8Inv /\ TypeInv
    BY DEF NInv
  <2>2. AfterPrefix \in Seq(Nat) /\ SubSeq(out, 1, 2) = Prefix
    BY <2>1, BodyIs DEF PrefixInv
  <2>3. ASSUME fun = "printhex"
        PROVE  arg >= 16 => IsNumeral(AfterPrefix, 16, arg)
    BY <2>1, <2>3, ArgIs, NumeralIs DEF PrinthexInv
  <2>4. ASSUME fun \in {"hexstr64", "printbyte"}
        PROVE  IsNumeral(AfterPrefix, 16, arg) /\ Len(AfterPrefix) = Width
    <3>1. Numeral(AfterPrefix, 16, arg) /\ Len(AfterPrefix) = Width
      BY <2>1, <2>4 DEF FixedInv
    <3>2. AfterPrefix # <<>>
      <4>1. Width # 0
        BY Powers DEF Width
      <4>2. Len(<<>>) = 0
        OBVIOUS
      <4> QED
        BY <3>1, <4>1, <4>2
    <3> QED
      BY <3>1, <3>2, NumeralIs
  <2>5. ASSUME fun = "hexstr8"
        PROVE  arg \div 16 < 10 /\ arg % 16 < 10 => IsNumeral(AfterPrefix, 16, arg)
    <3> DEFINE h == arg \div 16
               l == arg % 16
               a == h + ASCII0
               b == l + ASCII0
               one == <<a>>
               two == <<a, b>>
               none == <<>>
    <3>1. h \in 0..15 /\ l \in 0..15 /\ arg = 16 * h + l
      <4>1. arg \in 0..255
        BY <2>1, <2>5, ArgIs
      <4> QED
        BY <4>1
    <3> HIDE DEF h, l
    <3>2. a \in Nat /\ b \in Nat
      BY <3>1 DEF ASCII0
    <3>3. /\ DigitValue(a) = IF h < 10 THEN h ELSE 99
          /\ DigitValue(b) = IF l < 10 THEN l ELSE 99
      BY <3>1, DigitValueIs
    <3>4. AfterPrefix = two
      BY <2>1, <2>5 DEF Hexstr8Inv, h, l
    <3> HIDE DEF a, b
    <3>5. Append(none, a) = one /\ Append(one, b) = two
      BY <3>2, TwoAre
    <3>6. /\ none \in Seq(Nat) /\ one \in Seq(Nat) /\ two \in Seq(Nat) /\ Len(two) = 2
          /\ two[1] = a /\ two[2] = b /\ two # <<>>
      BY <3>2
    <3>7. Numeral(none, 16, 0)
      BY NumeralStarts
    <3> HIDE DEF none, one, two
    <3>8. CASE h < 10 /\ l < 10
      <4> DEFINE zero == 0
      <4>1. zero = 0 /\ Numeral(none, 16, zero) /\ 16 \in Nat /\ DigitValue(a) < 16
        BY <3>1, <3>3, <3>7, <3>8
      <4> HIDE DEF zero
      <4>a. Numeral(Append(none, a), 16, 16 * zero + DigitValue(a))
        BY <3>2, <4>1, NumeralGrows
      <4>2. Numeral(one, 16, h)
        BY <3>1, <3>3, <3>5, <3>8, <4>1, <4>a
      <4>3. Numeral(Append(one, b), 16, 16 * h + DigitValue(b))
        BY <3>1, <3>2, <3>3, <3>8, <4>2, NumeralGrows
      <4>4. Numeral(two, 16, arg)
        BY <3>1, <3>3, <3>5, <3>8, <4>3
      <4> QED
        BY <3>4, <3>6, <3>8, <4>4, NumeralIs DEF h, l
    <3> QED
      BY <3>8 DEF h, l
  <2> QED
    BY <2>2, <2>3, <2>4, <2>5 DEF HexRight, Width
<1> QED
  BY <1>1, Invariance, PTL
=============================================================================
