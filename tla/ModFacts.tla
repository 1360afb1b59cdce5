------------------------------ MODULE ModFacts ------------------------------
EXTENDS Integers, TLAPS

LEMMA ModRange == \A n \in Nat, m \in Nat \ {0} : n % m \in 0 .. m - 1
  OBVIOUS

LEMMA DivMod ==
  ASSUME NEW m \in Nat \ {0}, NEW n \in Nat
  PROVE  n = ((n \div m) * m) + (n % m) /\ n \div m \in Nat
  OBVIOUS

LEMMA ModUnique ==
  ASSUME NEW m \in Nat \ {0}, NEW q \in Nat, NEW r \in 0 .. m - 1
  PROVE  ((q * m) + r) % m = r
  OBVIOUS

LEMMA ModSucc ==
  ASSUME NEW m \in Nat \ {0}, NEW n \in Nat
  PROVE  (n + 1) % m = IF n % m = m - 1 THEN 0 ELSE (n % m) + 1
<1> DEFINE q == n \div m
           r == n % m
<1>1. n = (q * m) + r /\ q \in Nat /\ r \in 0 .. m - 1
  BY DivMod, ModRange
<1> HIDE DEF q, r
<1>2. CASE r = m - 1
  <2>1. n + 1 = ((q + 1) * m) + 0
    BY <1>1, <1>2
  <2>2. (((q + 1) * m) + 0) % m = 0
    BY <1>1, ModUnique
  <2> QED BY <2>1, <2>2, <1>2 DEF r
<1>3. CASE r # m - 1
  <2>1. n + 1 = (q * m) + (r + 1) /\ r + 1 \in 0 .. m - 1
    BY <1>1, <1>3
  <2>2. ((q * m) + (r + 1)) % m = r + 1
    BY <1>1, <2>1, ModUnique
  <2> QED BY <2>1, <2>2, <1>3 DEF r
<1> QED BY <1>2, <1>3

LEMMA ModRangeInt == \A n \in Int, m \in Nat \ {0} : n % m \in 0 .. m - 1
  OBVIOUS

LEMMA ModOfSmall ==
  ASSUME NEW m \in Nat \ {0}, NEW r \in 0 .. m - 1
  PROVE  r % m = r
<1>1. ((0 * m) + r) % m = r
  BY ModUnique
<1> QED BY <1>1

LEMMA ModSmaller ==
  ASSUME NEW m \in Nat \ {0}, NEW n \in Nat
  PROVE  n % m \in Nat /\ n % m <= n
  BY DivMod, ModRange

LEMMA DivModInt ==
  ASSUME NEW m \in Nat \ {0}, NEW n \in Int
  PROVE  n = ((n \div m) * m) + (n % m) /\ n \div m \in Int
  OBVIOUS

(* Two numbers less than m apart that are the same modulo m are the same.  *)
LEMMA ModDistinct ==
  ASSUME NEW m \in Nat \ {0}, NEW a \in Int, NEW b \in Int,
         a % m = b % m, a - b < m, b - a < m
  PROVE  a = b
<1> DEFINE p == a \div m
           q == b \div m
           r == a % m
<1>1. a = (p * m) + r /\ b = (q * m) + r /\ p \in Int /\ q \in Int /\ r \in Int
  BY DivModInt, ModRangeInt
<1> HIDE DEF p, q, r
<1>2. a - b = (p - q) * m
  BY <1>1
<1>3. p - q < 1 /\ q - p < 1
  BY <1>1, <1>2
<1> QED BY <1>1, <1>3

(* Two numbers that differ by a multiple of m are the same modulo m.       *)
LEMMA ModShift ==
  ASSUME NEW m \in Nat \ {0}, NEW a \in Int, NEW k \in Int
  PROVE  (a + (k * m)) % m = a % m
<1> DEFINE b == a + (k * m)
           q == b \div m
           p == a \div m
           r == b % m
           t == a % m
<1>1. /\ b = (q * m) + r /\ a = (p * m) + t
      /\ p \in Int /\ q \in Int /\ r \in 0 .. m - 1 /\ t \in 0 .. m - 1
  BY DivModInt, ModRangeInt
<1>2. b = a + (k * m)
  OBVIOUS
<1> HIDE DEF p, q, r, t, b
<1>3. r - t = ((k + p) - q) * m
  BY <1>1, <1>2
<1>4. (k + p) - q < 1 /\ (k + p) - q > -1
  BY <1>1, <1>3
<1>5. r = t
  BY <1>1, <1>3, <1>4
<1> QED BY <1>5 DEF r, t, b

(* Reducing a summand first changes nothing.                               *)
LEMMA ModAdd ==
  ASSUME NEW m \in Nat \ {0}, NEW a \in Int, NEW b \in Int
  PROVE  ((a % m) + b) % m = (a + b) % m
<1> DEFINE p == a \div m
           r == a % m
           c == r + b
<1>1. a = (p * m) + r /\ p \in Int /\ r \in Int
  BY DivModInt, ModRangeInt
<1> HIDE DEF p, r
<1>2. a + b = c + (p * m) /\ c \in Int
  BY <1>1
<1> HIDE DEF c
<1>3. (c + (p * m)) % m = c % m
  BY <1>1, <1>2, ModShift
<1> QED BY <1>2, <1>3 DEF c, r

LEMMA ModSub ==
  ASSUME NEW m \in Nat \ {0}, NEW a \in Int, NEW b \in Int
  PROVE  ((a % m) - b) % m = (a - b) % m
<1> DEFINE c == -b
<1>1. c \in Int /\ (a % m) + c = (a % m) - b /\ a + c = a - b
  BY ModRangeInt
<1> HIDE DEF c
<1>2. ((a % m) + c) % m = (a + c) % m
  BY <1>1, ModAdd
<1> QED BY <1>1, <1>2
=============================================================================
