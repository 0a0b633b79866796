---------------------------- MODULE TimingProofs -----------------------------
(***************************************************************************)
(* Proofs about Timing and TimingWindows, for every clock resolution,      *)
(* counter frequency, width of integers, precision of doubles, lateness    *)
(* and number of signals: sleeps are as long as asked, failures are the    *)
(* system's, and readings are subtracted as exactly as doubles allow.      *)
(***************************************************************************)
EXTENDS TimingWindows, SequenceLemmas, TLAPS

-----------------------------------------------------------------------------
(* Arithmetic.                                                             *)

\* Division with remainder.
LEMMA DivMod ==
  ASSUME NEW a \in Nat \ {0}, NEW x \in Int
  PROVE  /\ x \div a \in Int /\ (x % a) \in 0..a - 1
         /\ x = (x \div a) * a + (x % a)
         /\ x >= 0 => x \div a \in Nat
  BY SMT

LEMMA Distributes ==
  ASSUME NEW p \in Int, NEW q \in Int, NEW n \in Int
  PROVE  /\ p * n \in Int /\ q * n \in Int
         /\ (q - p) * n = q * n - p * n
         /\ (q + p) * n = q * n + p * n
  BY SMT

\* Products of natural numbers, and of numbers that are not above each other.
LEMMA Monotone ==
  ASSUME NEW a \in Int, NEW b \in Int, a <= b, NEW n \in Nat
  PROVE  a * n \in Int /\ b * n \in Int /\ a * n <= b * n
<1>1. (b - a) * n = b * n - a * n /\ a * n \in Int /\ b * n \in Int
  BY Distributes
<1>2. b - a \in Nat
  OBVIOUS
<1>3. \A c \in Nat : c * n \in Nat
  BY SMT
<1>4. (b - a) * n \in Nat
  BY <1>2, <1>3
<1> QED
  BY <1>1, <1>4

\* A common factor may be left out.
LEMMA Cancels ==
  ASSUME NEW a \in Int, NEW b \in Int, NEW n \in Nat \ {0}
  PROVE  /\ a * n <= b * n => a <= b
         /\ a * n < b * n => a < b
<1>1. ASSUME b <= a PROVE b * n <= a * n /\ b * n \in Int /\ a * n \in Int
  BY <1>1, Monotone
<1>2. ASSUME b + 1 <= a PROVE (b + 1) * n <= a * n /\ (b + 1) * n = b * n + n
                             /\ b * n \in Int /\ a * n \in Int
  <2>1. b + 1 \in Int
    OBVIOUS
  <2>2. (b + 1) * n <= a * n /\ a * n \in Int
    BY <1>2, <2>1, Monotone
  <2>3. (b + 1) * n = b * n + n /\ b * n \in Int
    BY SMT
  <2> QED
    BY <2>2, <2>3
<1> QED
  BY <1>1, <1>2

\* A product lies at least one factor away from zero, or is zero.
LEMMA NoSmallMultiple ==
  ASSUME NEW a \in Nat \ {0}, NEW d \in Int, NEW p \in Int, p = d * a, -a < p, p < a
  PROVE  d = 0
<1>1. d >= 1 => d * a >= a
  BY SMT
<1>2. d <= -1 => d * a <= -a
  BY SMT
<1> QED
  BY <1>1, <1>2

\* A multiple divides without remainder.
LEMMA DivOfMultiple ==
  ASSUME NEW a \in Nat \ {0}, NEW m \in Int
  PROVE  (m * a) \div a = m
<1> DEFINE x == m * a
           q == x \div a
<1>1. x \in Int
  BY SMT
<1>2. q \in Int /\ (x % a) \in 0..a - 1 /\ x = q * a + (x % a)
  BY <1>1, DivMod
<1>3. (m - q) * a = m * a - q * a /\ q * a \in Int
  <2>1. q \in Int /\ a \in Int
    BY <1>2
  <2> HIDE DEF q
  <2> QED
    BY <2>1, Distributes
<1> HIDE DEF q
<1>4. (m - q) * a = x % a
  BY <1>1, <1>2, <1>3
<1>5. m - q = 0
  <2>1. m - q \in Int /\ (x % a) \in Int /\ -a < (x % a) /\ (x % a) < a
    BY <1>2
  <2> QED
    BY <1>4, <2>1, NoSmallMultiple
<1> QED
  BY <1>2, <1>5 DEF q

-----------------------------------------------------------------------------
(* Doubles.                                                                *)

\* num / den is no larger than the doubles
Covered(num, den) == \E p \in PowersOfTwo : num < p * Precision * den

\* The spacing is large enough, and half of it is not.
LEMMA SpacingIs ==
  ASSUME NEW num \in Nat, NEW den \in Nat \ {0}, Covered(num, den)
  PROVE  LET p == Spacing(num, den)
         IN  /\ p \in PowersOfTwo /\ num < p * Precision * den
             /\ p = 1 \/ (\E h \in PowersOfTwo : p = 2 * h /\ h * Precision * den <= num)
             /\ \A q \in PowersOfTwo : num < q * Precision * den => p <= q
<1> DEFINE S == {q \in PowersOfTwo : num < q * Precision * den}
           Least(p) == /\ num < p * Precision * den
                       /\ \A q \in PowersOfTwo : q < p => num >= q * Precision * den
           p == CHOOSE x \in PowersOfTwo : Least(x)
<1>1. PowersOfTwo \subseteq Nat \ {0} /\ Precision \in Nat
  BY DoublesConstants
<1>2. \A q \in PowersOfTwo : q * Precision * den \in Nat
  <2>1. \A x \in Nat, y \in Nat : x * y \in Nat
    BY SMT
  <2> QED
    BY <1>1, <2>1
<1>3. S # {} /\ S \in SUBSET Nat
  BY <1>1 DEF Covered
<1>4. PICK x \in S : \A y \in S : x <= y
  BY <1>3, LeastNatural
<1>5. \A q \in PowersOfTwo : q < x => num >= q * Precision * den
  <2> SUFFICES ASSUME NEW q \in PowersOfTwo, q < x PROVE num >= q * Precision * den
    OBVIOUS
  <2>1. q \notin S
    BY <1>1, <1>4
  <2>2. ~(num < q * Precision * den)
    BY <2>1
  <2> HIDE DEF S
  <2> QED
    BY <1>2, <2>2
<1>6. x \in PowersOfTwo /\ Least(x)
  BY <1>4, <1>5
<1>7. p \in PowersOfTwo /\ Least(p)
  <2> HIDE DEF Least
  <2> QED
    BY <1>6
<1>8. p = Spacing(num, den)
  BY DEF Spacing
<1> HIDE DEF p
<1>9. p = 1 \/ (\E h \in PowersOfTwo : p = 2 * h /\ h * Precision * den <= num)
  <2> SUFFICES ASSUME p # 1
               PROVE  \E h \in PowersOfTwo : p = 2 * h /\ h * Precision * den <= num
    OBVIOUS
  <2>1. p % 2 = 0 /\ p \div 2 \in PowersOfTwo
    BY <1>7, DoublesConstants
  <2>2. p = 2 * (p \div 2) /\ p \div 2 < p
    BY <1>1, <1>7, <2>1
  <2>3. (p \div 2) * Precision * den <= num
    BY <1>2, <1>7, <2>1, <2>2
  <2> QED
    BY <2>1, <2>2, <2>3
<1>10. \A q \in PowersOfTwo : num < q * Precision * den => p <= q
  <2> SUFFICES ASSUME NEW q \in PowersOfTwo, num < q * Precision * den, ~(p <= q) PROVE FALSE
    OBVIOUS
  <2>1. q < p
    BY <1>1, <1>7
  <2>2. num >= q * Precision * den
    BY <1>7, <2>1
  <2> QED
    BY <1>2, <2>2
<1> QED
  BY <1>7, <1>8, <1>9, <1>10

\* Rounding changes a fraction by half of the spacing at most.
LEMMA NearestIs ==
  ASSUME NEW num \in Nat, NEW den \in Nat \ {0}, Covered(num, den)
  PROVE  LET p == Spacing(num, den)
             d == Nearest(num, den)
         IN  /\ d \in Nat /\ d * den \in Nat /\ p * den \in Nat
             /\ 2 * (d * den - num) <= p * den
             /\ 2 * (num - d * den) <= p * den
<1> DEFINE p == Spacing(num, den)
           s == p * den
           below == num \div s
           rest == num % s
           up == 2 * rest > s \/ (2 * rest = s /\ below % 2 = 1)
           d == Nearest(num, den)
<1>1. p \in Nat \ {0}
  BY SpacingIs, DoublesConstants
<1>2. s \in Nat \ {0}
  <2> HIDE DEF p
  <2> QED
    BY <1>1, SMT
<1>3. d = p * (IF up THEN below + 1 ELSE below)
  BY DEF Nearest
<1> HIDE DEF p, d
<1>4. below \in Nat /\ rest \in 0..s - 1 /\ num = below * s + rest
  <2>1. num \in Int /\ num >= 0
    OBVIOUS
  <2> HIDE DEF s
  <2> QED
    BY <1>2, <2>1, DivMod
<1>5. s = p * den
  OBVIOUS
<1> HIDE DEF s, below, rest
<1>6. /\ (p * below) * den = below * s
      /\ (p * (below + 1)) * den = below * s + s
      /\ p * below \in Nat /\ p * (below + 1) \in Nat /\ below * s \in Nat
  <2>1. \A x \in Nat, y \in Nat : x * y \in Nat
    BY SMT
  <2>2. (p * below) * den = below * (p * den)
    BY <1>1, <1>4, SMT
  <2>3. (p * (below + 1)) * den = (p * below) * den + p * den
    BY <1>1, <1>4, SMT
  <2>4. below + 1 \in Nat /\ p \in Nat /\ s \in Nat
    BY <1>1, <1>2, <1>4
  <2> QED
    BY <1>4, <1>5, <2>1, <2>2, <2>3, <2>4
<1>7. CASE up
  <2>1. d = p * (below + 1) /\ 2 * rest >= s
    BY <1>2, <1>3, <1>4, <1>7
  <2>2. d \in Nat /\ d * den = below * s + s
    BY <1>6, <2>1
  <2> QED
    BY <1>2, <1>4, <1>5, <1>6, <2>1, <2>2 DEF p, d
<1>8. CASE ~up
  <2>1. d = p * below /\ 2 * rest <= s
    BY <1>2, <1>3, <1>4, <1>8
  <2>2. d \in Nat /\ d * den = below * s
    BY <1>6, <2>1
  <2> QED
    BY <1>2, <1>4, <1>5, <1>6, <2>1, <2>2 DEF p, d
<1> QED
  BY <1>7, <1>8

\* Rounding is off by no more than one part of Precision, unless the fraction is
\* close to zero.
LEMMA NearestClose ==
  ASSUME NEW num \in Nat, NEW den \in Nat \ {0}, Covered(num, den),
         Precision * den <= 2 * num
  PROVE  LET d == Nearest(num, den)
         IN  /\ d \in Nat /\ d * den \in Nat
             /\ (d * den) * Precision <= num * (Precision + 1)
             /\ (d * den) * Precision >= num * (Precision - 1)
<1> DEFINE p == Spacing(num, den)
           s == p * den
           d == Nearest(num, den)
           x == d * den
<1>1. /\ d \in Nat /\ x \in Nat /\ s \in Nat
      /\ 2 * (x - num) <= s /\ 2 * (num - x) <= s
  BY NearestIs
<1>2. s * Precision <= 2 * num
  <2>1. p \in Nat \ {0} /\ Precision \in Nat
    BY SpacingIs, DoublesConstants
  <2>2. CASE p = 1
    BY <2>1, <2>2
  <2>3. CASE p # 1
    <3>1. PICK h \in PowersOfTwo : p = 2 * h /\ h * Precision * den <= num
      BY <2>3, SpacingIs
    <3>2. h \in Nat
      BY <3>1, DoublesConstants
    <3> HIDE DEF p
    <3>3. (p * den) * Precision = 2 * (h * Precision * den) /\ h * Precision * den \in Nat
      BY <2>1, <3>1, <3>2, SMT
    <3> QED
      BY <3>1, <3>3
  <2> QED
    BY <2>2, <2>3
<1> HIDE DEF p, s, d, x
<1>3. /\ Precision \in Nat
      /\ num * (Precision + 1) = num * Precision + num
      /\ num * (Precision - 1) = num * Precision - num
      /\ num * Precision \in Int /\ x * Precision \in Int /\ s * Precision \in Int
  <2>1. Precision \in Int /\ Precision \in Nat /\ num \in Int /\ x \in Int /\ s \in Int
    BY <1>1, DoublesConstants
  <2> QED
    BY <2>1, SMT
<1>4. /\ 2 * (x * Precision - num * Precision) <= s * Precision
      /\ 2 * (num * Precision - x * Precision) <= s * Precision
  <2>1. 2 * (x - num) \in Int /\ 2 * (num - x) \in Int /\ s \in Int /\ Precision \in Nat
    BY <1>1, <1>3
  <2>2. /\ (2 * (x - num)) * Precision <= s * Precision
        /\ (2 * (num - x)) * Precision <= s * Precision
    BY <1>1, <2>1, Monotone
  <2>3. /\ (2 * (x - num)) * Precision = 2 * (x * Precision - num * Precision)
        /\ (2 * (num - x)) * Precision = 2 * (num * Precision - x * Precision)
    BY <1>1, <2>1, SMT
  <2> QED
    BY <2>2, <2>3
<1>5. x * Precision <= num * Precision + num /\ x * Precision >= num * Precision - num
  <2> DEFINE a == x * Precision
             b == num * Precision
             c == s * Precision
  <2>1. a \in Int /\ b \in Int /\ c \in Int /\ c <= 2 * num
        /\ 2 * (a - b) <= c /\ 2 * (b - a) <= c
    BY <1>2, <1>3, <1>4
  <2> HIDE DEF a, b, c
  <2>2. a <= b + num /\ a >= b - num
    BY <2>1
  <2> QED
    BY <2>2 DEF a, b
<1>6. x * Precision <= num * (Precision + 1) /\ x * Precision >= num * (Precision - 1)
  BY <1>3, <1>5
<1> QED
  BY <1>1, <1>6 DEF d, x

\* A multiple of a power of two is a double if the factor is a significand.
LEMMA NearestExact ==
  ASSUME NEW m \in Nat, m <= Precision, NEW q \in PowersOfTwo, NEW den \in Nat \ {0},
         Covered((m * q) * den, den)
  PROVE  Nearest((m * q) * den, den) = m * q
<1> DEFINE v == m * q
           num == v * den
           p == Spacing(num, den)
<1>1. /\ q \in Nat \ {0} /\ Precision \in Nat /\ Precision >= 4 /\ Precision % 2 = 0
  BY DoublesConstants
<1>2. v \in Nat /\ num \in Nat
  <2>1. \A x \in Nat, y \in Nat : x * y \in Nat
    BY SMT
  <2> QED
    BY <1>1, <2>1
<1>3. /\ p \in PowersOfTwo /\ num < p * Precision * den
      /\ p = 1 \/ (\E h \in PowersOfTwo : p = 2 * h /\ h * Precision * den <= num)
      /\ \A r \in PowersOfTwo : num < r * Precision * den => p <= r
  <2> HIDE DEF num
  <2> QED
    BY <1>2, SpacingIs DEF num
<1>4. p \in Nat \ {0}
  BY <1>3, DoublesConstants
<1> HIDE DEF p
<1>5. PICK k \in Nat : v = k * p
  <2>1. CASE m < Precision
    <3>1. num < q * Precision * den
      <4>1. num = m * (q * den) /\ q * Precision * den = Precision * (q * den)
        BY <1>1, SMT
      <4>2. q * den \in Nat \ {0}
        BY <1>1, SMT
      <4>3. m * (q * den) < Precision * (q * den)
        <5> DEFINE c == q * den
        <5>1. c \in Nat \ {0}
          BY <4>2
        <5> HIDE DEF c
        <5>2. (m + 1) * c <= Precision * c /\ (m + 1) * c = m * c + c /\ m * c \in Int
              /\ Precision * c \in Int
          <6>1. m + 1 \in Int /\ Precision \in Int /\ m + 1 <= Precision /\ c \in Nat
            BY <1>1, <2>1, <5>1
          <6>2. (m + 1) * c <= Precision * c /\ Precision * c \in Int
            BY <6>1, Monotone
          <6>3. (m + 1) * c = m * c + c /\ m * c \in Int
            BY <6>1, SMT
          <6> QED
            BY <6>2, <6>3
        <5>3. m * c < Precision * c
          BY <5>1, <5>2
        <5> QED
          BY <5>3 DEF c
      <4> QED
        BY <4>1, <4>3
    <3>2. p <= q
      BY <1>3, <3>1
    <3>3. q % p = 0
      BY <1>3, <3>2, DoublesConstants
    <3>4. q = (q \div p) * p /\ q \div p \in Nat
      <4>1. q \in Int
        BY <1>1
      <4>2. q >= 0
        BY <1>1
      <4>3. /\ q \div p \in Int /\ q = (q \div p) * p + (q % p)
            /\ q >= 0 => q \div p \in Nat
        BY <1>4, <4>1, DivMod
      <4>4. (q \div p) * p \in Int
        BY <1>4, <4>3, SMT
      <4> QED
        BY <3>3, <4>2, <4>3, <4>4
    <3>5. m * q = (m * (q \div p)) * p /\ m * (q \div p) \in Nat
      <4> DEFINE r == q \div p
      <4>1. r \in Nat /\ q = r * p
        BY <3>4
      <4> HIDE DEF r
      <4>2. m * (r * p) = (m * r) * p /\ m * r \in Nat
        BY <1>4, <4>1, SMT
      <4> QED
        BY <4>1, <4>2 DEF r
    <3> QED
      BY <3>5
  <2>2. CASE m = Precision
    <3>1. q < p /\ p # 1
      <4>1. num = q * (Precision * den) /\ p * Precision * den = p * (Precision * den)
            /\ Precision * den \in Nat \ {0}
        BY <1>1, <1>4, <2>2, SMT
      <4>2. q * (Precision * den) < p * (Precision * den)
        BY <1>3, <4>1
      <4>3. q < p
        <5> DEFINE c == Precision * den
        <5>1. c \in Nat \ {0} /\ q * c < p * c /\ q \in Int /\ p \in Int
          BY <1>1, <1>4, <4>1, <4>2
        <5> HIDE DEF c
        <5> QED
          BY <5>1, Cancels
      <4> QED
        BY <1>1, <1>4, <4>3
    <3>2. PICK h \in PowersOfTwo : p = 2 * h /\ h * Precision * den <= num
      BY <1>3, <3>1
    <3>3. h \in Nat \ {0}
      BY <3>2, DoublesConstants
    <3>4. h <= q
      <4>1. num = q * (Precision * den) /\ h * Precision * den = h * (Precision * den)
            /\ Precision * den \in Nat \ {0}
        BY <1>1, <2>2, <3>3, SMT
      <4> DEFINE c == Precision * den
      <4>2. c \in Nat \ {0} /\ h * c <= q * c /\ q \in Int /\ h \in Int
        BY <1>1, <3>2, <3>3, <4>1
      <4> HIDE DEF c
      <4> QED
        BY <4>2, Cancels
    <3>5. q % h = 0
      BY <3>2, <3>4, DoublesConstants
    <3>6. q = h
      <4>1. q \div h \in Int /\ q = (q \div h) * h
        <5>1. q \in Int
          BY <1>1
        <5>2. q \div h \in Int /\ q = (q \div h) * h + (q % h)
          BY <3>3, <5>1, DivMod
        <5>3. (q \div h) * h \in Int
          BY <3>3, <5>2, SMT
        <5> QED
          BY <3>5, <5>2, <5>3
      <4> DEFINE r == q \div h
      <4>2. r \in Int /\ q = r * h
        BY <4>1
      <4> HIDE DEF r
      <4>3. r * h < 2 * h /\ 1 * h <= r * h
        BY <3>1, <3>2, <3>3, <3>4, <4>2
      <4>4. r < 2 /\ 1 <= r
        BY <3>3, <4>2, <4>3, Cancels
      <4> QED
        BY <3>3, <4>2, <4>4
    <3>7. Precision = 2 * (Precision \div 2) /\ Precision \div 2 \in Nat
      BY <1>1
    <3>8. v = (Precision \div 2) * p
      <4> DEFINE r == Precision \div 2
      <4>1. r \in Nat /\ Precision = 2 * r
        BY <3>7
      <4> HIDE DEF r
      <4>2. (2 * r) * h = r * (2 * h)
        BY <3>3, <4>1, SMT
      <4> QED
        BY <2>2, <3>2, <3>6, <4>1, <4>2 DEF r
    <3> QED
      BY <3>7, <3>8
  <2> QED
    BY <1>1, <2>1, <2>2
<1> HIDE DEF v
<1>6. Nearest(num, den) = p * k
  <2> DEFINE s == p * den
  <2>1. s \in Nat \ {0}
    BY <1>4, SMT
  <2>2. num = k * s
    BY <1>4, <1>5, SMT
  <2> HIDE DEF num, s
  <2>3. num \div s = k
    <3>1. k \in Int
      OBVIOUS
    <3>2. (k * s) \div s = k
      BY <2>1, <3>1, DivOfMultiple
    <3> QED
      BY <2>2, <3>2
  <2>4. num % s = 0
    <3>1. num \in Int
      BY <1>2
    <3>2. (num % s) \in 0..s - 1 /\ num = (num \div s) * s + (num % s)
      BY <2>1, <3>1, DivMod
    <3>3. k * s \in Int /\ num = k * s + (num % s)
      BY <2>1, <2>3, <3>2, SMT
    <3>4. (num % s) \in Int
      BY <2>1, <3>2
    <3> QED
      BY <2>2, <3>3, <3>4
  <2>5. ~(2 * (num % s) > s \/ (2 * (num % s) = s /\ (num \div s) % 2 = 1))
    BY <2>1, <2>4
  <2> QED
    BY <2>3, <2>5 DEF Nearest, s, p
<1>7. p * k = v
  BY <1>4, <1>5, SMT
<1> QED
  BY <1>6, <1>7 DEF num, v
\* Doubles reach as far as DoublesSuffice says.
LEMMA Representable ==
  ASSUME NEW num \in Nat, NEW den \in Nat \ {0},
         num < (8 * Uint64Values * NsPerSec * One) * den
  PROVE  Covered(num, den)
<1> DEFINE top == 8 * Uint64Values * NsPerSec * One
<1>1. PICK p \in PowersOfTwo : top <= p * Precision
  BY DoublesSuffice
<1>2. p \in Nat /\ Precision \in Nat /\ p * Precision \in Int
  <2>1. p \in Nat /\ Precision \in Nat
    BY DoublesConstants
  <2> QED
    BY <2>1, SMT
<1>3. top \in Int
  <2>1. Uint64Values \in Nat /\ NsPerSec \in Nat /\ One \in Nat
    BY TimingConstants, DoublesConstants
  <2>2. \A x \in Nat, y \in Nat : x * y \in Nat
    BY SMT
  <2>3. 8 * Uint64Values \in Nat
    BY <2>1, <2>2
  <2> QED
    BY <2>1, <2>2, <2>3
<1> HIDE DEF top
<1>4. top * den <= (p * Precision) * den /\ top * den \in Int /\ (p * Precision) * den \in Int
  <2> DEFINE b == p * Precision
  <2>1. b \in Int /\ top <= b
    BY <1>1, <1>2
  <2> HIDE DEF b
  <2>2. top * den <= b * den /\ top * den \in Int /\ b * den \in Int
    BY <1>3, <2>1, Monotone
  <2> QED
    BY <2>2 DEF b
<1>5. num < top * den
  BY DEF top
<1>6. num < (p * Precision) * den
  BY <1>4, <1>5
<1> QED
  BY <1>6 DEF Covered

\* The constants, as the lemmas on doubles need them.
LEMMA Widths ==
  /\ One \in Nat \ {0} /\ Precision \in Nat \ {0} /\ NsPerSec \in Nat \ {0}
  /\ Uint64Values \in Nat \ {0} /\ TwosInSec \in Nat \ {0}
  /\ Precision <= Uint64Values /\ Precision * TwosInSec \in Nat
  /\ One >= Precision * Precision /\ Precision * Precision \in Nat /\ Precision <= One
<1>1. One \in Nat \ {0} /\ Precision \in Nat \ {0} /\ NsPerSec \in Nat \ {0}
      /\ Uint64Values \in Nat \ {0} /\ TwosInSec \in Nat \ {0}
      /\ One >= Precision * Precision /\ Precision * TwosInSec <= Uint64Values
  BY TimingConstants, DoublesConstants
<1>2. \A x \in Nat \ {0}, y \in Nat \ {0} : x * y \in Nat /\ x <= x * y
  BY SMT
<1>3. /\ Precision * TwosInSec \in Nat /\ Precision <= Precision * TwosInSec
      /\ Precision * Precision \in Nat /\ Precision <= Precision * Precision
  BY <1>1, <1>2
<1> QED
  BY <1>1, <1>3

\* Integers are represented to one part in 2^53, and up to 2^53 exactly.
LEMMA IntegersRounded ==
  ASSUME NEW n \in Nat, n <= Uint64Values
  PROVE  /\ n <= Precision => DoubleOf(n) = n * One
         /\ n # 0 => /\ DoubleOf(n) \in Nat
                     /\ DoubleOf(n) * Precision <= (n * One) * (Precision + 1)
                     /\ DoubleOf(n) * Precision >= (n * One) * (Precision - 1)
<1> DEFINE num == n * One
<1>1. num \in Nat /\ num <= Uint64Values * One /\ (n # 0 => One <= num)
  <2>1. num <= Uint64Values * One /\ num \in Int
    <3>1. n \in Int /\ Uint64Values \in Int /\ One \in Nat
      BY Widths
    <3> QED
      BY <3>1, Monotone
  <2>2. num \in Nat /\ (n # 0 => One <= num)
    BY Widths, SMT
  <2> QED
    BY <2>1, <2>2
<1>2. Uint64Values * One < (8 * Uint64Values * NsPerSec * One) * 1
      /\ (8 * Uint64Values * NsPerSec * One) * 1 \in Int /\ Uint64Values * One \in Int
  <2> DEFINE a == Uint64Values * One
             b == a * NsPerSec
  <2>1. a \in Nat \ {0}
    BY Widths, SMT
  <2>2. (8 * Uint64Values * NsPerSec * One) * 1 = 8 * b
    <3>1. 8 * Uint64Values * NsPerSec * One = 8 * (Uint64Values * NsPerSec * One)
      BY Widths, SMT
    <3>2. Uint64Values * NsPerSec * One = (Uint64Values * One) * NsPerSec
      BY Widths, SMT
    <3>3. 8 * b \in Int
      BY <2>1, Widths, SMT
    <3> QED
      BY <3>1, <3>2, <3>3
  <2> HIDE DEF a
  <2>3. b \in Nat /\ a <= b
    BY <2>1, Widths, SMT
  <2> HIDE DEF b
  <2>4. a < 8 * b /\ 8 * b \in Int
    BY <2>1, <2>3
  <2> QED
    BY <2>1, <2>2, <2>4 DEF a
<1>3. num < (8 * Uint64Values * NsPerSec * One) * 1
  BY <1>1, <1>2
<1> HIDE DEF num
<1>4. Covered(num, 1)
  BY <1>1, <1>3, Representable
<1>5. ASSUME n <= Precision PROVE Nearest(num, 1) = num
  <2>1. One \in PowersOfTwo /\ (n * One) * 1 = num
    BY <1>1, DoublesConstants DEF num
  <2>2. Nearest((n * One) * 1, 1) = n * One
    BY <1>4, <1>5, <2>1, NearestExact
  <2> QED
    BY <2>1, <2>2 DEF num
<1>6. ASSUME n # 0
      PROVE  LET d == Nearest(num, 1)
             IN  /\ d \in Nat /\ d * Precision <= num * (Precision + 1)
                 /\ d * Precision >= num * (Precision - 1)
  <2> DEFINE d == Nearest(num, 1)
  <2>1. Precision * 1 <= 2 * num
    BY <1>1, <1>6, Widths
  <2>2. /\ d \in Nat /\ d * 1 \in Nat
        /\ (d * 1) * Precision <= num * (Precision + 1)
        /\ (d * 1) * Precision >= num * (Precision - 1)
    BY <1>1, <1>4, <2>1, NearestClose
  <2> HIDE DEF d
  <2>3. d * 1 = d
    BY <2>2
  <2> QED
    BY <2>2, <2>3 DEF d
<1> QED
  BY <1>5, <1>6 DEF DoubleOf, num

\* secs * 1e9 is exact as long as it is at most 2^62: 1e9 leaves 9 bits free.
LEMMA SecondsExact ==
  ASSUME NEW secs \in Nat, secs * NsPerSec <= Precision * TwosInSec,
         secs * NsPerSec < Uint64Values
  PROVE  Seconds(secs) = {secs * NsPerSec}
<1> DEFINE g == NsPerSec \div TwosInSec
           m == secs * g
           q == TwosInSec * One
           n == secs * NsPerSec
<1>1. g \in Nat \ {0} /\ NsPerSec = g * TwosInSec
  <2>1. NsPerSec \in Int
    BY Widths
  <2>2. g \in Int /\ NsPerSec = g * TwosInSec + (NsPerSec % TwosInSec) /\ (NsPerSec >= 0 => g \in Nat)
    BY <2>1, Widths, DivMod
  <2>3. g * TwosInSec \in Int
    BY <2>2, Widths, SMT
  <2>4. NsPerSec = g * TwosInSec /\ g \in Nat
    BY <2>2, <2>3, Widths, TimingConstants
  <2> HIDE DEF g
  <2>5. g # 0
    BY <2>4, Widths
  <2> QED
    BY <2>4, <2>5
<1> HIDE DEF g
<1>2. n = m * TwosInSec /\ m \in Nat /\ n \in Nat /\ secs <= m
  BY <1>1, Widths, SMT
<1>3. m <= Precision
  <2>1. m * TwosInSec <= Precision * TwosInSec /\ m \in Int /\ Precision \in Int
    BY <1>2, Widths
  <2> HIDE DEF m
  <2> QED
    BY <2>1, Widths, Cancels
<1>4. DoubleOf(secs) = secs * One /\ DoubleOf(NsPerSec) = NsPerSec * One
  <2>1. secs <= Precision /\ secs <= Uint64Values
    BY <1>2, <1>3, Widths
  <2>2. NsPerSec <= Precision /\ NsPerSec <= Uint64Values /\ NsPerSec \in Nat
    BY Widths, TimingConstants
  <2> QED
    BY <2>1, <2>2, IntegersRounded
<1>5. (secs * One) * (NsPerSec * One) = (m * q) * One
  <2>1. (secs * One) * (NsPerSec * One) = ((secs * NsPerSec) * One) * One
    BY Widths, SMT
  <2> HIDE DEF m
  <2>2. (m * TwosInSec) * One = m * (TwosInSec * One)
    BY <1>2, Widths, SMT
  <2> QED
    BY <1>2, <2>1, <2>2
<1>6. m * q = n * One
  <2> HIDE DEF m
  <2>1. (m * TwosInSec) * One = m * (TwosInSec * One)
    BY <1>2, Widths, SMT
  <2> QED
    BY <1>2, <2>1
<1> HIDE DEF m, n, q
<1>7. Covered((m * q) * One, One)
  <2>1. n * One \in Nat /\ (n * One) * One \in Nat
    BY <1>2, Widths, SMT
  <2> DEFINE top == 8 * Uint64Values * NsPerSec * One
  <2>2. n * One < top /\ top \in Int
    <3> DEFINE a == Uint64Values * One
               b == a * NsPerSec
    <3>1. a \in Nat \ {0} /\ n * One <= a
      <4>1. n <= Uint64Values /\ n \in Int /\ Uint64Values \in Int /\ One \in Nat
        BY <1>2, Widths DEF n
      <4>2. n * One <= Uint64Values * One
        BY <4>1, Monotone
      <4>3. a \in Nat \ {0}
        BY Widths, SMT
      <4> QED
        BY <4>2, <4>3
    <3>2. top = 8 * b
      BY Widths, SMT
    <3> HIDE DEF a, top
    <3>3. b \in Nat /\ a <= b
      BY <3>1, Widths, SMT
    <3> HIDE DEF b
    <3>4. n * One < 8 * b /\ 8 * b \in Int
      BY <2>1, <3>1, <3>3
    <3> QED
      BY <3>2, <3>4
  <2> HIDE DEF top
  <2>3. (n * One) * One < top * One
    <3> DEFINE c == n * One
    <3>1. c \in Int /\ c + 1 <= top /\ c + 1 \in Int
      BY <2>1, <2>2
    <3> HIDE DEF c
    <3>2. (c + 1) * One <= top * One /\ top * One \in Int
      BY <2>2, <3>1, Widths, Monotone
    <3>3. (c + 1) * One = c * One + One /\ c * One \in Int
      BY <3>1, Widths, SMT
    <3>4. c * One < top * One
      BY <3>2, <3>3, Widths
    <3> QED
      BY <3>4 DEF c
  <2>4. Covered((n * One) * One, One)
    BY <2>1, <2>3, Widths, Representable DEF top
  <2> QED
    BY <1>6, <2>4
<1>8. Nearest((m * q) * One, One) = m * q
  <2>1. q \in PowersOfTwo
    BY DoublesSuffice DEF q
  <2> QED
    BY <1>2, <1>3, <1>7, <2>1, Widths, NearestExact
<1>9. Times(DoubleOf(secs), DoubleOf(NsPerSec)) = n * One
  BY <1>4, <1>5, <1>6, <1>8 DEF Times
<1>10. (n * One) \div One = n
  <2>1. n \in Int
    BY <1>2
  <2> QED
    BY <2>1, Widths, DivOfMultiple
<1>11. n < Uint64Values
  BY DEF n
<1> QED
  BY <1>9, <1>10, <1>11 DEF Seconds, ToUnsigned, n
\* Inequalities may be multiplied.
LEMMA Products ==
  ASSUME NEW a \in Nat, NEW b \in Nat, NEW c \in Nat, NEW d \in Nat, a <= b, c <= d
  PROVE  a * c \in Nat /\ b * d \in Nat /\ a * c <= b * d
<1>1. a * c <= b * c /\ a * c \in Int /\ b * c \in Int
  BY Monotone
<1>2. c * b <= d * b /\ c * b \in Int /\ d * b \in Int
  BY Monotone
<1>3. c * b = b * c /\ d * b = b * d
  BY SMT
<1>4. \A x \in Nat, y \in Nat : x * y \in Nat
  BY SMT
<1> QED
  BY <1>1, <1>2, <1>3, <1>4

\* A factor, a factor divided by f and a product, each within s in p of what it
\* should be, are together within the cube.
LEMMA ThreeRoundings ==
  ASSUME NEW p \in Nat, NEW s \in Nat, NEW f \in Nat, NEW a \in Nat, NEW b \in Nat,
         NEW x \in Nat, NEW y \in Nat, NEW z \in Nat
  PROVE  /\ x * p <= a * s /\ (y * f) * p <= b * s /\ z * p <= (x * y) * s =>
              ((z * f) * p) * (p * p) <= (a * b) * (s * (s * s))
         /\ x * p >= a * s /\ (y * f) * p >= b * s /\ z * p >= (x * y) * s =>
              ((z * f) * p) * (p * p) >= (a * b) * (s * (s * s))
<1> DEFINE xp == x * p
           as == a * s
           yp == (y * f) * p
           bs == b * s
           zp == z * p
           xys == (x * y) * s
           fpp == f * (p * p)
<1>1. \A u \in Nat, v \in Nat : u * v \in Nat
  BY SMT
<1>2. /\ xp \in Nat /\ as \in Nat /\ yp \in Nat /\ bs \in Nat /\ zp \in Nat /\ xys \in Nat
      /\ fpp \in Nat
  BY <1>1
<1>3. ((z * f) * p) * (p * p) = zp * fpp
  BY SMT
<1>4. xys * fpp = (xp * yp) * s
  BY SMT
<1>5. (a * b) * (s * (s * s)) = (as * bs) * s
  BY SMT
<1> HIDE DEF xp, as, yp, bs, zp, xys, fpp
<1> DEFINE xy == xp * yp
           ab == as * bs
           low == zp * fpp
           mid == xys * fpp
           high == ab * s
<1>6. xy \in Nat /\ ab \in Nat /\ low \in Nat /\ mid \in Nat /\ high \in Nat
  <2>1. ab \in Nat
    BY <1>1, <1>2
  <2> HIDE DEF ab
  <2> QED
    BY <1>1, <1>2, <2>1
<1>7. mid = xy * s
  BY <1>4
<1>8. ASSUME xp <= as, yp <= bs, zp <= xys PROVE low <= high
  <2>1. low <= mid
    BY <1>2, <1>8, Products
  <2>2. xy <= ab
    BY <1>2, <1>8, Products
  <2> HIDE DEF xy, ab, low
  <2>3. xy * s <= ab * s
    BY <1>6, <2>2, Products
  <2> HIDE DEF mid, high
  <2> QED
    BY <1>6, <1>7, <2>1, <2>3 DEF high
<1>9. ASSUME as <= xp, bs <= yp, xys <= zp PROVE high <= low
  <2>1. mid <= low
    BY <1>2, <1>9, Products
  <2>2. ab <= xy
    BY <1>2, <1>9, Products
  <2> HIDE DEF xy, ab, low
  <2>3. ab * s <= xy * s
    BY <1>6, <2>2, Products
  <2> HIDE DEF mid, high
  <2> QED
    BY <1>6, <1>7, <2>1, <2>3 DEF high
<1>10. low = ((z * f) * p) * (p * p) /\ high = (a * b) * (s * (s * s))
  BY <1>3, <1>5
<1> HIDE DEF low, high
<1> QED
  BY <1>2, <1>6, <1>8, <1>9, <1>10 DEF xp, as, yp, bs, zp, xys

\* Rounding never doubles an integer.
LEMMA DoubleBounded ==
  ASSUME NEW n \in Nat, n <= Uint64Values
  PROVE  DoubleOf(n) \in Nat /\ DoubleOf(n) <= 2 * (n * One)
<1> DEFINE a == n * One
           d == DoubleOf(n)
           p == Precision
<1>1. a \in Nat /\ p \in Nat \ {0}
  BY Widths, SMT
<1>2. CASE n = 0
  <2>1. d = a
    BY <1>2, Widths, IntegersRounded
  <2> HIDE DEF a, d
  <2> QED
    BY <1>1, <2>1 DEF a, d
<1>3. CASE n # 0
  <2>1. d \in Nat /\ d * p <= a * (p + 1)
    BY <1>3, IntegersRounded
  <2> HIDE DEF a, d, p
  <2>2. a * (p + 1) <= a * (2 * p) /\ a * (p + 1) \in Nat /\ a * (2 * p) \in Nat
    <3>1. p + 1 <= 2 * p /\ p + 1 \in Nat /\ 2 * p \in Nat
      BY <1>1
    <3> QED
      BY <1>1, <3>1, Products
  <2>3. a * (2 * p) = (2 * a) * p /\ d * p \in Nat
    BY <1>1, <2>1, SMT
  <2>4. d * p <= (2 * a) * p
    BY <2>1, <2>2, <2>3
  <2>5. d \in Int /\ 2 * a \in Int
    BY <1>1, <2>1
  <2>6. d <= 2 * a
    BY <1>1, <2>4, <2>5, Cancels
  <2> QED
    BY <2>1, <2>6 DEF a, d
<1> QED
  BY <1>2, <1>3

\* Three parts in p, and what is smaller, are no more than four.
LEMMA Cubes ==
  ASSUME NEW p \in Nat, p >= 4
  PROVE  /\ (p + 1) * ((p + 1) * (p + 1)) <= (p + 4) * (p * p)
         /\ (p - 1) * ((p - 1) * (p - 1)) >= (p - 4) * (p * p)
<1> DEFINE q == p * p
           c == q * p
<1>1. q \in Nat /\ q >= 4 * p
  <2>1. 4 * p <= p * p
    BY Monotone
  <2> QED
    BY <2>1, SMT
<1>2. c \in Nat
  BY <1>1, SMT
<1>3. (p + 1) * ((p + 1) * (p + 1)) = c + 3 * q + 3 * p + 1
  BY SMT
<1>4. (p - 1) * ((p - 1) * (p - 1)) = c - 3 * q + 3 * p - 1
  BY SMT
<1>5. (p + 4) * (p * p) = c + 4 * q /\ (p - 4) * (p * p) = c - 4 * q
  BY SMT
<1> HIDE DEF c, q
<1> QED
  BY <1>1, <1>2, <1>3, <1>4, <1>5

-----------------------------------------------------------------------------
(* Conversions.                                                            *)

\* A time taken apart into seconds and nanoseconds is valid, and the same time.
LEMMA TakenApart ==
  ASSUME NEW n \in Nat
  PROVE  /\ ns_to_timespec(n) \in Timespecs
         /\ ns_to_timespec(n).tv_nsec < NsPerSec
         /\ Nanos(ns_to_timespec(n)) = n
<1>1. n \div NsPerSec \in Nat /\ (n % NsPerSec) \in Nat /\ (n % NsPerSec) < NsPerSec
  BY TimingConstants, SMT
<1>2. (n \div NsPerSec) * NsPerSec + (n % NsPerSec) = n
  BY TimingConstants, SMT
<1> QED
  BY <1>1, <1>2 DEF ns_to_timespec, Timespecs, Nanos

\* What fits an uint64_t is not changed by wrapping.
LEMMA NoWrap ==
  ASSUME NEW n \in Nat, n < Uint64Values
  PROVE  n % Uint64Values = n
  BY TimingConstants, SMT

\* What a request is once it wrapped.
LEMMA Wraps ==
  ASSUME NEW m \in Nat
  PROVE  LET asked_ns == m * NsPerMicro
             w == asked_ns - (asked_ns \div Uint64Values) * Uint64Values
         IN  w \in Nat /\ w = asked_ns % Uint64Values
<1> DEFINE asked_ns == m * NsPerMicro
           w == asked_ns % Uint64Values
<1>1. asked_ns \in Int
  BY TimingConstants, SMT
<1> HIDE DEF asked_ns
<1>2. /\ asked_ns \div Uint64Values \in Int /\ w \in 0..Uint64Values - 1
      /\ asked_ns = (asked_ns \div Uint64Values) * Uint64Values + w
  BY <1>1, Widths, DivMod
<1>3. (asked_ns \div Uint64Values) * Uint64Values \in Int
  BY <1>2, Widths, SMT
<1>4. w \in Nat
  BY <1>2, Widths
<1> HIDE DEF w
<1>5. asked_ns - (asked_ns \div Uint64Values) * Uint64Values = w
  BY <1>1, <1>2, <1>3, <1>4
<1> QED
  BY <1>4, <1>5 DEF w, asked_ns

LEMMA DueIsNatural ==
  ASSUME micros \in Nat
  PROVE  Due \in Nat
BY Wraps DEF Due

\* The seconds and nanoseconds of two times differ by what the times differ.
LEMMA Apart ==
  ASSUME NEW a \in Nat, NEW b \in Nat, b <= a
  PROVE  /\ a \div NsPerSec - b \div NsPerSec \in Nat
         /\ a \div NsPerSec - b \div NsPerSec <= a - b
         /\ (a \div NsPerSec - b \div NsPerSec) * NsPerSec
              + ((a % NsPerSec) - (b % NsPerSec)) = a - b
<1> DEFINE p == a \div NsPerSec
           q == b \div NsPerSec
<1>1. p \in Nat /\ q \in Nat /\ (a % NsPerSec) \in 0..NsPerSec - 1
      /\ (b % NsPerSec) \in 0..NsPerSec - 1
  BY TimingConstants, SMT
<1>2. p * NsPerSec + (a % NsPerSec) = a /\ q * NsPerSec + (b % NsPerSec) = b
  BY TimingConstants, SMT
<1>3. q <= p
  BY TimingConstants, SMT
<1> HIDE DEF p, q
<1>4. (p - q) * NsPerSec = p * NsPerSec - q * NsPerSec
  BY <1>1, TimingConstants, SMT
<1>5. p - q \in Nat
  BY <1>1, <1>3
<1>6. (p - q) * NsPerSec + ((a % NsPerSec) - (b % NsPerSec)) = a - b
  <2>1. p * NsPerSec \in Nat /\ q * NsPerSec \in Nat
    BY <1>1, TimingConstants, SMT
  <2> QED
    BY <1>1, <1>2, <1>4, <2>1
<1>7. p - q <= a - b
  <2>1. CASE p - q = 0
    BY <2>1
  <2>2. CASE p - q >= 1
    <3>1. (p - q) - 1 \in Nat /\ NsPerSec - 1 \in Nat
      BY <1>5, <2>2, TimingConstants
    <3>2. ((p - q) - 1) * (NsPerSec - 1) \in Nat
      BY <3>1, SMT
    <3>3. ((p - q) - 1) * (NsPerSec - 1)
            = (p - q) * NsPerSec - (p - q) - NsPerSec + 1
      BY <1>5, TimingConstants, SMT
    <3>4. (p - q) * NsPerSec \in Nat
      BY <1>5, TimingConstants, SMT
    <3>5. (a % NsPerSec) - (b % NsPerSec) >= 1 - NsPerSec
      BY <1>1, TimingConstants
    <3> QED
      BY <1>1, <1>5, <1>6, <3>2, <3>3, <3>4, <3>5, TimingConstants
  <2> QED
    BY <1>5, <2>1, <2>2
<1> QED
  BY <1>5, <1>6, <1>7 DEF p, q

\* Two times that are apart by no more than 2^62 nanoseconds, less a second, are
\* subtracted exactly, with and without a borrow.
LEMMA SubtractedExactly ==
  ASSUME NEW a \in Nat, NEW b \in Nat, b <= a, a - b + NsPerSec <= Precision * TwosInSec
  PROVE  seninstant_subtract(ns_to_timespec(a), ns_to_timespec(b)) = {a - b}
<1> DEFINE d == a \div NsPerSec - b \div NsPerSec
           x == a % NsPerSec
           y == b % NsPerSec
           res == d * NsPerSec
<1>1. d \in Nat /\ d <= a - b /\ d * NsPerSec + (x - y) = a - b
  BY Apart
<1>2. x \in 0..NsPerSec - 1 /\ y \in 0..NsPerSec - 1 /\ NsPerSec \in Nat
  <2>1. a \in Int /\ b \in Int
    OBVIOUS
  <2> QED
    BY <2>1, Widths, DivMod
<1>3. seninstant_subtract(ns_to_timespec(a), ns_to_timespec(b)) =
        {IF x > y THEN (r + (x - y)) % Uint64Values
                  ELSE (r - (y - x)) % Uint64Values : r \in Seconds(d % Uint64Values)}
  <2>1. /\ ns_to_timespec(a).tv_sec = a \div NsPerSec
        /\ ns_to_timespec(a).tv_nsec = x
        /\ ns_to_timespec(b).tv_sec = b \div NsPerSec
        /\ ns_to_timespec(b).tv_nsec = y
    BY DEF ns_to_timespec
  <2> HIDE DEF x, y
  <2> QED
    BY <2>1, Zenon DEF seninstant_subtract
<1> HIDE DEF d, x, y
<1>4. res \in Nat
  BY <1>1, Widths, SMT
<1>5. /\ res <= Precision * TwosInSec /\ res < Uint64Values /\ a - b < Uint64Values
  <2> DEFINE w == Precision * TwosInSec
  <2>1. w \in Nat /\ w <= Uint64Values /\ a - b + NsPerSec <= w
    BY Widths, TimingConstants
  <2> HIDE DEF w, res
  <2>2. res + (x - y) = a - b
    BY <1>1 DEF res
  <2>3. res < a - b + NsPerSec
    BY <1>2, <1>4, <2>2
  <2>4. res < w /\ a - b < w
    BY <1>2, <1>4, <2>1, <2>3, Widths
  <2> QED
    BY <1>4, <2>1, <2>4, Widths DEF w
<1>6. d % Uint64Values = d
  <2>1. d < Uint64Values
    BY <1>1, <1>5, Widths
  <2> QED
    BY <1>1, <2>1, NoWrap
<1>7. Seconds(d % Uint64Values) = {res}
  BY <1>1, <1>5, <1>6, SecondsExact
<1> HIDE DEF res
<1>8. res - (y - x) = a - b /\ res + (x - y) = a - b
  BY <1>1, <1>2, <1>4 DEF res
<1>9. (a - b) % Uint64Values = a - b
  <2>1. a - b \in Nat
    OBVIOUS
  <2> QED
    BY <1>5, <2>1, NoWrap
<1>10. {IF x > y THEN (r + (x - y)) % Uint64Values
                 ELSE (r - (y - x)) % Uint64Values : r \in {res}} = {a - b}
  BY <1>8, <1>9
<1> QED
  BY <1>3, <1>7, <1>10

\* Also seconds that are rounded, or too many, come to an integer.
LEMMA SecondsAreIntegers ==
  ASSUME NEW secs \in Nat, secs < Uint64Values
  PROVE  Seconds(secs) \subseteq Int
<1> DEFINE kd == DoubleOf(secs)
           b == NsPerSec * One
           c == Uint64Values * One
           num == kd * b
           d == Times(kd, b)
<1>1. DoubleOf(NsPerSec) = b
  <2>1. NsPerSec \in Nat /\ NsPerSec <= Precision /\ NsPerSec <= Uint64Values
    BY Widths, TimingConstants
  <2> QED
    BY <2>1, IntegersRounded
<1>2. kd \in Nat /\ kd <= 2 * c /\ b \in Nat \ {0} /\ c \in Nat \ {0}
  <2>1. b \in Nat \ {0} /\ c \in Nat \ {0} /\ secs * One \in Nat
    BY Widths, SMT
  <2>2. kd \in Nat /\ kd <= 2 * (secs * One)
    <3>1. secs <= Uint64Values
      BY Widths
    <3> QED
      BY <3>1, DoubleBounded
  <2>3. secs * One <= c
    <3>1. secs <= Uint64Values /\ One \in Nat /\ Uint64Values \in Nat
      BY Widths
    <3> QED
      BY <3>1, Products
  <2> HIDE DEF b, c, kd
  <2> DEFINE x == secs * One
  <2>4. x \in Nat /\ kd <= 2 * x /\ x <= c
    BY <2>1, <2>2, <2>3
  <2> HIDE DEF x
  <2> QED
    BY <2>1, <2>2, <2>4
<1> HIDE DEF kd
<1>3. num \in Nat
  <2> HIDE DEF b
  <2> QED
    BY <1>2, SMT
<1>4. Covered(num, One)
  <2> DEFINE top == 8 * Uint64Values * NsPerSec * One
             e == c * b
  <2>1. top * One = 8 * e
    BY Widths, SMT
  <2> HIDE DEF b, c, top
  <2>2. e \in Nat \ {0} /\ (2 * c) * b = 2 * e
    BY <1>2, SMT
  <2>3. num <= (2 * c) * b
    <3>1. 2 * c \in Nat
      BY <1>2
    <3> QED
      BY <1>2, <3>1, Products
  <2> HIDE DEF e, num
  <2>4. num < top * One
    BY <1>3, <2>1, <2>2, <2>3
  <2> QED
    BY <1>3, <2>4, Widths, Representable DEF top
<1>5. d \in Nat
  <2>1. d = Nearest(num, One)
    BY DEF Times
  <2> HIDE DEF num, d
  <2> QED
    BY <1>3, <1>4, <2>1, Widths, NearestIs
<1>6. d \div One \in Int
  <2>1. d \in Int
    BY <1>5
  <2> HIDE DEF d
  <2> QED
    BY <2>1, Widths, DivMod
<1>7. Seconds(secs) = ToUnsigned(d, Uint64Values)
  BY <1>1 DEF Seconds, kd
<1> HIDE DEF d
<1> QED
  BY <1>6, <1>7, Widths DEF ToUnsigned

-----------------------------------------------------------------------------
(* The inductive invariant: what is left to sleep, counted from the call.  *)

\* rem is a request nanosleep takes
RequestValid == pc = "request" => rem.tv_nsec < NsPerSec

\* the end of the sleep lies where it was asked for, but for the lateness so far
SleepInv ==
  /\ pc \in {"begin", "call"} => signals = 0
  /\ pc = "request" =>
       /\ calledAt + Due <= time + Nanos(rem)
       /\ time + Nanos(rem) <= calledAt + Due + signals * MaxLate
  /\ pc = "sleeping" =>
       /\ calledAt + Due <= wakeAt
       /\ wakeAt <= calledAt + Due + (signals + 1) * MaxLate

\* how much further the raw clock went than time since the first reading and the
\* call, between which no time passes; and a bound for it, after n steps
Drift == (raw - readings[1]) - (time - calledAt)
Within(n) == -(n * Slew) <= Drift /\ Drift <= n * Slew

DriftInv ==
  /\ pc = "call" => raw = readings[1]
  /\ pc = "request" => Within(2 * signals)
  /\ pc = "sleeping" => time <= wakeAt /\ Within(2 * signals + 1)
  /\ pc = "end" /\ result => Within(2 * signals + 2)

\* begin holds the first reading, and the clock has not gone back since
ReadingInv ==
  pc # "begin" =>
    /\ readings[1] <= raw
    /\ ~clockFailed => begin = ns_to_timespec(readings[1])

TimingInv ==
  /\ TypeOK
  /\ RequestValid /\ SleepInv /\ ReadingInv /\ DriftInv
  /\ SleepsAsAsked /\ MeasuresTheSleep /\ FailsWhenRefused /\ MeasuredExactly

LEMMA TimingInit == Init => TimingInv
<1> SUFFICES ASSUME Init PROVE TimingInv
  OBVIOUS
<1>1. ns_to_timespec(0) \in Timespecs
  BY TakenApart
<1>2. TypeOK
  <2>1. raw \in Nat /\ 0 \in 0..Uint64Values - 1
    BY TimingConstants DEF Init
  <2>2. begin \in Timespecs /\ end \in Timespecs /\ rem \in Timespecs
    BY <1>1 DEF Init
  <2>3. readings \in Nat \X Nat
    BY DEF Init
  <2> QED
    BY <2>1, <2>2, <2>3 DEF Init, TypeOK
<1>3. pc = "begin" /\ signals = 0
  BY DEF Init
<1> QED
  BY <1>2, <1>3 DEF TimingInv, RequestValid, SleepInv, ReadingInv, DriftInv, SleepsAsAsked,
                    MeasuresTheSleep, FailsWhenRefused, MeasuredExactly

\* The clocks never go back.
LEMMA ClocksGoOn ==
  ASSUME TypeOK, NEW t \in Nat, Passes(t)
  PROVE  time' = t /\ raw' \in Nat /\ raw <= raw'
  BY TimingConstants DEF TypeOK, Passes

\* A reading is a struct timespec, and unless the clock failed that of raw.
LEMMA Readings ==
  ASSUME TypeOK, raw' \in Nat, NEW status, NEW value, seninstant_now(status, value)
  PROVE  /\ value \in Timespecs
         /\ reported' \in BOOLEAN /\ clockFailed' \in BOOLEAN
         /\ ~clockFailed' => ~clockFailed /\ value = ns_to_timespec(raw')
<1>1. ns_to_timespec(raw') \in Timespecs
  BY TakenApart
<1>2. reported \in BOOLEAN /\ clockFailed \in BOOLEAN
  BY DEF TypeOK
<1> QED
  BY <1>1, <1>2, TimingConstants DEF seninstant_now

\* A product of natural numbers is one, and grows by a factor at a time.
LEMMA Lateness ==
  ASSUME NEW n \in Nat
  PROVE  /\ n * MaxLate \in Nat
         /\ (n + 1) * MaxLate = n * MaxLate + MaxLate
         /\ (n + 2) * MaxLate = (n + 1) * MaxLate + MaxLate
         /\ n * NsPerMicro \in Nat
  BY TimingConstants, SMT

\* What the clocks can stray in one step.
LEMMA StraysOnce ==
  ASSUME TypeOK, NEW t \in Nat, time <= t, Passes(t),
         calledAt' = calledAt, readings'[1] = readings[1]
  PROVE  /\ Drift \in Int /\ Drift' \in Int
         /\ -Slew <= Drift' - Drift /\ Drift' - Drift <= Slew
<1>1. time \in Nat /\ raw \in Nat /\ calledAt \in Nat /\ readings[1] \in Nat
  BY DEF TypeOK
<1>2. time' = t /\ raw' \in raw..raw + (t - time) + Slew /\ raw' >= raw + (t - time) - Slew
  BY DEF Passes
<1>3. raw' \in Nat /\ raw' <= raw + (t - time) + Slew
  BY <1>1, <1>2, TimingConstants
<1> QED
  BY <1>1, <1>2, <1>3, TimingConstants DEF Drift

\* One step more, one Slew more.
LEMMA StraysOn ==
  ASSUME NEW n \in Nat, NEW d \in Int, NEW e \in Int,
         -(n * Slew) <= d, d <= n * Slew, -Slew <= e - d, e - d <= Slew
  PROVE  -((n + 1) * Slew) <= e /\ e <= (n + 1) * Slew
<1>1. n * Slew \in Nat /\ (n + 1) * Slew = n * Slew + Slew
  BY TimingConstants, SMT
<1> QED
  BY <1>1, TimingConstants

LEMMA BeginKeeps ==
  ASSUME TimingInv, NEW status, Begin(status)
  PROVE  TimingInv'
<1>1. TypeOK /\ pc = "begin" /\ signals = 0 /\ time \in Nat
  BY DEF TimingInv, SleepInv, Begin, TypeOK
<1>2. time' = time /\ raw' \in Nat
  BY <1>1, ClocksGoOn DEF Begin
<1>3. PICK value : seninstant_now(status, value) /\ begin' = value
  BY DEF Begin
<1>4. /\ begin' \in Timespecs
      /\ reported' \in BOOLEAN /\ clockFailed' \in BOOLEAN
      /\ ~clockFailed' => begin' = ns_to_timespec(raw')
  BY <1>1, <1>2, <1>3, Readings
<1>5. pc' = "call" /\ readings' = <<raw', 0>>
      /\ UNCHANGED <<end, nanos, micros, rem, wakeAt, result, calledAt, signals, refused>>
  BY DEF Begin, sleepVars
<1>6. TypeOK'
  BY <1>1, <1>2, <1>4, <1>5 DEF TypeOK
<1>7. readings'[1] = raw'
  BY <1>5
<1>8. RequestValid' /\ SleepInv' /\ ReadingInv'
  BY <1>1, <1>2, <1>4, <1>5, <1>7 DEF RequestValid, SleepInv, ReadingInv
<1>9. DriftInv'
  BY <1>5, <1>7 DEF DriftInv
<1> QED
  BY <1>5, <1>6, <1>8, <1>9 DEF TimingInv, SleepsAsAsked, MeasuresTheSleep, FailsWhenRefused,
                          MeasuredExactly

LEMMA CallKeeps ==
  ASSUME TimingInv, NEW m \in Micros, sentiming_microsleep(m)
  PROVE  TimingInv'
<1> DEFINE w == (m * NsPerMicro) % Uint64Values
<1>1. TypeOK /\ pc = "call" /\ signals = 0 /\ ReadingInv
  BY DEF TimingInv, SleepInv, sentiming_microsleep
<1>2. m \in Nat
  BY TimingConstants
<1>3. m * NsPerMicro \in Nat
  BY <1>2, Lateness
<1>4. w \in Nat
  BY <1>3, TimingConstants, SMT
<1>5. micros' = m /\ rem' = ns_to_timespec(w) /\ calledAt' = time /\ pc' = "request"
      /\ UNCHANGED <<time, raw, begin, end, nanos, reported, readings, clockFailed,
                     wakeAt, result, signals, refused>>
  BY DEF sentiming_microsleep, clockVars
<1> HIDE DEF w
<1>6. rem' \in Timespecs /\ rem'.tv_nsec < NsPerSec /\ Nanos(rem') = w
  BY <1>4, <1>5, TakenApart
<1>7. TypeOK'
  BY <1>1, <1>2, <1>5, <1>6 DEF TypeOK
<1>8. Due' = w /\ Due' \in Nat
  <2>1. micros' \in Nat
    BY <1>2, <1>5
  <2>2. Due' \in Nat /\ Due' = (micros' * NsPerMicro) % Uint64Values
    BY <2>1, Wraps DEF Due
  <2> QED
    BY <1>5, <2>2 DEF w
<1>9. signals * MaxLate \in Nat
  BY <1>1, Lateness DEF TypeOK
<1>10. SleepInv'
  <2>1. Nanos(rem)' = w
    BY <1>6 DEF Nanos
  <2>2. Due' = w /\ w \in Nat
    BY <1>4, <1>8
  <2>3. time' \in Nat /\ calledAt' = time'
    BY <1>1, <1>5 DEF TypeOK
  <2>4. signals' * MaxLate \in Nat
    BY <1>5, <1>9
  <2> QED
    BY <1>3, <1>5, <1>8, <2>1, <2>2, <2>3, <2>4 DEF SleepInv
<1>11. RequestValid' /\ ReadingInv'
  BY <1>1, <1>5, <1>6 DEF RequestValid, ReadingInv
<1>12. DriftInv'
  <2>1. raw = readings[1] /\ raw \in Nat /\ time \in Nat
    BY <1>1 DEF TimingInv, DriftInv, TypeOK
  <2>2. Drift' = 0
    BY <1>5, <2>1 DEF Drift
  <2>3. (2 * signals)' * Slew = 0
    BY <1>1, <1>5, TimingConstants
  <2> QED
    BY <1>5, <2>2, <2>3 DEF DriftInv, Within
<1> QED
  BY <1>5, <1>7, <1>10, <1>11, <1>12 DEF TimingInv, SleepsAsAsked, MeasuresTheSleep,
                                   FailsWhenRefused, MeasuredExactly

LEMMA RequestKeeps ==
  ASSUME TimingInv, NEW t \in time..time + MaxLate, Request(t)
  PROVE  TimingInv'
<1>1. TypeOK /\ pc = "request" /\ SleepInv /\ ReadingInv
  BY DEF TimingInv, Request
<1>2. time \in Nat /\ calledAt \in Nat /\ signals \in Nat /\ rem \in Timespecs
      /\ micros \in Nat
  BY <1>1 DEF TypeOK
<1>3. t \in Nat /\ time <= t /\ t <= time + MaxLate
  BY <1>2, TimingConstants
<1>4. time' = t /\ raw' \in Nat /\ raw <= raw'
  BY <1>1, <1>3, ClocksGoOn DEF Request
<1>5. Nanos(rem) \in Nat
  BY <1>2, TimingConstants, SMT DEF Nanos, Timespecs
<1>6. wakeAt' = t + Nanos(rem) /\ pc' = "sleeping"
      /\ UNCHANGED <<begin, end, nanos, reported, readings, clockFailed,
                     micros, rem, result, calledAt, signals, refused>>
  BY DEF Request, clockVars
<1>7. wakeAt' \in Nat
  BY <1>3, <1>5, <1>6
<1>8. TypeOK'
  BY <1>1, <1>4, <1>6, <1>7 DEF TypeOK
<1>9. Due \in Nat /\ Due' = Due
  BY <1>2, <1>6, DueIsNatural DEF Due
<1>10. /\ signals * MaxLate \in Nat
       /\ (signals + 1) * MaxLate = signals * MaxLate + MaxLate
  BY <1>2, Lateness
<1>11. /\ calledAt + Due <= wakeAt'
       /\ wakeAt' <= calledAt + Due + (signals + 1) * MaxLate
  <2>1. /\ calledAt + Due <= time + Nanos(rem)
        /\ time + Nanos(rem) <= calledAt + Due + signals * MaxLate
    BY <1>1 DEF SleepInv
  <2> QED
    BY <1>2, <1>3, <1>5, <1>6, <1>9, <1>10, <2>1, TimingConstants
<1>12. SleepInv'
  BY <1>6, <1>9, <1>11 DEF SleepInv
<1>13. RequestValid' /\ ReadingInv'
  <2>1. readings'[1] <= raw'
    BY <1>1, <1>4, <1>6 DEF ReadingInv, TypeOK
  <2> QED
    BY <1>1, <1>6, <2>1 DEF RequestValid, ReadingInv
<1>14. DriftInv'
  <2>1. Within(2 * signals)
    BY <1>1 DEF TimingInv, DriftInv
  <2>2. Drift \in Int /\ Drift' \in Int
        /\ -Slew <= Drift' - Drift /\ Drift' - Drift <= Slew
    BY <1>1, <1>3, <1>6, StraysOnce DEF Request
  <2>3. 2 * signals \in Nat
    BY <1>2
  <2>4. -((2 * signals + 1) * Slew) <= Drift' /\ Drift' <= (2 * signals + 1) * Slew
    BY <2>1, <2>2, <2>3, StraysOn DEF Within
  <2>5. time' <= wakeAt'
    BY <1>3, <1>4, <1>5, <1>6
  <2> QED
    BY <1>6, <2>4, <2>5 DEF DriftInv, Within
<1> QED
  BY <1>6, <1>8, <1>12, <1>13, <1>14 DEF TimingInv, SleepsAsAsked, MeasuresTheSleep,
                                   FailsWhenRefused, MeasuredExactly

LEMMA RefusedKeeps ==
  ASSUME TimingInv, Refused
  PROVE  TimingInv'
<1>1. TypeOK /\ pc = "request" /\ RequestValid /\ ReadingInv
  BY DEF TimingInv, Refused
<1>2. refused' = TRUE /\ result' = FALSE /\ pc' = "end"
  BY <1>1 DEF Refused, RequestValid
<1>3. UNCHANGED <<time, raw, begin, end, nanos, reported, readings, clockFailed,
                  micros, rem, wakeAt, calledAt, signals>>
  BY DEF Refused, clockVars
<1>4. TypeOK'
  BY <1>1, <1>2, <1>3 DEF TypeOK
<1>5. RequestValid' /\ SleepInv' /\ ReadingInv'
  BY <1>1, <1>2, <1>3 DEF RequestValid, SleepInv, ReadingInv
<1>6. DriftInv'
  BY <1>2 DEF DriftInv
<1> QED
  BY <1>2, <1>4, <1>5, <1>6 DEF TimingInv, SleepsAsAsked, MeasuresTheSleep,
                          FailsWhenRefused, MeasuredExactly

LEMMA InterruptedKeeps ==
  ASSUME TimingInv, NEW t \in time..wakeAt - 1, Interrupted(t)
  PROVE  TimingInv'
<1>1. TypeOK /\ pc = "sleeping" /\ SleepInv /\ ReadingInv
  BY DEF TimingInv, Interrupted
<1>2. time \in Nat /\ wakeAt \in Nat /\ signals \in Nat
  BY <1>1 DEF TypeOK
<1>3. t \in Nat /\ wakeAt - t \in Nat
  BY <1>2
<1>4. time' = t /\ raw' \in Nat /\ raw <= raw'
  BY <1>1, <1>3, ClocksGoOn DEF Interrupted
<1>5. rem' = ns_to_timespec(wakeAt - t) /\ signals' = signals + 1 /\ pc' = "request"
      /\ UNCHANGED <<begin, end, nanos, reported, readings, clockFailed,
                     micros, wakeAt, result, calledAt, refused>>
  BY DEF Interrupted, clockVars
<1>6. rem' \in Timespecs /\ rem'.tv_nsec < NsPerSec /\ Nanos(rem') = wakeAt - t
  BY <1>3, <1>5, TakenApart
<1>7. TypeOK'
  BY <1>1, <1>2, <1>4, <1>5, <1>6 DEF TypeOK
<1>8. time' + Nanos(rem)' = wakeAt
  <2>1. Nanos(rem)' = wakeAt - t
    BY <1>6 DEF Nanos
  <2> QED
    BY <1>2, <1>3, <1>4, <2>1
<1>9. SleepInv'
  <2>1. Due' = Due
    BY <1>5 DEF Due
  <2>2. /\ calledAt + Due <= wakeAt
        /\ wakeAt <= calledAt + Due + (signals + 1) * MaxLate
    BY <1>1 DEF SleepInv
  <2> QED
    BY <1>5, <1>8, <2>1, <2>2 DEF SleepInv
<1>10. RequestValid' /\ ReadingInv'
  <2>1. readings'[1] <= raw'
    BY <1>1, <1>4, <1>5 DEF ReadingInv, TypeOK
  <2> QED
    BY <1>1, <1>5, <1>6, <2>1 DEF RequestValid, ReadingInv
<1>11. DriftInv'
  <2>1. Within(2 * signals + 1)
    BY <1>1 DEF TimingInv, DriftInv
  <2>2. Drift \in Int /\ Drift' \in Int
        /\ -Slew <= Drift' - Drift /\ Drift' - Drift <= Slew
    BY <1>1, <1>2, <1>3, <1>5, StraysOnce DEF Interrupted
  <2>3. 2 * signals + 1 \in Nat /\ (2 * signals + 1) + 1 = 2 * signals'
    BY <1>2, <1>5
  <2>4. -(((2 * signals + 1) + 1) * Slew) <= Drift'
        /\ Drift' <= ((2 * signals + 1) + 1) * Slew
    BY <2>1, <2>2, <2>3, StraysOn DEF Within
  <2> QED
    BY <1>5, <2>3, <2>4 DEF DriftInv, Within
<1> QED
  BY <1>5, <1>7, <1>9, <1>10, <1>11 DEF TimingInv, SleepsAsAsked, MeasuresTheSleep,
                                  FailsWhenRefused, MeasuredExactly

LEMMA WokenKeeps ==
  ASSUME TimingInv, NEW t \in wakeAt..wakeAt + MaxLate, Woken(t)
  PROVE  TimingInv'
<1>1. TypeOK /\ pc = "sleeping" /\ SleepInv /\ ReadingInv
  BY DEF TimingInv, Woken
<1>2. wakeAt \in Nat /\ signals \in Nat /\ calledAt \in Nat /\ micros \in Nat
  BY <1>1 DEF TypeOK
<1>3. t \in Nat /\ wakeAt <= t /\ t <= wakeAt + MaxLate
  BY <1>2, TimingConstants
<1>4. time' = t /\ raw' \in Nat /\ raw <= raw'
  BY <1>1, <1>3, ClocksGoOn DEF Woken
<1>5. result' = TRUE /\ pc' = "end"
      /\ UNCHANGED <<begin, end, nanos, reported, readings, clockFailed,
                     micros, rem, wakeAt, calledAt, signals, refused>>
  BY DEF Woken, clockVars
<1>6. TypeOK'
  BY <1>1, <1>4, <1>5 DEF TypeOK
<1>7. Due \in Nat /\ Due' = Due
  BY <1>2, <1>5, DueIsNatural DEF Due
<1>8. /\ (signals + 1) * MaxLate \in Nat
      /\ (signals + 2) * MaxLate = (signals + 1) * MaxLate + MaxLate
  <2>1. signals + 1 \in Nat
    BY <1>2
  <2> QED
    BY <1>2, <2>1, Lateness
<1>9. /\ t - calledAt >= Due
      /\ t - calledAt <= Due + (signals + 2) * MaxLate
  <2>1. /\ calledAt + Due <= wakeAt
        /\ wakeAt <= calledAt + Due + (signals + 1) * MaxLate
    BY <1>1 DEF SleepInv
  <2> QED
    BY <1>2, <1>3, <1>7, <1>8, <2>1, TimingConstants
<1>10. SleepsAsAsked'
  BY <1>4, <1>5, <1>7, <1>9 DEF SleepsAsAsked
<1>11. RequestValid' /\ SleepInv' /\ ReadingInv'
  <2>1. readings'[1] <= raw'
    BY <1>1, <1>4, <1>5 DEF ReadingInv, TypeOK
  <2> QED
    BY <1>1, <1>5, <2>1 DEF RequestValid, SleepInv, ReadingInv
<1>12. DriftInv'
  <2>1. Within(2 * signals + 1)
    BY <1>1 DEF TimingInv, DriftInv
  <2>2. Drift \in Int /\ Drift' \in Int
        /\ -Slew <= Drift' - Drift /\ Drift' - Drift <= Slew
    <3>1. time <= t
      BY <1>1, <1>3, <1>2 DEF TimingInv, DriftInv, TypeOK
    <3> QED
      BY <1>1, <1>3, <1>5, <3>1, StraysOnce DEF Woken
  <2>3. 2 * signals + 1 \in Nat /\ (2 * signals + 1) + 1 = 2 * signals + 2
    BY <1>2
  <2>4. -(((2 * signals + 1) + 1) * Slew) <= Drift'
        /\ Drift' <= ((2 * signals + 1) + 1) * Slew
    BY <2>1, <2>2, <2>3, StraysOn DEF Within
  <2> QED
    BY <1>5, <2>3, <2>4 DEF DriftInv, Within
<1> QED
  BY <1>5, <1>6, <1>10, <1>11, <1>12 DEF TimingInv, MeasuresTheSleep, FailsWhenRefused, MeasuredExactly

LEMMA EndKeeps ==
  ASSUME TimingInv, NEW t \in time..time + MaxLate, NEW status, End(t, status)
  PROVE  TimingInv'
<1>1. TypeOK /\ pc = "end" /\ ReadingInv
  BY DEF TimingInv, End
<1>2. t \in Nat
  BY <1>1, TimingConstants DEF TypeOK
<1>3. time' = t /\ raw' \in Nat /\ raw <= raw'
  BY <1>1, <1>2, ClocksGoOn DEF End
<1>4. PICK value : /\ seninstant_now(status, value)
                   /\ end' = value
                   /\ nanos' \in seninstant_subtract(value, begin)
  BY DEF End
<1>5. /\ value \in Timespecs
      /\ reported' \in BOOLEAN /\ clockFailed' \in BOOLEAN
      /\ ~clockFailed' => ~clockFailed /\ value = ns_to_timespec(raw')
  BY <1>1, <1>3, <1>4, Readings
<1>6. pc' = "done" /\ readings' = <<readings[1], raw'>>
      /\ UNCHANGED <<begin, micros, rem, wakeAt, result, calledAt, signals, refused>>
  BY DEF End, sleepVars
<1>7. readings[1] \in Nat /\ readings'[1] = readings[1] /\ readings'[2] = raw'
      /\ readings[1] <= raw' /\ readings' \in Nat \X Nat
  BY <1>1, <1>3, <1>6 DEF TypeOK, ReadingInv
<1>8. nanos' \in 0..Uint64Values - 1
  <2> DEFINE secs == (value.tv_sec - begin.tv_sec) % Uint64Values
  <2>1. begin \in Timespecs
    BY <1>1 DEF TypeOK
  <2>2. value.tv_sec - begin.tv_sec \in Int
        /\ value.tv_nsec \in Int /\ begin.tv_nsec \in Int
    BY <1>5, <2>1 DEF Timespecs
  <2>3. secs \in 0..Uint64Values - 1
    BY <2>2, Widths, DivMod
  <2>4. PICK res \in Seconds(secs) :
          \/ nanos' = (res + (value.tv_nsec - begin.tv_nsec)) % Uint64Values
          \/ nanos' = (res - (begin.tv_nsec - value.tv_nsec)) % Uint64Values
    BY <1>4 DEF seninstant_subtract
  <2>5. res \in Int
    <3>1. secs \in Nat /\ secs < Uint64Values
      BY <2>3, Widths
    <3> HIDE DEF secs
    <3> QED
      BY <2>4, <3>1, SecondsAreIntegers
  <2> DEFINE x == res + (value.tv_nsec - begin.tv_nsec)
             y == res - (begin.tv_nsec - value.tv_nsec)
  <2>6. x \in Int /\ y \in Int
    BY <2>2, <2>5
  <2>7. nanos' = x % Uint64Values \/ nanos' = y % Uint64Values
    BY <2>4
  <2> HIDE DEF x, y
  <2>8. (x % Uint64Values) \in 0..Uint64Values - 1 /\ (y % Uint64Values) \in 0..Uint64Values - 1
    BY <2>6, Widths, DivMod
  <2> QED
    BY <2>7, <2>8
<1>9. TypeOK'
  BY <1>1, <1>2, <1>3, <1>4, <1>5, <1>6, <1>7, <1>8 DEF TypeOK
<1>10. MeasuredExactly'
  <2> SUFFICES ASSUME ~clockFailed', Near'
               PROVE  nanos' = readings'[2] - readings'[1]
    BY DEF MeasuredExactly
  <2>1. value = ns_to_timespec(raw') /\ begin = ns_to_timespec(readings[1])
    BY <1>1, <1>5 DEF ReadingInv
  <2>2. raw' - readings[1] + NsPerSec <= Precision * TwosInSec
    BY <1>7 DEF Near
  <2>3. seninstant_subtract(value, begin) = {raw' - readings[1]}
    BY <1>3, <1>7, <2>1, <2>2, SubtractedExactly
  <2> QED
    BY <1>4, <1>7, <2>3
<1>11. RequestValid' /\ SleepInv'
  BY <1>6 DEF RequestValid, SleepInv
<1>12. ReadingInv'
  BY <1>1, <1>3, <1>5, <1>6, <1>7 DEF ReadingInv
<1>13. DriftInv'
  BY <1>6 DEF DriftInv
<1>14. MeasuresTheSleep'
  <2> SUFFICES ASSUME result, ~clockFailed', Near'
               PROVE  /\ nanos' >= Due - (2 * signals + 3) * Slew
                      /\ nanos' <= Due + (signals + 3) * MaxLate + (2 * signals + 3) * Slew
    <3>1. Due' = Due
      BY <1>6 DEF Due
    <3> QED
      BY <1>6, <3>1 DEF MeasuresTheSleep
  <2>1. time \in Nat /\ calledAt \in Nat /\ signals \in Nat /\ micros \in Nat
    BY <1>1 DEF TypeOK
  <2>2. t \in Nat /\ time <= t /\ t <= time + MaxLate
    BY <2>1, TimingConstants
  <2>3. /\ time - calledAt >= Due
        /\ time - calledAt <= Due + (signals + 2) * MaxLate
    BY <1>1 DEF TimingInv, SleepsAsAsked
  <2>4. Within(2 * signals + 2)
    BY <1>1 DEF TimingInv, DriftInv
  <2>5. Drift \in Int /\ Drift' \in Int
        /\ -Slew <= Drift' - Drift /\ Drift' - Drift <= Slew
    BY <1>1, <1>6, <1>7, <2>2, StraysOnce DEF End
  <2>6. 2 * signals + 2 \in Nat /\ (2 * signals + 2) + 1 = 2 * signals + 3
    BY <2>1
  <2>7. -((2 * signals + 3) * Slew) <= Drift' /\ Drift' <= (2 * signals + 3) * Slew
    <3>1. -(((2 * signals + 2) + 1) * Slew) <= Drift'
          /\ Drift' <= ((2 * signals + 2) + 1) * Slew
      BY <2>4, <2>5, <2>6, StraysOn DEF Within
    <3> QED
      BY <2>6, <3>1
  <2>8. nanos' = Drift' + (t - calledAt)
    <3>1. nanos' = raw' - readings[1]
      BY <1>6, <1>7, <1>10 DEF MeasuredExactly
    <3>2. Drift' = (raw' - readings[1]) - (t - calledAt)
      BY <1>3, <1>6, <1>7 DEF Drift
    <3> QED
      BY <1>3, <1>7, <2>1, <2>2, <3>1, <3>2
  <2>9. /\ (signals + 2) * MaxLate \in Nat /\ Due \in Nat
        /\ (signals + 3) * MaxLate = (signals + 2) * MaxLate + MaxLate
    <3>1. signals + 1 \in Nat /\ signals + 2 \in Nat
          /\ (signals + 1) + 1 = signals + 2 /\ (signals + 1) + 2 = signals + 3
      BY <2>1
    <3>2. ((signals + 1) + 2) * MaxLate = ((signals + 1) + 1) * MaxLate + MaxLate
          /\ (signals + 2) * MaxLate \in Nat
      BY <3>1, Lateness
    <3> QED
      BY <2>1, <3>1, <3>2, DueIsNatural
  <2>10. (2 * signals + 3) * Slew \in Nat
    BY <2>1, TimingConstants, SMT
  <2> DEFINE strayed == (2 * signals + 3) * Slew
             requested == Due
             late == (signals + 2) * MaxLate
             later == (signals + 3) * MaxLate
  <2> HIDE DEF strayed, requested, late, later
  <2>11. /\ strayed \in Nat /\ requested \in Nat /\ late \in Nat /\ later = late + MaxLate
         /\ -strayed <= Drift' /\ Drift' <= strayed
         /\ time - calledAt >= requested /\ time - calledAt <= requested + late
    BY <2>3, <2>7, <2>9, <2>10 DEF strayed, requested, late, later
  <2>12. nanos' >= requested - strayed /\ nanos' <= requested + later + strayed
    <3>1. MaxLate \in Nat
      BY TimingConstants
    <3> DEFINE d == Drift'
               n == nanos'
    <3>2. d \in Int /\ -strayed <= d /\ d <= strayed /\ n = d + (t - calledAt)
      BY <2>5, <2>8, <2>11
    <3> HIDE DEF d, n
    <3>3. n >= requested - strayed
      BY <2>1, <2>2, <2>11, <3>1, <3>2
    <3>4. n <= requested + later + strayed
      BY <2>1, <2>2, <2>11, <3>1, <3>2
    <3> QED
      BY <3>3, <3>4 DEF n
  <2> QED
    BY <2>12 DEF strayed, requested, later
<1> QED
  BY <1>6, <1>9, <1>10, <1>11, <1>12, <1>13, <1>14 DEF TimingInv, SleepsAsAsked,
                                                       FailsWhenRefused

LEMMA TimingStep == TimingInv /\ [Next]_vars => TimingInv'
<1> SUFFICES ASSUME TimingInv, [Next]_vars PROVE TimingInv'
  OBVIOUS
<1>1. CASE Next
  BY <1>1, BeginKeeps, CallKeeps, RequestKeeps, RefusedKeeps, InterruptedKeeps,
     WokenKeeps, EndKeeps DEF Next
<1>2. CASE UNCHANGED vars
  BY <1>2 DEF vars, clockVars, sleepVars, TimingInv, TypeOK, RequestValid, SleepInv,
              ReadingInv, DriftInv, Drift, Within, SleepsAsAsked, MeasuresTheSleep, FailsWhenRefused,
              MeasuredExactly, Due, Near, Nanos
<1> QED
  BY <1>1, <1>2

LEMMA TimingAlways == Spec => []TimingInv
  BY TimingInit, TimingStep, PTL DEF Spec

-----------------------------------------------------------------------------
(* The theorems.                                                           *)

\* The variables of Timing keep their types: seninstant_subtract always returns
\* an uint64_t.
THEOREM TimingTypes == Spec => []TypeOK
<1>1. TimingInv => TypeOK
  BY DEF TimingInv
<1> QED
  BY <1>1, TimingAlways, PTL

\* A sleep that returns true was as long as asked, but for the multiples of 2^64
\* nanoseconds a request may lose, whatever number of signals interrupted it, and no
\* longer than the lateness of each of its parts adds.
THEOREM TimingSleeps == Spec => []SleepsAsAsked
<1>1. TimingInv => SleepsAsAsked
  BY DEF TimingInv
<1> QED
  BY <1>1, TimingAlways, PTL

\* A program that measures its sleep sees what it asked for, but for the lateness
\* and for what the two clocks strayed from each other.
THEOREM TimingMeasuresTheSleep == Spec => []MeasuresTheSleep
<1>1. TimingInv => MeasuresTheSleep
  BY DEF TimingInv
<1> QED
  BY <1>1, TimingAlways, PTL

\* sentiming_microsleep never asks nanosleep for what it refuses.
THEOREM TimingFailsWhenRefused == Spec => []FailsWhenRefused
<1>1. TimingInv => FailsWhenRefused
  BY DEF TimingInv
<1> QED
  BY <1>1, TimingAlways, PTL

\* The difference of two readings is exact up to 2^62 nanoseconds, although the
\* seconds are multiplied in doubles.
THEOREM TimingMeasuredExactly == Spec => []MeasuredExactly
<1>1. TimingInv => MeasuredExactly
  BY DEF TimingInv
<1> QED
  BY <1>1, TimingAlways, PTL

-----------------------------------------------------------------------------
(* Either platform.                                                        *)

\* A program compiled for either platform does on POSIX what Timing says, and
\* what is proved of Timing holds of it.
THEOREM SentimingHasPosix == SentimingSpec => Spec
<1>1. SentimingInit => Init
  BY DEF SentimingInit
<1>2. [SentimingNext]_sentimingVars => [Next]_vars
  <2> SUFFICES ASSUME [SentimingNext]_sentimingVars PROVE Next \/ UNCHANGED vars
    OBVIOUS
  <2>1. CASE SentimingNext
    BY <2>1 DEF SentimingNext
  <2>2. CASE UNCHANGED sentimingVars
    BY <2>2 DEF sentimingVars
  <2> QED
    BY <2>1, <2>2
<1> QED
  BY <1>1, <1>2, PTL DEF SentimingSpec, Spec

-----------------------------------------------------------------------------
(* Counts.                                                                 *)

\* The difference of two numbers that wrapped, itself wrapped, is their
\* difference, when that fits.
LEMMA WrappedDifference ==
  ASSUME NEW u \in Nat \ {0}, NEW x \in Nat, NEW y \in Nat, y <= x, x - y < u
  PROVE  ((x % u) - (y % u)) % u = x - y
<1> DEFINE d == (x % u) - (y % u)
           r == d % u
           k == (d \div u) + (x \div u) - (y \div u)
<1>1. /\ x \div u \in Int /\ (x % u) \in Int /\ x = (x \div u) * u + (x % u)
      /\ y \div u \in Int /\ (y % u) \in Int /\ y = (y \div u) * u + (y % u)
  BY DivMod
<1>2. d \in Int
  BY <1>1
<1> HIDE DEF d
<1>3. d \div u \in Int /\ r \in 0..u - 1 /\ d = (d \div u) * u + r
  BY <1>2, DivMod
<1>4. k * u = (d \div u) * u + (x \div u) * u - (y \div u) * u
  BY <1>1, <1>3, SMT
<1>5. /\ (d \div u) * u \in Int /\ (x \div u) * u \in Int /\ (y \div u) * u \in Int
      /\ k \in Int
  BY <1>1, <1>3, SMT
<1> HIDE DEF r, k
<1>6. k * u = (x - y) - r
  BY <1>1, <1>3, <1>4, <1>5 DEF d
<1>7. k = 0
  <2>1. (x - y) - r \in Int /\ -u < (x - y) - r /\ (x - y) - r < u
    BY <1>3
  <2> QED
    BY <1>5, <1>6, <2>1, NoSmallMultiple
<1>8. r = x - y
  BY <1>3, <1>6, <1>7
<1> QED
  BY <1>8 DEF r, d

\* Counts the counter made between two times, n nanoseconds a second and f counts a
\* second: as many as in that time, but for one.
LEMMA CountsBetween ==
  ASSUME NEW n \in Nat \ {0}, NEW f \in Nat \ {0},
         NEW s \in Nat, NEW t \in Nat, s <= t
  PROVE  LET k == (t * f) \div n - (s * f) \div n
         IN  /\ k \in Nat
             /\ -n < k * n - (t - s) * f
             /\ k * n - (t - s) * f < n
<1> DEFINE a == s * f
           b == t * f
           k == b \div n - a \div n
<1>1. a \in Nat /\ b \in Nat /\ a <= b /\ (t - s) * f = b - a
  BY SMT
<1> HIDE DEF a, b
<1>2. a \div n \in Nat /\ (a % n) \in 0..n - 1 /\ a = (a \div n) * n + (a % n)
  <2>1. a \in Int /\ a >= 0
    BY <1>1
  <2> QED
    BY <2>1, DivMod
<1>3. b \div n \in Nat /\ (b % n) \in 0..n - 1 /\ b = (b \div n) * n + (b % n)
  <2>1. b \in Int /\ b >= 0
    BY <1>1
  <2> QED
    BY <2>1, DivMod
<1>4. /\ k \in Int /\ k * n = (b \div n) * n - (a \div n) * n
      /\ (b \div n) * n \in Int /\ (a \div n) * n \in Int
  <2> DEFINE p == a \div n
             q == b \div n
  <2>1. p \in Int /\ q \in Int /\ n \in Int
    BY <1>2, <1>3
  <2> HIDE DEF p, q
  <2>2. (q - p) * n = q * n - p * n /\ q * n \in Int /\ p * n \in Int /\ q - p \in Int
    BY <2>1, Distributes
  <2> QED
    BY <2>2 DEF p, q
<1> HIDE DEF k
<1>5. k * n = (b - a) - (b % n) + (a % n)
  BY <1>1, <1>2, <1>3, <1>4
<1>6. -n < k * n - (b - a) /\ k * n - (b - a) < n
  BY <1>1, <1>2, <1>3, <1>5
<1>7. k >= 0
  <2> SUFFICES ASSUME k <= -1 PROVE FALSE
    BY <1>4
  <2>1. k * n <= -n
    BY <1>4, SMT
  <2> QED
    BY <1>1, <1>4, <1>6, <2>1
<1> QED
  BY <1>1, <1>4, <1>6, <1>7 DEF k, a, b

\* nanoseconds_per_count, and that it is at least half of 2^53 of the smallest double,
\* so that one part in 2^53 is what it was rounded by.
LEMMA PerCount ==
  ASSUME NEW f \in Nat \ {0}, f <= Precision
  PROVE  LET gd == Over(DoubleOf(NsPerSec), DoubleOf(f))
         IN  /\ gd \in Nat /\ Precision <= 2 * gd /\ gd <= 2 * (NsPerSec * One)
             /\ (gd * f) * Precision <= (NsPerSec * One) * (Precision + 1)
             /\ (gd * f) * Precision >= (NsPerSec * One) * (Precision - 1)
             /\ NsPerSec % f = 0 => gd = (NsPerSec \div f) * One
<1> DEFINE b == NsPerSec * One
           num == b * One
           den == f * One
           gd == Over(DoubleOf(NsPerSec), DoubleOf(f))
           gf == gd * f
<1>1. DoubleOf(NsPerSec) = b /\ DoubleOf(f) = den
  <2>1. NsPerSec <= Precision /\ NsPerSec <= Uint64Values /\ NsPerSec \in Nat
        /\ f <= Uint64Values /\ f \in Nat
    BY Widths, TimingConstants
  <2> QED
    BY <2>1, IntegersRounded
<1>2. gd = Nearest(num, den)
  BY <1>1 DEF Over
<1>3. b \in Nat \ {0} /\ One <= b /\ den \in Nat \ {0} /\ One <= den
  BY Widths, SMT
<1>4. num \in Nat
  <2> HIDE DEF b
  <2> QED
    BY <1>3, Widths, SMT
<1>5. Covered(num, den)
  <2> DEFINE top == 8 * Uint64Values * NsPerSec * One
  <2>1. b < top /\ top \in Nat
    <3>1. top = 8 * (b * Uint64Values)
      BY Widths, SMT
    <3> HIDE DEF b, top
    <3>2. b * Uint64Values \in Nat /\ b <= b * Uint64Values
      BY <1>3, Widths, SMT
    <3> DEFINE c == b * Uint64Values
    <3> HIDE DEF c
    <3>3. top = 8 * c /\ c \in Nat /\ b <= c
      BY <3>1, <3>2 DEF c
    <3> QED
      BY <1>3, <3>3
  <2> HIDE DEF top, den
  <2>2. num < top * den
    <3>1. b * One <= top * den
      BY <1>3, <2>1, Widths, Products
    <3>2. (b + 1) * One <= top * den /\ (b + 1) * One \in Nat /\ top * den \in Nat
      <4>1. b + 1 \in Nat /\ b + 1 <= top
        BY <1>3, <2>1
      <4> QED
        BY <1>3, <2>1, <4>1, Widths, Products
    <3> HIDE DEF b
    <3>3. (b + 1) * One = num + One
      BY <1>3, Widths, SMT
    <3> QED
      BY <1>4, <3>2, <3>3, Widths
  <2> HIDE DEF num
  <2> QED
    BY <1>3, <1>4, <2>2, Representable DEF top
<1>6. Precision * den <= 2 * num
  <2>1. Precision * f <= One
    <3>1. Precision * f <= Precision * Precision /\ Precision * f \in Nat
      BY Widths, Products
    <3> QED
      BY <3>1, Widths
  <2>2. Precision * den = (Precision * f) * One /\ Precision * f \in Nat
    BY Widths, SMT
  <2> DEFINE c == Precision * f
  <2>3. c \in Nat /\ c <= One
    BY <2>1, <2>2
  <2> HIDE DEF c, b
  <2>4. c * One <= b * One /\ c * One \in Nat
    BY <1>3, <2>3, Widths, Products
  <2> QED
    BY <1>4, <2>2, <2>4 DEF c
<1> HIDE DEF num, den, gd
<1>7. /\ gd \in Nat /\ (gd * den) * Precision <= num * (Precision + 1)
      /\ (gd * den) * Precision >= num * (Precision - 1)
  BY <1>2, <1>3, <1>4, <1>5, <1>6, NearestClose
<1>8. gf \in Nat /\ gd <= gf
  BY <1>7, SMT
<1>9. /\ gf * Precision <= b * (Precision + 1)
      /\ gf * Precision >= b * (Precision - 1)
  <2>1. (gd * den) * Precision = (gf * Precision) * One
    BY <1>7, Widths, SMT DEF den
  <2> HIDE DEF gf, b
  <2>2. /\ num * (Precision + 1) = (b * (Precision + 1)) * One
        /\ num * (Precision - 1) = (b * (Precision - 1)) * One
    BY <1>3, Widths, SMT DEF num
  <2>3. gf * Precision \in Int /\ b * (Precision + 1) \in Int /\ b * (Precision - 1) \in Int
    BY <1>3, <1>8, Widths, SMT
  <2> DEFINE u == gf * Precision
             v == b * (Precision + 1)
             w == b * (Precision - 1)
  <2>4. /\ u \in Int /\ v \in Int /\ w \in Int
        /\ u * One <= v * One /\ w * One <= u * One
    <3>1. /\ u * One <= v * One
      BY <1>7, <2>1, <2>2
    <3>2. u * One >= w * One /\ u * One \in Int /\ w * One \in Int
      <4> HIDE DEF u, w
      <4>1. u * One \in Int /\ w * One \in Int
        BY <2>3, Widths, SMT DEF u, w
      <4> QED
        BY <1>7, <2>1, <2>2, <4>1 DEF u, w
    <3> HIDE DEF u, v, w
    <3> QED
      BY <2>3, <3>1, <3>2 DEF u, v, w
  <2> HIDE DEF u, v, w
  <2>5. u <= v /\ w <= u
    BY <2>4, Widths, Cancels
  <2> QED
    BY <2>4, <2>5 DEF u, v, w
<1> HIDE DEF gf, b
<1>10. Precision <= 2 * gd /\ gd <= 2 * b
  <2>1. Precision \in Nat /\ Precision >= 4
    BY DoublesConstants
  <2>2. gf <= 2 * b
    <3>1. gf * Precision <= (2 * b) * Precision
      <4>1. b * (Precision + 1) <= (2 * b) * Precision
        <5>1. Precision + 1 <= 2 * Precision /\ Precision + 1 \in Nat /\ 2 * Precision \in Nat
          BY <2>1
        <5>2. b * (Precision + 1) <= b * (2 * Precision)
          BY <1>3, <5>1, Products
        <5>3. b * (2 * Precision) = (2 * b) * Precision
          BY <1>3, <2>1, SMT
        <5> QED
          BY <5>2, <5>3
      <4>2. gf * Precision \in Int /\ b * (Precision + 1) \in Int /\ (2 * b) * Precision \in Int
        BY <1>3, <1>8, <2>1, SMT
      <4> QED
        BY <1>9, <4>1, <4>2
    <3>2. gf \in Int /\ 2 * b \in Int
      BY <1>3, <1>8
    <3> QED
      BY <3>1, <3>2, Widths, Cancels
  <2>3. One <= 2 * gf
    <3>1. One * Precision <= (2 * gf) * Precision
      <4>1. One * (Precision - 1) <= b * (Precision - 1)
        <5>1. Precision - 1 \in Nat
          BY <2>1
        <5> QED
          BY <1>3, <5>1, Widths, Products
      <4>2. One * Precision <= 2 * (One * (Precision - 1))
        <5>1. Precision <= 2 * (Precision - 1) /\ 2 * (Precision - 1) \in Nat
          BY <2>1
        <5>2. One * Precision <= One * (2 * (Precision - 1))
          BY <2>1, <5>1, Widths, Products
        <5>3. One * (2 * (Precision - 1)) = 2 * (One * (Precision - 1))
          BY <2>1, Widths, SMT
        <5> QED
          BY <5>2, <5>3
      <4> DEFINE u == gf * Precision
                 v == b * (Precision - 1)
                 w == One * (Precision - 1)
      <4>3. u \in Int /\ v \in Int /\ w \in Int /\ One * Precision \in Int
        BY <1>3, <1>8, <2>1, Widths, SMT
      <4>4. (2 * gf) * Precision = 2 * u
        BY <1>8, <2>1, SMT
      <4>5. v <= u /\ w <= v /\ One * Precision <= 2 * w
        BY <1>9, <4>1, <4>2, <4>3
      <4> HIDE DEF u, v, w
      <4> QED
        BY <4>3, <4>4, <4>5
    <3>2. 2 * gf \in Int /\ One \in Int
      BY <1>8, Widths
    <3> QED
      BY <3>1, <3>2, Widths, Cancels
  <2>4. Precision * f <= (2 * gd) * f
    <3>1. Precision * f <= Precision * Precision /\ Precision * f \in Nat
      BY Widths, Products
    <3>2. (2 * gd) * f = 2 * gf
      BY <1>7, SMT DEF gf
    <3> QED
      BY <1>8, <2>3, <3>1, <3>2, Widths
  <2>5. Precision <= 2 * gd
    <3>1. Precision \in Int /\ 2 * gd \in Int
      BY <1>7, <2>1
    <3> QED
      BY <2>4, <3>1, Cancels
  <2> QED
    BY <1>3, <1>7, <1>8, <2>2, <2>5
<1>11. ASSUME NsPerSec % f = 0 PROVE gd = (NsPerSec \div f) * One
  <2> DEFINE m == NsPerSec \div f
  <2>1. m \in Nat /\ NsPerSec = m * f
    <3>1. NsPerSec \in Int
      BY Widths
    <3>2. m \in Int /\ NsPerSec = m * f + (NsPerSec % f) /\ (NsPerSec >= 0 => m \in Nat)
      BY <3>1, DivMod
    <3>3. m * f \in Int
      BY <3>2, SMT
    <3> QED
      BY <1>11, <3>2, <3>3, Widths
  <2> HIDE DEF m
  <2>2. m <= Precision
    <3>1. m <= NsPerSec
      BY <2>1, SMT
    <3> QED
      BY <2>1, <3>1, Widths, TimingConstants
  <2>3. (m * One) * den = num
    BY <2>1, Widths, SMT DEF num, den, b
  <2>4. Nearest((m * One) * den, den) = m * One
    <3>1. One \in PowersOfTwo /\ Covered((m * One) * den, den)
      BY <1>5, <2>3, DoublesConstants
    <3> QED
      BY <1>3, <2>1, <2>2, <3>1, NearestExact
  <2> QED
    BY <1>2, <2>3, <2>4 DEF m
<1> QED
  BY <1>7, <1>9, <1>10, <1>11 DEF gd, gf, b
\* What k counts come to, f of them a second, before the result is cut off: their time,
\* but for four parts in 2^53.
LEMMA CountsTimesPerCount ==
  ASSUME NEW k \in Nat \ {0}, k < Uint64Values, NEW f \in Nat \ {0}, f <= Precision
  PROVE  LET yd == Times(DoubleOf(k), Over(DoubleOf(NsPerSec), DoubleOf(f)))
         IN  /\ yd \in Nat
             /\ (yd * f) * Precision <= (((k * NsPerSec) * (Precision + 4)) * One)
             /\ (yd * f) * Precision >= (((k * NsPerSec) * (Precision - 4)) * One)
<1> DEFINE p == Precision
           a == k * One
           b == NsPerSec * One
           kd == DoubleOf(k)
           gd == Over(DoubleOf(NsPerSec), DoubleOf(f))
           num == kd * gd
           yd == Times(kd, gd)
           z == yd * One
<1>1. p \in Nat /\ p >= 4 /\ p - 1 \in Nat /\ p + 1 \in Nat
  BY DoublesConstants
<1>2. /\ gd \in Nat /\ p <= 2 * gd /\ gd <= 2 * b
      /\ (gd * f) * p <= b * (p + 1) /\ (gd * f) * p >= b * (p - 1)
  BY PerCount
<1>3. /\ kd \in Nat /\ kd * p <= a * (p + 1) /\ kd * p >= a * (p - 1)
      /\ (k <= p => kd = a)
  <2>1. k \in Nat /\ k <= Uint64Values /\ k # 0
    BY Widths
  <2> QED
    BY <2>1, IntegersRounded
<1>4. a \in Nat /\ One <= a /\ b \in Nat \ {0} /\ a <= Uint64Values * One
  <2>1. a \in Nat /\ One <= a /\ b \in Nat \ {0}
    BY Widths, SMT
  <2>2. a <= Uint64Values * One
    <3>1. k \in Nat /\ k <= Uint64Values /\ One \in Nat /\ Uint64Values \in Nat
      BY Widths
    <3> QED
      BY <3>1, Products
  <2> QED
    BY <2>1, <2>2
<1> HIDE DEF p, a, b, kd, gd
<1>5. kd <= 2 * a
  <2>1. k \in Nat /\ k <= Uint64Values
    BY Widths
  <2> QED
    BY <2>1, DoubleBounded DEF kd, a
<1>6. One <= kd
  <2>1. CASE k <= p
    BY <1>3, <1>4, <2>1
  <2>2. CASE ~(k <= p)
    <3>1. 2 <= k
      BY <1>1, <2>2
    <3>2. 2 * One <= a
      <4>1. 2 * One <= k * One
        BY <3>1, Widths, Products
      <4> QED
        BY <4>1 DEF a
    <3>3. (2 * One) * (p - 1) <= a * (p - 1) /\ (2 * One) * (p - 1) \in Nat
          /\ a * (p - 1) \in Nat
      BY <1>1, <1>4, <3>2, Widths, Products
    <3>4. One * p <= One * (2 * (p - 1)) /\ One * p \in Nat
      <4>1. p <= 2 * (p - 1) /\ 2 * (p - 1) \in Nat
        BY <1>1
      <4> QED
        BY <1>1, <4>1, Widths, Products
    <3>5. One * (2 * (p - 1)) = (2 * One) * (p - 1) /\ kd * p \in Nat
      BY <1>1, <1>3, Widths, SMT
    <3>6. One * p <= kd * p
      BY <1>3, <3>3, <3>4, <3>5
    <3>7. One \in Int /\ kd \in Int /\ p \in Nat \ {0}
      BY <1>1, <1>3, Widths
    <3> QED
      BY <3>6, <3>7, Cancels
  <2> QED
    BY <2>1, <2>2
<1>7. num \in Nat
  BY <1>2, <1>3, SMT
<1>8. p * One <= 2 * num
  <2>1. One * p <= kd * (2 * gd)
    <3>1. 2 * gd \in Nat
      BY <1>2
    <3> QED
      BY <1>1, <1>2, <1>3, <1>6, <3>1, Widths, Products
  <2>2. kd * (2 * gd) = 2 * num /\ One * p = p * One
    BY <1>1, <1>2, <1>3, Widths, SMT
  <2> QED
    BY <2>1, <2>2
<1>9. Covered(num, One)
  <2> DEFINE top == 8 * Uint64Values * NsPerSec * One
             c == Uint64Values * One
  <2>1. num <= (2 * c) * (2 * b) /\ c \in Nat \ {0}
    <3>1. c \in Nat \ {0}
      BY Widths, SMT
    <3>2. kd <= 2 * c /\ 2 * c \in Nat /\ 2 * b \in Nat
      BY <1>3, <1>4, <1>5, <3>1
    <3> HIDE DEF c
    <3> QED
      BY <1>2, <1>3, <3>1, <3>2, Products
  <2>2. top * One = 8 * (c * b)
    <3>1. top = 8 * (c * NsPerSec) /\ c * NsPerSec \in Nat
      BY Widths, SMT
    <3>2. (c * NsPerSec) * One = c * (NsPerSec * One)
      BY <2>1, Widths, SMT
    <3> HIDE DEF c, top
    <3> DEFINE e == c * NsPerSec
    <3>3. e \in Nat /\ top = 8 * e /\ e * One = c * b
      BY <3>1, <3>2 DEF b
    <3> HIDE DEF e
    <3>4. (8 * e) * One = 8 * (e * One)
      BY <3>3, Widths, SMT
    <3> QED
      BY <3>3, <3>4
  <2> HIDE DEF c, top, num
  <2>3. (2 * c) * (2 * b) = 4 * (c * b) /\ c * b \in Nat \ {0}
    BY <1>4, <2>1, SMT
  <2> DEFINE e == c * b
  <2>4. e \in Nat \ {0} /\ num <= 4 * e /\ top * One = 8 * e
    BY <2>1, <2>2, <2>3
  <2> HIDE DEF e
  <2>5. num < top * One
    BY <1>7, <2>4
  <2> QED
    BY <1>7, <2>5, Widths, Representable DEF top
<1>10. yd \in Nat /\ z * p <= num * (p + 1) /\ z * p >= num * (p - 1)
  <2>1. yd = Nearest(num, One)
    BY DEF Times
  <2> HIDE DEF num, yd
  <2> QED
    BY <1>7, <1>8, <1>9, <2>1, Widths, NearestClose DEF p
<1> DEFINE ab == a * b
           pp == p * p
           yfp == (yd * f) * p
<1> HIDE DEF yd
<1>11. /\ ((z * f) * p) * pp <= ab * ((p + 1) * ((p + 1) * (p + 1)))
       /\ ((z * f) * p) * pp >= ab * ((p - 1) * ((p - 1) * (p - 1)))
  <2>1. z \in Nat /\ f \in Nat /\ b \in Nat
    BY <1>4, <1>10, Widths, SMT
  <2> HIDE DEF z
  <2>2. /\ kd * p <= a * (p + 1) /\ (gd * f) * p <= b * (p + 1) /\ z * p <= (kd * gd) * (p + 1)
        /\ kd * p >= a * (p - 1) /\ (gd * f) * p >= b * (p - 1) /\ z * p >= (kd * gd) * (p - 1)
    BY <1>2, <1>3, <1>10
  <2>3. ((z * f) * p) * (p * p) <= (a * b) * ((p + 1) * ((p + 1) * (p + 1)))
    BY <1>1, <1>2, <1>3, <1>4, <2>1, <2>2, ThreeRoundings
  <2>4. ((z * f) * p) * (p * p) >= (a * b) * ((p - 1) * ((p - 1) * (p - 1)))
    BY <1>1, <1>2, <1>3, <1>4, <2>1, <2>2, ThreeRoundings
  <2> QED
    BY <2>3, <2>4
<1>12. (z * f) * p = yfp * One /\ yfp \in Nat
  BY <1>1, <1>10, Widths, SMT
<1>13. ab \in Nat /\ pp \in Nat \ {0}
  BY <1>1, <1>4, SMT
<1>14. ab = ((k * NsPerSec) * One) * One /\ k * NsPerSec \in Nat
  BY Widths, SMT DEF a, b
<1> HIDE DEF z, num, ab, pp, yfp
<1> DEFINE zz == yfp * One
<1>15. zz \in Nat
  BY <1>12, Widths, SMT
<1>16. zz <= ab * (p + 4) /\ zz >= ab * (p - 4)
  <2> DEFINE t == (p + 1) * ((p + 1) * (p + 1))
             u == (p - 1) * ((p - 1) * (p - 1))
  <2>1. /\ t \in Nat /\ u \in Nat /\ t <= (p + 4) * pp /\ u >= (p - 4) * pp
    <3>1. \A x \in Nat, y \in Nat : x * y \in Nat
      BY SMT
    <3>2. t \in Nat /\ u \in Nat
      BY <1>1, <3>1
    <3> QED
      BY <1>1, <3>2, Cubes DEF pp
  <2>2. zz * pp <= ab * t /\ zz * pp >= ab * u
    BY <1>11, <1>12
  <2> HIDE DEF t, u, zz
  <2>3. p + 4 \in Nat /\ p - 4 \in Nat
    BY <1>1
  <2>4. (p + 4) * pp \in Nat /\ (p - 4) * pp \in Nat
    BY <1>13, <2>3, SMT
  <2> DEFINE v == (p + 4) * pp
             w == (p - 4) * pp
  <2>5. v \in Nat /\ w \in Nat /\ t <= v /\ w <= u
    BY <2>1, <2>4
  <2>6. ab * v = (ab * (p + 4)) * pp /\ ab * w = (ab * (p - 4)) * pp
        /\ ab * (p + 4) \in Nat /\ ab * (p - 4) \in Nat
    BY <1>13, <2>3, SMT
  <2> HIDE DEF v, w
  <2>7. /\ ab * t <= ab * v /\ ab * t \in Nat /\ ab * v \in Nat
        /\ ab * w <= ab * u /\ ab * w \in Nat /\ ab * u \in Nat
    BY <1>13, <2>1, <2>5, Products
  <2>8. zz * pp \in Nat
    BY <1>13, <1>15, SMT
  <2>9. zz * pp <= ab * v /\ zz * pp >= ab * w
    BY <2>2, <2>7, <2>8
  <2> DEFINE g == ab * (p + 4)
             h == ab * (p - 4)
  <2>10. g \in Int /\ h \in Int /\ zz \in Int /\ zz * pp <= g * pp /\ h * pp <= zz * pp
    BY <1>15, <2>6, <2>7, <2>8, <2>9
  <2> HIDE DEF g, h
  <2>11. zz <= g /\ h <= zz
    BY <1>13, <2>10, Cancels
  <2> QED
    BY <1>15, <2>10, <2>11 DEF g, h
<1>17. /\ yfp <= ((k * NsPerSec) * (p + 4)) * One
       /\ yfp >= ((k * NsPerSec) * (p - 4)) * One
  <2> DEFINE kn == k * NsPerSec
             g == (kn * (p + 4)) * One
             h == (kn * (p - 4)) * One
  <2>1. p + 4 \in Nat /\ p - 4 \in Nat
    BY <1>1
  <2>2. ab = (kn * One) * One /\ kn \in Nat
    BY <1>14
  <2> HIDE DEF kn
  <2>3. /\ ab * (p + 4) = g * One /\ ab * (p - 4) = h * One
    BY <2>1, <2>2, Widths, SMT
  <2>4. g \in Nat /\ h \in Nat
    BY <2>1, <2>2, Widths, SMT
  <2> HIDE DEF g, h
  <2>5. yfp * One <= g * One /\ yfp * One >= h * One
    BY <1>16, <2>3
  <2>6. g * One \in Nat /\ h * One \in Nat /\ yfp * One \in Nat
    BY <1>12, <2>4, Widths, SMT
  <2>7. h * One <= yfp * One
    BY <2>5, <2>6
  <2>8. yfp \in Int /\ g \in Int /\ h \in Int
    BY <1>12, <2>4
  <2>9. yfp <= g /\ h <= yfp
    BY <2>5, <2>7, <2>8, Widths, Cancels
  <2> QED
    BY <2>8, <2>9 DEF g, h, kn
<1> QED
  BY <1>10, <1>17 DEF yd, yfp, kd, gd, p
\* What seninstant_subtract makes of k counts is their time, but for what is cut off
\* and for four parts in 2^53; and if a count is a whole number of nanoseconds, exactly
\* their time up to 2^53 nanoseconds.
LEMMA NanosOfCounts ==
  ASSUME NEW k \in Nat, k < Uint64Values, freq \in Nat \ {0}, freq <= Precision,
         (k * NsPerSec) * (Precision + 4) < (Uint64Values * freq) * Precision,
         NEW n \in NanosOf(k)
  PROVE  /\ n \in Nat
         /\ (n * freq) * Precision <= (k * NsPerSec) * (Precision + 4)
         /\ ((n + 1) * freq) * Precision > (k * NsPerSec) * (Precision - 4)
         /\ NsPerSec % freq = 0 /\ k * NsPerSec <= Precision * freq =>
              n * freq = k * NsPerSec
<1> DEFINE p == Precision
           kn == k * NsPerSec
           gd == Over(DoubleOf(NsPerSec), DoubleOf(freq))
           yd == Times(DoubleOf(k), gd)
           e == yd \div One
<1>1. p \in Nat /\ p >= 4 /\ p # 0 /\ p + 4 \in Nat /\ p - 4 \in Nat
  BY DoublesConstants
<1>2. kn \in Nat
  BY Widths, SMT
<1>3. /\ yd \in Nat
      /\ (yd * freq) * p <= (kn * (p + 4)) * One
      /\ (yd * freq) * p >= (kn * (p - 4)) * One
  <2>1. CASE k # 0
    BY <2>1, CountsTimesPerCount
  <2>2. CASE k = 0
    <3>1. DoubleOf(k) = 0
      <4>1. DoubleOf(k) = k * One
        BY <2>2, Widths, IntegersRounded
      <4> QED
        BY <2>2, <4>1, Widths
    <3>2. Nearest((0 * One) * One, One) = 0 * One
      <4>1. (0 * One) * One = 0
        BY Widths
      <4>2. 0 < (8 * Uint64Values * NsPerSec * One) * One
        BY Widths, SMT
      <4>3. Covered((0 * One) * One, One)
        BY <4>1, <4>2, Widths, Representable
      <4>4. One \in PowersOfTwo /\ 0 <= Precision
        BY DoublesConstants
      <4> QED
        BY <4>3, <4>4, Widths, NearestExact
    <3>3. yd = 0
      <4>1. gd \in Nat
        BY PerCount
      <4>2. DoubleOf(k) * gd = 0 /\ (0 * One) * One = 0 /\ 0 * One = 0
        BY <3>1, <4>1, Widths
      <4> QED
        BY <3>2, <4>2 DEF Times
    <3>4. kn = 0
      BY <2>2, Widths
    <3> HIDE DEF kn, yd
    <3> QED
      BY <1>1, <3>3, <3>4, Widths
  <2> QED
    BY <2>1, <2>2
<1>4. NanosOf(k) = ToUnsigned(yd, Uint64Values)
  BY DEF NanosOf
<1> HIDE DEF p, kn, yd
<1>5. /\ e \in Nat /\ e * One \in Nat /\ (e + 1) * One \in Nat
      /\ e * One <= yd /\ yd < (e + 1) * One
  <2>1. yd \in Int
    BY <1>3
  <2>2. /\ e \in Int /\ (yd % One) \in 0..One - 1 /\ yd = e * One + (yd % One)
        /\ yd >= 0 => e \in Nat
    BY <2>1, Widths, DivMod
  <2>3. e \in Nat
    BY <1>3, <2>2
  <2> HIDE DEF e
  <2>4. e * One \in Nat /\ (e + 1) * One = e * One + One
    BY <2>3, Widths, SMT
  <2> QED
    BY <2>2, <2>3, <2>4, Widths
<1> HIDE DEF e
<1> DEFINE c == freq * p
           ep == (e * freq) * p
           ep1 == ((e + 1) * freq) * p
           hi == kn * (p + 4)
           lo == kn * (p - 4)
<1>6. /\ c \in Nat \ {0} /\ hi \in Nat /\ lo \in Nat /\ ep \in Nat /\ ep1 \in Nat
      /\ ep1 = ep + c
  BY <1>1, <1>2, <1>5, SMT
<1>7. /\ (yd * freq) * p = yd * c /\ (e * One) * c = ep * One /\ ((e + 1) * One) * c = ep1 * One
  BY <1>1, <1>3, <1>5, Widths, SMT
<1>8. ep <= hi
  <2> DEFINE eo == e * One
  <2>1. eo \in Nat /\ eo <= yd
    BY <1>5
  <2> HIDE DEF eo, c, hi, ep
  <2>2. eo * c <= yd * c /\ eo * c \in Nat /\ yd * c \in Nat
    BY <1>3, <1>6, <2>1, Products
  <2>3. yd * c <= hi * One
    BY <1>3, <1>7 DEF hi
  <2>4. eo * c = ep * One
    BY <1>7 DEF eo
  <2>5. hi * One \in Nat
    BY <1>6, Widths, SMT
  <2>6. ep * One <= hi * One /\ ep \in Int /\ hi \in Int
    BY <1>6, <2>2, <2>3, <2>4, <2>5
  <2> QED
    BY <2>6, Widths, Cancels
<1>9. lo < ep1
  <2> DEFINE eo == (e + 1) * One
  <2>1. eo \in Nat /\ yd + 1 <= eo /\ yd + 1 \in Nat
    BY <1>3, <1>5
  <2> HIDE DEF eo, c, lo, ep1
  <2>2. (yd + 1) * c <= eo * c /\ (yd + 1) * c \in Nat /\ eo * c \in Nat
    BY <1>6, <2>1, Products
  <2>3. (yd + 1) * c = yd * c + c /\ yd * c \in Nat
    BY <1>3, <1>6, SMT
  <2>4. yd * c >= lo * One
    BY <1>3, <1>7 DEF lo
  <2>5. eo * c = ep1 * One
    BY <1>7 DEF eo
  <2>6. lo * One \in Nat
    BY <1>6, Widths, SMT
  <2>7. lo * One < ep1 * One /\ lo \in Int /\ ep1 \in Int
    BY <1>6, <2>2, <2>3, <2>4, <2>5, <2>6
  <2> QED
    BY <2>7, Widths, Cancels
<1>10. e < Uint64Values
  <2> DEFINE b == Uint64Values * freq
  <2>1. ep = e * c /\ b * p = Uint64Values * c
    BY <1>1, <1>5, Widths, SMT
  <2>2. hi < b * p
    BY DEF hi, kn, p
  <2> HIDE DEF c, ep, hi, b
  <2>3. Uint64Values * c \in Nat
    BY <1>6, Widths, SMT
  <2>4. e * c < Uint64Values * c /\ e \in Int /\ Uint64Values \in Int
    BY <1>5, <1>6, <1>8, <2>1, <2>2, <2>3, Widths
  <2> QED
    BY <1>6, <2>4, Cancels
<1>11. n = e
  BY <1>4, <1>10 DEF ToUnsigned, e
<1>12. ASSUME NsPerSec % freq = 0, kn <= p * freq PROVE e * freq = kn
  <2> DEFINE m == NsPerSec \div freq
             km == k * m
  <2>1. m \in Nat \ {0} /\ NsPerSec = m * freq
    <3>1. NsPerSec \in Int
      BY Widths
    <3>2. m \in Int /\ NsPerSec = m * freq + (NsPerSec % freq) /\ (NsPerSec >= 0 => m \in Nat)
      BY <3>1, DivMod
    <3>3. m * freq \in Int
      BY <3>2, SMT
    <3>4. m \in Nat /\ NsPerSec = m * freq
      BY <1>12, <3>2, <3>3, Widths
    <3> HIDE DEF m
    <3>5. m # 0
      BY <3>4, Widths
    <3> QED
      BY <3>4, <3>5
  <2>2. gd = m * One
    BY <1>12, PerCount
  <2> HIDE DEF m, gd
  <2>3. kn = km * freq /\ km \in Nat /\ k <= km
    BY <2>1, SMT DEF kn
  <2> HIDE DEF km
  <2>4. km <= p
    <3>1. km * freq <= p * freq /\ km \in Int /\ p \in Int
      BY <1>1, <1>12, <2>3
    <3> QED
      BY <3>1, Cancels
  <2>5. DoubleOf(k) = k * One
    <3>1. k <= Precision /\ k <= Uint64Values /\ k \in Nat
      BY <1>1, <2>3, <2>4, Widths DEF p
    <3> QED
      BY <3>1, IntegersRounded
  <2>6. (k * One) * (m * One) = (km * One) * One
    <3>1. (k * One) * (m * One) = ((k * m) * One) * One
      BY <2>1, Widths, SMT
    <3> QED
      BY <3>1 DEF km
  <2>7. Covered((km * One) * One, One)
    <3> DEFINE top == 8 * Uint64Values * NsPerSec * One
               a == Uint64Values * One
               b == a * NsPerSec
               x == km * One
    <3>1. x \in Nat /\ a \in Nat \ {0} /\ x <= a
      <4>1. km <= Uint64Values /\ km \in Nat /\ Uint64Values \in Nat /\ One \in Nat
        BY <1>1, <2>3, <2>4, Widths DEF p
      <4>2. a \in Nat \ {0}
        BY Widths, SMT
      <4> QED
        BY <4>1, <4>2, Products
    <3>2. top = 8 * b
      BY Widths, SMT
    <3> HIDE DEF a, x, top
    <3>3. b \in Nat /\ a <= b
      BY <3>1, Widths, SMT
    <3> HIDE DEF b
    <3>4. x + 1 <= top /\ x + 1 \in Nat /\ top \in Nat
      BY <3>1, <3>2, <3>3
    <3>5. (x + 1) * One <= top * One /\ top * One \in Nat
      BY <3>4, Widths, Products
    <3>6. (x + 1) * One = x * One + One /\ x * One \in Nat
      BY <3>1, Widths, SMT
    <3>7. x * One < top * One
      BY <3>5, <3>6, Widths
    <3>8. Covered(x * One, One)
      BY <3>6, <3>7, Widths, Representable DEF top
    <3> QED
      BY <3>8 DEF x
  <2>8. Nearest((km * One) * One, One) = km * One
    <3>1. One \in PowersOfTwo /\ km <= Precision
      BY <2>4, DoublesConstants DEF p
    <3> QED
      BY <2>3, <2>7, <3>1, Widths, NearestExact
  <2>9. yd = km * One
    BY <2>2, <2>5, <2>6, <2>8 DEF yd, gd, Times
  <2>10. e = km
    <3>1. km \in Int
      BY <2>3
    <3>2. (km * One) \div One = km
      BY <3>1, Widths, DivOfMultiple
    <3> QED
      BY <2>9, <3>2 DEF e
  <2> QED
    BY <2>3, <2>10
<1> QED
  BY <1>5, <1>6, <1>8, <1>9, <1>11, <1>12 DEF ep, ep1, hi, lo, kn, p

-----------------------------------------------------------------------------
(* The inductive invariant of the Windows implementation.                  *)

\* the counter at time t, and when a sleep of m microseconds ends
CounterAt(t) == (start + (t * freq) \div NsPerSec) % Uint64Values
WakesAt(m) == IF Millis(m) = DwordValues - 1 THEN Never ELSE from + Millis(m) * NsPerMilli

\* first holds the counter at the first reading
CounterInv ==
  /\ clock \in Nat
  /\ step # "begin" =>
       /\ freq \in Freqs /\ start \in CounterStarts
       /\ readAt[1] \in Nat /\ readAt[1] <= clock
       /\ first = CounterAt(readAt[1])

\* the sleeper is woken when what Sleep was asked for is over
WakeInv ==
  /\ step = "sleeping" => asked \in Micros /\ from = clock /\ wakes = WakesAt(asked)
  /\ step = "end" =>
       /\ asked \in Micros /\ from \in Nat
       /\ wakes = WakesAt(asked) /\ wakes # Never
       /\ wakes <= clock /\ clock <= wakes + MaxLate

WindowsInv == CounterInv /\ WakeInv /\ MeasuredToTheCount

LEMMA MillisInRange ==
  ASSUME NEW m \in Micros
  PROVE  /\ m \in Nat /\ Millis(m) \in Nat
         /\ NsPerMilli \in Nat \ {0} /\ Millis(m) * NsPerMilli \in Nat
<1>1. m \in Nat /\ MicrosPerMilli \in Nat \ {0} /\ DwordValues \in Nat \ {0}
  BY TimingConstants, WindowsConstants
<1>2. m \div MicrosPerMilli \in Int
  BY <1>1, DivMod
<1>3. Millis(m) \in Nat
  BY <1>1, <1>2, DivMod DEF Millis
<1>4. NsPerMilli \in Nat \ {0}
  BY TimingConstants, WindowsConstants, SMT DEF NsPerMilli
<1>5. \A x \in Nat, y \in Nat : x * y \in Nat
  BY SMT
<1> QED
  BY <1>1, <1>3, <1>4, <1>5

LEMMA WindowsBeginKeeps ==
  ASSUME WindowsInv, NEW t \in clock..clock + MaxLate, WindowsBegin(t)
  PROVE  WindowsInv'
<1>1. t \in Nat
  BY TimingConstants DEF WindowsInv, CounterInv
<1>2. /\ clock' = t /\ step' = "call" /\ freq' \in Freqs /\ start' \in CounterStarts
      /\ readAt' = <<t, 0>> /\ first' = Counter(t)
  BY DEF WindowsBegin
<1>3. CounterAt(t)' = Counter(t)
  BY DEF CounterAt, Counter
<1>4. readAt'[1] = t
  BY <1>2
<1>5. CounterInv'
  BY <1>1, <1>2, <1>3, <1>4 DEF CounterInv, CounterAt
<1> QED
  BY <1>2, <1>5 DEF WindowsInv, WakeInv, MeasuredToTheCount

LEMMA WindowsSleepKeeps ==
  ASSUME WindowsInv, NEW m \in Micros, WindowsSleep(m)
  PROVE  WindowsInv'
<1>1. /\ step = "call" /\ step' = "sleeping" /\ asked' = m /\ from' = clock
      /\ wakes' = WakesAt(m)'
      /\ UNCHANGED <<clock, freq, start, first, readAt>>
  BY DEF WindowsSleep, WakesAt
<1>2. CounterInv'
  BY <1>1 DEF WindowsInv, CounterInv, CounterAt
<1>3. WakeInv'
  BY <1>1 DEF WakeInv, WakesAt
<1> QED
  BY <1>1, <1>2, <1>3 DEF WindowsInv, MeasuredToTheCount

LEMMA WindowsWokenKeeps ==
  ASSUME WindowsInv, NEW t \in wakes..wakes + MaxLate, WindowsWoken(t)
  PROVE  WindowsInv'
<1>1. /\ step = "sleeping" /\ step' = "end" /\ wakes # Never /\ clock' = t
      /\ UNCHANGED <<freq, start, first, asked, wakes, from, readAt>>
  BY DEF WindowsWoken
<1>2. asked \in Micros /\ from = clock /\ wakes = WakesAt(asked) /\ clock \in Nat
  BY <1>1 DEF WindowsInv, WakeInv, CounterInv
<1>3. wakes \in Nat /\ clock <= wakes
  <2>1. Millis(asked) * NsPerMilli \in Nat
    BY <1>2, MillisInRange
  <2> QED
    BY <1>1, <1>2, <2>1 DEF WakesAt
<1>4. t \in Nat /\ wakes <= t /\ t <= wakes + MaxLate /\ clock <= t
  BY <1>2, <1>3, TimingConstants
<1>5. CounterInv'
  BY <1>1, <1>2, <1>4 DEF WindowsInv, CounterInv, CounterAt
<1>6. WakeInv'
  BY <1>1, <1>2, <1>4 DEF WakeInv, WakesAt
<1> QED
  BY <1>1, <1>5, <1>6 DEF WindowsInv, MeasuredToTheCount

\* Counts that are within n of e, and nanoseconds within four parts in p of them.
LEMMA RoundingAdds ==
  ASSUME NEW p \in Nat, p >= 4, NEW f \in Nat \ {0}, NEW n \in Nat \ {0}, NEW e \in Nat,
         NEW kn \in Nat, -n < kn - e, kn - e < n,
         NEW x \in Nat, NEW df \in Int, df = x * f - e,
         (x * f) * p <= kn * (p + 4), ((x + 1) * f) * p > kn * (p - 4)
  PROVE  /\ df * p < n * p + 4 * (e + n)
         /\ df * p > -((n + f) * p + 4 * (e + n))
<1> DEFINE xp == (x * f) * p
           fp == f * p
           kp == kn * p
           ep == e * p
           np == n * p
<1>1. /\ xp \in Nat /\ fp \in Nat /\ kp \in Nat /\ ep \in Nat /\ np \in Nat
      /\ ((x + 1) * f) * p = xp + fp
      /\ kn * (p + 4) = kp + 4 * kn /\ kn * (p - 4) = kp - 4 * kn
      /\ (n + f) * p = np + fp
  <2>1. \A u \in Nat, v \in Nat : u * v \in Nat
    BY SMT
  <2>2. xp \in Nat /\ fp \in Nat /\ kp \in Nat /\ ep \in Nat /\ np \in Nat
    BY <2>1
  <2>3. ((x + 1) * f) * p = xp + fp
    BY SMT
  <2>4. kn * (p + 4) = kp + 4 * kn /\ kn * (p - 4) = kp - 4 * kn
    BY SMT
  <2>5. (n + f) * p = np + fp
    BY SMT
  <2> QED
    BY <2>2, <2>3, <2>4, <2>5
<1>2. df * p = xp - ep
  <2> DEFINE y == x * f
  <2>1. y \in Int /\ df = y - e
    BY SMT
  <2> HIDE DEF y
  <2>2. (y - e) * p = y * p - e * p
    BY <2>1, SMT
  <2> QED
    BY <2>1, <2>2 DEF y
<1>3. kp - ep < np /\ -np < kp - ep
  <2>1. kn < e + n /\ e < kn + n /\ kn + n \in Int /\ e + n \in Int
    OBVIOUS
  <2>2. kn * p < (e + n) * p /\ e * p < (kn + n) * p
    <3>1. ~((e + n) * p <= kn * p) /\ ~((kn + n) * p <= e * p)
      <4>1. (e + n) * p <= kn * p => e + n <= kn
        BY <2>1, Cancels
      <4>2. (kn + n) * p <= e * p => kn + n <= e
        BY <2>1, Cancels
      <4> QED
        BY <2>1, <4>1, <4>2
    <3>2. (e + n) * p \in Int /\ (kn + n) * p \in Int
      BY SMT
    <3> QED
      BY <1>1, <3>1, <3>2
  <2>3. (e + n) * p = ep + np /\ (kn + n) * p = kp + np
    BY SMT
  <2> HIDE DEF kp, ep, np
  <2> QED
    BY <1>1, <2>2, <2>3 DEF kp, ep
<1>4. xp <= kp + 4 * kn /\ xp + fp > kp - 4 * kn
  BY <1>1
<1> HIDE DEF xp, fp, kp, ep, np
<1>5. df * p < np + 4 * (e + n) /\ df * p > -((np + fp) + 4 * (e + n))
  BY <1>1, <1>2, <1>3, <1>4
<1>6. (n + f) * p = np + fp
  BY <1>1
<1> QED
  BY <1>5, <1>6 DEF np

LEMMA WindowsEndKeeps ==
  ASSUME WindowsInv, NEW t \in clock..clock + MaxLate, WindowsEnd(t)
  PROVE  WindowsInv'
<1> DEFINE s == readAt[1]
           c == start + (s * freq) \div NsPerSec
           d == start + (t * freq) \div NsPerSec
           k == (t * freq) \div NsPerSec - (s * freq) \div NsPerSec
<1>1. /\ step = "end" /\ step' = "done" /\ clock' = t
      /\ UNCHANGED <<freq, start, first>>
      /\ second' = Counter(t) /\ difference' \in NanosOf(Counts(second', first))
      /\ readAt' = <<s, t>>
  BY DEF WindowsEnd
<1>2. /\ freq \in Nat \ {0} /\ start \in Nat /\ s \in Nat /\ clock \in Nat
      /\ s <= clock /\ first = CounterAt(s) /\ freq \in Freqs /\ start \in CounterStarts
      /\ freq <= Precision
  <2>1. /\ freq \in Freqs /\ start \in CounterStarts /\ s \in Nat /\ clock \in Nat
        /\ s <= clock /\ first = CounterAt(s)
    BY <1>1 DEF WindowsInv, CounterInv
  <2>2. Freqs \subseteq Nat \ {0} /\ CounterStarts \subseteq Nat
    BY Widths, WindowsConstants
  <2>3. freq <= Precision
    BY <2>1, Widths, WindowsConstants
  <2> QED
    BY <2>1, <2>2, <2>3
<1>3. t \in Nat /\ s <= t
  BY <1>2, TimingConstants
<1>4. readAt'[1] = s /\ readAt'[2] = t
  BY <1>1
<1>5. CounterInv'
  BY <1>1, <1>2, <1>3, <1>4 DEF CounterInv, CounterAt
<1>6. WakeInv'
  BY <1>1 DEF WakeInv
<1>7. ASSUME (t - s) * freq + NsPerSec < Uint64Values * NsPerSec,
             (Precision + 4) * ((t - s) * freq + NsPerSec) < Uint64Values * freq * Precision
      PROVE  LET counted == (t - s) * freq + NsPerSec
                 error == (difference' - (t - s)) * freq
             IN  /\ error * Precision < NsPerSec * Precision + 4 * counted
                 /\ error * Precision > -((NsPerSec + freq) * Precision + 4 * counted)
                 /\ NsPerSec % freq = 0 /\ counted <= Precision * freq =>
                      error < NsPerSec /\ error > -NsPerSec
  <2> DEFINE e == (t - s) * freq
             counted == e + NsPerSec
             kn == k * NsPerSec
  <2>1. /\ NsPerSec \in Nat \ {0} /\ Uint64Values \in Nat \ {0}
        /\ Precision \in Nat /\ Precision >= 4 /\ Precision # 0
    BY Widths, DoublesConstants
  <2>2. /\ k \in Nat /\ -NsPerSec < k * NsPerSec - (t - s) * freq
        /\ k * NsPerSec - (t - s) * freq < NsPerSec
    BY <1>2, <1>3, <2>1, CountsBetween
  <2>3. c \in Nat /\ d \in Nat /\ d - c = k
    <3>1. s * freq \in Nat /\ t * freq \in Nat
      BY <1>2, <1>3, SMT
    <3> DEFINE x == s * freq
               y == t * freq
    <3>2. x \in Int /\ x >= 0 /\ y \in Int /\ y >= 0
      BY <3>1
    <3> HIDE DEF x, y
    <3>3. x \div NsPerSec \in Nat /\ y \div NsPerSec \in Nat
      BY <2>1, <3>2, DivMod
    <3> QED
      BY <1>2, <3>3 DEF x, y
  <2>4. e \in Nat
    <3>1. t - s \in Nat
      BY <1>2, <1>3
    <3> DEFINE x == t - s
    <3>2. x \in Nat
      BY <3>1
    <3> HIDE DEF x
    <3>3. x * freq \in Nat
      BY <1>2, <3>2, SMT
    <3> QED
      BY <3>3 DEF x
  <2> HIDE DEF k, c, d, s
  <2>5. kn \in Nat /\ -NsPerSec < kn - e /\ kn - e < NsPerSec /\ kn < counted
        /\ counted \in Nat
    <3>1. kn \in Nat
      BY <2>1, <2>2, SMT
    <3>2. -NsPerSec < kn - e /\ kn - e < NsPerSec
      BY <2>2
    <3> HIDE DEF kn, e
    <3> QED
      BY <2>1, <2>4, <3>1, <3>2
  <2> HIDE DEF e, counted
  <2>6. counted < Uint64Values * NsPerSec
    BY <1>7 DEF counted, e
  <2>7. k < Uint64Values
    <3>1. Uint64Values * NsPerSec \in Nat
      BY <2>1, SMT
    <3>2. k * NsPerSec < Uint64Values * NsPerSec /\ k \in Int /\ Uint64Values \in Int
      BY <2>1, <2>2, <2>5, <2>6, <3>1
    <3> QED
      BY <2>1, <3>2, Cancels
  <2> HIDE DEF kn
  <2>8. kn * (Precision + 4) < (Uint64Values * freq) * Precision
    <3>1. (Precision + 4) * counted < (Uint64Values * freq) * Precision
      BY <1>7 DEF counted, e
    <3>2. kn * (Precision + 4) <= counted * (Precision + 4)
          /\ kn * (Precision + 4) \in Nat /\ counted * (Precision + 4) \in Nat
      <4>1. kn <= counted /\ Precision + 4 \in Nat
        BY <2>1, <2>5
      <4> QED
        BY <2>5, <4>1, Products
    <3>3. counted * (Precision + 4) = (Precision + 4) * counted
      BY <2>1, <2>5, SMT
    <3>4. (Uint64Values * freq) * Precision \in Nat
      BY <1>2, <2>1, SMT
    <3> QED
      BY <3>1, <3>2, <3>3, <3>4
  <2>9. Counts(second', first) = k
    <3>1. second' = d % Uint64Values /\ first = c % Uint64Values
      BY <1>1, <1>2 DEF Counter, CounterAt, c, d
    <3>2. c <= d /\ d - c < Uint64Values
      BY <2>2, <2>3, <2>7
    <3>3. ((d % Uint64Values) - (c % Uint64Values)) % Uint64Values = d - c
      BY <2>1, <2>3, <3>2, WrappedDifference
    <3> QED
      BY <2>3, <3>1, <3>3 DEF Counts
  <2>10. difference' \in NanosOf(k)
    BY <1>1, <2>9
  <2> DEFINE n == difference'
  <2>11. /\ n \in Nat
         /\ (n * freq) * Precision <= kn * (Precision + 4)
         /\ ((n + 1) * freq) * Precision > kn * (Precision - 4)
         /\ NsPerSec % freq = 0 /\ kn <= Precision * freq => n * freq = kn
    BY <1>2, <2>2, <2>7, <2>8, <2>10, NanosOfCounts DEF kn
  <2>12. t - s \in Nat /\ e = (t - s) * freq
    BY <1>2, <1>3 DEF e, s
  <2> HIDE DEF n
  <2> DEFINE l == t - s
  <2>13. l \in Nat /\ l * freq = e
    BY <2>12
  <2> HIDE DEF l
  <2>14. (n - l) * freq = n * freq - e /\ n * freq \in Nat /\ (n - l) * freq \in Int
    BY <1>2, <2>11, <2>13, SMT
  <2>15. /\ ((n - l) * freq) * Precision < NsPerSec * Precision + 4 * counted
         /\ ((n - l) * freq) * Precision > -((NsPerSec + freq) * Precision + 4 * counted)
    <3>1. counted = e + NsPerSec
      BY DEF counted
    <3> QED
      BY <1>2, <2>1, <2>4, <2>5, <2>11, <2>14, <3>1, RoundingAdds
  <2>16. NsPerSec % freq = 0 /\ counted <= Precision * freq =>
           (n - l) * freq < NsPerSec /\ (n - l) * freq > -NsPerSec
    <3>1. Precision * freq \in Nat
      BY <1>2, <2>1, SMT
    <3>2. counted <= Precision * freq => kn <= Precision * freq
      BY <2>5, <3>1
    <3> QED
      BY <2>1, <2>4, <2>5, <2>11, <2>14, <3>2
  <2> QED
    BY <2>15, <2>16 DEF n, l, counted, e
<1> HIDE DEF s
<1>8. MeasuredToTheCount'
  BY <1>1, <1>4, <1>7 DEF MeasuredToTheCount
<1> QED
  BY <1>5, <1>6, <1>8 DEF WindowsInv

LEMMA WokenInTime == WindowsInv => SleepsToTheMillisecond
<1> DEFINE q == asked \div MicrosPerMilli
           r == asked % MicrosPerMilli
           laps == q \div DwordValues
           m == q % DwordValues
           short == r * NsPerMicro
           whole == q * NsPerMilli
           lapped == laps * (DwordValues * NsPerMilli)
           slept == m * NsPerMilli
           wanted == asked * NsPerMicro
           over == (clock - from) + lapped - wanted
<1> SUFFICES ASSUME WindowsInv, step = "end"
             PROVE  /\ (q + 1) % DwordValues # 0
                    /\ over > -NsPerMilli /\ over <= MaxLate
                    /\ r = 0 => over >= 0
  BY DEF SleepsToTheMillisecond
<1>1. /\ asked \in Micros /\ from \in Nat /\ clock \in Nat /\ wakes # Never
      /\ wakes = WakesAt(asked) /\ wakes <= clock /\ clock <= wakes + MaxLate
  BY DEF WindowsInv, WakeInv, CounterInv
<1>2. /\ asked \in Nat /\ MicrosPerMilli \in Nat \ {0} /\ NsPerMicro \in Nat \ {0}
      /\ DwordValues \in Nat \ {0, 1} /\ MaxLate \in Nat
  BY <1>1, TimingConstants, WindowsConstants
<1>3. q \in Nat /\ r \in 0..MicrosPerMilli - 1 /\ asked = q * MicrosPerMilli + r
  <2>1. asked \in Int /\ asked >= 0
    BY <1>2
  <2> QED
    BY <1>2, <2>1, DivMod
<1>4. Millis(asked) = m
  BY DEF Millis
<1> HIDE DEF q, r
<1>5. laps \in Nat /\ m \in 0..DwordValues - 1 /\ q = laps * DwordValues + m
  <2>1. q \in Int /\ q >= 0 /\ DwordValues \in Nat \ {0}
    BY <1>2, <1>3
  <2> QED
    BY <2>1, DivMod
<1>6. wakes = from + slept /\ m # DwordValues - 1
  BY <1>1, <1>4 DEF WakesAt
<1> HIDE DEF laps, m
<1>7. (q + 1) % DwordValues # 0
  <2> SUFFICES ASSUME (q + 1) % DwordValues = 0 PROVE FALSE
    OBVIOUS
  <2> DEFINE j == (q + 1) \div DwordValues
  <2>1. j \in Int /\ q + 1 = j * DwordValues
    <3>1. q + 1 \in Int /\ DwordValues \in Nat \ {0}
      BY <1>2, <1>3
    <3>2. j \in Int /\ q + 1 = j * DwordValues + ((q + 1) % DwordValues)
      BY <3>1, DivMod
    <3>3. j * DwordValues \in Int
      BY <3>1, <3>2, SMT
    <3> QED
      BY <3>2, <3>3
  <2> HIDE DEF j
  <2>2. (j - laps) * DwordValues = j * DwordValues - laps * DwordValues
        /\ laps * DwordValues \in Int
    BY <1>2, <1>5, <2>1, SMT
  <2>3. m + 1 = (j - laps) * DwordValues /\ m + 1 \in 1..DwordValues - 1
    BY <1>2, <1>3, <1>5, <1>6, <2>1, <2>2
  <2>4. j - laps = 0
    <3>1. j - laps \in Int /\ m + 1 \in Int /\ -DwordValues < m + 1 /\ m + 1 < DwordValues
          /\ DwordValues \in Nat \ {0}
      BY <1>2, <1>5, <2>1, <2>3
    <3> QED
      BY <2>3, <3>1, NoSmallMultiple
  <2> QED
    BY <1>2, <2>3, <2>4
<1>8. short \in Nat /\ short < NsPerMilli /\ (r = 0 => short = 0)
  BY <1>2, <1>3, SMT DEF NsPerMilli
<1>9. /\ wanted = whole + short /\ whole \in Nat /\ wanted \in Nat
  <2>1. (q * MicrosPerMilli) * NsPerMicro = q * NsPerMilli
    BY <1>2, <1>3, SMT DEF NsPerMilli
  <2>2. q * MicrosPerMilli \in Int /\ r \in Int /\ NsPerMicro \in Int
    BY <1>2, <1>3, SMT
  <2>3. (q * MicrosPerMilli + r) * NsPerMicro = (q * MicrosPerMilli) * NsPerMicro + r * NsPerMicro
    <3> DEFINE x == q * MicrosPerMilli
    <3>1. x \in Int
      BY <2>2
    <3> HIDE DEF x
    <3>2. (x + r) * NsPerMicro = x * NsPerMicro + r * NsPerMicro
      BY <2>2, <3>1, Distributes
    <3> QED
      BY <3>2 DEF x
  <2>4. q * NsPerMilli \in Nat /\ asked * NsPerMicro \in Nat
    BY <1>2, <1>3, SMT DEF NsPerMilli
  <2> QED
    BY <1>3, <2>1, <2>3, <2>4
<1>10. NsPerMilli \in Nat
  BY <1>1, MillisInRange
<1>11. whole = lapped + slept /\ lapped \in Nat /\ slept \in Nat
  <2>1. m \in Nat /\ DwordValues \in Nat
    BY <1>2, <1>5
  <2>2. lapped = (laps * DwordValues) * NsPerMilli
    BY <1>5, <1>10, <2>1, SMT
  <2>3. (laps * DwordValues + m) * NsPerMilli = (laps * DwordValues) * NsPerMilli + m * NsPerMilli
    BY <1>5, <1>10, <2>1, SMT
  <2>4. \A x \in Nat, y \in Nat : x * y \in Nat
    BY SMT
  <2>5. lapped \in Nat /\ slept \in Nat
    BY <1>5, <1>10, <2>1, <2>4
  <2> QED
    BY <1>5, <2>2, <2>3, <2>5
<1> HIDE DEF short, whole, wanted, lapped, slept
<1>12. over > -NsPerMilli /\ over <= MaxLate /\ (r = 0 => over >= 0)
  BY <1>1, <1>2, <1>6, <1>8, <1>9, <1>10, <1>11
<1> QED
  BY <1>7, <1>12

LEMMA WindowsStep ==
  WindowsInv /\ [SentimingNext]_sentimingVars => WindowsInv'
<1> SUFFICES ASSUME WindowsInv, [SentimingNext]_sentimingVars PROVE WindowsInv'
  OBVIOUS
<1>1. CASE WindowsNext
  BY <1>1, WindowsBeginKeeps, WindowsSleepKeeps, WindowsWokenKeeps, WindowsEndKeeps
     DEF WindowsNext
<1>2. CASE UNCHANGED windowsVars
  BY <1>2 DEF windowsVars, WindowsInv, CounterInv, WakeInv, CounterAt, WakesAt,
              MeasuredToTheCount
<1> QED
  BY <1>1, <1>2 DEF SentimingNext, sentimingVars

LEMMA WindowsAlways == SentimingSpec => []WindowsInv
<1>1. SentimingInit => WindowsInv
  BY DEF SentimingInit, WindowsInit, WindowsInv, CounterInv, WakeInv, MeasuredToTheCount
<1> QED
  BY <1>1, WindowsStep, PTL DEF SentimingSpec

\* On Windows every sleep that ends is short by less than a millisecond, and late by
\* no more than the system is, but for the multiples of 2^32 milliseconds a request
\* may lose; and none ends whose milliseconds are then INFINITE.
THEOREM SentimingSleepsToTheMillisecond == SentimingSpec => []SleepsToTheMillisecond
BY WindowsAlways, WokenInTime, PTL

\* On Windows two readings are apart by the time between them but for a count, the
\* nanosecond that is cut off and four parts in 2^53, which is what the three
\* roundings of doubles come to; and but for a count alone if it is a whole number of
\* nanoseconds, up to 2^53 of them: whatever the frequency, and also when the counter
\* wrapped in between.
THEOREM SentimingMeasuredToTheCount == SentimingSpec => []MeasuredToTheCount
<1>1. WindowsInv => MeasuredToTheCount
  BY DEF WindowsInv
<1> QED
  BY <1>1, WindowsAlways, PTL
=============================================================================
