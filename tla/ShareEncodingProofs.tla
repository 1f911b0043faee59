------------------------ MODULE ShareEncodingProofs ------------------------
(***************************************************************************)
(* Theorems of ShareEncoding, for every base of the text, every length of  *)
(* header and hash, and everything a pool may send: the text of a share is *)
(* that of the header that was hashed (SharesAreHashed), and the verdict   *)
(* of either worker is the order of hash and target as numbers             *)
(* (VerdictsAreOrder).                                                     *)
(*                                                                         *)
(* Numbers are sums over recursive functions, so the first lemmas show     *)
(* that those functions exist, by induction: a set of numbers with no      *)
(* least element is empty.  The lemmas on numerals then say what grouping, *)
(* slicing and comparing digits do to the number they stand for.           *)
(***************************************************************************)
EXTENDS ShareEncoding, SequenceTheorems, WellFoundedInduction, TLAPS

-----------------------------------------------------------------------------
\* Induction and recursion.

\* A set of natural numbers has a least element.
LEMMA LeastNat ==
  ASSUME NEW T, T \subseteq Nat, T # {}
  PROVE  \E x \in T : \A y \in T : x <= y
<1> DEFINE R == OpToRel(<, Nat)
<1>1. \A x, y \in T : y < x => <<y, x>> \in R
  BY DEF OpToRel
<1>2. \E x \in T : \A y \in T : ~(<<y, x>> \in R)
  <2>1. IsWellFoundedOn(R, Nat)
    BY NatLessThanWellFounded
  <2> HIDE DEF R
  <2> QED BY <2>1, WFMin
<1> HIDE DEF R
<1>3. PICK x \in T : \A y \in T : ~(<<y, x>> \in R)
  BY <1>2
<1>4. ASSUME NEW y \in T PROVE x <= y
  <2>1. x \in Nat /\ y \in Nat /\ ~(y < x)
    BY <1>1, <1>3
  <2> QED BY <2>1
<1> QED BY <1>4

\* A set of numbers that has 0, and n + 1 with every n, has them all.
LEMMA Induction ==
  ASSUME NEW S, 0 \in S, \A n \in Nat : n \in S => n + 1 \in S
  PROVE  \A n \in Nat : n \in S
<1> SUFFICES ASSUME NEW m \in Nat, m \notin S PROVE FALSE
  OBVIOUS
<1> DEFINE T == Nat \ S
<1>1. PICK x \in T : \A y \in T : x <= y
  BY LeastNat
<1>2. x # 0 /\ x - 1 \in Nat /\ x - 1 \in S
  BY <1>1
<1> QED BY <1>1, <1>2

\* The powers of a base are what their recursive definition says.
LEMMA PowerRecursion ==
  ASSUME NEW base
  PROVE  Power(base)[0] = 1 /\ \A n \in Nat : Power(base)[n + 1] = base * Power(base)[n]
<1> DEFINE Step(x) == base * x
           Fin(h, n) == h = [k \in 0 .. n |-> IF k = 0 THEN 1 ELSE Step(h[k - 1])]
           All(h) == h = [k \in Nat |-> IF k = 0 THEN 1 ELSE Step(h[k - 1])]
           H(n) == CHOOSE h : Fin(h, n)
           f == [n \in Nat |-> H(n)[n]]
<1> HIDE DEF Step
<1>1. \A n \in Nat : Fin(H(n), n)
  <2> DEFINE S == {n \in Nat : \E h : Fin(h, n)}
  <2>1. 0 \in S
    <3>1. Fin([k \in 0 .. 0 |-> 1], 0)
      OBVIOUS
    <3> QED BY <3>1
  <2>2. ASSUME NEW n \in Nat, n \in S PROVE n + 1 \in S
    <3>1. PICK h : Fin(h, n)
      BY <2>2
    <3> DEFINE g == [k \in 0 .. n + 1 |-> IF k = n + 1 THEN Step(h[n]) ELSE h[k]]
    <3>2. Fin(g, n + 1)
      BY <3>1
    <3>3. \E x : Fin(x, n + 1)
      <4> HIDE DEF g, Fin
      <4> QED BY <3>2
    <3> QED BY <3>3
  <2>3. \A n \in Nat : n \in S
    <3> HIDE DEF S
    <3> QED BY <2>1, <2>2, Induction
  <2>4. \A n \in Nat : \E h : Fin(h, n)
    BY <2>3
  <2> HIDE DEF Fin
  <2> QED BY <2>4
<1> HIDE DEF H
<1>2. \A n \in Nat : H(n + 1)[n] = H(n)[n]
  <2> SUFFICES ASSUME NEW n \in Nat PROVE H(n + 1)[n] = H(n)[n]
    OBVIOUS
  <2> DEFINE S == {k \in Nat : k <= n => H(n + 1)[k] = H(n)[k]}
             a == H(n + 1)
             b == H(n)
  <2>1. Fin(a, n + 1) /\ Fin(b, n)
    BY <1>1
  <2> HIDE DEF a, b
  <2>2. a[0] = b[0]
    BY <2>1
  <2>3. ASSUME NEW k \in Nat, k + 1 <= n, a[k] = b[k] PROVE a[k + 1] = b[k + 1]
    BY <2>1, <2>3
  <2>4. 0 \in S /\ \A k \in Nat : k \in S => k + 1 \in S
    BY <2>2, <2>3 DEF a, b
  <2>5. \A k \in Nat : k \in S
    <3> HIDE DEF S
    <3> QED BY <2>4, Induction
  <2> QED BY <2>5
<1>3. f[0] = 1 /\ \A n \in Nat : f[n + 1] = Step(f[n])
  <2>1. H(0)[0] = 1
    BY <1>1
  <2>2. ASSUME NEW n \in Nat PROVE H(n + 1)[n + 1] = Step(H(n)[n])
    <3> DEFINE h == H(n + 1)
    <3>1. Fin(h, n + 1)
      BY <1>1
    <3> HIDE DEF h
    <3>2. h[n + 1] = Step(h[n])
      BY <3>1
    <3>3. h[n] = H(n)[n]
      BY <1>2 DEF h
    <3> QED BY <3>2, <3>3 DEF h
  <2> QED BY <2>1, <2>2
<1>4. All(f)
  <2> DEFINE g == [k \in Nat |-> IF k = 0 THEN 1 ELSE Step(f[k - 1])]
  <2>1. ASSUME NEW k \in Nat PROVE f[k] = g[k]
    <3>1. CASE k = 0
      BY <1>3, <3>1
    <3>2. CASE k # 0
      <4>1. k - 1 \in Nat /\ (k - 1) + 1 = k
        BY <3>2
      <4> HIDE DEF f
      <4>2. f[k] = Step(f[k - 1])
        BY <1>3, <4>1
      <4> QED BY <3>2, <4>2
    <3> QED BY <3>1, <3>2
  <2>2. DOMAIN f = Nat /\ f = [k \in Nat |-> f[k]]
    OBVIOUS
  <2>3. f = g
    <3> HIDE DEF f
    <3> QED BY <2>1, <2>2
  <2> QED BY <2>3
<1>5. Power(base) = CHOOSE h : All(h)
  BY DEF Power, Step
<1>6. All(Power(base))
  <2> HIDE DEF All, f
  <2> QED BY <1>4, <1>5
<1> DEFINE P == Power(base)
<1>7. All(P)
  BY <1>6
<1> HIDE DEF P
<1>8. P[0] = 1 /\ \A n \in Nat : P[n + 1] = Step(P[n])
  BY <1>7
<1> QED BY <1>8 DEF P, Step

\* So are the sums of a numeral.
LEMMA NumeralRecursion ==
  ASSUME NEW d, NEW size
  PROVE  /\ Numeral(d, 0, size) = 0
         /\ \A n \in Nat : Numeral(d, n + 1, size) = Numeral(d, n, size) + d[n] * Shift[size * n]
<1> DEFINE Step(x, k) == x + d[k - 1] * Shift[size * (k - 1)]
           Fin(h, n) == h = [k \in 0 .. n |-> IF k = 0 THEN 0 ELSE Step(h[k - 1], k)]
           All(h) == h = [k \in Nat |-> IF k = 0 THEN 0 ELSE Step(h[k - 1], k)]
           H(n) == CHOOSE h : Fin(h, n)
           f == [n \in Nat |-> H(n)[n]]
<1> HIDE DEF Step
<1>1. \A n \in Nat : Fin(H(n), n)
  <2> DEFINE S == {n \in Nat : \E h : Fin(h, n)}
  <2>1. 0 \in S
    <3>1. Fin([k \in 0 .. 0 |-> 0], 0)
      OBVIOUS
    <3> QED BY <3>1
  <2>2. ASSUME NEW n \in Nat, n \in S PROVE n + 1 \in S
    <3>1. PICK h : Fin(h, n)
      BY <2>2
    <3> DEFINE g == [k \in 0 .. n + 1 |-> IF k = n + 1 THEN Step(h[n], n + 1) ELSE h[k]]
    <3>2. Fin(g, n + 1)
      BY <3>1
    <3>3. \E x : Fin(x, n + 1)
      <4> HIDE DEF g, Fin
      <4> QED BY <3>2
    <3> QED BY <3>3
  <2>3. \A n \in Nat : n \in S
    <3> HIDE DEF S
    <3> QED BY <2>1, <2>2, Induction
  <2>4. \A n \in Nat : \E h : Fin(h, n)
    BY <2>3
  <2> HIDE DEF Fin
  <2> QED BY <2>4
<1> HIDE DEF H
<1>2. \A n \in Nat : H(n + 1)[n] = H(n)[n]
  <2> SUFFICES ASSUME NEW n \in Nat PROVE H(n + 1)[n] = H(n)[n]
    OBVIOUS
  <2> DEFINE S == {k \in Nat : k <= n => H(n + 1)[k] = H(n)[k]}
             a == H(n + 1)
             b == H(n)
  <2>1. Fin(a, n + 1) /\ Fin(b, n)
    BY <1>1
  <2> HIDE DEF a, b
  <2>2. a[0] = b[0]
    BY <2>1
  <2>3. ASSUME NEW k \in Nat, k + 1 <= n, a[k] = b[k] PROVE a[k + 1] = b[k + 1]
    BY <2>1, <2>3
  <2>4. 0 \in S /\ \A k \in Nat : k \in S => k + 1 \in S
    BY <2>2, <2>3 DEF a, b
  <2>5. \A k \in Nat : k \in S
    <3> HIDE DEF S
    <3> QED BY <2>4, Induction
  <2> QED BY <2>5
<1>3. f[0] = 0 /\ \A n \in Nat : f[n + 1] = Step(f[n], n + 1)
  <2>1. H(0)[0] = 0
    BY <1>1
  <2>2. ASSUME NEW n \in Nat PROVE H(n + 1)[n + 1] = Step(H(n)[n], n + 1)
    <3> DEFINE h == H(n + 1)
    <3>1. Fin(h, n + 1)
      BY <1>1
    <3> HIDE DEF h
    <3>2. h[n + 1] = Step(h[n], n + 1)
      BY <3>1
    <3>3. h[n] = H(n)[n]
      BY <1>2 DEF h
    <3> QED BY <3>2, <3>3 DEF h
  <2> QED BY <2>1, <2>2
<1>4. All(f)
  <2> DEFINE g == [k \in Nat |-> IF k = 0 THEN 0 ELSE Step(f[k - 1], k)]
  <2>1. ASSUME NEW k \in Nat PROVE f[k] = g[k]
    <3>1. CASE k = 0
      BY <1>3, <3>1
    <3>2. CASE k # 0
      <4>1. k - 1 \in Nat /\ (k - 1) + 1 = k
        BY <3>2
      <4> HIDE DEF f
      <4>2. f[k] = Step(f[k - 1], k)
        BY <1>3, <4>1
      <4> QED BY <3>2, <4>2
    <3> QED BY <3>1, <3>2
  <2>2. DOMAIN f = Nat /\ f = [k \in Nat |-> f[k]]
    OBVIOUS
  <2>3. f = g
    <3> HIDE DEF f
    <3> QED BY <2>1, <2>2
  <2> QED BY <2>3
<1> DEFINE P == CHOOSE h : All(h)
<1>5. \A n : Numeral(d, n, size) = P[n]
  BY DEF Numeral, Step
<1>6. All(P)
  <2> HIDE DEF All, f
  <2> QED BY <1>4
<1> HIDE DEF P
<1>7. P[0] = 0 /\ \A n \in Nat : P[n + 1] = Step(P[n], n + 1)
  BY <1>6
<1>8. \A n \in Nat : P[n + 1] = P[n] + d[n] * Shift[size * n]
  <2> SUFFICES ASSUME NEW n \in Nat PROVE Step(P[n], n + 1) = P[n] + d[n] * Shift[size * n]
    BY <1>7
  <2>1. (n + 1) - 1 = n
    OBVIOUS
  <2> QED BY <2>1, Zenon DEF Step
<1>9. Numeral(d, 0, size) = 0
  BY <1>5, <1>7
<1> HIDE DEF All
<1> QED BY <1>5, <1>8, <1>9, Zenon

-----------------------------------------------------------------------------
\* Powers, quotients and remainders.

\* Powers are positive.
LEMMA PowerFacts ==
  ASSUME NEW base \in Nat \ {0}
  PROVE  \A n \in Nat : Power(base)[n] \in Nat \ {0}
<1> DEFINE P == Power(base)
           S == {n \in Nat : P[n] \in Nat \ {0}}
<1>1. P[0] = 1 /\ \A n \in Nat : P[n + 1] = base * P[n]
  BY PowerRecursion
<1> HIDE DEF P
<1>2. 0 \in S
  BY <1>1
<1>3. ASSUME NEW n \in Nat, n \in S PROVE n + 1 \in S
  <2>1. P[n] \in Nat /\ P[n] >= 1
    BY <1>3
  <2>2. base * P[n] \in Nat /\ base * P[n] # 0
    BY <2>1
  <2> QED BY <1>1, <2>2
<1>4. \A n \in Nat : n \in S
  <2> HIDE DEF S
  <2> QED BY <1>2, <1>3, Induction
<1> QED BY <1>4 DEF P

\* What is known of the powers of a byte.
LEMMA ShiftFacts ==
  /\ Radix \in Nat /\ Radix >= 2 /\ Digit \in Nat /\ Digit >= 2
  /\ Shift[0] = 1 /\ Shift[1] = Radix
  /\ \A n \in Nat : Shift[n] \in Nat \ {0} /\ Shift[n + 1] = Radix * Shift[n]
<1>1. Digit \in Nat /\ Digit >= 2
  BY EncodingAssumption
<1>2. Radix \in Nat /\ Radix >= 2
  BY <1>1 DEF Radix
<1>3. \A n \in Nat : Shift[n] \in Nat \ {0}
  BY <1>2, PowerFacts DEF Shift
<1>4. Shift[0] = 1 /\ \A n \in Nat : Shift[n + 1] = Radix * Shift[n]
  BY PowerRecursion DEF Shift
<1>5. Shift[0 + 1] = Radix * Shift[0]
  BY <1>4
<1> QED BY <1>1, <1>2, <1>3, <1>4, <1>5

\* Powers multiply as exponents add.
LEMMA ShiftAdds ==
  ASSUME NEW m \in Nat, NEW n \in Nat
  PROVE  Shift[m + n] = Shift[m] * Shift[n]
<1> DEFINE S == {k \in Nat : Shift[m + k] = Shift[m] * Shift[k]}
<1>1. 0 \in S
  BY ShiftFacts
<1>2. ASSUME NEW k \in Nat, k \in S PROVE k + 1 \in S
  <2> DEFINE a == Shift[m]  b == Shift[k]  c == Shift[m + k]
  <2>1. a \in Nat /\ b \in Nat /\ c \in Nat /\ Radix \in Nat /\ m + k \in Nat
    BY ShiftFacts
  <2>2. c = a * b
    BY <1>2
  <2>3. Shift[m + (k + 1)] = Radix * c /\ Shift[k + 1] = Radix * b
    <3>1. m + (k + 1) = (m + k) + 1
      OBVIOUS
    <3> QED BY <2>1, <3>1, ShiftFacts
  <2> HIDE DEF a, b, c
  <2>4. Radix * c = a * (Radix * b)
    BY <2>1, <2>2
  <2> QED BY <2>3, <2>4 DEF a
<1>3. \A k \in Nat : k \in S
  <2> HIDE DEF S
  <2> QED BY <1>1, <1>2, Induction
<1> QED BY <1>3

\* Products of numbers that are not negative.
LEMMA Products ==
  ASSUME NEW a \in Nat, NEW b \in Nat
  PROVE  a * b \in Nat
OBVIOUS

\* A multiple of m is at least m.
LEMMA Multiples ==
  ASSUME NEW m \in Nat, NEW d \in Int, d >= 1
  PROVE  m * d >= m
<1> DEFINE e == d - 1
<1>1. e \in Nat /\ d = e + 1
  OBVIOUS
<1> HIDE DEF e
<1>2. m * e >= 0
  BY <1>1, Products
<1>3. m * (e + 1) = m * e + m
  BY <1>1
<1> QED BY <1>1, <1>2, <1>3

\* Quotient and remainder are unique.
LEMMA DivMod ==
  ASSUME NEW m \in Nat \ {0}, NEW q \in Nat, NEW r \in 0 .. m - 1
  PROVE  /\ (m * q + r) \div m = q /\ (m * q + r) % m = r /\ m * q + r \in Nat
<1> DEFINE x == m * q + r
           u == x \div m
           v == x % m
<1>1. m * q \in Nat /\ x \in Nat
  OBVIOUS
<1>2. u \in Int /\ v \in 0 .. m - 1 /\ x = m * u + v
  <2> HIDE DEF x
  <2> QED BY <1>1
<1> HIDE DEF u, v
<1>3. \A d \in Int : d >= 1 => m * d >= m
  BY Multiples
<1>4. m * u + v = m * q + r
  BY <1>2
<1>5. CASE u = q
  BY <1>2, <1>4, <1>5 DEF u, v
<1>6. CASE u > q
  <2>1. m * (u - q) >= m
    BY <1>2, <1>3, <1>6
  <2>2. m * (u - q) = m * u - m * q
    BY <1>2
  <2> QED BY <1>2, <1>4, <2>1, <2>2
<1>7. CASE u < q
  <2>1. m * (q - u) >= m
    BY <1>2, <1>3, <1>7
  <2>2. m * (q - u) = m * q - m * u
    BY <1>2
  <2> QED BY <1>2, <1>4, <2>1, <2>2
<1> QED BY <1>2, <1>5, <1>6, <1>7

\* A number is put together from its quotient and its remainder.
LEMMA DivModIs ==
  ASSUME NEW m \in Nat \ {0}, NEW x \in Nat
  PROVE  x = m * (x \div m) + (x % m) /\ x \div m \in Nat /\ x % m \in 0 .. m - 1
<1>1. x \div m \in Int /\ x % m \in 0 .. m - 1
  OBVIOUS
<1>3. x = m * (x \div m) + (x % m)
  OBVIOUS
<1>2. x \div m >= 0
  <2> DEFINE u == x \div m
  <2> SUFFICES ASSUME u < 0 PROVE FALSE
    BY <1>1
  <2> HIDE DEF u
  <2>0. u \in Int /\ x = m * u + (x % m)
    BY <1>1, <1>3 DEF u
  <2>1. m * (-u) >= m
    BY <2>0, Multiples
  <2>2. m * (-u) = -(m * u)
    BY <2>0
  <2> QED BY <1>1, <2>0, <2>1, <2>2
<1> QED BY <1>1, <1>2, <1>3

\* Dividing twice.
LEMMA DivDiv ==
  ASSUME NEW a \in Nat \ {0}, NEW b \in Nat \ {0}, NEW x \in Nat
  PROVE  /\ x \div (a * b) = (x \div a) \div b
         /\ x % (a * b) = (x % a) + a * ((x \div a) % b)
<1> DEFINE q == x \div a
           r == x % a
           p == q \div b
           s == q % b
<1>1. x = a * q + r /\ q \in Nat /\ r \in 0 .. a - 1
  BY DivModIs
<1> HIDE DEF q, r
<1>2. q = b * p + s /\ p \in Nat /\ s \in 0 .. b - 1
  BY <1>1, DivModIs
<1> HIDE DEF p, s
<1> DEFINE ab == a * b
           t == a * s + r
<1>3. ab \in Nat \ {0}
  OBVIOUS
<1>4. t \in 0 .. ab - 1
  <2>1. a * s >= 0 /\ a * (b - 1 - s) >= 0 /\ a * (b - 1 - s) = a * b - a - a * s
    BY <1>2
  <2> QED BY <1>1, <1>2, <2>1
<1>5. x = ab * p + t
  <2>1. a * (b * p + s) = (a * b) * p + a * s
    BY <1>2
  <2> QED BY <1>1, <1>2, <2>1
<1> HIDE DEF ab, t
<1>6. x \div ab = p /\ x % ab = t
  BY <1>2, <1>3, <1>4, <1>5, DivMod
<1> QED BY <1>6 DEF ab, p, q, t, r, s

-----------------------------------------------------------------------------
\* Numerals.

\* Digits of size bytes.
Digits(d, n, size) == \A k \in 0 .. n - 1 : d[k] \in 0 .. Shift[size] - 1

\* A numeral of n digits is less than one and n digits of zeros.
LEMMA NumeralBound ==
  ASSUME NEW n \in Nat, NEW size \in Nat, NEW d, Digits(d, n, size)
  PROVE  Numeral(d, n, size) \in 0 .. Shift[size * n] - 1
<1> DEFINE S == {k \in Nat : k <= n => Numeral(d, k, size) \in 0 .. Shift[size * k] - 1}
<1>1. 0 \in S
  <2>1. size * 0 = 0
    OBVIOUS
  <2> QED BY <2>1, NumeralRecursion, ShiftFacts
<1>2. ASSUME NEW k \in Nat, k \in S PROVE k + 1 \in S
  <2> SUFFICES ASSUME k + 1 <= n
               PROVE  Numeral(d, k + 1, size) \in 0 .. Shift[size * (k + 1)] - 1
    OBVIOUS
  <2> DEFINE x == Numeral(d, k, size)
             y == Shift[size * k]
             b == Shift[size]
             sk == size * k
  <2>1. x \in 0 .. y - 1
    BY <1>2
  <2>2. sk \in Nat /\ size * (k + 1) = sk + size
    OBVIOUS
  <2>3. Shift[size * (k + 1)] = y * b
    <3> HIDE DEF b
    <3>1. Shift[sk + size] = Shift[sk] * Shift[size]
      <4> HIDE DEF sk
      <4> QED BY <2>2, ShiftAdds
    <3> QED BY <2>2, <3>1 DEF b
  <2>4. y \in Nat \ {0} /\ b \in Nat \ {0} /\ d[k] \in 0 .. b - 1
    BY <2>2, ShiftFacts DEF Digits
  <2>5. Numeral(d, k + 1, size) = x + d[k] * y
    BY NumeralRecursion
  <2> DEFINE z == d[k]
  <2> HIDE DEF x, y, b, z
  <2>6. x + z * y \in 0 .. y * b - 1
    <3>1. z \in Nat /\ b - 1 - z \in Nat
      BY <2>4 DEF z
    <3>2. z * y \in Nat /\ (b - 1 - z) * y \in Nat
      BY <2>4, <3>1, Products
    <3>3. (b - 1 - z) * y = y * b - y - z * y
      BY <2>4, <3>1
    <3>4. y * b \in Nat
      BY <2>4, Products
    <3> QED BY <2>1, <2>4, <3>2, <3>3, <3>4
  <2> QED BY <2>3, <2>5, <2>6 DEF z
<1>3. \A k \in Nat : k \in S
  <2> HIDE DEF S
  <2> QED BY <1>1, <1>2, Induction
<1> QED BY <1>3

\* Only the digits count.
LEMMA NumeralSame ==
  ASSUME NEW n \in Nat, NEW size, NEW d, NEW e, \A k \in 0 .. n - 1 : d[k] = e[k]
  PROVE  Numeral(d, n, size) = Numeral(e, n, size)
<1> DEFINE S == {k \in Nat : k <= n => Numeral(d, k, size) = Numeral(e, k, size)}
<1>1. 0 \in S
  BY NumeralRecursion
<1>2. ASSUME NEW k \in Nat, k \in S PROVE k + 1 \in S
  <2> SUFFICES ASSUME k + 1 <= n PROVE Numeral(d, k + 1, size) = Numeral(e, k + 1, size)
    OBVIOUS
  <2>1. Numeral(d, k, size) = Numeral(e, k, size) /\ d[k] = e[k]
    BY <1>2
  <2>2. Numeral(d, k + 1, size) = Numeral(d, k, size) + d[k] * Shift[size * k]
    BY NumeralRecursion
  <2>3. Numeral(e, k + 1, size) = Numeral(e, k, size) + e[k] * Shift[size * k]
    BY NumeralRecursion
  <2> QED BY <2>1, <2>2, <2>3, Zenon
<1>3. \A k \in Nat : k \in S
  <2> HIDE DEF S
  <2> QED BY <1>1, <1>2, Induction
<1> QED BY <1>3

\* A numeral of m + n digits d, whose upper n are e, put together from its parts.
SplitAt(d, e, m, n, size) ==
  Numeral(d, m + n, size) = Numeral(d, m, size) + Shift[size * m] * Numeral(e, n, size)

\* The lower m digits and the upper n.
LEMMA NumeralSplit ==
  ASSUME NEW m \in Nat, NEW n \in Nat, NEW size \in Nat, NEW d, NEW e,
         Digits(d, m + n, size), \A k \in 0 .. n - 1 : e[k] = d[m + k]
  PROVE  SplitAt(d, e, m, n, size)
<1> DEFINE low == Numeral(d, m, size)
           y == Shift[size * m]
           S == {k \in Nat : k <= n => Numeral(d, m + k, size) = low + y * Numeral(e, k, size)}
<1>1. low \in Nat /\ y \in Nat /\ size * m \in Nat
  <2>1. size * m \in Nat
    BY Products
  <2>2. Digits(d, m, size)
    BY DEF Digits
  <2>3. Numeral(d, m, size) \in 0 .. Shift[size * m] - 1
    BY <2>2, NumeralBound
  <2>4. Shift[size * m] \in Nat
    BY <2>1, ShiftFacts
  <2> QED BY <2>1, <2>3, <2>4
<1> HIDE DEF low, y
<1>2. 0 \in S
  <2>1. Numeral(e, 0, size) = 0 /\ m + 0 = m
    BY NumeralRecursion
  <2> QED BY <1>1, <2>1 DEF low
<1>3. ASSUME NEW k \in Nat, k \in S PROVE k + 1 \in S
  <2> SUFFICES ASSUME k + 1 <= n
               PROVE  Numeral(d, m + (k + 1), size) = low + y * Numeral(e, k + 1, size)
    OBVIOUS
  <2> DEFINE x == Numeral(e, k, size)
             z == Shift[size * k]
             t == e[k]
             u == Shift[size * (m + k)]
             v == Numeral(d, m + k, size)
  <2>1. v = low + y * x /\ t = d[m + k] /\ t \in Nat
    BY <1>3, ShiftFacts DEF Digits
  <2>2. Numeral(e, k + 1, size) = x + t * z
    BY NumeralRecursion
  <2>3. Numeral(d, m + (k + 1), size) = v + t * u
    <3> DEFINE mk == m + k
    <3>1. m + (k + 1) = mk + 1 /\ mk \in Nat
      OBVIOUS
    <3>2. t = d[mk]
      BY <2>1
    <3> HIDE DEF mk, t
    <3>3. Numeral(d, mk + 1, size) = Numeral(d, mk, size) + d[mk] * Shift[size * mk]
      <4>1. \A j \in Nat :
              Numeral(d, j + 1, size) = Numeral(d, j, size) + d[j] * Shift[size * j]
        BY NumeralRecursion
      <4> QED BY <3>1, <4>1
    <3>4. v = Numeral(d, mk, size) /\ u = Shift[size * mk]
      BY DEF mk
    <3> HIDE DEF u, v
    <3>5. Numeral(d, mk + 1, size) = v + t * u
      BY <3>2, <3>3, <3>4, Zenon
    <3> QED BY <3>1, <3>5, Zenon
  <2>4. x \in Nat
    <3>1. Digits(e, k, size)
      BY DEF Digits
    <3> QED BY <3>1, NumeralBound
  <2>5. z \in Nat /\ u = y * z
    <3>1. size * k \in Nat /\ size * (m + k) = size * m + size * k
      BY Products
    <3> DEFINE sm == size * m
               sk == size * k
    <3> HIDE DEF sm, sk
    <3>2. Shift[sm + sk] = Shift[sm] * Shift[sk]
      BY <1>1, <3>1, ShiftAdds DEF sm, sk
    <3> QED BY <3>1, <3>2, ShiftFacts DEF y, sm, sk
  <2> HIDE DEF x, z, t, u, v
  <2>6. v + t * u = low + y * (x + t * z)
    BY <1>1, <2>1, <2>4, <2>5
  <2> QED BY <2>2, <2>3, <2>6
<1>4. \A k \in Nat : k \in S
  <2> HIDE DEF S
  <2> QED BY <1>2, <1>3, Induction
<1> QED BY <1>4 DEF low, y, SplitAt

\* Some bytes of a numeral are the numeral of those bytes.
LEMMA SliceOfNumeral ==
  ASSUME NEW n \in Nat, NEW b \in Nat, NEW m \in Nat, b + m <= n,
         NEW d, NEW e, Digits(d, n, 1), \A k \in 0 .. m - 1 : e[k] = d[b + k]
  PROVE  Slice(Numeral(d, n, 1), b, m) = Numeral(e, m, 1)
<1> DEFINE f == [k \in Nat |-> d[b + k]]
           g == [k \in Nat |-> f[m + k]]
           p == n - b
           q == n - b - m
<1>1. p \in Nat /\ q \in Nat /\ b + p = n /\ m + q = p
  OBVIOUS
<1>2. \A k \in 0 .. p - 1 : f[k] = d[b + k]
  BY <1>1
<1>3. Digits(f, p, 1) /\ Digits(d, b, 1) /\ Digits(f, m, 1)
  BY <1>1 DEF Digits
<1>4. Digits(g, q, 1) /\ \A k \in 0 .. q - 1 : g[k] = f[m + k]
  BY <1>1, <1>3 DEF Digits
<1>5. \A k \in 0 .. m - 1 : f[k] = e[k]
  BY <1>1
<1> HIDE DEF f, g, p, q
<1> DEFINE x == Numeral(d, b, 1)
           y == Numeral(f, p, 1)
           u == Numeral(f, m, 1)
           v == Numeral(g, q, 1)
           sb == Shift[b]
           sm == Shift[m]
<1>6. sb \in Nat \ {0} /\ sm \in Nat \ {0}
  BY ShiftFacts
<1>7. x \in 0 .. sb - 1 /\ u \in 0 .. sm - 1 /\ v \in Nat /\ y \in Nat
  <2>1. 1 * b = b /\ 1 * m = m /\ 1 \in Nat
    OBVIOUS
  <2>2. Numeral(d, b, 1) \in 0 .. Shift[1 * b] - 1 /\ Numeral(f, m, 1) \in 0 .. Shift[1 * m] - 1
    BY <1>3, <2>1, NumeralBound
  <2>3. Numeral(g, q, 1) \in 0 .. Shift[1 * q] - 1 /\ Numeral(f, p, 1) \in 0 .. Shift[1 * p] - 1
    BY <1>1, <1>3, <1>4, <2>1, NumeralBound
  <2> QED BY <2>1, <2>2, <2>3
<1>8. Numeral(d, n, 1) = x + sb * y
  <2>1. Numeral(d, b + p, 1) = Numeral(d, b, 1) + Shift[1 * b] * Numeral(f, p, 1)
    <3>1. 1 \in Nat /\ Digits(d, b + p, 1)
      BY <1>1
    <3>2. SplitAt(d, f, b, p, 1)
      BY <1>1, <1>2, <3>1, NumeralSplit, Zenon
    <3> QED BY <3>2 DEF SplitAt
  <2> QED BY <1>1, <2>1
<1>9. y = u + sm * v
  <2>1. Numeral(f, m + q, 1) = Numeral(f, m, 1) + Shift[1 * m] * Numeral(g, q, 1)
    <3>1. 1 \in Nat /\ Digits(f, m + q, 1)
      BY <1>1, <1>3
    <3>2. SplitAt(f, g, m, q, 1)
      BY <1>1, <1>4, <3>1, NumeralSplit, Zenon
    <3> QED BY <3>2 DEF SplitAt
  <2> QED BY <1>1, <2>1
<1>10. u = Numeral(e, m, 1)
  BY <1>5, NumeralSame
<1> HIDE DEF x, y, u, v, sb, sm
<1>11. (x + sb * y) \div sb = y
  <2>1. (sb * y + x) \div sb = y
    BY <1>6, <1>7, DivMod
  <2>2. sb * y + x = x + sb * y
    BY <1>6, <1>7
  <2> QED BY <2>1, <2>2
<1>12. (u + sm * v) % sm = u
  <2>1. (sm * v + u) % sm = u
    BY <1>6, <1>7, DivMod
  <2>2. sm * v + u = u + sm * v
    BY <1>6, <1>7
  <2> QED BY <2>1, <2>2
<1> QED BY <1>8, <1>9, <1>10, <1>11, <1>12 DEF Slice, sb, sm

\* Word k of words is made of the g bytes e[k], which are those of d in their order.
Grouped(d, words, e, n, g) ==
  \A k \in 0 .. n - 1 : /\ words[k] = Numeral(e[k], g, 1)
                        /\ \A j \in 0 .. g - 1 : e[k][j] = d[g * k + j]

\* Bytes put together to words, and the words to a number.
LEMMA Regrouped ==
  ASSUME NEW n \in Nat, NEW g \in Nat, NEW d, NEW words, NEW e, Digits(d, g * n, 1),
         Grouped(d, words, e, n, g)
  PROVE  Numeral(words, n, g) = Numeral(d, g * n, 1)
<1> DEFINE S == {k \in Nat : k <= n => Numeral(words, k, g) = Numeral(d, g * k, 1)}
<1>1. 0 \in S
  <2>1. g * 0 = 0
    OBVIOUS
  <2> QED BY <2>1, NumeralRecursion
<1>2. ASSUME NEW k \in Nat, k \in S PROVE k + 1 \in S
  <2> SUFFICES ASSUME k + 1 <= n PROVE Numeral(words, k + 1, g) = Numeral(d, g * (k + 1), 1)
    OBVIOUS
  <2> DEFINE gk == g * k
             f == e[k]
             gn == g * n
  <2>1. gk \in Nat /\ gk + g <= gn /\ g * (k + 1) = gk + g
    <3>1. n - k - 1 \in Nat /\ g * (n - k - 1) = g * n - g * k - g
      OBVIOUS
    <3>2. g * (n - k - 1) \in Nat /\ g * k \in Nat
      BY <3>1, Products
    <3> QED BY <3>1, <3>2
  <2>2. Numeral(words, k + 1, g) = Numeral(d, gk, 1) + Numeral(f, g, 1) * Shift[gk]
    <3>1. Numeral(words, k + 1, g) = Numeral(words, k, g) + words[k] * Shift[g * k]
      BY NumeralRecursion, Zenon
    <3>2. words[k] = Numeral(f, g, 1)
      BY DEF Grouped
    <3> QED BY <1>2, <3>1, <3>2
  <2>3. \A j \in 0 .. g - 1 : f[j] = d[gk + j]
    BY DEF Grouped
  <2>4. Digits(d, gn, 1)
    OBVIOUS
  <2> HIDE DEF gk, f, gn
  <2>5. Digits(d, gk + g, 1) /\ Digits(f, g, 1)
    BY <2>1, <2>3, <2>4 DEF Digits
  <2>6. SplitAt(d, f, gk, g, 1)
    <3>1. 1 \in Nat
      OBVIOUS
    <3> QED BY <2>1, <2>3, <2>5, <3>1, NumeralSplit, Zenon
  <2>7. 1 * gk = gk /\ Shift[gk] \in Nat
    BY <2>1, ShiftFacts
  <2>8. Numeral(f, g, 1) \in Nat
    <3>1. Numeral(f, g, 1) \in 0 .. Shift[1 * g] - 1
      BY <2>5, NumeralBound, 1 \in Nat, Zenon
    <3> QED BY <3>1
  <2> DEFINE x == Shift[gk]
             y == Numeral(f, g, 1)
             z == Numeral(d, gk, 1)
  <2>9. Numeral(d, gk + g, 1) = z + x * y
    BY <2>6, <2>7 DEF SplitAt
  <2> HIDE DEF x, y, z
  <2>10. x * y = y * x
    BY <2>7, <2>8 DEF x, y
  <2> QED BY <2>1, <2>2, <2>9, <2>10 DEF x, y, z
<1>3. \A k \in Nat : k \in S
  <2> HIDE DEF S
  <2> QED BY <1>1, <1>2, Induction
<1> QED BY <1>3

\* A number is the numeral of its slices.
LEMMA Expansion ==
  ASSUME NEW n \in Nat, NEW size \in Nat, NEW x \in Nat, NEW d,
         \A k \in 0 .. n - 1 : d[k] = Slice(x, size * k, size)
  PROVE  Numeral(d, n, size) = x % Shift[size * n]
<1> DEFINE S == {k \in Nat : k <= n => Numeral(d, k, size) = x % Shift[size * k]}
<1>1. 0 \in S
  <2>1. size * 0 = 0 /\ x % 1 = 0
    OBVIOUS
  <2> QED BY <2>1, NumeralRecursion, ShiftFacts
<1>2. ASSUME NEW k \in Nat, k \in S PROVE k + 1 \in S
  <2> SUFFICES ASSUME k + 1 <= n PROVE Numeral(d, k + 1, size) = x % Shift[size * (k + 1)]
    OBVIOUS
  <2> DEFINE sk == size * k
             y == Shift[sk]
             b == Shift[size]
             t == (x \div y) % b
  <2>1. sk \in Nat /\ size * (k + 1) = sk + size
    BY Products
  <2>2. Numeral(d, k + 1, size) = Numeral(d, k, size) + t * y
    <3>1. Numeral(d, k + 1, size) = Numeral(d, k, size) + d[k] * Shift[sk]
      BY NumeralRecursion
    <3>2. d[k] = Slice(x, sk, size)
      OBVIOUS
    <3> QED BY <3>1, <3>2, Zenon DEF Slice
  <2>3. Numeral(d, k, size) = x % y
    BY <1>2
  <2> HIDE DEF sk
  <2>4. y \in Nat \ {0} /\ b \in Nat \ {0}
    BY <2>1, ShiftFacts
  <2>5. Shift[sk + size] = y * b
    BY <2>1, ShiftAdds
  <2> HIDE DEF y, b
  <2>6. x % (y * b) = (x % y) + y * t
    BY <2>4, DivDiv
  <2>7. t \in Nat
    BY <2>4, DivModIs
  <2> HIDE DEF t
  <2>8. t * y = y * t
    BY <2>4, <2>7
  <2> QED BY <2>1, <2>2, <2>3, <2>5, <2>6, <2>8
<1>3. \A k \in Nat : k \in S
  <2> HIDE DEF S
  <2> QED BY <1>1, <1>2, Induction
<1> QED BY <1>3

\* The highest digit that differs is less.
Below(a, b, n) ==
  \E w \in 0 .. n - 1 : a[w] < b[w] /\ \A v \in w + 1 .. n - 1 : a[v] = b[v]

\* Then the number is less.
LEMMA BelowIsLess ==
  ASSUME NEW n \in Nat, NEW size \in Nat, NEW a, NEW b,
         Digits(a, n, size), Digits(b, n, size), Below(a, b, n)
  PROVE  Numeral(a, n, size) < Numeral(b, n, size)
<1>1. PICK w \in 0 .. n - 1 : a[w] < b[w] /\ \A v \in w + 1 .. n - 1 : a[v] = b[v]
  BY DEF Below
<1>2. \A k \in 0 .. n : Numeral(a, k, size) \in Nat /\ Numeral(b, k, size) \in Nat
  <2> SUFFICES ASSUME NEW k \in 0 .. n
               PROVE  Numeral(a, k, size) \in Nat /\ Numeral(b, k, size) \in Nat
    OBVIOUS
  <2>1. k \in Nat /\ Digits(a, k, size) /\ Digits(b, k, size)
    BY DEF Digits
  <2> QED BY <2>1, NumeralBound
<1> DEFINE S == {k \in Nat : w + 1 + k <= n
                             => Numeral(a, w + 1 + k, size) < Numeral(b, w + 1 + k, size)}
<1>3. 0 \in S
  <2> DEFINE x == Numeral(a, w, size)
             y == Numeral(b, w, size)
             s == Shift[size * w]
             p == a[w]
             q == b[w]
  <2>1. Numeral(a, w + 1, size) = x + p * s /\ Numeral(b, w + 1, size) = y + q * s
    <3>1. w \in Nat
      OBVIOUS
    <3> QED BY <3>1, NumeralRecursion, Zenon
  <2>2. p \in Nat /\ q \in Nat /\ p + 1 <= q
    BY <1>1, ShiftFacts DEF Digits
  <2>3. x \in 0 .. s - 1 /\ y \in Nat /\ s \in Nat
    <3>1. Digits(a, w, size)
      BY DEF Digits
    <3>2. x \in 0 .. s - 1
      BY <3>1, NumeralBound
    <3>3. size * w \in Nat
      BY Products
    <3> QED BY <1>2, <3>2, <3>3, ShiftFacts
  <2> HIDE DEF x, y, s, p, q
  <2>4. (q - p - 1) * s \in Nat /\ (q - p - 1) * s = q * s - p * s - s
    <3>1. q - p - 1 \in Nat
      BY <2>2
    <3> QED BY <2>2, <2>3, <3>1, Products
  <2>5. p * s \in Nat /\ q * s \in Nat
    BY <2>2, <2>3, Products
  <2>6. x + p * s < y + q * s
    BY <2>3, <2>4, <2>5
  <2>7. w + 1 + 0 = w + 1
    OBVIOUS
  <2> QED BY <2>1, <2>6, <2>7
<1>4. ASSUME NEW k \in Nat, k \in S PROVE k + 1 \in S
  <2> SUFFICES ASSUME w + 1 + (k + 1) <= n
               PROVE  Numeral(a, w + 1 + (k + 1), size) < Numeral(b, w + 1 + (k + 1), size)
    OBVIOUS
  <2> DEFINE m == w + 1 + k
             t == a[m] * Shift[size * m]
  <2>1. m \in Nat /\ m \in w + 1 .. n - 1 /\ w + 1 + (k + 1) = m + 1 /\ m \in 0 .. n
    OBVIOUS
  <2>2. Numeral(a, m, size) < Numeral(b, m, size) /\ a[m] = b[m]
    BY <1>1, <1>4, <2>1
  <2> HIDE DEF m
  <2>3. Numeral(a, m + 1, size) = Numeral(a, m, size) + t
    BY <2>1, NumeralRecursion
  <2>4. Numeral(b, m + 1, size) = Numeral(b, m, size) + t
    <3>1. Numeral(b, m + 1, size) = Numeral(b, m, size) + b[m] * Shift[size * m]
      BY <2>1, NumeralRecursion
    <3> QED BY <2>2, <3>1
  <2>5. t \in Nat
    <3>1. a[m] \in Nat /\ size * m \in Nat
      BY <2>1, ShiftFacts, Products DEF Digits
    <3>2. Shift[size * m] \in Nat
      BY <3>1, ShiftFacts
    <3> QED BY <3>1, <3>2, Products
  <2> HIDE DEF t
  <2> QED BY <1>2, <2>1, <2>2, <2>3, <2>4, <2>5
<1>5. \A k \in Nat : k \in S
  <2> HIDE DEF S
  <2> QED BY <1>3, <1>4, Induction
<1>6. n - w - 1 \in Nat /\ w + 1 + (n - w - 1) = n
  OBVIOUS
<1>7. n - w - 1 \in S
  BY <1>5, <1>6
<1> QED BY <1>6, <1>7

\* If it is so neither way, the numbers are equal.
LEMMA NeitherIsSame ==
  ASSUME NEW n \in Nat, NEW size \in Nat, NEW a, NEW b,
         Digits(a, n, size), Digits(b, n, size), ~Below(a, b, n), ~Below(b, a, n)
  PROVE  Numeral(a, n, size) = Numeral(b, n, size)
<1>1. \A k \in 0 .. n - 1 : a[k] = b[k]
  <2> DEFINE T == {k \in 0 .. n - 1 : a[n - 1 - k] # b[n - 1 - k]}
  <2> SUFFICES ASSUME T # {} PROVE FALSE
    <3> SUFFICES ASSUME NEW k \in 0 .. n - 1, a[k] # b[k] PROVE n - 1 - k \in T
      OBVIOUS
    <3>1. n - 1 - k \in 0 .. n - 1 /\ n - 1 - (n - 1 - k) = k
      OBVIOUS
    <3> QED BY <3>1
  <2>1. PICK x \in T : \A y \in T : x <= y
    <3>1. T \subseteq Nat
      OBVIOUS
    <3> HIDE DEF T
    <3> QED BY <3>1, LeastNat
  <2> DEFINE w == n - 1 - x
  <2>2. w \in 0 .. n - 1 /\ a[w] # b[w] /\ a[w] \in Nat /\ b[w] \in Nat
    BY ShiftFacts DEF Digits
  <2>3. \A v \in w + 1 .. n - 1 : a[v] = b[v]
    <3> SUFFICES ASSUME NEW v \in w + 1 .. n - 1, a[v] # b[v] PROVE FALSE
      OBVIOUS
    <3>1. n - 1 - v \in 0 .. n - 1 /\ n - 1 - (n - 1 - v) = v /\ n - 1 - v < x
      OBVIOUS
    <3>2. n - 1 - v \in T
      BY <3>1
    <3> QED BY <2>1, <3>1, <3>2
  <2> HIDE DEF w
  <2>4. CASE a[w] < b[w]
    BY <2>2, <2>3, <2>4 DEF Below
  <2>5. CASE b[w] < a[w]
    BY <2>2, <2>3, <2>5 DEF Below
  <2> QED BY <2>2, <2>4, <2>5
<1> QED BY <1>1, NumeralSame

-----------------------------------------------------------------------------
\* Bytes, words and texts.

\* Some bytes of a number.
LEMMA SliceBound ==
  ASSUME NEW x \in Nat, NEW b \in Nat, NEW n \in Nat
  PROVE  Slice(x, b, n) \in 0 .. Shift[n] - 1
<1>1. Shift[b] \in Nat \ {0} /\ Shift[n] \in Nat \ {0}
  BY ShiftFacts
<1>2. x \div Shift[b] \in Nat
  BY <1>1, DivModIs
<1> QED BY <1>1, <1>2, DivModIs DEF Slice

\* Four bytes are a word.
LEMMA FourBytes ==
  ASSUME NEW d, \A k \in 0 .. 3 : d[k] \in Byte
  PROVE  LittleEndian(d, 4) \in Word
<1>1. Digits(d, 4, 1)
  BY ShiftFacts DEF Digits, Byte
<1>2. Numeral(d, 4, 1) \in 0 .. Shift[1 * 4] - 1
  BY <1>1, NumeralBound
<1>3. 1 * 4 = 4
  OBVIOUS
<1> QED BY <1>2, <1>3 DEF LittleEndian, Word

\* The bytes of a word, lowest first.
LEMMA BytesOfWord ==
  ASSUME NEW x \in Word, NEW d, \A k \in 0 .. 3 : d[k] = Slice(x, k, 1)
  PROVE  LittleEndian(d, 4) = x
<1>1. x \in Nat /\ x < Shift[4] /\ Shift[4] \in Nat
  BY ShiftFacts DEF Word
<1>2. \A k \in 0 .. 4 - 1 : d[k] = Slice(x, 1 * k, 1)
  OBVIOUS
<1>3. Numeral(d, 4, 1) = x % Shift[1 * 4]
  BY <1>1, <1>2, Expansion
<1>4. x % Shift[4] = x
  BY <1>1
<1> QED BY <1>3, <1>4 DEF LittleEndian

\* A word turned round is a word.
LEMMA SwapType ==
  ASSUME NEW x \in Word
  PROVE  ByteSwap32(x) \in Word /\ \A k \in 0 .. 3 : Slice(x, k, 1) \in Byte
<1>1. x \in Nat
  BY ShiftFacts DEF Word
<1>2. \A k \in Nat : Slice(x, k, 1) \in Byte
  <2>1. \A k \in Nat : Slice(x, k, 1) \in 0 .. Shift[1] - 1
    BY <1>1, SliceBound
  <2> QED BY <2>1, ShiftFacts DEF Byte
<1> DEFINE d == [k \in 0 .. 3 |-> Slice(x, 3 - k, 1)]
<1>3. \A k \in 0 .. 3 : d[k] \in Byte
  BY <1>2
<1> HIDE DEF d
<1>4. LittleEndian(d, 4) \in Word
  BY <1>3, FourBytes
<1> QED BY <1>2, <1>4 DEF ByteSwap32, d

\* Two digits are a byte.
LEMMA TwoDigits ==
  ASSUME NEW a \in 0 .. Digit - 1, NEW b \in 0 .. Digit - 1
  PROVE  a * Digit + b \in Byte
<1>1. Digit \in Nat /\ Digit >= 2
  BY ShiftFacts
<1>2. a * Digit \in Nat /\ (Digit - 1 - a) * Digit \in Nat
  BY <1>1, Products
<1>3. (Digit - 1 - a) * Digit = Digit * Digit - Digit - a * Digit
  BY <1>1
<1> QED BY <1>1, <1>2, <1>3 DEF Byte, Radix

\* A text is bytes.
LEMMA HexType ==
  ASSUME NEW n \in Nat, NEW text \in Text(n)
  PROVE  HexToBytes(text, 4 * n) \in [0 .. 4 * n - 1 -> Byte]
<1>1. ASSUME NEW k \in 0 .. 4 * n - 1 PROVE text[2 * k] * Digit + text[2 * k + 1] \in Byte
  <2>1. text[2 * k] \in 0 .. Digit - 1 /\ text[2 * k + 1] \in 0 .. Digit - 1
    BY DEF Text
  <2> QED BY <2>1, TwoDigits
<1> QED BY <1>1 DEF HexToBytes

\* Bytes are words.
LEMMA Le32Type ==
  ASSUME NEW n \in Nat, NEW bytes \in [0 .. 4 * n - 1 -> Byte], NEW w \in 0 .. n - 1
  PROVE  Le32dec(bytes, w) \in Word
<1> DEFINE d == [k \in 0 .. 3 |-> bytes[4 * w + k]]
<1>1. \A k \in 0 .. 3 : d[k] \in Byte
  <2>1. \A k \in 0 .. 3 : 4 * w + k \in 0 .. 4 * n - 1
    OBVIOUS
  <2> QED BY <2>1
<1> HIDE DEF d
<1> QED BY <1>1, FourBytes DEF Le32dec, d

\* Every second power of a digit's base is one of a byte's.
LEMMA EvenPowers == \A j \in Nat : Power(Digit)[2 * j] = Shift[j]
<1> DEFINE P == Power(Digit)
           S == {j \in Nat : P[2 * j] = Shift[j]}
<1>1. P[0] = 1 /\ \A n \in Nat : P[n + 1] = Digit * P[n]
  BY PowerRecursion
<1>2. \A n \in Nat : P[n] \in Nat
  <2>1. Digit \in Nat \ {0}
    BY ShiftFacts
  <2>2. \A n \in Nat : P[n] \in Nat \ {0}
    BY <2>1, PowerFacts, Zenon
  <2> HIDE DEF P
  <2> QED BY <2>2
<1> HIDE DEF P
<1>3. 0 \in S
  BY <1>1, ShiftFacts
<1>4. ASSUME NEW j \in Nat, j \in S PROVE j + 1 \in S
  <2> DEFINE x == P[2 * j]
  <2>1. P[(2 * j + 1) + 1] = Digit * P[2 * j + 1] /\ P[2 * j + 1] = Digit * x /\ x \in Nat
    BY <1>1, <1>2
  <2>2. 2 * (j + 1) = (2 * j + 1) + 1
    OBVIOUS
  <2>3. Shift[j + 1] = Radix * x
    BY <1>4, ShiftFacts
  <2> HIDE DEF x
  <2>4. Digit * (Digit * x) = Radix * x
    BY <2>1, ShiftFacts DEF Radix
  <2> QED BY <2>1, <2>2, <2>3, <2>4
<1>5. \A j \in Nat : j \in S
  <2> HIDE DEF S
  <2> QED BY <1>3, <1>4, Induction
<1> QED BY <1>5 DEF P

\* A nonce printed as a number: its bytes, the highest first.
LEMMA PrintedBytes ==
  ASSUME NEW x \in Nat, NEW k \in 0 .. 3
  PROVE  /\ Printed(x)[2 * k] * Digit + Printed(x)[2 * k + 1] = Slice(x, 3 - k, 1)
         /\ Printed(x)[2 * k] \in 0 .. Digit - 1 /\ Printed(x)[2 * k + 1] \in 0 .. Digit - 1
<1> DEFINE j == 3 - k
           s == Shift[j]
           y == x \div s
           q == y \div Digit
           hi == q % Digit
           lo == y % Digit
<1>1. j \in Nat /\ Digit \in Nat \ {0}
  BY ShiftFacts
<1>2. 2 * k \in 0 .. 7 /\ 2 * k + 1 \in 0 .. 7 /\ 7 - (2 * k + 1) = 2 * j /\ 7 - 2 * k = 2 * j + 1
  OBVIOUS
<1> HIDE DEF j
<1>3. s \in Nat \ {0}
  BY <1>1, ShiftFacts
<1>4. Power(Digit)[2 * j] = s
  BY <1>1, EvenPowers
<1>5. Power(Digit)[2 * j + 1] = s * Digit
  <2>1. Power(Digit)[2 * j + 1] = Digit * Power(Digit)[2 * j]
    BY <1>1, PowerRecursion
  <2> QED BY <1>1, <1>3, <1>4, <2>1
<1>6. y \in Nat
  BY <1>3, DivModIs
<1>7. q \in Nat /\ lo \in 0 .. Digit - 1
  BY <1>1, <1>6, DivModIs
<1>8. hi \in 0 .. Digit - 1
  BY <1>1, <1>7, DivModIs
<1>9. x \div (s * Digit) = q
  BY <1>1, <1>3, DivDiv
<1>10. y % (Digit * Digit) = lo + Digit * hi
  BY <1>1, <1>6, DivDiv
<1>11. Printed(x)[2 * k] = hi /\ Printed(x)[2 * k + 1] = lo
  BY <1>2, <1>4, <1>5, <1>9 DEF Printed
<1>12. Slice(x, j, 1) = y % (Digit * Digit)
  BY ShiftFacts DEF Slice, Radix
<1> HIDE DEF hi, lo, y, q, s
<1>13. hi * Digit + lo = lo + Digit * hi
  BY <1>1, <1>7, <1>8
<1> QED BY <1>7, <1>8, <1>10, <1>11, <1>12, <1>13 DEF j

\* A nonce printed byte by byte: its bytes, the lowest first.
LEMMA EncodedBytes ==
  ASSUME NEW x \in Nat, NEW k \in 0 .. 3
  PROVE  /\ Encoded(x)[2 * k] * Digit + Encoded(x)[2 * k + 1] = Slice(x, k, 1)
         /\ Encoded(x)[2 * k] \in 0 .. Digit - 1 /\ Encoded(x)[2 * k + 1] \in 0 .. Digit - 1
<1> DEFINE c == Slice(x, k, 1)
           hi == c \div Digit
           lo == c % Digit
<1>1. 2 * k \in 0 .. 7 /\ 2 * k + 1 \in 0 .. 7 /\ (2 * k) \div 2 = k /\ (2 * k + 1) \div 2 = k
      /\ (2 * k) % 2 = 0 /\ (2 * k + 1) % 2 = 1
  OBVIOUS
<1>2. Encoded(x)[2 * k] = hi /\ Encoded(x)[2 * k + 1] = lo
  BY <1>1 DEF Encoded
<1>3. Digit \in Nat \ {0} /\ Shift[1] = Digit * Digit
  BY ShiftFacts DEF Radix
<1>4. c \in Nat /\ c < Digit * Digit
  <2>1. 1 \in Nat /\ k \in Nat
    OBVIOUS
  <2>2. c \in 0 .. Shift[1] - 1
    BY <2>1, SliceBound
  <2>3. Digit * Digit \in Nat
    BY <1>3, Products
  <2> HIDE DEF c
  <2> QED BY <1>3, <2>2, <2>3
<1> HIDE DEF c
<1>5. c = Digit * hi + lo /\ hi \in Nat /\ lo \in 0 .. Digit - 1
  <2>1. Digit \in Nat \ {0} /\ c \in Nat
    BY <1>3, <1>4
  <2> QED BY <2>1, DivModIs
<1> HIDE DEF hi, lo
<1>6. hi < Digit
  <2> SUFFICES ASSUME hi >= Digit PROVE FALSE
    BY <1>3, <1>5
  <2>1. Digit * (hi - Digit) \in Nat /\ Digit * (hi - Digit) = Digit * hi - Digit * Digit
    BY <1>3, <1>5, Products
  <2> QED BY <1>3, <1>4, <1>5, <2>1
<1>7. hi * Digit + lo = Digit * hi + lo
  BY <1>3, <1>5
<1> QED BY <1>2, <1>3, <1>5, <1>6, <1>7 DEF c

-----------------------------------------------------------------------------
\* Bytes and scalar inputs.

\* Bytes of a number.
LEMMA BytesAreDigits ==
  ASSUME NEW d, NEW n \in Nat, \A k \in 0 .. n - 1 : d[k] \in Byte
  PROVE  Digits(d, n, 1)
BY ShiftFacts DEF Digits, Byte

\* The m bytes from byte b on that the kernel reads are e.
SameBytes(bytes, len, b, e, m) ==
  Slice(RawBits(Scalars(bytes, len), len), b, m) = Numeral(e, m, 1)

\* They are the bytes that were set, wherever they lie in the scalar inputs.
LEMMA SlicesOfScalars ==
  ASSUME NEW len \in Nat, NEW bytes, \A k \in 0 .. len - 1 : bytes[k] \in Byte,
         NEW b \in Nat, NEW m \in Nat, b + m <= len,
         NEW e, \A k \in 0 .. m - 1 : e[k] = bytes[b + k]
  PROVE  SameBytes(bytes, len, b, e, m)
<1> DEFINE n == NumScalars(len)
           d == [k \in Nat |-> IF k < len THEN bytes[k] ELSE 0]
           f == [w \in 0 .. n - 1 |->
                   [k \in 0 .. 7 |-> IF 8 * w + k < len THEN bytes[8 * w + k] ELSE 0]]
           words == Scalars(bytes, len)
<1>1. n \in Nat /\ 8 * n \in Nat /\ len <= 8 * n
  BY DEF NumScalars
<1>2. \A k \in 0 .. 8 * n - 1 : d[k] \in Byte
  <2>1. 0 \in Byte
    BY ShiftFacts DEF Byte
  <2> QED BY <1>1, <2>1
<1>3. Grouped(d, words, f, n, 8)
  <2> SUFFICES ASSUME NEW w \in 0 .. n - 1
               PROVE  /\ words[w] = Numeral(f[w], 8, 1)
                      /\ \A j \in 0 .. 8 - 1 : f[w][j] = d[8 * w + j]
    BY DEF Grouped
  <2>1. words[w] = Numeral(f[w], 8, 1)
    BY DEF Scalars, LittleEndian
  <2>2. ASSUME NEW j \in 0 .. 8 - 1 PROVE f[w][j] = d[8 * w + j]
    <3>1. 8 * w + j \in Nat /\ j \in 0 .. 7
      BY <1>1
    <3> HIDE DEF n
    <3> QED BY <3>1
  <2> QED BY <2>1, <2>2
<1>4. \A k \in 0 .. m - 1 : e[k] = d[b + k]
  OBVIOUS
<1> HIDE DEF n, d, f, words
<1>5. Digits(d, 8 * n, 1)
  BY <1>1, <1>2, BytesAreDigits
<1>6. Numeral(words, n, 8) = Numeral(d, 8 * n, 1)
  <2>1. 8 \in Nat
    OBVIOUS
  <2> QED BY <1>1, <1>3, <1>5, <2>1, Regrouped
<1>7. b + m <= 8 * n
  BY <1>1
<1>8. Slice(Numeral(d, 8 * n, 1), b, m) = Numeral(e, m, 1)
  BY <1>1, <1>4, <1>5, <1>7, SliceOfNumeral
<1> QED BY <1>6, <1>8 DEF SameBytes, RawBits, words, n

-----------------------------------------------------------------------------
\* The message.

\* Word w of a header's text.
HeaderWord(text, w) == Le32dec(HexToBytes(text, 4 * (DataWords + 1)), w)

\* A message whose words are those of a header, the last one excepted.
IsHeader(m, text, last) ==
  /\ m \in [1 .. DataWords + 1 -> Word]
  /\ \A w \in 0 .. DataWords - 1 : m[w + 1] = HeaderWord(text, w)
  /\ m[DataWords + 1] = last

\* Words of a text.
LEMMA HeaderType ==
  ASSUME NEW text \in Text(DataWords + 1)
  PROVE  /\ HexToBytes(text, 4 * (DataWords + 1)) \in [0 .. 4 * DataWords + 3 -> Byte]
         /\ \A w \in 0 .. DataWords : HeaderWord(text, w) \in Word
<1>1. DataWords + 1 \in Nat /\ 4 * (DataWords + 1) - 1 = 4 * DataWords + 3
      /\ (DataWords + 1) - 1 = DataWords
  BY EncodingAssumption
<1> DEFINE n == DataWords + 1
           bytes == HexToBytes(text, 4 * n)
<1>2. bytes \in [0 .. 4 * n - 1 -> Byte]
  BY <1>1, HexType
<1>3. \A w \in 0 .. n - 1 : Le32dec(bytes, w) \in Word
  <2> HIDE DEF bytes, n
  <2>1. n \in Nat
    BY <1>1 DEF n
  <2> QED BY <1>2, <2>1, Le32Type
<1> HIDE DEF bytes
<1> QED BY <1>1, <1>2, <1>3 DEF bytes, HeaderWord

\* The host's message.
LEMMA HostMessage ==
  ASSUME NEW text \in Text(DataWords + 1), NEW n \in Word, NEW words,
         words = Decoded(HexToBytes(text, 4 * (DataWords + 1)), DataWords + 1)
  PROVE  IsHeader([w \in 1 .. DataWords + 1 |-> IF w > DataWords THEN n ELSE words[w - 1]], text, n)
<1>1. DataWords \in Nat
  BY EncodingAssumption
<1>2. \A w \in 0 .. DataWords : words[w] = HeaderWord(text, w) /\ HeaderWord(text, w) \in Word
  BY <1>1, HeaderType DEF Decoded, HeaderWord
<1> DEFINE m == [w \in 1 .. DataWords + 1 |-> IF w > DataWords THEN n ELSE words[w - 1]]
<1>3. m \in [1 .. DataWords + 1 -> Word]
  BY <1>1, <1>2
<1>4. \A w \in 0 .. DataWords - 1 : m[w + 1] = HeaderWord(text, w)
  BY <1>1, <1>2
<1>5. m[DataWords + 1] = n
  BY <1>1
<1> HIDE DEF m
<1> QED BY <1>3, <1>4, <1>5 DEF IsHeader, m

\* One array of words after another.
LEMMA CatIs ==
  ASSUME NEW n \in Nat, NEW first \in [1 .. 1 -> Word], NEW second \in [1 .. n -> Word]
  PROVE  /\ Cat(first, second) \in [1 .. n + 1 -> Word]
         /\ \A w \in 1 .. n : Cat(first, second)[w] = second[w]
         /\ Cat(first, second)[n + 1] = first[1]
<1>1. first \in Seq(Word) /\ second \in Seq(Word) /\ Len(first) = 1 /\ Len(second) = n
  <2>1. ASSUME NEW k \in Nat, NEW s \in [1 .. k -> Word] PROVE s \in Seq(Word) /\ Len(s) = k
    <3>1. s \in Seq(Word)
      OBVIOUS
    <3>2. DOMAIN s = 1 .. k
      OBVIOUS
    <3>3. Len(s) = k
      BY <3>1, <3>2, LenProperties
    <3> QED BY <3>1, <3>3
  <2> QED BY <2>1, 1 \in Nat
<1> DEFINE c == second \o first
<1>2. /\ c \in Seq(Word) /\ Len(c) = n + 1
      /\ \A w \in 1 .. n + 1 : c[w] = IF w <= n THEN second[w] ELSE first[w - n]
  <2>1. /\ c \in Seq(Word) /\ Len(c) = Len(second) + Len(first)
        /\ \A w \in 1 .. Len(second) + Len(first) :
             c[w] = IF w <= Len(second) THEN second[w] ELSE first[w - Len(second)]
    BY <1>1, ConcatProperties, Zenon
  <2> QED BY <1>1, <2>1, Zenon
<1> HIDE DEF c
<1>3. \A w \in 1 .. n : c[w] = second[w]
  BY <1>2
<1>4. c[n + 1] = first[1]
  BY <1>2
<1>5. c \in [1 .. n + 1 -> Word]
  BY <1>2
<1> QED BY <1>3, <1>4, <1>5 DEF Cat, c

\* The kernel's message.
LEMMA KernelMessage ==
  ASSUME NEW text \in Text(DataWords + 1), NEW n \in Word, NEW bytes,
         bytes = HexToBytes(text, 4 * (DataWords + 1))
  PROVE  IsHeader(Cat(Split32(ByteSwap32(n), 1),
                      Split32(RawBits(Scalars(bytes, 4 * DataWords), 4 * DataWords), DataWords)),
                  text, ByteSwap32(n))
<1> DEFINE x == ByteSwap32(n)
           r == RawBits(Scalars(bytes, 4 * DataWords), 4 * DataWords)
           first == Split32(x, 1)
           second == Split32(r, DataWords)
<1>1. DataWords \in Nat /\ 4 * DataWords \in Nat
  BY EncodingAssumption
<1>2. x \in Nat /\ x < Shift[4] /\ Shift[4] \in Nat /\ x \in Word
  BY SwapType, ShiftFacts DEF Word
<1>3. first[1] = x
  <2>1. first[1] = (x \div Shift[4 * (1 - 1)]) % Shift[4]
    BY DEF Split32, Slice
  <2>2. 4 * (1 - 1) = 0 /\ Shift[0] = 1
    BY ShiftFacts
  <2> HIDE DEF x, first
  <2>3. x \div 1 = x /\ x % Shift[4] = x
    BY <1>2
  <2> QED BY <2>1, <2>2, <2>3
<1>4. first \in [1 .. 1 -> Word]
  <2>1. first = [w \in 1 .. 1 |-> first[w]]
    BY DEF Split32
  <2> HIDE DEF first
  <2>2. \A w \in 1 .. 1 : first[w] \in Word
    BY <1>2, <1>3
  <2> QED BY <2>1, <2>2
<1>5. \A k \in 0 .. 4 * DataWords + 3 : bytes[k] \in Byte
  BY HeaderType
<1>6. ASSUME NEW w \in 0 .. DataWords - 1 PROVE second[w + 1] = HeaderWord(text, w)
  <2> DEFINE e == [k \in 0 .. 3 |-> bytes[4 * w + k]]
             len == 4 * DataWords
             b == 4 * w
  <2>1. second[w + 1] = Slice(r, b, 4)
    <3>1. w + 1 \in 1 .. DataWords /\ (w + 1) - 1 = w
      BY <1>1
    <3> QED BY <3>1 DEF Split32
  <2>2. \A k \in 0 .. 4 - 1 : e[k] = bytes[b + k]
    OBVIOUS
  <2>3. b \in Nat /\ b + 4 <= len /\ len \in Nat /\ 4 \in Nat
    BY <1>1
  <2>4. \A k \in 0 .. len - 1 : bytes[k] \in Byte
    BY <1>1, <1>5
  <2> HIDE DEF e, len, b
  <2>5. SameBytes(bytes, len, b, e, 4)
    BY <2>2, <2>3, <2>4, SlicesOfScalars, Zenon
  <2> HIDE DEF second
  <2> QED BY <2>1, <2>5 DEF SameBytes, e, len, HeaderWord, Le32dec, LittleEndian
<1>7. second \in [1 .. DataWords -> Word]
  <2>1. second = [w \in 1 .. DataWords |-> second[w]]
    BY DEF Split32
  <2> HIDE DEF second
  <2>2. ASSUME NEW w \in 1 .. DataWords PROVE second[w] \in Word
    <3>1. w - 1 \in 0 .. DataWords - 1 /\ (w - 1) + 1 = w /\ w - 1 \in 0 .. DataWords
      BY <1>1
    <3>2. second[(w - 1) + 1] = HeaderWord(text, w - 1)
      BY <1>6, <3>1
    <3> QED BY <3>1, <3>2, HeaderType
  <2> QED BY <2>1, <2>2
<1> HIDE DEF first, second
<1> DEFINE m == Cat(first, second)
<1>8. /\ m \in [1 .. DataWords + 1 -> Word]
      /\ \A w \in 1 .. DataWords : m[w] = second[w]
      /\ m[DataWords + 1] = first[1]
  BY <1>1, <1>4, <1>7, CatIs
<1> HIDE DEF m
<1>9. \A w \in 0 .. DataWords - 1 : m[w + 1] = HeaderWord(text, w)
  BY <1>1, <1>6, <1>8
<1> HIDE DEF x
<1>10. IsHeader(m, text, x)
  BY <1>3, <1>8, <1>9 DEF IsHeader
<1> QED BY <1>10 DEF m, first, second, x

-----------------------------------------------------------------------------
\* The verdict.

\* Below, piece by piece from the top.
LEMMA BelowStep ==
  ASSUME NEW d, NEW e, NEW k \in Nat \ {0}
  PROVE  Below(d, e, k) <=> \/ d[k - 1] < e[k - 1]
                            \/ k > 1 /\ d[k - 1] = e[k - 1] /\ Below(d, e, k - 1)
<1>1. ASSUME Below(d, e, k)
      PROVE  d[k - 1] < e[k - 1] \/ (k > 1 /\ d[k - 1] = e[k - 1] /\ Below(d, e, k - 1))
  <2>1. PICK w \in 0 .. k - 1 : d[w] < e[w] /\ \A v \in w + 1 .. k - 1 : d[v] = e[v]
    BY <1>1 DEF Below
  <2>2. CASE w = k - 1
    BY <2>1, <2>2
  <2>3. CASE w # k - 1
    <3>1. k > 1 /\ w \in 0 .. (k - 1) - 1 /\ k - 1 \in w + 1 .. k - 1
          /\ w + 1 .. (k - 1) - 1 \subseteq w + 1 .. k - 1
      BY <2>3
    <3>2. d[k - 1] = e[k - 1]
      BY <2>1, <3>1, Zenon
    <3>3. Below(d, e, k - 1)
      BY <2>1, <3>1, Zenon DEF Below
    <3> QED BY <3>1, <3>2, <3>3
  <2> QED BY <2>2, <2>3
<1>2. ASSUME d[k - 1] < e[k - 1] PROVE Below(d, e, k)
  <2>1. k - 1 \in 0 .. k - 1 /\ \A v : v \notin (k - 1) + 1 .. k - 1
    OBVIOUS
  <2> QED BY <1>2, <2>1, Zenon DEF Below
<1>3. ASSUME k > 1, d[k - 1] = e[k - 1], Below(d, e, k - 1) PROVE Below(d, e, k)
  <2>1. PICK w \in 0 .. (k - 1) - 1 : d[w] < e[w] /\ \A v \in w + 1 .. (k - 1) - 1 : d[v] = e[v]
    BY <1>3 DEF Below
  <2>2. w \in 0 .. k - 1 /\ \A v \in w + 1 .. k - 1 : v = k - 1 \/ v \in w + 1 .. (k - 1) - 1
    OBVIOUS
  <2>3. \A v \in w + 1 .. k - 1 : d[v] = e[v]
    BY <1>3, <2>1, <2>2, Zenon
  <2> QED BY <2>1, <2>2, <2>3, Zenon DEF Below
<1> QED BY <1>1, <1>2, <1>3, Zenon

\* The pipeline finds the highest piece that differs.
LEMMA PipelineIsBelow ==
  ASSUME NEW n \in Nat \ {0}, NEW a, NEW b, NEW d, NEW e,
         \A k \in 0 .. n - 1 : d[k] = Piece(a, k) /\ e[k] = Piece(b, k)
  PROVE  LtPipelined(a, b, n) <=> Below(d, e, n)
<1> DEFINE Step(h, k) == \/ Piece(a, k - 1) < Piece(b, k - 1)
                         \/ k > 1 /\ Piece(a, k - 1) = Piece(b, k - 1) /\ h[k - 1]
           All(h) == h = [k \in 1 .. n |-> Step(h, k)]
           f == [k \in 1 .. n |-> Below(d, e, k)]
           lt == CHOOSE h : All(h)
<1>1. ASSUME NEW k \in 1 .. n
      PROVE  Below(d, e, k) <=> \/ Piece(a, k - 1) < Piece(b, k - 1)
                                \/ /\ k > 1 /\ Piece(a, k - 1) = Piece(b, k - 1)
                                   /\ Below(d, e, k - 1)
  <2>1. k \in Nat \ {0} /\ k - 1 \in 0 .. n - 1
    OBVIOUS
  <2>2. d[k - 1] = Piece(a, k - 1) /\ e[k - 1] = Piece(b, k - 1)
    BY <2>1
  <2>3. Below(d, e, k) <=> \/ d[k - 1] < e[k - 1]
                           \/ k > 1 /\ d[k - 1] = e[k - 1] /\ Below(d, e, k - 1)
    BY <2>1, BelowStep, Zenon
  <2> QED BY <2>2, <2>3
<1>2. All(f)
  <2>1. ASSUME NEW k \in 1 .. n PROVE Below(d, e, k) <=> Step(f, k)
    <3>1. CASE k > 1
      <4>1. k - 1 \in 1 .. n
        BY <3>1
      <4>2. f[k - 1] <=> Below(d, e, k - 1)
        BY <4>1, Zenon
      <4> QED BY <1>1, <4>2, Zenon
    <3>2. CASE ~(k > 1)
      BY <1>1, <3>2, Zenon
    <3> QED BY <3>1, <3>2
  <2>2. Below(d, e, 0) \in BOOLEAN /\ \A k : Below(d, e, k) \in BOOLEAN
    BY Zenon DEF Below
  <2> HIDE DEF f
  <2>3. \A k \in 1 .. n : Below(d, e, k) = Step(f, k)
    BY <2>1, <2>2, Zenon
  <2>4. f = [k \in 1 .. n |-> Below(d, e, k)]
    BY DEF f
  <2> HIDE DEF Step
  <2> QED BY <2>3, <2>4, Zenon
<1>3. LtPipelined(a, b, n) = lt[n]
  BY DEF LtPipelined
<1>4. All(lt)
  <2> HIDE DEF All, f
  <2> QED BY <1>2
<1> HIDE DEF f, lt
<1>5. \A k \in 1 .. n : lt[k] <=> Step(lt, k)
  <2> HIDE DEF Step
  <2> QED BY <1>4
<1> DEFINE S == {k \in Nat : k + 1 <= n => (lt[k + 1] <=> Below(d, e, k + 1))}
<1>6. 0 \in S
  <2>1. 0 + 1 = 1 /\ 1 \in 1 .. n /\ ~(1 > 1)
    OBVIOUS
  <2>2. lt[1] <=> Below(d, e, 1)
    BY <1>1, <1>5, <2>1, Zenon
  <2> QED BY <2>1, <2>2
<1>7. ASSUME NEW k \in Nat, k \in S PROVE k + 1 \in S
  <2> SUFFICES ASSUME k + 1 + 1 <= n PROVE lt[k + 1 + 1] <=> Below(d, e, k + 1 + 1)
    OBVIOUS
  <2>1. k + 1 + 1 \in 1 .. n /\ k + 1 + 1 > 1 /\ (k + 1 + 1) - 1 = k + 1
    OBVIOUS
  <2>2. lt[k + 1] <=> Below(d, e, k + 1)
    BY <1>7
  <2> DEFINE j == k + 1 + 1
             i == k + 1
  <2>3. j \in 1 .. n /\ j > 1 /\ j - 1 = i /\ (lt[i] <=> Below(d, e, i))
    BY <2>1, <2>2
  <2> HIDE DEF i, j, S
  <2>4. lt[j] <=> Below(d, e, j)
    BY <1>1, <1>5, <2>3, Zenon
  <2> QED BY <2>4 DEF j
<1>8. \A k \in Nat : k \in S
  <2> HIDE DEF S
  <2> QED BY <1>6, <1>7, Induction
<1>9. n - 1 \in Nat /\ (n - 1) + 1 = n
  OBVIOUS
<1> QED BY <1>3, <1>8, <1>9

\* It finds out whether a number is less.
LEMMA PipelineIsLess ==
  ASSUME NEW n \in Nat \ {0}, NEW a \in Nat, NEW b \in Nat, a < Shift[2 * n], b < Shift[2 * n]
  PROVE  LtPipelined(a, b, n) <=> a < b
<1> DEFINE d == [k \in 0 .. n - 1 |-> Piece(a, k)]
           e == [k \in 0 .. n - 1 |-> Piece(b, k)]
<1>1. LtPipelined(a, b, n) <=> Below(d, e, n)
  <2>1. \A k \in 0 .. n - 1 : d[k] = Piece(a, k) /\ e[k] = Piece(b, k)
    OBVIOUS
  <2> HIDE DEF d, e
  <2> QED BY <2>1, PipelineIsBelow
<1>2. 2 \in Nat /\ 2 * n \in Nat
  OBVIOUS
<1>3. Digits(d, n, 2) /\ Digits(e, n, 2)
  <2>1. \A k \in 0 .. n - 1 : Piece(a, k) \in 0 .. Shift[2] - 1 /\ Piece(b, k) \in 0 .. Shift[2] - 1
    <3> SUFFICES ASSUME NEW k \in 0 .. n - 1
                 PROVE  Piece(a, k) \in 0 .. Shift[2] - 1 /\ Piece(b, k) \in 0 .. Shift[2] - 1
      OBVIOUS
    <3>1. 2 * k \in Nat
      OBVIOUS
    <3> QED BY <1>2, <3>1, SliceBound, Zenon DEF Piece
  <2> QED BY <2>1 DEF Digits
<1>4. /\ \A k \in 0 .. n - 1 : d[k] = Slice(a, 2 * k, 2)
      /\ \A k \in 0 .. n - 1 : e[k] = Slice(b, 2 * k, 2)
  BY DEF Piece
<1> HIDE DEF d, e
<1>5. Numeral(d, n, 2) = a % Shift[2 * n] /\ Numeral(e, n, 2) = b % Shift[2 * n]
  BY <1>2, <1>4, Expansion
<1>6. a % Shift[2 * n] = a /\ b % Shift[2 * n] = b
  <2>1. Shift[2 * n] \in Nat
    BY <1>2, ShiftFacts
  <2> QED BY <2>1
<1>7. Below(d, e, n) => a < b
  BY <1>2, <1>3, <1>5, <1>6, BelowIsLess
<1>8. Below(e, d, n) => b < a
  BY <1>2, <1>3, <1>5, <1>6, BelowIsLess
<1>9. ~Below(d, e, n) /\ ~Below(e, d, n) => a = b
  BY <1>2, <1>3, <1>5, <1>6, NeitherIsSame
<1> QED BY <1>1, <1>7, <1>8, <1>9

\* The number that a digest stands for, and the one that a target's text stands for.
NumberOf(d) ==
  LittleEndian([k \in 0 .. 4 * HashWords - 1 |-> Slice(d[k \div 4], 3 - (k % 4), 1)], 4 * HashWords)
TargetOf(text) == LittleEndian(HexToBytes(text, 4 * HashWords), 4 * HashWords)

\* The verdict of a worker is the order of the two numbers.
Order(verdict, worker, d, text) ==
  /\ verdict => NumberOf(d) <= TargetOf(text)
  /\ NumberOf(d) < TargetOf(text)
     /\ (worker = "bc" => TargetOf(text) < Shift[4 * (HashWords - 1)])
       => verdict

\* The words of a digest, their bytes the other way round, make its number.
LEMMA SwappedNumber ==
  ASSUME NEW d \in [0 .. HashWords - 1 -> Word]
  PROVE  /\ Digits(Swapped(d), HashWords, 4)
         /\ Numeral(Swapped(d), HashWords, 4) = NumberOf(d)
<1> DEFINE bytes == [k \in 0 .. 4 * HashWords - 1 |-> Slice(d[k \div 4], 3 - (k % 4), 1)]
           e == [w \in 0 .. HashWords - 1 |-> [j \in 0 .. 3 |-> Slice(d[w], 3 - j, 1)]]
           words == Swapped(d)
<1>1. HashWords \in Nat /\ 4 * HashWords \in Nat /\ 4 \in Nat
  BY EncodingAssumption
<1>2. \A k \in 0 .. 4 * HashWords - 1 : bytes[k] \in Byte
  <2> SUFFICES ASSUME NEW k \in 0 .. 4 * HashWords - 1 PROVE bytes[k] \in Byte
    OBVIOUS
  <2>1. k \div 4 \in 0 .. HashWords - 1 /\ 3 - (k % 4) \in 0 .. 3
    BY <1>1
  <2>2. d[k \div 4] \in Word
    BY <2>1
  <2>3. Slice(d[k \div 4], 3 - (k % 4), 1) \in Byte
    BY <2>1, <2>2, SwapType
  <2> QED BY <2>3
<1>3. Grouped(bytes, words, e, HashWords, 4)
  <2> SUFFICES ASSUME NEW w \in 0 .. HashWords - 1
               PROVE  /\ words[w] = Numeral(e[w], 4, 1)
                      /\ \A j \in 0 .. 4 - 1 : e[w][j] = bytes[4 * w + j]
    BY DEF Grouped
  <2>1. words[w] = Numeral(e[w], 4, 1)
    BY DEF Swapped, ByteSwap32, LittleEndian
  <2>2. ASSUME NEW j \in 0 .. 4 - 1 PROVE e[w][j] = bytes[4 * w + j]
    <3>1. 4 * w + j \in 0 .. 4 * HashWords - 1 /\ (4 * w + j) \div 4 = w /\ (4 * w + j) % 4 = j
      BY <1>1
    <3>2. e[w][j] = Slice(d[w], 3 - j, 1)
      OBVIOUS
    <3> QED BY <3>1, <3>2
  <2> QED BY <2>1, <2>2
<1>4. \A w \in 0 .. HashWords - 1 : words[w] \in Word
  BY SwapType DEF Swapped
<1> HIDE DEF bytes, e, words
<1>5. Digits(words, HashWords, 4)
  BY <1>4 DEF Digits, Word
<1>6. Digits(bytes, 4 * HashWords, 1)
  BY <1>1, <1>2, BytesAreDigits
<1>7. Numeral(words, HashWords, 4) = Numeral(bytes, 4 * HashWords, 1)
  BY <1>1, <1>3, <1>6, Regrouped
<1> QED BY <1>5, <1>7 DEF NumberOf, LittleEndian, bytes, words

\* The target's bytes.
LEMMA TargetBytes ==
  ASSUME NEW text \in Text(HashWords)
  PROVE  /\ HexToBytes(text, 4 * HashWords) \in [0 .. 4 * HashWords - 1 -> Byte]
         /\ Digits(HexToBytes(text, 4 * HashWords), 4 * HashWords, 1)
         /\ TargetOf(text) \in Nat
<1> DEFINE bytes == HexToBytes(text, 4 * HashWords)
<1>1. HashWords \in Nat /\ 4 * HashWords \in Nat /\ 1 \in Nat
  BY EncodingAssumption
<1>2. bytes \in [0 .. 4 * HashWords - 1 -> Byte]
  BY <1>1, HexType
<1> HIDE DEF bytes
<1>3. Digits(bytes, 4 * HashWords, 1)
  <2>1. \A k \in 0 .. 4 * HashWords - 1 : bytes[k] \in Byte
    BY <1>2
  <2> QED BY <1>1, <2>1, BytesAreDigits
<1>4. Numeral(bytes, 4 * HashWords, 1) \in 0 .. Shift[1 * (4 * HashWords)] - 1
  BY <1>1, <1>3, NumeralBound
<1>5. Numeral(bytes, 4 * HashWords, 1) \in Nat
  BY <1>4
<1> QED BY <1>2, <1>3, <1>5 DEF bytes, TargetOf, LittleEndian

\* The words of a target make its number.
LEMMA DecodedNumber ==
  ASSUME NEW text \in Text(HashWords), NEW words,
         words = Decoded(HexToBytes(text, 4 * HashWords), HashWords)
  PROVE  /\ words \in [0 .. HashWords - 1 -> Word]
         /\ Digits(words, HashWords, 4)
         /\ Numeral(words, HashWords, 4) = TargetOf(text)
<1> DEFINE bytes == HexToBytes(text, 4 * HashWords)
           e == [w \in 0 .. HashWords - 1 |-> [j \in 0 .. 3 |-> bytes[4 * w + j]]]
<1>1. HashWords \in Nat /\ 4 * HashWords \in Nat /\ 4 \in Nat
  BY EncodingAssumption
<1>2. bytes \in [0 .. 4 * HashWords - 1 -> Byte] /\ Digits(bytes, 4 * HashWords, 1)
  BY TargetBytes
<1> HIDE DEF bytes
<1>3. words = Decoded(bytes, HashWords)
  BY DEF bytes
<1>4. \A w \in 0 .. HashWords - 1 : words[w] = Le32dec(bytes, w) /\ words[w] \in Word
  BY <1>1, <1>2, <1>3, Le32Type DEF Decoded
<1>5. words \in [0 .. HashWords - 1 -> Word]
  BY <1>3, <1>4 DEF Decoded
<1>6. Grouped(bytes, words, e, HashWords, 4)
  BY <1>4 DEF Grouped, Le32dec, LittleEndian
<1> HIDE DEF e
<1>7. Digits(words, HashWords, 4)
  BY <1>4 DEF Digits, Word
<1>8. Numeral(words, HashWords, 4) = Numeral(bytes, 4 * HashWords, 1)
  BY <1>1, <1>2, <1>6, Regrouped
<1> QED BY <1>5, <1>7, <1>8 DEF TargetOf, LittleEndian, bytes

\* The host's loop over the words is the order of the numbers.
LEMMA HostVerdict ==
  ASSUME NEW d \in [0 .. HashWords - 1 -> Word], NEW text \in Text(HashWords), NEW words,
         words = Decoded(HexToBytes(text, 4 * HashWords), HashWords)
  PROVE  Order(Smaller(Swapped(d), words), "s", d, text)
<1> DEFINE hash == Swapped(d)
           n == HashWords
           x == NumberOf(d)
           y == TargetOf(text)
<1>1. n \in Nat /\ 4 \in Nat
  BY EncodingAssumption
<1>2. Digits(hash, n, 4) /\ Numeral(hash, n, 4) = x
  BY SwappedNumber
<1>3. Digits(words, n, 4) /\ Numeral(words, n, 4) = y /\ words \in [0 .. n - 1 -> Word]
  BY DecodedNumber
<1>4. \A w \in 0 .. n - 1 : hash[w] \in Nat /\ words[w] \in Nat
  <2>1. Digits(hash, n, 4) /\ Digits(words, n, 4)
    BY <1>2, <1>3
  <2> HIDE DEF hash, n
  <2>2. \A w \in 0 .. n - 1 : hash[w] \in 0 .. Shift[4] - 1 /\ words[w] \in 0 .. Shift[4] - 1
    BY <2>1, Zenon DEF Digits
  <2> QED BY <2>2
<1>5. Smaller(hash, words) <=> ~Below(words, hash, n)
  <2> HIDE DEF hash
  <2>1. \A w \in 0 .. n - 1 :
          ~(hash[w] # words[w] => hash[w] < words[w]) <=> words[w] < hash[w]
    BY <1>4
  <2> HIDE DEF n
  <2>2. Smaller(hash, words)
          <=> \A w \in 0 .. n - 1 :
                ~(words[w] < hash[w] /\ \A v \in w + 1 .. n - 1 : words[v] = hash[v])
    BY <2>1, Zenon DEF Smaller, n
  <2> QED BY <2>2, Zenon DEF Below
<1>6. x \in Nat /\ y \in Nat
  <2>1. Numeral(hash, n, 4) \in 0 .. Shift[4 * n] - 1
    BY <1>1, <1>2, NumeralBound, Zenon
  <2>2. x \in Nat
    BY <1>2, <2>1
  <2> QED BY <2>2, TargetBytes
<1> HIDE DEF hash, n, x, y
<1>7. Below(words, hash, n) => y < x
  BY <1>1, <1>2, <1>3, BelowIsLess
<1>8. Below(hash, words, n) => x < y
  BY <1>1, <1>2, <1>3, BelowIsLess
<1>9. ~Below(words, hash, n) /\ ~Below(hash, words, n) => x = y
  BY <1>1, <1>2, <1>3, NeitherIsSame
<1>10. Smaller(hash, words) <=> x <= y
  BY <1>5, <1>6, <1>7, <1>8, <1>9
<1> QED BY <1>6, <1>10 DEF Order, hash, x, y

\* The kernel's comparison of the low words and its test of the top word.
LEMMA KernelVerdict ==
  ASSUME NEW d \in [0 .. HashWords - 1 -> Word], NEW text \in Text(HashWords), NEW bytes,
         bytes = HexToBytes(text, 4 * HashWords)
  PROVE  Order(CalcMatch(ReorderHash(d), RawBits(Scalars(bytes, 4 * HashWords), 4 * HashWords)),
               "bc", d, text)
<1> DEFINE low == 4 * (HashWords - 1)
           n == 2 * (HashWords - 1)
           s == Shift[low]
           x == NumberOf(d)
           y == TargetOf(text)
           len == 4 * HashWords
           r == RawBits(Scalars(bytes, len), len)
<1>1. /\ low \in Nat /\ n \in Nat \ {0} /\ low = 2 * n /\ low \div 2 = n
      /\ len \in Nat /\ len = low + 4 /\ 0 \in Nat /\ 4 \in Nat /\ HashWords \in Nat
  BY EncodingAssumption
<1>2. ReorderHash(d) = x
  BY SwappedNumber DEF ReorderHash
<1>3. x \in Nat /\ x < Shift[len]
  <2>1. Numeral(Swapped(d), HashWords, 4) \in 0 .. Shift[4 * HashWords] - 1
    BY <1>1, SwappedNumber, NumeralBound
  <2>2. x \in 0 .. Shift[len] - 1
    BY <2>1, SwappedNumber
  <2>3. Shift[len] \in Nat
    BY <1>1, ShiftFacts
  <2> QED BY <2>2, <2>3
<1>4. y \in Nat /\ bytes \in [0 .. len - 1 -> Byte] /\ Digits(bytes, len, 1)
      /\ y = Numeral(bytes, len, 1)
  BY TargetBytes DEF TargetOf, LittleEndian
<1> HIDE DEF low, n, len
<1>5. s \in Nat \ {0} /\ Shift[4] \in Nat \ {0} /\ Shift[len] = s * Shift[4]
  BY <1>1, ShiftFacts, ShiftAdds
<1>6. Slice(r, 0, low) = y % s
  <2>1. \A k \in 0 .. low - 1 : bytes[k] = bytes[0 + k]
    BY <1>1
  <2>2. 0 + low <= len
    BY <1>1
  <2>3. SameBytes(bytes, len, 0, bytes, low)
    <3>1. \A k \in 0 .. len - 1 : bytes[k] \in Byte
      BY <1>4
    <3> QED BY <1>1, <2>1, <2>2, <3>1, SlicesOfScalars, Zenon
  <2>4. Slice(Numeral(bytes, len, 1), 0, low) = Numeral(bytes, low, 1)
    BY <1>1, <1>4, <2>1, <2>2, SliceOfNumeral
  <2>5. y \div Shift[0] = y
    BY <1>4, ShiftFacts
  <2> HIDE DEF r, y, s
  <2> QED BY <1>4, <2>3, <2>4, <2>5 DEF SameBytes, Slice, r, s
<1> DEFINE a == x % s
           b == y % s
           h == x \div s
<1>7. Slice(x, 0, low) = a
  BY <1>3, ShiftFacts DEF Slice
<1>8. h \in Nat /\ h < Shift[4] /\ x = s * h + a /\ a \in 0 .. s - 1
  <2> HIDE DEF s, x
  <2>1. h \in Nat /\ x = s * h + a /\ a \in 0 .. s - 1
    BY <1>3, <1>5, DivModIs
  <2> HIDE DEF h, a
  <2>2. h < Shift[4]
    <3> DEFINE t == Shift[4]
    <3> HIDE DEF t
    <3> SUFFICES ASSUME h >= t PROVE FALSE
      BY <1>5, <2>1 DEF t
    <3>1. t \in Nat /\ h - t \in Nat /\ x < s * t
      BY <1>3, <1>5, <2>1 DEF t
    <3>2. s * (h - t) \in Nat
      BY <1>5, <3>1, Products
    <3>3. s * (h - t) = s * h - s * t
      BY <1>5, <2>1, <3>1
    <3> QED BY <1>5, <2>1, <3>1, <3>2, <3>3
  <2> QED BY <2>1, <2>2
<1>9. Slice(x, low, 4) = h
  <2> HIDE DEF h
  <2>1. h % Shift[4] = h
    <3> DEFINE t == Shift[4]
    <3>1. t \in Nat \ {0} /\ h \in Nat /\ h < t
      BY <1>5, <1>8
    <3> HIDE DEF t
    <3>2. h % t = h
      BY <3>1
    <3> QED BY <3>2 DEF t
  <2> QED BY <2>1 DEF Slice, h, s
<1>10. b \in 0 .. s - 1 /\ b <= y /\ (y < s => b = y)
  <2> HIDE DEF s, y
  <2>1. b \in 0 .. s - 1 /\ y = s * (y \div s) + b /\ y \div s \in Nat
    BY <1>4, <1>5, DivModIs
  <2>2. s * (y \div s) \in Nat
    BY <1>5, <2>1, Products
  <2>3. y < s => b = y
    BY <1>4, <1>5
  <2> QED BY <2>1, <2>2, <2>3
<1> HIDE DEF x, y, r, h, a, b
<1>11. LtPipelined(a, b, n) <=> a < b
  <2>1. s = Shift[2 * n]
    BY <1>1, Zenon
  <2> HIDE DEF s
  <2>2. a \in Nat /\ b \in Nat /\ a < s /\ b < s
    BY <1>5, <1>8, <1>10
  <2> QED BY <1>1, <2>1, <2>2, PipelineIsLess, Zenon
<1> DEFINE m == CalcMatch(x, r)
<1>12. m <=> a < b /\ h = 0
  BY <1>1, <1>6, <1>7, <1>9, <1>11 DEF CalcMatch, low, b
<1> HIDE DEF m, s
<1>13. h # 0 => x >= s
  <2> SUFFICES ASSUME h # 0 PROVE x >= s
    OBVIOUS
  <2>1. h - 1 \in Nat /\ s \in Nat
    BY <1>5, <1>8
  <2>2. s * (h - 1) \in Nat /\ s * (h - 1) = s * h - s
    BY <1>8, <2>1, Products
  <2> QED BY <1>8, <2>1, <2>2
<1>14. h = 0 => x = a
  BY <1>5, <1>8
<1>15. m => x <= y
  BY <1>3, <1>4, <1>8, <1>10, <1>12, <1>14
<1>16. x < y /\ y < s => m
  BY <1>3, <1>4, <1>5, <1>8, <1>10, <1>12, <1>13, <1>14
<1> QED BY <1>2, <1>15, <1>16 DEF Order, m, x, y, s, r, len, low

-----------------------------------------------------------------------------
\* The share.

\* The text of a share is its header's, with the nonce's digits in their place.
LEMMA ShareText ==
  ASSUME NEW text \in Text(DataWords + 1), NEW u, \A k \in 0 .. 7 : u[k] \in 0 .. Digit - 1,
         NEW s, s = [k \in DOMAIN text |->
                       IF k - NoncePlace \in 0 .. 7 THEN u[k - NoncePlace] ELSE text[k]]
  PROVE  /\ s \in Text(DataWords + 1)
         /\ \A w \in 0 .. DataWords - 1 : HeaderWord(s, w) = HeaderWord(text, w)
         /\ HeaderWord(s, DataWords)
              = LittleEndian([k \in 0 .. 3 |-> u[2 * k] * Digit + u[2 * k + 1]], 4)
<1> DEFINE p == NoncePlace
           all == 8 * (DataWords + 1)
           size == 4 * (DataWords + 1)
<1>1. DataWords \in Nat /\ p = 8 * DataWords /\ all = p + 8 /\ all \in Nat
      /\ size = 4 * DataWords + 4
  BY EncodingAssumption DEF NoncePlace
<1>2. DOMAIN text = 0 .. all - 1 /\ \A k \in 0 .. all - 1 : text[k] \in 0 .. Digit - 1
  BY DEF Text
<1> HIDE DEF all
<1>3. /\ DOMAIN s = 0 .. all - 1 /\ s = [k \in 0 .. all - 1 |-> s[k]]
      /\ \A k \in 0 .. all - 1 : s[k] = IF k - p \in 0 .. 7 THEN u[k - p] ELSE text[k]
  BY <1>2
<1> HIDE DEF p
<1>4. \A k \in 0 .. p - 1 : s[k] = text[k]
  BY <1>1, <1>3
<1>5. \A k \in 0 .. 7 : s[p + k] = u[k]
  <2> SUFFICES ASSUME NEW k \in 0 .. 7 PROVE s[p + k] = u[k]
    OBVIOUS
  <2>1. p + k \in 0 .. all - 1 /\ (p + k) - p = k
    BY <1>1
  <2>2. s[p + k] = IF (p + k) - p \in 0 .. 7 THEN u[(p + k) - p] ELSE text[p + k]
    BY <1>3, <2>1
  <2> QED BY <2>1, <2>2
<1>6. s \in Text(DataWords + 1)
  <2>1. ASSUME NEW k \in 0 .. all - 1 PROVE s[k] \in 0 .. Digit - 1
    <3>1. CASE k < p
      <4>1. k \in 0 .. p - 1
        BY <1>1, <3>1
      <4> QED BY <1>2, <1>4, <4>1
    <3>2. CASE k >= p
      <4>1. k - p \in 0 .. 7 /\ p + (k - p) = k
        BY <1>1, <3>2
      <4>2. s[p + (k - p)] = u[k - p]
        BY <1>5, <4>1
      <4> QED BY <4>1, <4>2
    <3> QED BY <1>1, <3>1, <3>2
  <2>2. s \in [0 .. all - 1 -> 0 .. Digit - 1]
    BY <1>3, <2>1
  <2> QED BY <2>2 DEF Text, all
<1>7. ASSUME NEW w \in 0 .. DataWords - 1 PROVE HeaderWord(s, w) = HeaderWord(text, w)
  <2> DEFINE a == HexToBytes(s, size)
             b == HexToBytes(text, size)
  <2>1. \A k \in 0 .. 3 : a[4 * w + k] = b[4 * w + k]
    <3> SUFFICES ASSUME NEW k \in 0 .. 3 PROVE a[4 * w + k] = b[4 * w + k]
      OBVIOUS
    <3> DEFINE j == 4 * w + k
    <3>1. j \in 0 .. size - 1 /\ 2 * j \in 0 .. p - 1 /\ 2 * j + 1 \in 0 .. p - 1
      BY <1>1
    <3> HIDE DEF j
    <3>2. a[j] = s[2 * j] * Digit + s[2 * j + 1] /\ b[j] = text[2 * j] * Digit + text[2 * j + 1]
      BY <3>1 DEF HexToBytes
    <3>3. a[j] = b[j]
      BY <1>4, <3>1, <3>2
    <3> QED BY <3>3 DEF j
  <2> HIDE DEF a, b
  <2>2. [k \in 0 .. 3 |-> a[4 * w + k]] = [k \in 0 .. 3 |-> b[4 * w + k]]
    BY <2>1
  <2>3. Le32dec(a, w) = Le32dec(b, w)
    BY <2>2, Zenon DEF Le32dec
  <2> QED BY <2>3 DEF HeaderWord, a, b
<1>8. HeaderWord(s, DataWords)
        = LittleEndian([k \in 0 .. 3 |-> u[2 * k] * Digit + u[2 * k + 1]], 4)
  <2> DEFINE a == HexToBytes(s, size)
             e == [k \in 0 .. 3 |-> u[2 * k] * Digit + u[2 * k + 1]]
  <2>1. \A k \in 0 .. 3 : a[4 * DataWords + k] = e[k]
    <3> SUFFICES ASSUME NEW k \in 0 .. 3 PROVE a[4 * DataWords + k] = e[k]
      OBVIOUS
    <3> DEFINE j == 4 * DataWords + k
    <3>1. j \in 0 .. size - 1 /\ 2 * j = p + 2 * k /\ 2 * j + 1 = p + (2 * k + 1)
          /\ 2 * k \in 0 .. 7 /\ 2 * k + 1 \in 0 .. 7
      BY <1>1
    <3> HIDE DEF j
    <3>2. a[j] = s[2 * j] * Digit + s[2 * j + 1]
      BY <3>1 DEF HexToBytes
    <3>3. s[2 * j] = u[2 * k] /\ s[2 * j + 1] = u[2 * k + 1]
      BY <1>5, <3>1
    <3> QED BY <3>2, <3>3 DEF j
  <2>2. e = [k \in 0 .. 3 |-> e[k]]
    OBVIOUS
  <2> HIDE DEF a, e
  <2>3. [k \in 0 .. 3 |-> a[4 * DataWords + k]] = e
    BY <2>1, <2>2
  <2>4. Le32dec(a, DataWords) = LittleEndian(e, 4)
    BY <2>3, Zenon DEF Le32dec
  <2> QED BY <2>4 DEF HeaderWord, a, e
<1> QED BY <1>6, <1>7, <1>8

\* The digits of a nonce, and the word they are read back as.
LEMMA NonceDigits ==
  ASSUME NEW n \in Word
  PROVE  /\ \A k \in 0 .. 7 : Printed(n)[k] \in 0 .. Digit - 1 /\ Encoded(n)[k] \in 0 .. Digit - 1
         /\ LittleEndian([k \in 0 .. 3 |-> Printed(n)[2 * k] * Digit + Printed(n)[2 * k + 1]], 4)
              = ByteSwap32(n)
         /\ LittleEndian([k \in 0 .. 3 |-> Encoded(n)[2 * k] * Digit + Encoded(n)[2 * k + 1]], 4)
              = n
<1> DEFINE p == Printed(n)
           q == Encoded(n)
           d == [k \in 0 .. 3 |-> p[2 * k] * Digit + p[2 * k + 1]]
           e == [k \in 0 .. 3 |-> q[2 * k] * Digit + q[2 * k + 1]]
<1>1. n \in Nat
  BY ShiftFacts DEF Word
<1>2. \A k \in 0 .. 3 :
        /\ p[2 * k] * Digit + p[2 * k + 1] = Slice(n, 3 - k, 1)
        /\ p[2 * k] \in 0 .. Digit - 1 /\ p[2 * k + 1] \in 0 .. Digit - 1
  BY <1>1, PrintedBytes
<1>3. \A k \in 0 .. 3 :
        /\ q[2 * k] * Digit + q[2 * k + 1] = Slice(n, k, 1)
        /\ q[2 * k] \in 0 .. Digit - 1 /\ q[2 * k + 1] \in 0 .. Digit - 1
  BY <1>1, EncodedBytes
<1> HIDE DEF p, q
<1>4. \A k \in 0 .. 7 : p[k] \in 0 .. Digit - 1 /\ q[k] \in 0 .. Digit - 1
  <2> SUFFICES ASSUME NEW k \in 0 .. 7 PROVE p[k] \in 0 .. Digit - 1 /\ q[k] \in 0 .. Digit - 1
    OBVIOUS
  <2>1. \E j \in 0 .. 3 : k = 2 * j \/ k = 2 * j + 1
    <3>1. k \div 2 \in 0 .. 3 /\ (k = 2 * (k \div 2) \/ k = 2 * (k \div 2) + 1)
      OBVIOUS
    <3> QED BY <3>1
  <2> QED BY <1>2, <1>3, <2>1
<1>5. d = [k \in 0 .. 3 |-> Slice(n, 3 - k, 1)]
  BY <1>2
<1>6. \A k \in 0 .. 3 : e[k] = Slice(n, k, 1)
  BY <1>3
<1> HIDE DEF d, e
<1>7. LittleEndian(d, 4) = ByteSwap32(n)
  BY <1>5, Zenon DEF ByteSwap32
<1>8. LittleEndian(e, 4) = n
  BY <1>6, BytesOfWord
<1> QED BY <1>4, <1>7, <1>8 DEF d, e, p, q

-----------------------------------------------------------------------------
\* The inductive invariant.

\* What the pool's texts have become.
JobIsParsed ==
  Parsed =>
    /\ data = IF kind = "s" THEN Decoded(HexToBytes(data_str, 4 * (DataWords + 1)), DataWords + 1)
              ELSE HexToBytes(data_str, 4 * (DataWords + 1))
    /\ target = IF kind = "s" THEN Decoded(HexToBytes(target_str, 4 * HashWords), HashWords)
                ELSE HexToBytes(target_str, 4 * HashWords)

ScalarsAreSet ==
  pc = "set" =>
    /\ kind = "bc"
    /\ scalars = [hash1block2 |-> Scalars(data, 4 * DataWords),
                  target |-> Scalars(target, 4 * HashWords)]

\* The word that stands for the nonce in what is hashed.
NonceWord(n) == IF kind = "s" THEN n ELSE ByteSwap32(n)

AttemptIsJudged ==
  Tried =>
    /\ nonce \in Word /\ digest \in [0 .. HashWords - 1 -> Word]
    /\ IsHeader(message, data_str, NonceWord(nonce))
    /\ Order(found, kind, digest, target_str)

ShareIsSent ==
  pc = "sent" =>
    /\ sent \in Text(DataWords + 1)
    /\ \A w \in 0 .. DataWords - 1 : HeaderWord(sent, w) = HeaderWord(data_str, w)
    /\ HeaderWord(sent, DataWords) = NonceWord(nonce)

TextsAreSent == kind \in {"bc", "s"} /\ data_str \in DataTexts /\ target_str \in TargetTexts

EncodingInv ==
  /\ TextsAreSent /\ found \in BOOLEAN
  /\ JobIsParsed /\ ScalarsAreSet /\ AttemptIsJudged /\ ShareIsSent

\* It holds before the texts are parsed.
LEMMA EncodingInit == Init => EncodingInv
BY DEF Init, EncodingInv, TextsAreSent, JobIsParsed, ScalarsAreSet, AttemptIsJudged, ShareIsSent,
       Parsed, Tried

\* Every step keeps it.
LEMMA EncodingStep == EncodingInv /\ [Next]_vars => EncodingInv'
<1> SUFFICES ASSUME EncodingInv, [Next]_vars PROVE EncodingInv'
  OBVIOUS
<1>1. TextsAreSent /\ found \in BOOLEAN /\ JobIsParsed /\ ScalarsAreSet /\ AttemptIsJudged
      /\ ShareIsSent
  BY DEF EncodingInv
<1>2. data_str \in Text(DataWords + 1) /\ target_str \in Text(HashWords)
  BY <1>1, EncodingAssumption DEF TextsAreSent
<1>3. CASE ParseGetwork
  <2>1. /\ pc' = "parsed" /\ kind = "bc" /\ kind' = kind
        /\ data_str' = data_str /\ target_str' = target_str /\ found' = found
    BY <1>3 DEF ParseGetwork, job, attempt
  <2>2. JobIsParsed'
    BY <1>3, <2>1 DEF ParseGetwork, JobIsParsed
  <2>3. ScalarsAreSet' /\ AttemptIsJudged' /\ ShareIsSent'
    BY <2>1 DEF ScalarsAreSet, AttemptIsJudged, ShareIsSent, Tried
  <2> QED BY <1>1, <2>1, <2>2, <2>3 DEF EncodingInv, TextsAreSent
<1>4. CASE ParseGetworkDecode
  <2>1. /\ pc' = "parsed" /\ kind = "s" /\ kind' = kind
        /\ data_str' = data_str /\ target_str' = target_str /\ found' = found
    BY <1>4 DEF ParseGetworkDecode, job, attempt
  <2>2. JobIsParsed'
    BY <1>4, <2>1 DEF ParseGetworkDecode, JobIsParsed
  <2>3. ScalarsAreSet' /\ AttemptIsJudged' /\ ShareIsSent'
    BY <2>1 DEF ScalarsAreSet, AttemptIsJudged, ShareIsSent, Tried
  <2> QED BY <1>1, <2>1, <2>2, <2>3 DEF EncodingInv, TextsAreSent
<1>5. CASE SetScalars
  <2>1. /\ pc = "parsed" /\ pc' = "set" /\ kind = "bc" /\ kind' = kind
        /\ data_str' = data_str /\ target_str' = target_str /\ found' = found
        /\ data' = data /\ target' = target
    BY <1>5 DEF SetScalars, job, attempt
  <2>2. JobIsParsed'
    BY <1>1, <2>1 DEF JobIsParsed, Parsed
  <2>3. ScalarsAreSet'
    BY <1>5, <2>1 DEF ScalarsAreSet, SetScalars
  <2>4. AttemptIsJudged' /\ ShareIsSent'
    BY <2>1 DEF AttemptIsJudged, ShareIsSent, Tried
  <2> QED BY <1>1, <2>1, <2>2, <2>3, <2>4 DEF EncodingInv, TextsAreSent
<1>6. CASE FindMatches
  <2>1. /\ pc = "set" /\ pc' = "judged" /\ kind' = kind
        /\ data_str' = data_str /\ target_str' = target_str
        /\ data' = data /\ target' = target
    BY <1>6 DEF FindMatches, job
  <2>2. /\ kind = "bc"
        /\ data = HexToBytes(data_str, 4 * (DataWords + 1))
        /\ target = HexToBytes(target_str, 4 * HashWords)
        /\ scalars = [hash1block2 |-> Scalars(data, 4 * DataWords),
                      target |-> Scalars(target, 4 * HashWords)]
    BY <1>1, <2>1 DEF JobIsParsed, ScalarsAreSet, Parsed
  <2>3. PICK n \in Nonces, d \in Digests :
          /\ nonce' = n /\ digest' = d
          /\ message' = Cat(Split32(ByteSwap32(n), 1),
                            Split32(RawBits(scalars.hash1block2, 4 * DataWords), DataWords))
          /\ found' = CalcMatch(ReorderHash(d), RawBits(scalars.target, 4 * HashWords))
    BY <1>6 DEF FindMatches
  <2>4. n \in Word /\ d \in [0 .. HashWords - 1 -> Word]
    BY EncodingAssumption
  <2>5. IsHeader(message', data_str, ByteSwap32(n))
    <3>1. scalars.hash1block2 = Scalars(data, 4 * DataWords)
      BY <2>2
    <3>2. message' = Cat(Split32(ByteSwap32(n), 1),
                         Split32(RawBits(Scalars(data, 4 * DataWords), 4 * DataWords), DataWords))
      BY <2>3, <3>1
    <3> QED BY <1>2, <2>2, <2>4, <3>2, KernelMessage
  <2>6. Order(found', "bc", d, target_str)
    <3>1. scalars.target = Scalars(target, 4 * HashWords)
      BY <2>2
    <3>2. found' = CalcMatch(ReorderHash(d), RawBits(Scalars(target, 4 * HashWords), 4 * HashWords))
      BY <2>3, <3>1
    <3> QED BY <1>2, <2>2, <2>4, <3>2, KernelVerdict
  <2>7. found' \in BOOLEAN
    BY <2>3 DEF CalcMatch
  <2>8. AttemptIsJudged'
    BY <2>1, <2>2, <2>3, <2>4, <2>5, <2>6 DEF AttemptIsJudged, NonceWord
  <2>9. JobIsParsed'
    BY <1>1, <2>1 DEF JobIsParsed, Parsed
  <2>10. ScalarsAreSet' /\ ShareIsSent'
    BY <2>1 DEF ScalarsAreSet, ShareIsSent
  <2> QED BY <1>1, <2>1, <2>7, <2>8, <2>9, <2>10 DEF EncodingInv, TextsAreSent
<1>7. CASE Scrypt
  <2>1. /\ pc = "parsed" /\ pc' = "judged" /\ kind = "s" /\ kind' = kind
        /\ data_str' = data_str /\ target_str' = target_str
        /\ data' = data /\ target' = target
    BY <1>7 DEF Scrypt, job
  <2>2. /\ data = Decoded(HexToBytes(data_str, 4 * (DataWords + 1)), DataWords + 1)
        /\ target = Decoded(HexToBytes(target_str, 4 * HashWords), HashWords)
    BY <1>1, <2>1 DEF JobIsParsed, Parsed
  <2>3. PICK n \in Nonces, d \in Digests :
          /\ nonce' = n /\ digest' = d
          /\ message' = [w \in 1 .. DataWords + 1 |-> IF w > DataWords THEN n ELSE data[w - 1]]
          /\ found' = Smaller(Swapped(d), target)
    BY <1>7 DEF Scrypt
  <2>4. n \in Word /\ d \in [0 .. HashWords - 1 -> Word]
    BY EncodingAssumption
  <2>5. IsHeader(message', data_str, n)
    BY <1>2, <2>2, <2>3, <2>4, HostMessage
  <2>6. Order(found', "s", d, target_str)
    BY <1>2, <2>2, <2>3, <2>4, HostVerdict
  <2>7. found' \in BOOLEAN
    BY <2>3 DEF Smaller
  <2>8. AttemptIsJudged'
    BY <2>1, <2>3, <2>4, <2>5, <2>6 DEF AttemptIsJudged, NonceWord
  <2>9. JobIsParsed'
    BY <1>1, <2>1 DEF JobIsParsed, Parsed
  <2>10. ScalarsAreSet' /\ ShareIsSent'
    BY <2>1 DEF ScalarsAreSet, ShareIsSent
  <2> QED BY <1>1, <2>1, <2>7, <2>8, <2>9, <2>10 DEF EncodingInv, TextsAreSent
<1>8. CASE Submit
  <2>1. /\ pc = "judged" /\ pc' = "sent" /\ kind' = kind
        /\ data_str' = data_str /\ target_str' = target_str
        /\ data' = data /\ target' = target /\ nonce' = nonce /\ message' = message
        /\ digest' = digest /\ found' = found
    BY <1>8 DEF Submit, job, attempt
  <2>2. AttemptIsJudged'
    BY <1>1, <2>1 DEF AttemptIsJudged, Tried, NonceWord
  <2>3. ShareIsSent'
    <3> DEFINE u == NonceText(nonce)
    <3>1. nonce \in Word
      BY <1>1, <2>1 DEF AttemptIsJudged, Tried
    <3>2. /\ \A k \in 0 .. 7 : u[k] \in 0 .. Digit - 1
          /\ LittleEndian([k \in 0 .. 3 |-> u[2 * k] * Digit + u[2 * k + 1]], 4)
               = NonceWord(nonce)
      <4>1. CASE kind = "s"
        <5>1. u = Encoded(nonce) /\ NonceWord(nonce) = nonce
          BY <4>1 DEF NonceText, NonceWord
        <5> HIDE DEF u
        <5> QED BY <3>1, <5>1, NonceDigits
      <4>2. CASE kind # "s"
        <5>1. u = Printed(nonce) /\ NonceWord(nonce) = ByteSwap32(nonce)
          BY <4>2 DEF NonceText, NonceWord
        <5> HIDE DEF u
        <5> QED BY <3>1, <5>1, NonceDigits
      <4> QED BY <4>1, <4>2
    <3>3. sent' = [k \in DOMAIN data_str |->
                     IF k - NoncePlace \in 0 .. 7 THEN u[k - NoncePlace] ELSE data_str[k]]
      BY <1>8 DEF Submit
    <3> HIDE DEF u
    <3>4. /\ sent' \in Text(DataWords + 1)
          /\ \A w \in 0 .. DataWords - 1 : HeaderWord(sent', w) = HeaderWord(data_str, w)
          /\ HeaderWord(sent', DataWords)
               = LittleEndian([k \in 0 .. 3 |-> u[2 * k] * Digit + u[2 * k + 1]], 4)
      BY <1>2, <3>2, <3>3, ShareText
    <3>5. HeaderWord(sent', DataWords) = NonceWord(nonce)
      BY <3>2, <3>4, Zenon
    <3>6. NonceWord(nonce)' = NonceWord(nonce)
      BY <2>1 DEF NonceWord
    <3> QED BY <2>1, <3>4, <3>5, <3>6 DEF ShareIsSent
  <2>4. JobIsParsed'
    BY <1>1, <2>1 DEF JobIsParsed, Parsed
  <2>5. ScalarsAreSet'
    BY <2>1 DEF ScalarsAreSet
  <2> QED BY <1>1, <2>1, <2>2, <2>3, <2>4, <2>5 DEF EncodingInv, TextsAreSent
<1>9. CASE Drop
  <2>1. /\ pc = "judged" /\ pc' = "dropped" /\ kind' = kind
        /\ data_str' = data_str /\ target_str' = target_str
        /\ data' = data /\ target' = target /\ nonce' = nonce /\ message' = message
        /\ digest' = digest /\ found' = found
    BY <1>9 DEF Drop, job, attempt
  <2>2. AttemptIsJudged'
    BY <1>1, <2>1 DEF AttemptIsJudged, Tried, NonceWord
  <2>3. JobIsParsed'
    BY <1>1, <2>1 DEF JobIsParsed, Parsed
  <2>4. ScalarsAreSet' /\ ShareIsSent'
    BY <2>1 DEF ScalarsAreSet, ShareIsSent
  <2> QED BY <1>1, <2>1, <2>2, <2>3, <2>4 DEF EncodingInv, TextsAreSent
<1>10. CASE UNCHANGED vars
  <2>1. /\ pc' = pc /\ kind' = kind /\ data_str' = data_str /\ target_str' = target_str
        /\ data' = data /\ target' = target /\ scalars' = scalars
        /\ nonce' = nonce /\ message' = message /\ digest' = digest /\ found' = found
        /\ sent' = sent
    BY <1>10 DEF vars
  <2>2. JobIsParsed' /\ ScalarsAreSet'
    BY <1>1, <2>1 DEF JobIsParsed, ScalarsAreSet, Parsed
  <2>3. AttemptIsJudged' /\ ShareIsSent'
    BY <1>1, <2>1 DEF AttemptIsJudged, ShareIsSent, Tried, NonceWord
  <2> QED BY <1>1, <2>1, <2>2, <2>3 DEF EncodingInv, TextsAreSent
<1> QED BY <1>3, <1>4, <1>5, <1>6, <1>7, <1>8, <1>9, <1>10 DEF Next

\* The texts, what they were parsed to, the attempt and the share belong together.
THEOREM EncodingInvariant == Spec => []EncodingInv
BY EncodingInit, EncodingStep, PTL DEF Spec

-----------------------------------------------------------------------------
\* The theorems.

\* What the invariant says of widths.
LEMMA EncodingTypeOK == EncodingInv => TypeOK
<1> SUFFICES ASSUME EncodingInv PROVE TypeOK
  OBVIOUS
<1>1. TextsAreSent /\ found \in BOOLEAN /\ JobIsParsed /\ AttemptIsJudged /\ ShareIsSent
  BY DEF EncodingInv
<1>2. data_str \in Text(DataWords + 1) /\ target_str \in Text(HashWords)
  BY <1>1, EncodingAssumption DEF TextsAreSent
<1>3. ASSUME Parsed, kind = "s"
      PROVE  data \in [0 .. DataWords -> Word] /\ target \in [0 .. HashWords - 1 -> Word]
  <2>1. /\ data = Decoded(HexToBytes(data_str, 4 * (DataWords + 1)), DataWords + 1)
        /\ target = Decoded(HexToBytes(target_str, 4 * HashWords), HashWords)
    BY <1>1, <1>3 DEF JobIsParsed
  <2>2. (DataWords + 1) - 1 = DataWords
    BY EncodingAssumption
  <2>3. data = [w \in 0 .. DataWords |-> HeaderWord(data_str, w)]
    BY <2>1, <2>2 DEF Decoded, HeaderWord
  <2>4. data \in [0 .. DataWords -> Word]
    BY <1>2, <2>3, HeaderType
  <2> QED BY <1>2, <2>1, <2>4, DecodedNumber
<1>4. ASSUME Parsed, kind # "s"
      PROVE  /\ data \in [0 .. 4 * DataWords + 3 -> Byte]
             /\ target \in [0 .. 4 * HashWords - 1 -> Byte]
  <2>1. /\ data = HexToBytes(data_str, 4 * (DataWords + 1))
        /\ target = HexToBytes(target_str, 4 * HashWords)
    BY <1>1, <1>4 DEF JobIsParsed
  <2> QED BY <1>2, <2>1, HeaderType, TargetBytes
<1>5. Tried => message \in [1 .. DataWords + 1 -> Word]
  BY <1>1 DEF AttemptIsJudged, IsHeader
<1>6. pc = "sent" => sent \in Text(DataWords + 1)
  BY <1>1 DEF ShareIsSent
<1> QED BY <1>1, <1>3, <1>4, <1>5, <1>6 DEF TypeOK, TextsAreSent

\* Bytes, words and digits stay within their widths.
THEOREM EncodingTypeCorrect == Spec => []TypeOK
BY EncodingInvariant, EncodingTypeOK, PTL

\* What the invariant says of the share.
LEMMA SentIsTheMessage == EncodingInv => SentIsHashed
<1> SUFFICES ASSUME EncodingInv, pc = "sent", NEW w \in 0 .. DataWords
             PROVE  message[w + 1] = HeaderWord(sent, w)
  BY DEF SentIsHashed, HeaderWord
<1>1. IsHeader(message, data_str, NonceWord(nonce))
  BY DEF EncodingInv, AttemptIsJudged, Tried
<1>2. /\ \A v \in 0 .. DataWords - 1 : HeaderWord(sent, v) = HeaderWord(data_str, v)
      /\ HeaderWord(sent, DataWords) = NonceWord(nonce)
  BY DEF EncodingInv, ShareIsSent
<1>3. CASE w = DataWords
  BY <1>1, <1>2, <1>3 DEF IsHeader
<1>4. CASE w # DataWords
  <2>1. w \in 0 .. DataWords - 1
    BY <1>4, EncodingAssumption
  <2> QED BY <1>1, <1>2, <2>1 DEF IsHeader
<1> QED BY <1>3, <1>4

\* The share that is submitted is the header that was hashed, for both workers.
THEOREM SharesAreHashed == Spec => []SentIsHashed
BY EncodingInvariant, SentIsTheMessage, PTL

\* What the invariant says of the verdict.
LEMMA VerdictIsTheOrder == EncodingInv => FoundIsBelow
<1> SUFFICES ASSUME EncodingInv, Tried
             PROVE  /\ found => DigestNumber <= TargetNumber
                    /\ DigestNumber < TargetNumber
                       /\ (kind = "bc" => TargetNumber < Shift[4 * (HashWords - 1)])
                         => found
  BY DEF FoundIsBelow
<1>1. Order(found, kind, digest, target_str)
  BY DEF EncodingInv, AttemptIsJudged
<1>2. DigestNumber = NumberOf(digest) /\ TargetNumber = TargetOf(target_str)
  BY DEF DigestNumber, NumberOf, TargetNumber, TargetOf
<1> QED BY <1>1, <1>2, Zenon DEF Order

\* Nothing above the target is found, and nothing below it is missed, except by the
\* kernel if the target's top word is not zero.
THEOREM VerdictsAreOrder == Spec => []FoundIsBelow
BY EncodingInvariant, VerdictIsTheOrder, PTL

=============================================================================
