------------------------ MODULE HostArithmeticProofs ------------------------
(***************************************************************************)
(* The host's SHA-256 and salsa20/8, and the kernels', agree: for every    *)
(* width, round table, sigmas, block and hash value, and for every         *)
(* rotation and pair of halves.                                            *)
(***************************************************************************)
EXTENDS Sha256Host, SalsaHost, TLAPS

-----------------------------------------------------------------------------
\* Words.

LEMMA ModulusFacts == Modulus \in Nat \ {0}
BY WordsAssumption

LEMMA TableFacts == K \in [Round -> Word]
BY WordsAssumption, Zenon

\* A multiple of the modulus is at least the modulus.
LEMMA Multiples ==
  ASSUME NEW d \in Int, d >= 1
  PROVE  Modulus * d >= Modulus
<1>1. \A k \in Nat : Modulus * k >= 0
  BY ModulusFacts
<1>2. Modulus * (d - 1) >= 0
  BY <1>1
<1>3. Modulus * d = Modulus * (d - 1) + Modulus
  BY ModulusFacts
<1> QED BY ModulusFacts, <1>2, <1>3

\* A remainder is unique.
LEMMA Remainders ==
  ASSUME NEW p \in Int, NEW q \in Int, NEW u \in Word, NEW y \in Word,
         Modulus * p + u = Modulus * q + y
  PROVE  u = y
<1>1. Modulus * p - Modulus * q = Modulus * (p - q) /\ Modulus * q - Modulus * p = Modulus * (q - p)
  BY ModulusFacts
<1>2. ~(p - q >= 1)
  BY <1>1, ModulusFacts, Multiples DEF Word
<1>3. ~(q - p >= 1)
  BY <1>1, ModulusFacts, Multiples DEF Word
<1>4. p = q
  BY <1>2, <1>3
<1> QED BY <1>4, ModulusFacts DEF Word

\* Reduction brings a number back to a word and leaves words alone.
LEMMA LowLemma ==
  ASSUME NEW u \in Nat
  PROVE  /\ Low(u) \in Word
         /\ u < Modulus => Low(u) = u
         /\ u >= Modulus => Low(u) = Low(u - Modulus)
<1>1. ASSUME NEW y \in Nat
      PROVE  Low(y) \in Word /\ y \div Modulus \in Int /\ y = Modulus * (y \div Modulus) + Low(y)
  <2>1. y % Modulus \in 0 .. (Modulus - 1) /\ y \div Modulus \in Int
    BY ModulusFacts
  <2>2. y = Modulus * (y \div Modulus) + (y % Modulus)
    BY ModulusFacts
  <2> QED BY <2>1, <2>2 DEF Low, Word
<1>2. u < Modulus => Low(u) = u
  BY ModulusFacts DEF Low
<1>3. ASSUME u >= Modulus PROVE Low(u) = Low(u - Modulus)
  <2> DEFINE p == u \div Modulus  q == (u - Modulus) \div Modulus
  <2>1. u - Modulus \in Nat
    BY <1>3, ModulusFacts
  <2>2. p \in Int /\ q \in Int /\ Low(u) \in Word /\ Low(u - Modulus) \in Word
    BY <1>1, <2>1
  <2>3. u = Modulus * p + Low(u) /\ u - Modulus = Modulus * q + Low(u - Modulus)
    BY <1>1, <2>1
  <2> HIDE DEF p, q
  <2>4. Modulus * (q + 1) = Modulus * q + Modulus
    BY <2>2, ModulusFacts
  <2>5. Modulus * p + Low(u) = Modulus * (q + 1) + Low(u - Modulus)
    BY <2>2, <2>3, <2>4, ModulusFacts DEF Word
  <2> QED BY <2>2, <2>5, Remainders
<1> QED BY <1>1, <1>2, <1>3

\* A sum of two words wraps once at most.
LEMMA PlusLemma ==
  ASSUME NEW u \in Word, NEW y \in Word
  PROVE  /\ Plus(u, y) \in Word
         /\ Plus(u, y) = IF u + y < Modulus THEN u + y ELSE u + y - Modulus
<1>1. u + y \in Nat /\ u + y < 2 * Modulus
  BY ModulusFacts DEF Word
<1>2. CASE u + y < Modulus
  BY <1>1, <1>2, LowLemma DEF Plus
<1>3. CASE u + y >= Modulus
  <2>1. u + y - Modulus \in Nat /\ u + y - Modulus < Modulus
    BY <1>1, <1>3, ModulusFacts DEF Word
  <2>2. Low(u + y) = Low(u + y - Modulus) /\ Low(u + y) \in Word
    <3> DEFINE sum == u + y
    <3>1. sum \in Nat /\ sum >= Modulus
      BY <1>1, <1>3
    <3> HIDE DEF sum
    <3>2. Low(sum) = Low(sum - Modulus) /\ Low(sum) \in Word
      BY <3>1, LowLemma
    <3> QED BY <3>2, ModulusFacts DEF sum, Word
  <2> QED BY <1>1, <1>3, <2>1, <2>2, LowLemma, ModulusFacts DEF Plus
<1> QED BY <1>1, <1>2, <1>3, ModulusFacts

\* Addition of words is commutative and associative.
LEMMA PlusCommutes ==
  ASSUME NEW u \in Word, NEW y \in Word
  PROVE  Plus(u, y) = Plus(y, u)
<1>1. u + y = y + u
  BY ModulusFacts DEF Word
<1> QED BY <1>1 DEF Plus

LEMMA PlusAssociates ==
  ASSUME NEW u \in Word, NEW y \in Word, NEW z \in Word
  PROVE  Plus(Plus(u, y), z) = Plus(u, Plus(y, z))
<1> DEFINE p == Plus(u, y)  q == Plus(y, z)
<1>1. p \in Word /\ p = IF u + y < Modulus THEN u + y ELSE u + y - Modulus
  BY PlusLemma
<1>2. q \in Word /\ q = IF y + z < Modulus THEN y + z ELSE y + z - Modulus
  BY PlusLemma
<1>3. Plus(p, z) = IF p + z < Modulus THEN p + z ELSE p + z - Modulus
  BY <1>1, PlusLemma
<1>4. Plus(u, q) = IF u + q < Modulus THEN u + q ELSE u + q - Modulus
  BY <1>2, PlusLemma
<1> HIDE DEF p, q
<1>5. Plus(p, z) = Plus(u, q)
  BY <1>1, <1>2, <1>3, <1>4, ModulusFacts DEF Word
<1> QED BY <1>5 DEF p, q

\* Cutting a sum of three words once is the same as after each addition.
LEMMA LowOfThree ==
  ASSUME NEW u \in Word, NEW y \in Word, NEW z \in Word
  PROVE  Low(u + y + z) = Plus(Plus(u, y), z)
<1> DEFINE p == Plus(u, y)
<1>1. p \in Word /\ p = IF u + y < Modulus THEN u + y ELSE u + y - Modulus
  BY PlusLemma
<1>2. Plus(p, z) = Low(p + z)
  BY DEF Plus
<1> HIDE DEF p
<1>3. u + y + z \in Nat /\ p + z \in Nat /\ (p # u + y => u + y + z >= Modulus /\ p + z = u + y + z - Modulus)
  BY <1>1, ModulusFacts DEF Word
<1>4. CASE p = u + y
  BY <1>2, <1>4 DEF p
<1>5. CASE p # u + y
  <2> DEFINE sum == u + y + z
  <2>0. sum \in Nat /\ sum >= Modulus
    BY <1>3, <1>5
  <2> HIDE DEF sum
  <2>1. Low(sum) = Low(sum - Modulus)
    BY <2>0, LowLemma
  <2>2. sum - Modulus = p + z
    BY <1>1, <1>3, <1>5, ModulusFacts DEF sum, Word
  <2>3. Low(sum) = Plus(p, z)
    BY <1>2, <2>1, <2>2
  <2> QED BY <2>3 DEF p, sum
<1> QED BY <1>4, <1>5

\* What the bitwise operations do to a bit.
LEMMA BitLemma ==
  ASSUME NEW u \in Word, NEW y \in Word, NEW k \in Index
  PROVE  /\ Bit(And(u, y), k) <=> (Bit(u, k) /\ Bit(y, k))
         /\ Bit(Or(u, y), k) <=> (Bit(u, k) \/ Bit(y, k))
         /\ Bit(Xor(u, y), k) <=> ~(Bit(u, k) <=> Bit(y, k))
         /\ Bit(Not(u), k) <=> ~Bit(u, k)
BY BitsAssumption, Zenon

LEMMA BitwiseClosed ==
  ASSUME NEW u \in Word, NEW y \in Word
  PROVE  And(u, y) \in Word /\ Or(u, y) \in Word /\ Xor(u, y) \in Word /\ Not(u) \in Word
BY BitsAssumption, Zenon

\* A word is its bits.
LEMMA SameBits ==
  ASSUME NEW u \in Word, NEW y \in Word, \A k \in Index : Bit(u, k) <=> Bit(y, k)
  PROVE  u = y
BY BitsAssumption, Zenon

\* The two forms of Ch and of Maj are the same functions of words.
THEOREM ChForms ==
  ASSUME NEW u \in Word, NEW y \in Word, NEW z \in Word
  PROVE  Ch(u, y, z) \in Word /\ Ch(u, y, z) = Kernel!Ch(u, y, z)
<1>1. Xor(y, z) \in Word /\ And(u, y) \in Word /\ Not(u) \in Word
  BY BitwiseClosed
<1>2. And(u, Xor(y, z)) \in Word /\ And(Not(u), z) \in Word
  BY <1>1, BitwiseClosed
<1>3. Ch(u, y, z) \in Word /\ Kernel!Ch(u, y, z) \in Word
  BY <1>1, <1>2, BitwiseClosed DEF Ch, Kernel!Ch
<1>4. ASSUME NEW k \in Index
      PROVE  Bit(Ch(u, y, z), k) <=> Bit(Kernel!Ch(u, y, z), k)
  <2>1. Bit(Ch(u, y, z), k) <=> ~((Bit(u, k) /\ ~(Bit(y, k) <=> Bit(z, k))) <=> Bit(z, k))
    <3>1. Bit(Xor(y, z), k) <=> ~(Bit(y, k) <=> Bit(z, k))
      BY BitLemma
    <3>2. Bit(And(u, Xor(y, z)), k) <=> (Bit(u, k) /\ Bit(Xor(y, z), k))
      BY <1>1, BitLemma
    <3>3. Bit(Ch(u, y, z), k) <=> ~(Bit(And(u, Xor(y, z)), k) <=> Bit(z, k))
      BY <1>2, BitLemma DEF Ch
    <3> QED BY <3>1, <3>2, <3>3, Zenon
  <2>2. Bit(Kernel!Ch(u, y, z), k) <=> ~((Bit(u, k) /\ Bit(y, k)) <=> (~Bit(u, k) /\ Bit(z, k)))
    <3>1. Bit(And(u, y), k) <=> (Bit(u, k) /\ Bit(y, k))
      BY BitLemma
    <3>2. Bit(And(Not(u), z), k) <=> (~Bit(u, k) /\ Bit(z, k))
      BY <1>1, BitLemma
    <3>3. Bit(Kernel!Ch(u, y, z), k) <=> ~(Bit(And(u, y), k) <=> Bit(And(Not(u), z), k))
      BY <1>1, <1>2, BitLemma DEF Kernel!Ch
    <3> QED BY <3>1, <3>2, <3>3, Zenon
  <2> QED BY <2>1, <2>2, Zenon
<1> QED BY <1>3, <1>4, SameBits

THEOREM MajForms ==
  ASSUME NEW u \in Word, NEW y \in Word, NEW z \in Word
  PROVE  Maj(u, y, z) \in Word /\ Maj(u, y, z) = Kernel!Maj(u, y, z)
<1>1. Or(y, z) \in Word /\ And(y, z) \in Word /\ And(u, y) \in Word /\ And(u, z) \in Word
  BY BitwiseClosed
<1>2. And(u, Or(y, z)) \in Word /\ Xor(And(u, y), And(u, z)) \in Word
  BY <1>1, BitwiseClosed
<1>3. Maj(u, y, z) \in Word /\ Kernel!Maj(u, y, z) \in Word
  BY <1>1, <1>2, BitwiseClosed DEF Maj, Kernel!Maj
<1>4. ASSUME NEW k \in Index
      PROVE  Bit(Maj(u, y, z), k) <=> Bit(Kernel!Maj(u, y, z), k)
  <2>1. Bit(Maj(u, y, z), k) <=> ((Bit(u, k) /\ (Bit(y, k) \/ Bit(z, k))) \/ (Bit(y, k) /\ Bit(z, k)))
    <3>1. /\ Bit(Or(y, z), k) <=> (Bit(y, k) \/ Bit(z, k))
          /\ Bit(And(y, z), k) <=> (Bit(y, k) /\ Bit(z, k))
      BY BitLemma
    <3>2. Bit(And(u, Or(y, z)), k) <=> (Bit(u, k) /\ Bit(Or(y, z), k))
      BY <1>1, BitLemma
    <3>3. Bit(Maj(u, y, z), k) <=> (Bit(And(u, Or(y, z)), k) \/ Bit(And(y, z), k))
      BY <1>1, <1>2, BitLemma DEF Maj
    <3> QED BY <3>1, <3>2, <3>3, Zenon
  <2>2. Bit(Kernel!Maj(u, y, z), k)
          <=> ~(~((Bit(u, k) /\ Bit(y, k)) <=> (Bit(u, k) /\ Bit(z, k))) <=> (Bit(y, k) /\ Bit(z, k)))
    <3>1. /\ Bit(And(u, y), k) <=> (Bit(u, k) /\ Bit(y, k))
          /\ Bit(And(u, z), k) <=> (Bit(u, k) /\ Bit(z, k))
          /\ Bit(And(y, z), k) <=> (Bit(y, k) /\ Bit(z, k))
      BY BitLemma
    <3>2. Bit(Xor(And(u, y), And(u, z)), k) <=> ~(Bit(And(u, y), k) <=> Bit(And(u, z), k))
      BY <1>1, BitLemma
    <3>3. Bit(Kernel!Maj(u, y, z), k) <=> ~(Bit(Xor(And(u, y), And(u, z)), k) <=> Bit(And(y, z), k))
      BY <1>1, <1>2, BitLemma DEF Kernel!Maj
    <3> QED BY <3>1, <3>2, <3>3, Zenon
  <2> QED BY <2>1, <2>2, Zenon
<1> QED BY <1>3, <1>4, SameBits

-----------------------------------------------------------------------------
\* The types, and the order of the steps.

LEMMA SumsOfWords ==
  ASSUME NEW u \in Word, NEW y \in Word
  PROVE  Plus(u, y) \in Word
BY PlusLemma

LEMMA TypeInit == Init => TypeOK
<1> SUFFICES ASSUME Init PROVE TypeOK
  OBVIOUS
<1>1. Written = 16 /\ 0 .. (Written - 1) = 0 .. 15
  BY DEF Init, Written
<1>2. W \in [0 .. (Written - 1) -> Word] /\ state \in [Role -> Word] /\ S \in [Role -> Word]
  BY <1>1, InputsAssumption DEF Init
<1>3. i = 16 /\ i \in 16 .. 64 /\ i % 2 = 0
  BY DEF Init
<1>4. pc \in {"schedule", "mix", "done"} /\ (pc # "schedule" => i = 64 /\ ~second)
  BY DEF Init
<1>5. second \in BOOLEAN /\ (second => i < 64)
  BY DEF Init
<1>6. r \in 0 .. 64 /\ (pc = "schedule" => r = 0)
  BY DEF Init
<1> QED BY <1>2, <1>3, <1>4, <1>5, <1>6, Zenon DEF TypeOK

\* The schedule with one word more.
LEMMA ExtendedType ==
  ASSUME TypeOK, NEW u \in Word, Written < 64
  PROVE  Extended(u) \in [0 .. Written -> Word]
<1>1. Written \in Nat /\ W \in [0 .. (Written - 1) -> Word]
  BY DEF TypeOK, Written
<1> QED BY <1>1 DEF Extended

\* What a statement of the schedule writes is a word.
LEMMA ScheduledWord ==
  ASSUME TypeOK, NEW k \in 16 .. Written
  PROVE  /\ W[k - 2] \in Word /\ W[k - 7] \in Word /\ W[k - 15] \in Word /\ W[k - 16] \in Word
         /\ SmallSigma1(W[k - 2]) \in Word /\ SmallSigma0(W[k - 15]) \in Word
         /\ Plus(Plus(Plus(SmallSigma1(W[k - 2]), W[k - 7]), SmallSigma0(W[k - 15])), W[k - 16]) \in Word
<1>1. W[k - 2] \in Word /\ W[k - 7] \in Word /\ W[k - 15] \in Word /\ W[k - 16] \in Word
  BY DEF TypeOK, Written
<1>2. SmallSigma1(W[k - 2]) \in Word /\ SmallSigma0(W[k - 15]) \in Word
  BY <1>1, SigmaAssumption
<1>3. Plus(SmallSigma1(W[k - 2]), W[k - 7]) \in Word
  BY <1>1, <1>2, SumsOfWords
<1>4. Plus(Plus(SmallSigma1(W[k - 2]), W[k - 7]), SmallSigma0(W[k - 15])) \in Word
  BY <1>2, <1>3, SumsOfWords
<1> QED BY <1>1, <1>2, <1>4, SumsOfWords

\* Places are places.
LEMMA PlaceType ==
  ASSUME NEW j \in Role, NEW k \in 0 .. 64
  PROVE  Place(j, k) \in Role
BY DEF Place, Role

\* The words of a round, and the kernel's order of summing them.
LEMMA RoundWords ==
  ASSUME TypeOK, pc = "mix", r < 64
  PROVE  /\ \A j \in Role : Reg(j) \in Word
         /\ Plus(W[r], K[r]) \in Word /\ Plus(K[r], W[r]) = Plus(W[r], K[r])
         /\ t0 \in Word /\ t1 \in Word
         /\ t0 = Low(BigSigma1(Reg(4)) + Kernel!Ch(Reg(4), Reg(5), Reg(6)) + Plus(Reg(7), Plus(W[r], K[r])))
         /\ t1 = Low(BigSigma0(Reg(0)) + Kernel!Maj(Reg(0), Reg(1), Reg(2)))
<1> DEFINE u == Plus(W[r], K[r])  h == Reg(7)  s == BigSigma1(Reg(4))
           ch == Ch(Reg(4), Reg(5), Reg(6))  maj == Maj(Reg(0), Reg(1), Reg(2))
<1>1. \A j \in Role : Reg(j) \in Word
  BY PlaceType DEF TypeOK, Reg
<1>2. u \in Word /\ Plus(K[r], W[r]) = u
  <2>1. r \in 0 .. 63 /\ K[r] \in Word
    <3>1. r \in 0 .. 63
      BY DEF TypeOK
    <3> QED BY <3>1, TableFacts DEF Round
  <2>2. W[r] \in Word
    <3>1. Written = 64 /\ W \in [0 .. (Written - 1) -> Word]
      BY DEF TypeOK, Written
    <3> QED BY <2>1, <3>1
  <2> QED BY <2>1, <2>2, SumsOfWords, PlusCommutes
<1>3. /\ h \in Word /\ Reg(0) \in Word /\ Reg(1) \in Word /\ Reg(2) \in Word
      /\ Reg(4) \in Word /\ Reg(5) \in Word /\ Reg(6) \in Word
  BY <1>1 DEF Role
<1>4. s \in Word /\ BigSigma0(Reg(0)) \in Word
  BY <1>3, SigmaAssumption
<1>5. ch \in Word /\ ch = Kernel!Ch(Reg(4), Reg(5), Reg(6))
  BY <1>3, ChForms
<1>6. maj \in Word /\ maj = Kernel!Maj(Reg(0), Reg(1), Reg(2))
  BY <1>3, MajForms
<1>7. t0 = Plus(Plus(Plus(h, s), ch), u) /\ t1 = Plus(BigSigma0(Reg(0)), maj)
  BY DEF t0, t1
<1> HIDE DEF u, h, s, ch, maj
<1>8. Plus(h, s) \in Word /\ Plus(s, ch) \in Word /\ Plus(h, u) \in Word
  BY <1>2, <1>3, <1>4, <1>5, SumsOfWords
<1>9. Plus(Plus(h, s), ch) \in Word
  BY <1>5, <1>8, SumsOfWords
<1>10. t0 \in Word /\ t1 \in Word
  BY <1>2, <1>4, <1>6, <1>7, <1>9, SumsOfWords
<1>11. t0 = Low(s + ch + Plus(h, u))
  <2>1. Low(s + ch + Plus(h, u)) = Plus(Plus(s, ch), Plus(h, u))
    BY <1>4, <1>5, <1>8, LowOfThree
  <2>2. Plus(Plus(s, ch), Plus(h, u)) = Plus(Plus(Plus(s, ch), h), u)
    BY <1>2, <1>3, <1>8, PlusAssociates
  <2>3. Plus(Plus(s, ch), h) = Plus(h, Plus(s, ch))
    BY <1>3, <1>8, PlusCommutes
  <2>4. Plus(h, Plus(s, ch)) = Plus(Plus(h, s), ch)
    BY <1>3, <1>4, <1>5, PlusAssociates
  <2> QED BY <1>7, <2>1, <2>2, <2>3, <2>4
<1>12. t1 = Low(BigSigma0(Reg(0)) + maj)
  BY <1>7 DEF Plus
<1> QED BY <1>1, <1>2, <1>5, <1>6, <1>10, <1>11, <1>12 DEF u, h, s, ch, maj

\* A round writes the places of d and h.
LEMMA MixWrites ==
  ASSUME TypeOK, Mix
  PROVE  /\ S' \in [Role -> Word]
         /\ \A k \in Role : S'[k] = IF k = Place(7, r) THEN Plus(t0, t1)
                                    ELSE IF k = Place(3, r) THEN Plus(Reg(3), t0) ELSE S[k]
<1>1. r \in 0 .. 63 /\ r < 64 /\ S \in [Role -> Word]
  BY DEF Mix, TypeOK
<1>2. Place(3, r) \in Role /\ Place(7, r) \in Role /\ Place(3, r) # Place(7, r)
  BY <1>1 DEF Place, Role
<1>3. Plus(t0, t1) \in Word /\ Plus(Reg(3), t0) \in Word
  BY <1>1, RoundWords, SumsOfWords DEF Role, Mix
<1>4. S' = [S EXCEPT ![Place(3, r)] = Plus(Reg(3), t0), ![Place(7, r)] = Plus(t0, t1)]
  BY <1>1, <1>2 DEF Mix, Reg
<1> QED BY <1>1, <1>2, <1>3, <1>4

LEMMA TypeStep == TypeOK /\ [Next]_vars => TypeOK'
<1> SUFFICES ASSUME TypeOK, [Next]_vars PROVE TypeOK'
  OBVIOUS
<1>1. CASE ExtendFirst
  <2>1. Written = i /\ Written < 64 /\ Written' = i + 1
    BY <1>1 DEF ExtendFirst, TypeOK, Written
  <2>2. W' \in [0 .. Written -> Word]
    <3>1. i \in 16 .. Written
      BY <2>1 DEF TypeOK
    <3> QED BY <1>1, <2>1, <3>1, ScheduledWord, ExtendedType DEF ExtendFirst
  <2> QED BY <1>1, <2>1, <2>2 DEF ExtendFirst, TypeOK, Written
<1>2. CASE ExtendSecond
  <2>1. Written = i + 1 /\ Written < 64 /\ Written' = i + 2 /\ i + 2 \in 16 .. 64 /\ (i + 2) % 2 = 0
    BY <1>2 DEF ExtendSecond, TypeOK, Written
  <2>2. /\ (i + 1) - 2 = i - 1 /\ (i + 1) - 7 = i - 6 /\ (i + 1) - 15 = i - 14 /\ (i + 1) - 16 = i - 15
        /\ i + 1 \in 16 .. Written
    BY <2>1 DEF TypeOK
  <2>3. W' \in [0 .. Written -> Word]
    BY <1>2, <2>1, <2>2, ScheduledWord, ExtendedType DEF ExtendSecond
  <2>4. W' \in [0 .. (Written' - 1) -> Word]
    <3>1. Written' - 1 = Written
      BY <2>1 DEF TypeOK
    <3> QED BY <2>3, <3>1
  <2> QED BY <1>2, <2>1, <2>4 DEF ExtendSecond, TypeOK
<1>3. CASE Initialize
  BY <1>3 DEF Initialize, TypeOK, Written
<1>4. CASE Mix
  BY <1>4, MixWrites DEF Mix, TypeOK, Written
<1>5. CASE Accumulate
  <2>1. \A k \in Role : Plus(state[k], S[k]) \in Word
    BY SumsOfWords DEF TypeOK
  <2> QED BY <1>5, <2>1 DEF Accumulate, TypeOK, Written
<1>6. CASE UNCHANGED vars
  BY <1>6 DEF vars, TypeOK, Written
<1> QED BY <1>1, <1>2, <1>3, <1>4, <1>5, <1>6 DEF Next

\* Every variable of sha256_transform keeps its type, and no register is
\* written before the schedule is complete.
THEOREM HostTypeCorrect == Spec => []TypeOK
BY TypeInit, TypeStep, PTL DEF Spec

-----------------------------------------------------------------------------
\* The refinement.

\* The operators of words are the kernel's own.
LEMMA KernelWords ==
  /\ Kernel!Role = Role
  /\ \A u, y : Kernel!Plus(u, y) = Plus(u, y)
  /\ \A u : Kernel!Low(u) = Low(u)
BY DEF Kernel!Role, Role, Kernel!Plus, Kernel!Low, Plus, Low

LEMMA RefineInit == Init => Kernel!Init
<1> SUFFICES ASSUME Init PROVE Kernel!Init
  OBVIOUS
<1>1. Turned = state
  BY InputsAssumption DEF Init, Turned
<1> QED BY <1>1 DEF Init, Kernel!Init, Written

\* The kernel's sum for the schedule is the host's, bracketed in pairs.
LEMMA ScheduleForms ==
  ASSUME NEW a \in Word, NEW b \in Word, NEW c \in Word, NEW d \in Word
  PROVE  Plus(Plus(Plus(a, b), c), d) = Plus(Plus(a, b), Plus(c, d))
<1>1. Plus(a, b) \in Word
  BY SumsOfWords
<1> QED BY <1>1, PlusAssociates

\* A statement of the host's schedule is a step of the kernel's.
LEMMA ExtendRefines ==
  ASSUME TypeOK, pc = "schedule", Written < 64,
         NEW k, k = Written,
         W' = Extended(Plus(Plus(Plus(SmallSigma1(W[k - 2]), W[k - 7]), SmallSigma0(W[k - 15])), W[k - 16])),
         Written' = k + 1, pc' = pc, UNCHANGED <<state, Turned, r>>
  PROVE  Kernel!Schedule
<1>1. k \in 16 .. Written
  BY DEF TypeOK, Written
<1>2. Plus(Plus(Plus(SmallSigma1(W[k - 2]), W[k - 7]), SmallSigma0(W[k - 15])), W[k - 16])
        = Plus(Plus(SmallSigma1(W[k - 2]), W[k - 7]), Plus(SmallSigma0(W[k - 15]), W[k - 16]))
  BY <1>1, ScheduledWord, ScheduleForms
<1>3. W' = [j \in 0 .. k |-> IF j < k THEN W[j]
             ELSE Plus(Plus(SmallSigma1(W[k - 2]), W[k - 7]), Plus(SmallSigma0(W[k - 15]), W[k - 16]))]
  BY <1>2 DEF Extended
<1> QED BY <1>3, KernelWords DEF Kernel!Schedule

\* Before the rounds and after them every variable is in its first place.
LEMMA HomePlaces ==
  ASSUME NEW j \in Role
  PROVE  Place(j, 0) = j /\ Place(j, 64) = j
BY DEF Place, Role

\* A round moves every place one role on.
LEMMA NextPlaces ==
  ASSUME NEW k \in 0 .. 63
  PROVE  /\ Place(0, k + 1) = Place(7, k)
         /\ \A j \in 1 .. 7 : Place(j, k + 1) = Place(j - 1, k)
         /\ \A j \in {0, 1, 2, 4, 5, 6} : Place(j, k) # Place(3, k) /\ Place(j, k) # Place(7, k)
         /\ Place(3, k) # Place(7, k)
BY DEF Place

\* What a round of the host does to the kernel's working variables.
LEMMA MixRefines ==
  ASSUME TypeOK, Mix
  PROVE  Kernel!DoRound
<1>1. r \in 0 .. 63 /\ r' = r + 1 /\ pc = "mix" /\ UNCHANGED <<pc, W, i, second, state>>
  BY DEF Mix, TypeOK
<1>2. /\ \A j \in 0 .. 6 : Turned[j] = Reg(j)
      /\ Turned[7] = Plus(Reg(7), Plus(W[r], K[r]))
  BY <1>1, RoundWords DEF Turned, Role
<1>3. Kernel!t1 = t0 /\ Kernel!t2 = t1
  BY <1>1, <1>2, RoundWords, KernelWords DEF Kernel!t1, Kernel!t2
<1>4. \A j \in Role : Reg(j)' = S'[Place(j, r + 1)]
  BY <1>1 DEF Reg, Place
<1>5. Reg(0)' = Plus(t0, t1)
  BY <1>1, <1>4, MixWrites, NextPlaces, PlaceType DEF Role
<1>6. Reg(4)' = Plus(t0, Reg(3))
  <2>1. Reg(4)' = S'[Place(3, r)]
    BY <1>1, <1>4, NextPlaces DEF Role
  <2>2. @ = Plus(Reg(3), t0)
    BY <1>1, MixWrites, NextPlaces, PlaceType DEF Role
  <2>3. Reg(3) \in Word /\ t0 \in Word
    BY <1>1, RoundWords DEF Role
  <2> QED BY <2>1, <2>2, <2>3, PlusCommutes
<1>7. ASSUME NEW j \in {1, 2, 3, 5, 6, 7}
      PROVE  Reg(j)' = Reg(j - 1)
  <2>1. j - 1 \in {0, 1, 2, 4, 5, 6} /\ j \in 1 .. 7 /\ j \in Role /\ j - 1 \in Role
    BY DEF Role
  <2>2. Reg(j)' = S'[Place(j - 1, r)]
    BY <1>1, <1>4, <2>1, NextPlaces
  <2>3. @ = S[Place(j - 1, r)]
    <3> DEFINE p == Place(j - 1, r)
    <3>1. p \in Role
      BY <1>1, <2>1, PlaceType
    <3>2. p # Place(3, r) /\ p # Place(7, r)
      BY <1>1, <2>1, NextPlaces
    <3> HIDE DEF p
    <3>3. S'[p] = S[p]
      BY <3>1, <3>2, MixWrites
    <3> QED BY <3>3 DEF p
  <2> QED BY <2>2, <2>3 DEF Reg
<1>8. Turned' = [j \in Role |->
                   CASE j = 0 -> Plus(t0, t1)
                     [] j = 4 -> Plus(t0, Turned[3])
                     [] j = 7 -> IF r < 63 THEN Plus(Turned[6], Plus(K[r + 1], W[r + 1])) ELSE Turned[6]
                     [] OTHER -> Turned[j - 1]]
  <2>1. Turned' = [j \in Role |-> IF j = 7 /\ r + 1 < 64 THEN Plus(Reg(7)', Plus(K[r + 1], W[r + 1]))
                                                         ELSE Reg(j)']
    BY <1>1 DEF Turned
  <2>2. \A j \in Role : j \in {0, 4, 7} \/ (j \in {1, 2, 3, 5, 6} /\ Turned[j - 1] = Reg(j - 1))
    BY <1>2 DEF Role
  <2> QED BY <1>1, <1>2, <1>5, <1>6, <1>7, <2>1, <2>2
<1>9. Written' = Written
  BY <1>1 DEF Written
<1> QED BY <1>1, <1>3, <1>8, <1>9, KernelWords DEF Kernel!DoRound, Kernel!wk

LEMMA RefineStep == TypeOK /\ [Next]_vars => [Kernel!Next]_(Kernel!vars)
<1> SUFFICES ASSUME TypeOK, [Next]_vars PROVE [Kernel!Next]_(Kernel!vars)
  OBVIOUS
<1>1. CASE ExtendFirst
  <2>1. Written = i /\ Written' = i + 1
    BY <1>1 DEF ExtendFirst, Written
  <2>2. pc = "schedule" /\ UNCHANGED <<pc, state, Turned, r>>
    BY <1>1 DEF ExtendFirst, Turned, Reg
  <2>3. Kernel!Schedule
    BY <1>1, <2>1, <2>2, ExtendRefines DEF ExtendFirst
  <2> QED BY <2>3 DEF Kernel!Next
<1>2. CASE ExtendSecond
  <2>1. Written = i + 1 /\ Written' = Written + 1 /\ Written < 64
    BY <1>2 DEF ExtendSecond, Written, TypeOK
  <2>2. pc = "schedule" /\ UNCHANGED <<pc, state, Turned, r>>
    BY <1>2 DEF ExtendSecond, Turned, Reg
  <2>3. Written - 2 = i - 1 /\ Written - 7 = i - 6 /\ Written - 15 = i - 14 /\ Written - 16 = i - 15
    BY <2>1 DEF TypeOK
  <2>4. Kernel!Schedule
    BY <1>2, <2>1, <2>2, <2>3, ExtendRefines DEF ExtendSecond
  <2> QED BY <2>4 DEF Kernel!Next
<1>3. CASE Initialize
  <2>1. /\ pc = "schedule" /\ i = 64 /\ pc' = "mix" /\ S' = state /\ r = 0 /\ r' = 0
        /\ UNCHANGED <<W, i, second, state, r>> /\ Written = 64 /\ Written' = 64
    BY <1>3 DEF Initialize, TypeOK, Written
  <2>2. \A j \in Role : Reg(j)' = state[j] /\ Turned[j] = state[j]
    BY <2>1, HomePlaces DEF Reg, Turned, Place
  <2>3. Turned' = [state EXCEPT ![7] = Plus(state[7], Plus(K[0], W[0]))]
    <3>1. Turned' = [j \in Role |-> IF j = 7 /\ 0 < 64 THEN Plus(Reg(7)', Plus(K[0], W[0])) ELSE Reg(j)']
      BY <2>1 DEF Turned
    <3>2. 7 \in Role /\ Reg(7)' = state[7] /\ state = [j \in Role |-> state[j]]
      BY <2>2 DEF Role, TypeOK
    <3>3. Turned' = [j \in Role |-> IF j = 7 THEN Plus(state[7], Plus(K[0], W[0])) ELSE state[j]]
      BY <2>2, <3>1, <3>2
    <3> QED BY <3>2, <3>3
  <2>4. Kernel!Start
    BY <2>1, <2>3, KernelWords DEF Kernel!Start, Kernel!wk
  <2> QED BY <2>4 DEF Kernel!Next
<1>4. CASE Mix
  BY <1>4, MixRefines DEF Kernel!Next
<1>5. CASE Accumulate
  <2>1. /\ pc = "mix" /\ pc' = "done" /\ r = 64 /\ UNCHANGED <<W, i, second, S, r>>
        /\ state' = [k \in Role |-> Plus(state[k], S[k])]
    BY <1>5 DEF Accumulate
  <2>2. \A j \in Role : Turned[j] = S[j]
    BY <2>1, HomePlaces DEF Turned, Reg
  <2>3. Turned' = Turned /\ Written' = Written
    BY <2>1 DEF Turned, Reg, Written
  <2>4. \A j \in Role : Plus(state[j], S[j]) = Plus(Turned[j], state[j])
    BY <2>2, PlusCommutes DEF TypeOK
  <2>5. Kernel!Finish
    BY <2>1, <2>3, <2>4, KernelWords DEF Kernel!Finish
  <2> QED BY <2>5 DEF Kernel!Next
<1>6. CASE UNCHANGED vars
  BY <1>6 DEF vars, Kernel!vars, Turned, Reg, Written
<1> QED BY <1>1, <1>2, <1>3, <1>4, <1>5, <1>6 DEF Next

\* The host implements the kernel's schedule of rounds.
THEOREM HostImplementsKernel == Spec => SameAsKernel
<1>1. Init => Kernel!Init
  BY RefineInit
<1>2. TypeOK /\ [Next]_vars => [Kernel!Next]_(Kernel!vars)
  BY RefineStep
<1> QED BY <1>1, <1>2, HostTypeCorrect, PTL DEF Spec, SameAsKernel, Kernel!Spec

-----------------------------------------------------------------------------
(***************************************************************************)
(* Salsa20/8: in a group of four statements none reads a word that an      *)
(* earlier one of the group has written, so that four one after another    *)
(* are the kernel's four at once.                                          *)
(***************************************************************************)

\* The rotations that salsa20/8 uses.
Turns == {7, 9, 13, 18}

SalsaTypeOK ==
  /\ B \in [Column -> Word]
  /\ Bx \in [Column -> Word]
  /\ x \in [Column -> Word]
  /\ stmt \in -1 .. 129

-----------------------------------------------------------------------------
\* One statement, and four of them.

LEMMA XorLemma == \A v, w \in Word : Xor(v, w) \in Word
BY BitsAssumption, Zenon

LEMMA SalsaPlusLemma == \A v, w \in Word : Plus(v, w) \in Word
<1>1. Modulus \in Nat \ {0}
  BY WordsAssumption
<1> QED BY <1>1 DEF Plus, Low, Word

LEMMA RotlLemma == \A w \in Word : \A by \in Turns : Rotl(w, by) \in Word
BY SalsaAssumption, Zenon DEF Turns

\* A statement <<d, a, b, by>> changes word d, to a function of words before it.
Operations == Column \X Column \X Column \X Turns
NewWord(words, s) == Xor(words[s[1]], Rotl(Plus(words[s[2]], words[s[3]]), s[4]))

LEMMA StatementLemma ==
  ASSUME NEW words \in [Column -> Word], NEW s \in Operations
  PROVE  /\ AfterStatement(words, s) \in [Column -> Word]
         /\ \A c \in Column :
              AfterStatement(words, s)[c] = IF c = s[1] THEN NewWord(words, s) ELSE words[c]
<1>1. s[1] \in Column /\ s[2] \in Column /\ s[3] \in Column /\ s[4] \in Turns
  BY DEF Operations
<1>2. NewWord(words, s) \in Word
  BY <1>1, XorLemma, SalsaPlusLemma, RotlLemma DEF NewWord
<1>3. AfterStatement(words, s) = [words EXCEPT ![s[1]] = NewWord(words, s)]
  BY <1>1 DEF AfterStatement, NewWord
<1> QED BY <1>1, <1>2, <1>3

\* What a statement computes depends on the three words it reads.
LEMMA NewWordLemma ==
  ASSUME NEW v \in [Column -> Word], NEW w \in [Column -> Word], NEW s \in Operations,
         v[s[1]] = w[s[1]], v[s[2]] = w[s[2]], v[s[3]] = w[s[3]]
  PROVE  NewWord(v, s) = NewWord(w, s)
BY DEF NewWord

\* Four statements with one rotation, none of which touches a word that an
\* earlier one has written, are the kernel's four at once.
FourOf(words, s1, s2, s3, s4) ==
  AfterStatement(AfterStatement(AfterStatement(AfterStatement(words, s1), s2), s3), s4)
Apart(s, t) == s[1] \notin {t[1], t[2], t[3]}
GroupOf(s1, s2, s3, s4) ==
  SalsaOnKernel!Group(s1[4], <<s1[1], s1[2], s1[3]>>, <<s2[1], s2[2], s2[3]>>,
                             <<s3[1], s3[2], s3[3]>>, <<s4[1], s4[2], s4[3]>>)

LEMMA FourAtOnce ==
  ASSUME NEW words \in [Column -> Word],
         NEW s1 \in Operations, NEW s2 \in Operations, NEW s3 \in Operations, NEW s4 \in Operations,
         Apart(s1, s2), Apart(s1, s3), Apart(s1, s4),
         Apart(s2, s3), Apart(s2, s4), Apart(s3, s4),
         s2[4] = s1[4], s3[4] = s1[4], s4[4] = s1[4]
  PROVE  /\ FourOf(words, s1, s2, s3, s4) \in [Column -> Word]
         /\ FourOf(words, s1, s2, s3, s4) = SalsaOnKernel!AfterGroup(words, GroupOf(s1, s2, s3, s4))
<1> DEFINE g == GroupOf(s1, s2, s3, s4)
           x1 == AfterStatement(words, s1)
           x2 == AfterStatement(x1, s2)
           x3 == AfterStatement(x2, s3)
           x4 == AfterStatement(x3, s4)
<1>0. \A s \in {s1, s2, s3, s4} : s[1] \in Column /\ s[2] \in Column /\ s[3] \in Column
  BY DEF Operations
<1>1. /\ x1 \in [Column -> Word]
      /\ \A c \in Column : x1[c] = IF c = s1[1] THEN NewWord(words, s1) ELSE words[c]
  BY StatementLemma
<1>2. /\ x2 \in [Column -> Word]
      /\ \A c \in Column : x2[c] = IF c = s2[1] THEN NewWord(words, s2) ELSE x1[c]
  <2> HIDE DEF x1
  <2>1. /\ x2 \in [Column -> Word]
        /\ \A c \in Column : x2[c] = IF c = s2[1] THEN NewWord(x1, s2) ELSE x1[c]
    BY <1>1, StatementLemma
  <2>2. NewWord(x1, s2) = NewWord(words, s2)
    BY <1>0, <1>1, NewWordLemma DEF Apart
  <2> QED BY <2>1, <2>2
<1>3. /\ x3 \in [Column -> Word]
      /\ \A c \in Column : x3[c] = IF c = s3[1] THEN NewWord(words, s3) ELSE x2[c]
  <2> HIDE DEF x1, x2
  <2>1. /\ x3 \in [Column -> Word]
        /\ \A c \in Column : x3[c] = IF c = s3[1] THEN NewWord(x2, s3) ELSE x2[c]
    BY <1>2, StatementLemma
  <2>2. NewWord(x2, s3) = NewWord(words, s3)
    BY <1>0, <1>1, <1>2, NewWordLemma DEF Apart
  <2> QED BY <2>1, <2>2
<1>4. /\ x4 \in [Column -> Word]
      /\ \A c \in Column : x4[c] = IF c = s4[1] THEN NewWord(words, s4) ELSE x3[c]
  <2> HIDE DEF x1, x2, x3
  <2>1. /\ x4 \in [Column -> Word]
        /\ \A c \in Column : x4[c] = IF c = s4[1] THEN NewWord(x3, s4) ELSE x3[c]
    BY <1>3, StatementLemma
  <2>2. NewWord(x3, s4) = NewWord(words, s4)
    BY <1>0, <1>1, <1>2, <1>3, NewWordLemma DEF Apart
  <2> QED BY <2>1, <2>2
<1> HIDE DEF x1, x2, x3, x4
<1>5. g.by = s1[4] /\ g.quads = << <<s1[1], s1[2], s1[3]>>, <<s2[1], s2[2], s2[3]>>,
                                   <<s3[1], s3[2], s3[3]>>, <<s4[1], s4[2], s4[3]>> >>
  BY DEF SalsaOnKernel!Group, GroupOf
<1> HIDE DEF g
<1>6. /\ Xor(words[s1[1]], SalsaOnKernel!Rotated(words, g, 1)) = NewWord(words, s1)
      /\ Xor(words[s2[1]], SalsaOnKernel!Rotated(words, g, 2)) = NewWord(words, s2)
      /\ Xor(words[s3[1]], SalsaOnKernel!Rotated(words, g, 3)) = NewWord(words, s3)
      /\ Xor(words[s4[1]], SalsaOnKernel!Rotated(words, g, 4)) = NewWord(words, s4)
  BY <1>5 DEF NewWord, SalsaOnKernel!Rotated, SalsaOnKernel!Plus, SalsaOnKernel!Low, Plus, Low
<1>7. g.quads[1][1] = s1[1] /\ g.quads[2][1] = s2[1] /\ g.quads[3][1] = s3[1] /\ g.quads[4][1] = s4[1]
  BY <1>5
<1>8. ASSUME NEW c \in Column, NEW p \in 1 .. 4, g.quads[p][1] = c
      PROVE  (CHOOSE q \in 1 .. 4 : g.quads[q][1] = c) = p
  <2>1. \A q \in 1 .. 4 : g.quads[q][1] = c => q = p
    BY <1>7, <1>8 DEF Apart
  <2> QED BY <2>1, <1>8
<1> DEFINE y == SalsaOnKernel!AfterGroup(words, g)
<1>9. y = [c \in Column |-> y[c]]
  BY DEF SalsaOnKernel!AfterGroup, SalsaOnKernel!Column, Column
<1>10. \A c \in Column : y[c] =
         IF \E q \in 1 .. 4 : g.quads[q][1] = c
         THEN Xor(words[c], SalsaOnKernel!Rotated(words, g, CHOOSE q \in 1 .. 4 : g.quads[q][1] = c))
         ELSE words[c]
  BY DEF SalsaOnKernel!AfterGroup, SalsaOnKernel!Column, Column
<1> HIDE DEF y
<1>11. ASSUME NEW c \in Column PROVE x4[c] = y[c]
  <2>1. CASE c = s1[1]
    <3>1. g.quads[1][1] = c
      BY <1>7, <2>1
    <3>2. (CHOOSE q \in 1 .. 4 : g.quads[q][1] = c) = 1
      BY <1>8, <3>1
    <3>3. y[c] = NewWord(words, s1)
      BY <1>6, <1>10, <2>1, <3>1, <3>2
    <3>4. x4[c] = NewWord(words, s1)
      BY <1>1, <1>2, <1>3, <1>4, <2>1 DEF Apart
    <3> QED BY <3>3, <3>4
  <2>2. CASE c = s2[1]
    <3>1. g.quads[2][1] = c
      BY <1>7, <2>2
    <3>2. (CHOOSE q \in 1 .. 4 : g.quads[q][1] = c) = 2
      BY <1>8, <3>1
    <3>3. y[c] = NewWord(words, s2)
      BY <1>6, <1>10, <2>2, <3>1, <3>2
    <3>4. x4[c] = NewWord(words, s2)
      BY <1>1, <1>2, <1>3, <1>4, <2>2 DEF Apart
    <3> QED BY <3>3, <3>4
  <2>3. CASE c = s3[1]
    <3>1. g.quads[3][1] = c
      BY <1>7, <2>3
    <3>2. (CHOOSE q \in 1 .. 4 : g.quads[q][1] = c) = 3
      BY <1>8, <3>1
    <3>3. y[c] = NewWord(words, s3)
      BY <1>6, <1>10, <2>3, <3>1, <3>2
    <3>4. x4[c] = NewWord(words, s3)
      BY <1>1, <1>2, <1>3, <1>4, <2>3 DEF Apart
    <3> QED BY <3>3, <3>4
  <2>4. CASE c = s4[1]
    <3>1. g.quads[4][1] = c
      BY <1>7, <2>4
    <3>2. (CHOOSE q \in 1 .. 4 : g.quads[q][1] = c) = 4
      BY <1>8, <3>1
    <3>3. y[c] = NewWord(words, s4)
      BY <1>6, <1>10, <2>4, <3>1, <3>2
    <3>4. x4[c] = NewWord(words, s4)
      BY <1>1, <1>2, <1>3, <1>4, <2>4 DEF Apart
    <3> QED BY <3>3, <3>4
  <2>5. CASE c \notin {s1[1], s2[1], s3[1], s4[1]}
    <3>1. ~ \E q \in 1 .. 4 : g.quads[q][1] = c
      BY <1>7, <2>5
    <3>2. y[c] = words[c]
      BY <1>10, <3>1, Zenon
    <3>3. x4[c] = words[c]
      BY <1>1, <1>2, <1>3, <1>4, <2>5
    <3> QED BY <3>2, <3>3
  <2> QED BY <2>1, <2>2, <2>3, <2>4, <2>5
<1>12. x4 = [c \in Column |-> x4[c]]
  BY <1>4
<1>13. x4 = y
  BY <1>9, <1>11, <1>12
<1> QED BY <1>4, <1>13 DEF FourOf, x1, x2, x3, x4, y, g

-----------------------------------------------------------------------------
\* The tables.

\* The four statements of a group: none touches what an earlier one has written,
\* they have one rotation, and they are the kernel's group.
GroupFacts(s1, s2, s3, s4, g) ==
  /\ s1 \in Operations /\ s2 \in Operations /\ s3 \in Operations /\ s4 \in Operations
  /\ Apart(s1, s2) /\ Apart(s1, s3) /\ Apart(s1, s4)
  /\ Apart(s2, s3) /\ Apart(s2, s4) /\ Apart(s3, s4)
  /\ s2[4] = s1[4] /\ s3[4] = s1[4] /\ s4[4] = s1[4]
  /\ GroupOf(s1, s2, s3, s4) = g

LEMMA TablesAgree ==
  /\ GroupFacts(Columns[1], Columns[2], Columns[3], Columns[4], SalsaOnKernel!Groups[1])
  /\ GroupFacts(Columns[5], Columns[6], Columns[7], Columns[8], SalsaOnKernel!Groups[2])
  /\ GroupFacts(Columns[9], Columns[10], Columns[11], Columns[12], SalsaOnKernel!Groups[3])
  /\ GroupFacts(Columns[13], Columns[14], Columns[15], Columns[16], SalsaOnKernel!Groups[4])
  /\ GroupFacts(Rows[1], Rows[2], Rows[3], Rows[4], SalsaOnKernel!Groups[5])
  /\ GroupFacts(Rows[5], Rows[6], Rows[7], Rows[8], SalsaOnKernel!Groups[6])
  /\ GroupFacts(Rows[9], Rows[10], Rows[11], Rows[12], SalsaOnKernel!Groups[7])
  /\ GroupFacts(Rows[13], Rows[14], Rows[15], Rows[16], SalsaOnKernel!Groups[8])
<1>1. GroupFacts(Columns[1], Columns[2], Columns[3], Columns[4], SalsaOnKernel!Groups[1])
  BY DEF GroupFacts, Columns, Operations, Column, Turns, Apart, GroupOf, SalsaOnKernel!Groups, SalsaOnKernel!Group
<1>2. GroupFacts(Columns[5], Columns[6], Columns[7], Columns[8], SalsaOnKernel!Groups[2])
  BY DEF GroupFacts, Columns, Operations, Column, Turns, Apart, GroupOf, SalsaOnKernel!Groups, SalsaOnKernel!Group
<1>3. GroupFacts(Columns[9], Columns[10], Columns[11], Columns[12], SalsaOnKernel!Groups[3])
  BY DEF GroupFacts, Columns, Operations, Column, Turns, Apart, GroupOf, SalsaOnKernel!Groups, SalsaOnKernel!Group
<1>4. GroupFacts(Columns[13], Columns[14], Columns[15], Columns[16], SalsaOnKernel!Groups[4])
  BY DEF GroupFacts, Columns, Operations, Column, Turns, Apart, GroupOf, SalsaOnKernel!Groups, SalsaOnKernel!Group
<1>5. GroupFacts(Rows[1], Rows[2], Rows[3], Rows[4], SalsaOnKernel!Groups[5])
  BY DEF GroupFacts, Rows, Operations, Column, Turns, Apart, GroupOf, SalsaOnKernel!Groups, SalsaOnKernel!Group
<1>6. GroupFacts(Rows[5], Rows[6], Rows[7], Rows[8], SalsaOnKernel!Groups[6])
  BY DEF GroupFacts, Rows, Operations, Column, Turns, Apart, GroupOf, SalsaOnKernel!Groups, SalsaOnKernel!Group
<1>7. GroupFacts(Rows[9], Rows[10], Rows[11], Rows[12], SalsaOnKernel!Groups[7])
  BY DEF GroupFacts, Rows, Operations, Column, Turns, Apart, GroupOf, SalsaOnKernel!Groups, SalsaOnKernel!Group
<1>8. GroupFacts(Rows[13], Rows[14], Rows[15], Rows[16], SalsaOnKernel!Groups[8])
  BY DEF GroupFacts, Rows, Operations, Column, Turns, Apart, GroupOf, SalsaOnKernel!Groups, SalsaOnKernel!Group
<1> QED BY <1>1, <1>2, <1>3, <1>4, <1>5, <1>6, <1>7, <1>8

\* A group of the host, wherever it starts, is the kernel's.
LEMMA GroupLemma ==
  ASSUME NEW words \in [Column -> Word], NEW n \in 0 .. 127, n % 4 = 0
  PROVE  LET all == FourOf(words, Statement(n), Statement(n + 1), Statement(n + 2), Statement(n + 3))
         IN /\ all \in [Column -> Word]
            /\ all = SalsaOnKernel!AfterGroup(words, SalsaOnKernel!Groups[((n \div 4) % 8) + 1])
<1> DEFINE g == SalsaOnKernel!Groups[((n \div 4) % 8) + 1]
<1>1. ASSUME GroupFacts(Statement(n), Statement(n + 1), Statement(n + 2), Statement(n + 3), g)
      PROVE  LET all == FourOf(words, Statement(n), Statement(n + 1), Statement(n + 2), Statement(n + 3))
             IN all \in [Column -> Word] /\ all = SalsaOnKernel!AfterGroup(words, g)
  <2> HIDE DEF g
  <2> QED BY <1>1, FourAtOnce DEF GroupFacts
<1>2. n % 32 \in {0, 4, 8, 12, 16, 20, 24, 28}
  OBVIOUS
<1>3. /\ (n + 1) % 32 = (n % 32) + 1 /\ (n + 2) % 32 = (n % 32) + 2 /\ (n + 3) % 32 = (n % 32) + 3
      /\ (n \div 4) % 8 = (n % 32) \div 4
  OBVIOUS
<1>4. CASE n % 32 = 0
  <2>1. /\ Statement(n) = Columns[1] /\ Statement(n + 1) = Columns[2]
        /\ Statement(n + 2) = Columns[3] /\ Statement(n + 3) = Columns[4]
    BY <1>3, <1>4 DEF Statement
  <2>2. g = SalsaOnKernel!Groups[1]
    BY <1>3, <1>4
  <2> QED BY <1>1, <2>1, <2>2, TablesAgree
<1>5. CASE n % 32 = 4
  <2>1. /\ Statement(n) = Columns[5] /\ Statement(n + 1) = Columns[6]
        /\ Statement(n + 2) = Columns[7] /\ Statement(n + 3) = Columns[8]
    BY <1>3, <1>5 DEF Statement
  <2>2. g = SalsaOnKernel!Groups[2]
    BY <1>3, <1>5
  <2> QED BY <1>1, <2>1, <2>2, TablesAgree
<1>6. CASE n % 32 = 8
  <2>1. /\ Statement(n) = Columns[9] /\ Statement(n + 1) = Columns[10]
        /\ Statement(n + 2) = Columns[11] /\ Statement(n + 3) = Columns[12]
    BY <1>3, <1>6 DEF Statement
  <2>2. g = SalsaOnKernel!Groups[3]
    BY <1>3, <1>6
  <2> QED BY <1>1, <2>1, <2>2, TablesAgree
<1>7. CASE n % 32 = 12
  <2>1. /\ Statement(n) = Columns[13] /\ Statement(n + 1) = Columns[14]
        /\ Statement(n + 2) = Columns[15] /\ Statement(n + 3) = Columns[16]
    BY <1>3, <1>7 DEF Statement
  <2>2. g = SalsaOnKernel!Groups[4]
    BY <1>3, <1>7
  <2> QED BY <1>1, <2>1, <2>2, TablesAgree
<1>8. CASE n % 32 = 16
  <2>1. /\ Statement(n) = Rows[1] /\ Statement(n + 1) = Rows[2]
        /\ Statement(n + 2) = Rows[3] /\ Statement(n + 3) = Rows[4]
    BY <1>3, <1>8 DEF Statement
  <2>2. g = SalsaOnKernel!Groups[5]
    BY <1>3, <1>8
  <2> QED BY <1>1, <2>1, <2>2, TablesAgree
<1>9. CASE n % 32 = 20
  <2>1. /\ Statement(n) = Rows[5] /\ Statement(n + 1) = Rows[6]
        /\ Statement(n + 2) = Rows[7] /\ Statement(n + 3) = Rows[8]
    BY <1>3, <1>9 DEF Statement
  <2>2. g = SalsaOnKernel!Groups[6]
    BY <1>3, <1>9
  <2> QED BY <1>1, <2>1, <2>2, TablesAgree
<1>10. CASE n % 32 = 24
  <2>1. /\ Statement(n) = Rows[9] /\ Statement(n + 1) = Rows[10]
        /\ Statement(n + 2) = Rows[11] /\ Statement(n + 3) = Rows[12]
    BY <1>3, <1>10 DEF Statement
  <2>2. g = SalsaOnKernel!Groups[7]
    BY <1>3, <1>10
  <2> QED BY <1>1, <2>1, <2>2, TablesAgree
<1>11. CASE n % 32 = 28
  <2>1. /\ Statement(n) = Rows[13] /\ Statement(n + 1) = Rows[14]
        /\ Statement(n + 2) = Rows[15] /\ Statement(n + 3) = Rows[16]
    BY <1>3, <1>11 DEF Statement
  <2>2. g = SalsaOnKernel!Groups[8]
    BY <1>3, <1>11
  <2> QED BY <1>1, <2>1, <2>2, TablesAgree
<1> QED BY <1>2, <1>4, <1>5, <1>6, <1>7, <1>8, <1>9, <1>10, <1>11

\* A single statement keeps the words words.
LEMMA StatementTyped ==
  ASSUME NEW words \in [Column -> Word], NEW n \in 0 .. 127
  PROVE  AfterStatement(words, Statement(n)) \in [Column -> Word]
<1>1. \A j \in 1 .. 16 : Columns[j] \in Operations /\ Rows[j] \in Operations
  <2> TAKE j \in 1 .. 16
  <2>1. j \in {1, 2, 3, 4, 5, 6, 7, 8, 9, 10, 11, 12, 13, 14, 15, 16}
    OBVIOUS
  <2> QED BY <2>1, TablesAgree DEF GroupFacts
<1>2. Statement(n) \in Operations
  <2>1. CASE n % 32 < 16
    <3>1. (n % 32) + 1 \in 1 .. 16
      BY <2>1
    <3> QED BY <1>1, <2>1, <3>1 DEF Statement
  <2>2. CASE ~(n % 32 < 16)
    <3>1. (n % 32) - 15 \in 1 .. 16
      BY <2>2
    <3> QED BY <1>1, <2>2, <3>1 DEF Statement
  <2> QED BY <2>1, <2>2
<1> QED BY <1>2, StatementLemma

-----------------------------------------------------------------------------
\* The types of the host's variables, which hold throughout: the kernel's words
\* are compared with them.
THEOREM SalsaTypeCorrect == SalsaSpec => []SalsaTypeOK
<1>1. SalsaInit => SalsaTypeOK
  <2>1. ASSUME NEW h \in Halves PROVE h \in [Column -> Word]
    BY SalsaAssumption
  <2> QED BY <2>1 DEF SalsaInit, SalsaTypeOK
<1>2. SalsaTypeOK /\ [SalsaNext]_salsaVars => SalsaTypeOK'
  <2> SUFFICES ASSUME SalsaTypeOK, [SalsaNext]_salsaVars PROVE SalsaTypeOK'
    OBVIOUS
  <2> USE DEF SalsaTypeOK
  <2>1. CASE XorInto
    <3>1. \A c \in Column : Xor(B[c], Bx[c]) \in Word
      BY XorLemma
    <3> QED BY <2>1, <3>1 DEF XorInto
  <2>2. CASE Operate
    <3>1. x' \in [Column -> Word]
      BY <2>2, StatementTyped DEF Operate
    <3> QED BY <2>2, <3>1 DEF Operate
  <2>3. CASE AddBack
    <3>1. \A c \in Column : Plus(B[c], x[c]) \in Word
      BY SalsaPlusLemma
    <3> QED BY <2>3, <3>1 DEF AddBack
  <2>4. CASE UNCHANGED salsaVars
    BY <2>4 DEF salsaVars
  <2> QED BY <2>1, <2>2, <2>3, <2>4 DEF SalsaNext
<1> QED BY <1>1, <1>2, PTL DEF SalsaSpec

-----------------------------------------------------------------------------
\* The refinement.

\* The kernel's groups, as the host's statements count them.
KernelGroup == CASE stmt = -1 -> -1 [] stmt = 129 -> 33 [] OTHER -> (stmt + 3) \div 4

LEMMA SalsaKernelWords ==
  /\ SalsaOnKernel!Column = Column
  /\ \A v, w : SalsaOnKernel!Plus(v, w) = Plus(v, w)
BY DEF SalsaOnKernel!Column, Column, SalsaOnKernel!Plus, SalsaOnKernel!Low, Plus, Low

\* Outside of a group the words are the kernel's.
LEMMA NothingLeft ==
  ASSUME stmt \in -1 .. 129, stmt \in 0 .. 127 => stmt % 4 = 0
  PROVE  Completed = x
BY DEF Completed, Left

LEMMA SalsaRefineInit == SalsaInit => SalsaOnKernel!Init
<1> SUFFICES ASSUME SalsaInit PROVE SalsaOnKernel!Init
  OBVIOUS
<1>1. Completed = x
  BY NothingLeft DEF SalsaInit
<1> QED BY <1>1 DEF SalsaInit, SalsaOnKernel!Init

LEMMA RefineXor ==
  ASSUME SalsaTypeOK, XorInto
  PROVE  SalsaOnKernel!Load
<1>1. stmt = -1 /\ stmt' = 0
  BY DEF XorInto
<1>2. Completed' = x'
  BY <1>1 DEF Completed, Left
<1>3. KernelGroup = -1 /\ KernelGroup' = 0
  BY <1>1 DEF KernelGroup
<1> QED BY <1>2, <1>3, SalsaKernelWords DEF XorInto, SalsaOnKernel!Load, KernelGroup

LEMMA RefineAdd ==
  ASSUME SalsaTypeOK, AddBack
  PROVE  SalsaOnKernel!Add
<1>1. stmt = 128 /\ stmt' = 129
  BY DEF AddBack
<1>2. Completed = x /\ Completed' = x'
  BY <1>1 DEF Completed, Left
<1>3. KernelGroup = 32 /\ KernelGroup' = 33
  BY <1>1 DEF KernelGroup
<1> QED BY <1>2, <1>3, SalsaKernelWords DEF AddBack, SalsaOnKernel!Add, KernelGroup

\* The first statement of a group is the kernel's group.
LEMMA RefineFirst ==
  ASSUME SalsaTypeOK, Operate, stmt % 4 = 0
  PROVE  SalsaOnKernel!MixGroup
<1>1. stmt \in 0 .. 127 /\ stmt' = stmt + 1 /\ x' = AfterStatement(x, Statement(stmt))
  BY DEF Operate
<1>2. stmt' \in 0 .. 127 /\ stmt' % 4 = 1
  BY <1>1
<1>3. Completed = x
  BY <1>1, NothingLeft
<1>4. Completed' = FourOf(x, Statement(stmt), Statement(stmt + 1), Statement(stmt + 2), Statement(stmt + 3))
  <2>1. Left' = 3
    <3>1. Left' = (4 - (stmt' % 4)) % 4
      BY <1>2 DEF Left
    <3>2. (4 - 1) % 4 = 3
      OBVIOUS
    <3> QED BY <1>2, <3>1, <3>2
  <2>2. Completed' = AfterStatement(AfterStatement(AfterStatement(x', Statement(stmt')), Statement(stmt' + 1)),
                                    Statement(stmt' + 2))
    BY <2>1 DEF Completed
  <2>3. stmt' = stmt + 1 /\ stmt' + 1 = stmt + 2 /\ stmt' + 2 = stmt + 3
    BY <1>1
  <2> QED BY <1>1, <2>2, <2>3 DEF FourOf
<1>5. Completed' = SalsaOnKernel!AfterGroup(x, SalsaOnKernel!Groups[((stmt \div 4) % 8) + 1])
  BY <1>1, <1>4, GroupLemma DEF SalsaTypeOK
<1>6. KernelGroup = stmt \div 4 /\ KernelGroup \in 0 .. 31 /\ KernelGroup' = KernelGroup + 1
  BY <1>1 DEF KernelGroup
<1>7. B' = B /\ Bx' = Bx
  BY DEF Operate
<1>8. Completed' = SalsaOnKernel!AfterGroup(Completed, SalsaOnKernel!Groups[(KernelGroup % 8) + 1])
  BY <1>3, <1>5, <1>6
<1> QED BY <1>6, <1>7, <1>8 DEF SalsaOnKernel!MixGroup, KernelGroup

\* The others finish what the kernel has done.
LEMMA RefineOther ==
  ASSUME SalsaTypeOK, Operate, stmt % 4 # 0
  PROVE  Completed' = Completed /\ KernelGroup' = KernelGroup /\ UNCHANGED <<B, Bx>>
<1>1. stmt \in 0 .. 127 /\ stmt' = stmt + 1 /\ x' = AfterStatement(x, Statement(stmt)) /\ UNCHANGED <<B, Bx>>
  BY DEF Operate
<1>2. Left = 4 - (stmt % 4) /\ Left' = Left - 1 /\ Left \in 1 .. 3
  BY <1>1 DEF Left
<1>3. KernelGroup' = KernelGroup
  BY <1>1 DEF KernelGroup
<1>4. Statement(stmt') = Statement(stmt + 1) /\ Statement(stmt' + 1) = Statement(stmt + 2)
  BY <1>1
<1>5. CASE Left = 1
  <2>1. Completed = AfterStatement(x, Statement(stmt))
    BY <1>5 DEF Completed
  <2>2. Completed' = x'
    BY <1>2, <1>5 DEF Completed
  <2> QED BY <1>1, <1>3, <2>1, <2>2
<1>6. CASE Left = 2
  <2>1. Completed = AfterStatement(AfterStatement(x, Statement(stmt)), Statement(stmt + 1))
    BY <1>6 DEF Completed
  <2>2. Completed' = AfterStatement(x', Statement(stmt'))
    BY <1>2, <1>6 DEF Completed
  <2> QED BY <1>1, <1>3, <1>4, <2>1, <2>2
<1>7. CASE Left = 3
  <2>1. Completed = AfterStatement(AfterStatement(AfterStatement(x, Statement(stmt)), Statement(stmt + 1)),
                                   Statement(stmt + 2))
    BY <1>7 DEF Completed
  <2>2. Completed' = AfterStatement(AfterStatement(x', Statement(stmt')), Statement(stmt' + 1))
    BY <1>2, <1>7 DEF Completed
  <2> QED BY <1>1, <1>3, <1>4, <2>1, <2>2
<1> QED BY <1>2, <1>5, <1>6, <1>7

LEMMA SalsaRefineStep ==
  SalsaTypeOK /\ [SalsaNext]_salsaVars
  => [SalsaOnKernel!Next]_<<B, Bx, Completed, KernelGroup>>
<1> SUFFICES ASSUME SalsaTypeOK, [SalsaNext]_salsaVars
             PROVE  [SalsaOnKernel!Next]_<<B, Bx, Completed, KernelGroup>>
  OBVIOUS
<1>1. CASE XorInto
  BY <1>1, RefineXor DEF SalsaOnKernel!Next
<1>2. CASE Operate
  BY <1>2, RefineFirst, RefineOther DEF SalsaOnKernel!Next
<1>3. CASE AddBack
  BY <1>3, RefineAdd DEF SalsaOnKernel!Next
<1>4. CASE UNCHANGED salsaVars
  <2>1. UNCHANGED <<B, Bx, x, stmt>>
    BY <1>4 DEF salsaVars
  <2> QED BY <2>1 DEF Completed, Left, KernelGroup
<1> QED BY <1>1, <1>2, <1>3, <1>4 DEF SalsaNext

\* xor_salsa8 of scrypt.c computes what xor_salsa8 of ScryptKernel.maxj does.
THEOREM SalsaImplementsKernel == SalsaSpec => SalsaAsKernel
<1>1. SalsaInit => SalsaOnKernel!Init
  BY SalsaRefineInit
<1>2. SalsaTypeOK /\ [SalsaNext]_salsaVars
      => [SalsaOnKernel!Next]_<<B, Bx, Completed, KernelGroup>>
  BY SalsaRefineStep
<1> QED BY <1>1, <1>2, SalsaTypeCorrect, PTL DEF SalsaSpec, SalsaAsKernel, SalsaOnKernel!Spec, KernelGroup
=============================================================================
