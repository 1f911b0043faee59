-------------------------- MODULE RunHashingProofs --------------------------
(***************************************************************************)
(* The host's hashing is scrypt and double SHA-256, for every width of a   *)
(* word, compression function, salsa core, number of iterations, header    *)
(* and number of headers in a run.                                         *)
(*                                                                         *)
(* First messages: lengths and words of what is concatenated and cut.      *)
(* Then the standards' recursive functions, by induction: SHA-256's chain  *)
(* over the blocks of a padded message, PBKDF2's blocks, scryptROMix's     *)
(* scratchpad and mixing.  The blocks that sha2.c pads by hand are the     *)
(* last blocks of padded messages, so its hashes are HMACs, its two        *)
(* derivations PBKDF2, and what is begun on the host, mixed and finished   *)
(* on the host is scrypt.  The inductive invariant says, at each stage of  *)
(* a run, how far each header has come on that way.                        *)
(***************************************************************************)
EXTENDS RunHashing, WellFoundedInduction, SequenceTheorems, TLAPS

-----------------------------------------------------------------------------
\* Messages.

\* Two messages are equal.  (The provers find an instance of a lemma by its predicate,
\* and not by an equation.)
Same(x, y) == x = y

\* A word, and the constants that are words.
LEMMA WordFacts ==
  /\ Modulus \in Nat \ {0} /\ 0 \in Word /\ TopBit \in Word
  /\ Ipad \in Word /\ Opad \in Word /\ InitialHash \in Words(8)
<1>1. Modulus \in Nat \ {0} /\ Modulus % 2 = 0
  BY WordsAssumption, StandardsAssumption
<1>2. Ipad \in Word /\ Opad \in Word /\ InitialHash \in Words(8)
  BY StandardsAssumption
<1> QED BY <1>1, <1>2 DEF Word, TopBit

\* What is assumed of the library functions, and of the number of iterations.
LEMMA SomeFacts ==
  /\ \A n \in 0 .. 50 : LengthWord(32 * n) \in Word
  /\ \A x \in Word : Swab(x) \in Word
  /\ \A x \in Word : Xor(0, x) = x
  /\ \A x \in Word : And(x, Iterations - 1) = x % Iterations
  /\ \A x, y \in Word : Xor(x, y) \in Word
  /\ Iterations \in Nat \ {0, 1}
<1>1. Iterations \in Nat \ {0, 1}
  BY StandardsAssumption
<1>2. \A n \in 0 .. 50 : LengthWord(32 * n) \in Word
  BY StandardsAssumption
<1>3. \A x \in Word : Swab(x) \in Word
  BY StandardsAssumption
<1>4. \A x, y \in Word : Xor(x, y) \in Word
  BY BitsAssumption, Zenon
<1> QED BY <1>1, <1>2, <1>3, <1>4, MaskAssumption

\* Concatenation, part by part.
LEMMA ConcatLemma ==
  ASSUME NEW m \in Nat, NEW n \in Nat, NEW a \in Words(m), NEW b \in Words(n)
  PROVE  /\ a \o b \in Words(m + n)
         /\ \A i \in 1 .. m : (a \o b)[i] = a[i]
         /\ \A i \in m + 1 .. m + n : (a \o b)[i] = b[i - m]
<1>1. a \in Seq(Word) /\ b \in Seq(Word) /\ Len(a) = m /\ Len(b) = n
  BY DEF Words
<1>2. /\ a \o b \in Seq(Word) /\ Len(a \o b) = m + n
      /\ \A i \in 1 .. m + n : (a \o b)[i] = IF i <= m THEN a[i] ELSE b[i - m]
  <2>1. /\ a \o b \in Seq(Word) /\ Len(a \o b) = Len(a) + Len(b)
        /\ \A i \in 1 .. Len(a) + Len(b) :
             (a \o b)[i] = IF i <= Len(a) THEN a[i] ELSE b[i - Len(a)]
    BY <1>1, ConcatProperties, Zenon
  <2> QED BY <1>1, <2>1, Zenon
<1>3. a \o b \in Words(m + n)
  BY <1>2, LenProperties, Zenon DEF Words
<1> QED BY <1>2, <1>3

\* A part of a message: its length and its words.
LEMMA SubSeqLemma ==
  ASSUME NEW n \in Nat, NEW a \in Words(n), NEW j \in 1 .. n, NEW k \in j .. n,
         NEW c \in Nat, k - j + 1 = c
  PROVE  /\ SubSeq(a, j, k) \in Words(c)
         /\ \A i \in 1 .. c : SubSeq(a, j, k)[i] = a[j + i - 1]
<1>1. a \in Seq(Word) /\ Len(a) = n
  BY DEF Words
<1>2. SubSeq(a, j, k) = [i \in 1 .. c |-> a[j + i - 1]]
  BY <1>1
<1>3. SubSeq(a, j, k) \in Words(c)
  BY <1>2 DEF Words
<1> QED BY <1>2, <1>3

\* A message of one word.
LEMMA OneWord == ASSUME NEW x \in Word PROVE <<x>> \in Words(1) /\ <<x>>[1] = x
BY DEF Words

\* A message of two words.
LEMMA TwoWords ==
  ASSUME NEW x \in Word, NEW y \in Word
  PROVE  <<x, y>> \in Words(2) /\ <<x, y>>[1] = x /\ <<x, y>>[2] = y
BY DEF Words

\* Zeros is a message of zeros.
LEMMA ZerosLemma ==
  ASSUME NEW n \in Nat
  PROVE  Zeros(n) \in Words(n) /\ \A i \in 1 .. n : Zeros(n)[i] = 0
BY WordFacts DEF Zeros, Words

\* Fill is a message of one word repeated.
LEMMA FillLemma ==
  ASSUME NEW n \in Nat, NEW x \in Word
  PROVE  Fill(n, x) \in Words(n) /\ \A i \in 1 .. n : Fill(n, x)[i] = x
BY DEF Fill, Words

\* Two messages are the same if they are word by word.
LEMMA SameWords ==
  ASSUME NEW n \in Nat, NEW a \in Words(n), NEW b \in Words(n),
         \A i \in 1 .. n : a[i] = b[i]
  PROVE  a = b
BY DEF Words

\* Masking and swapping bytes keep the length, and work word by word.
LEMMA MaskedLemma ==
  ASSUME NEW n \in Nat, NEW a \in Words(n), NEW x \in Word
  PROVE  /\ Masked(a, x) \in Words(n) /\ \A i \in 1 .. n : Masked(a, x)[i] = Xor(a[i], x)
         /\ Swabbed(a) \in Words(n) /\ \A i \in 1 .. n : Swabbed(a)[i] = Swab(a[i])
<1>1. DOMAIN a = 1 .. n /\ \A i \in 1 .. n : a[i] \in Word
  BY DEF Words
<1>2. \A i \in 1 .. n : Xor(a[i], x) \in Word /\ Swab(a[i]) \in Word
  BY <1>1, SomeFacts, Zenon
<1> QED BY <1>1, <1>2 DEF Masked, Swabbed, Words

\* Exclusive or keeps the length, and works word by word.
LEMMA XorWordsLemma ==
  ASSUME NEW n \in Nat, NEW a \in Words(n), NEW b \in Words(n)
  PROVE  XorWords(a, b) \in Words(n) /\ \A i \in 1 .. n : XorWords(a, b)[i] = Xor(a[i], b[i])
<1>1. DOMAIN a = 1 .. n /\ \A i \in 1 .. n : a[i] \in Word /\ b[i] \in Word
  BY DEF Words
<1>2. \A i \in 1 .. n : Xor(a[i], b[i]) \in Word
  BY <1>1, SomeFacts, Zenon
<1> QED BY <1>1, <1>2 DEF XorWords, Words

\* A hash value is of eight words.
LEMMA CompressLemma == ASSUME NEW h, NEW b PROVE Compress(h, b) \in Words(8)
<1> DEFINE w(k) == ToWord(CompressWord(h, b, k))
<1>1. \A k : w(k) \in Word
  BY WordFacts DEF ToWord
<1> HIDE DEF w
<1>2. <<w(1), w(2), w(3), w(4), w(5), w(6), w(7), w(8)>> \in [1 .. 8 -> Word]
  BY <1>1
<1>3. Compress(h, b) = <<w(1), w(2), w(3), w(4), w(5), w(6), w(7), w(8)>>
  BY DEF Compress, w
<1> QED BY <1>2, <1>3 DEF Words

\* A salsa20/8 result is of sixteen words.
LEMMA SalsaLemma == ASSUME NEW b PROVE Salsa(b) \in Words(16)
<1> DEFINE w(k) == ToWord(SalsaWord(b, k))
<1>1. \A k : w(k) \in Word
  BY WordFacts DEF ToWord
<1> HIDE DEF w
<1>2. <<w(1), w(2), w(3), w(4), w(5), w(6), w(7), w(8),
        w(9), w(10), w(11), w(12), w(13), w(14), w(15), w(16)>> \in [1 .. 16 -> Word]
  BY <1>1
<1>3. Salsa(b) = <<w(1), w(2), w(3), w(4), w(5), w(6), w(7), w(8),
        w(9), w(10), w(11), w(12), w(13), w(14), w(15), w(16)>>
  BY DEF Salsa, w
<1> QED BY <1>2, <1>3 DEF Words

\* A message of n words, padded for z zeros before the two words of its length.
LEMMA PaddedLemma ==
  ASSUME NEW n \in 0 .. 50, NEW m \in Words(n)
  PROVE  LET z == (13 - n) % 16 IN
         /\ Padded(m) \in Words(n + z + 3) /\ z \in 0 .. 15
         /\ \A i \in 1 .. n : Padded(m)[i] = m[i]
         /\ Padded(m)[n + 1] = TopBit
         /\ \A i \in n + 2 .. n + z + 2 : Padded(m)[i] = 0
         /\ Padded(m)[n + z + 3] = LengthWord(32 * n)
<1> DEFINE z == (13 - n) % 16
           one == m \o <<TopBit>>
           two == one \o Zeros(z)
           last == <<0, LengthWord(32 * n)>>
<1>1. z \in 0 .. 15 /\ n \in Nat
  OBVIOUS
<1>2. Len(m) = n
  BY DEF Words
<1>3. Padded(m) = two \o last
  BY <1>2 DEF Padded
<1>4. LengthWord(32 * n) \in Word /\ 0 \in Word /\ TopBit \in Word
  BY SomeFacts, WordFacts
<1> HIDE DEF z
<1>5. /\ one \in Words(n + 1) /\ one[n + 1] = TopBit
      /\ \A i \in 1 .. n : one[i] = m[i]
  <2>1. <<TopBit>> \in Words(1) /\ <<TopBit>>[1] = TopBit
    BY <1>4, OneWord
  <2>2. /\ one \in Words(n + 1)
        /\ \A i \in 1 .. n : one[i] = m[i]
        /\ \A i \in n + 1 .. n + 1 : one[i] = <<TopBit>>[i - n]
    <3>1. 1 \in Nat
      OBVIOUS
    <3> QED BY <1>1, <2>1, <3>1, ConcatLemma, Zenon
  <2> HIDE DEF one
  <2> QED BY <1>1, <2>1, <2>2
<1> HIDE DEF one
<1>6. /\ two \in Words(n + 1 + z)
      /\ \A i \in 1 .. n + 1 : two[i] = one[i]
      /\ \A i \in n + 2 .. n + 1 + z : two[i] = 0
  <2>1. Zeros(z) \in Words(z) /\ \A i \in 1 .. z : Zeros(z)[i] = 0
    BY <1>1, ZerosLemma
  <2>2. n + 1 \in Nat /\ z \in Nat
    BY <1>1
  <2>3. /\ two \in Words(n + 1 + z)
        /\ \A i \in 1 .. n + 1 : two[i] = one[i]
        /\ \A i \in (n + 1) + 1 .. n + 1 + z : two[i] = Zeros(z)[i - (n + 1)]
    BY <1>5, <2>1, <2>2, ConcatLemma, Zenon
  <2> HIDE DEF two
  <2> QED BY <2>1, <2>2, <2>3
<1> HIDE DEF two
<1>7. last \in Words(2) /\ last[1] = 0 /\ last[2] = LengthWord(32 * n)
  BY <1>4, TwoWords
<1> HIDE DEF last
<1>8. /\ Padded(m) \in Words(n + 1 + z + 2)
      /\ \A i \in 1 .. n + 1 + z : Padded(m)[i] = two[i]
      /\ \A i \in n + 1 + z + 1 .. n + 1 + z + 2 : Padded(m)[i] = last[i - (n + 1 + z)]
  <2>1. n + 1 + z \in Nat /\ 2 \in Nat
    BY <1>1
  <2>2. /\ two \o last \in Words(n + 1 + z + 2)
        /\ \A i \in 1 .. n + 1 + z : (two \o last)[i] = two[i]
        /\ \A i \in n + 1 + z + 1 .. n + 1 + z + 2 : (two \o last)[i] = last[i - (n + 1 + z)]
    BY <1>6, <1>7, <2>1, ConcatLemma, Zenon
  <2> QED BY <1>3, <2>2, Zenon
<1>9. /\ Padded(m) \in Words(n + z + 3) /\ z \in 0 .. 15
      /\ \A i \in 1 .. n : Padded(m)[i] = m[i]
      /\ Padded(m)[n + 1] = TopBit
      /\ \A i \in n + 2 .. n + z + 2 : Padded(m)[i] = 0
      /\ Padded(m)[n + z + 3] = LengthWord(32 * n)
  BY <1>1, <1>5, <1>6, <1>7, <1>8
<1> QED BY <1>9 DEF z

\* A tail that ends with a pad written by hand.
LEMMA HandPadLemma ==
  ASSUME NEW n \in Nat, NEW a \in Words(n), NEW z \in Nat, NEW x \in Word
  PROVE  LET tail == a \o (<<TopBit>> \o Zeros(z) \o <<x>>) IN
         /\ tail \in Words(n + z + 2)
         /\ \A i \in 1 .. n : tail[i] = a[i]
         /\ tail[n + 1] = TopBit
         /\ \A i \in n + 2 .. n + z + 1 : tail[i] = 0
         /\ tail[n + z + 2] = x
<1> DEFINE one == <<TopBit>>
           two == one \o Zeros(z)
           pad == two \o <<x>>
           tail == a \o pad
<1>1. one \in Words(1) /\ one[1] = TopBit
  BY WordFacts, OneWord
<1> HIDE DEF one
<1>2. /\ two \in Words(1 + z) /\ two[1] = TopBit
      /\ \A i \in 2 .. 1 + z : two[i] = 0
  <2>1. Zeros(z) \in Words(z) /\ \A i \in 1 .. z : Zeros(z)[i] = 0
    BY ZerosLemma
  <2>2. /\ two \in Words(1 + z)
        /\ \A i \in 1 .. 1 : two[i] = one[i]
        /\ \A i \in 1 + 1 .. 1 + z : two[i] = Zeros(z)[i - 1]
    <3>1. 1 \in Nat
      OBVIOUS
    <3> QED BY <1>1, <2>1, <3>1, ConcatLemma, Zenon
  <2> HIDE DEF two
  <2> QED BY <1>1, <2>1, <2>2
<1> HIDE DEF two
<1>3. /\ pad \in Words(1 + z + 1) /\ pad[1] = TopBit
      /\ \A i \in 2 .. 1 + z : pad[i] = 0
      /\ pad[z + 2] = x
  <2>1. <<x>> \in Words(1) /\ <<x>>[1] = x
    BY OneWord
  <2>2. 1 + z \in Nat /\ 1 \in Nat
    OBVIOUS
  <2>3. /\ pad \in Words(1 + z + 1)
        /\ \A i \in 1 .. 1 + z : pad[i] = two[i]
        /\ \A i \in (1 + z) + 1 .. 1 + z + 1 : pad[i] = <<x>>[i - (1 + z)]
    BY <1>2, <2>1, <2>2, ConcatLemma, Zenon
  <2> HIDE DEF pad
  <2> QED BY <1>2, <2>1, <2>3
<1> HIDE DEF pad
<1>4. /\ tail \in Words(n + (1 + z + 1))
      /\ \A i \in 1 .. n : tail[i] = a[i]
      /\ \A i \in n + 1 .. n + (1 + z + 1) : tail[i] = pad[i - n]
  <2>1. 1 + z + 1 \in Nat
    OBVIOUS
  <2> QED BY <1>3, <2>1, ConcatLemma, Zenon
<1> HIDE DEF tail
<1>5. /\ tail \in Words(n + z + 2)
      /\ \A i \in 1 .. n : tail[i] = a[i]
      /\ tail[n + 1] = TopBit
      /\ \A i \in n + 2 .. n + z + 1 : tail[i] = 0
      /\ tail[n + z + 2] = x
  BY <1>3, <1>4
<1> QED BY <1>5 DEF tail, pad, two, one

-----------------------------------------------------------------------------
\* Induction and recursion, for sets of numbers: a set of natural numbers has a
\* least element.
LEMMA LeastNat ==
  ASSUME NEW T, T \subseteq Nat, T # {}
  PROVE  \E x \in T : \A y \in T : x <= y
<1> DEFINE R == OpToRel(<, Nat)
<1>1. \A x, y \in T : y < x => <<y, x>> \in R
  BY DEF OpToRel
<1>2. \E x \in T : \A y \in T : ~(<<y, x>> \in R)
  <2>1. IsWellFoundedOn(R, Nat)
    BY NatLessThanWellFounded
  <2> HIDE DEF R
  <2> QED BY <2>1, WFMin
<1> HIDE DEF R
<1>3. PICK x \in T : \A y \in T : ~(<<y, x>> \in R)
  BY <1>2
<1>4. ASSUME NEW y \in T PROVE x <= y
  <2>1. x \in Nat /\ y \in Nat /\ ~(y < x)
    BY <1>1, <1>3
  <2> QED BY <2>1
<1> QED BY <1>4

\* A set of numbers that has 0, and n + 1 with every n, has them all.
LEMMA Induction ==
  ASSUME NEW S, 0 \in S, \A n \in Nat : n \in S => n + 1 \in S
  PROVE  \A n \in Nat : n \in S
<1> SUFFICES ASSUME NEW m \in Nat, m \notin S PROVE FALSE
  OBVIOUS
<1> DEFINE T == Nat \ S
<1>1. PICK x \in T : \A y \in T : x <= y
  BY LeastNat
<1>2. x # 0 /\ x - 1 \in Nat /\ x - 1 \in S
  BY <1>1
<1> QED BY <1>1, <1>2

\* The hash values of Sha256, block by block.
Chain(text) ==
  LET hash[b \in 0 .. Len(text) \div 16] ==
        IF b = 0 THEN InitialHash
        ELSE Compress(hash[b - 1], SubSeq(text, 16 * b - 15, 16 * b))
  IN hash

\* The recursive function is the one that its equation describes: there is one over
\* 0 .. n for every n, by induction.
LEMMA ChainLemma ==
  ASSUME NEW text, Len(text) \div 16 \in Nat
  PROVE  /\ Chain(text)[0] = InitialHash
         /\ \A b \in 1 .. Len(text) \div 16 :
              Chain(text)[b] = Compress(Chain(text)[b - 1], SubSeq(text, 16 * b - 15, 16 * b))
<1> DEFINE N == Len(text) \div 16
           Part(b) == SubSeq(text, 16 * b - 15, 16 * b)
           Is(h, n) == h = [b \in 0 .. n |-> IF b = 0 THEN InitialHash
                                             ELSE Compress(h[b - 1], Part(b))]
           S == {n \in Nat : \E h : Is(h, n)}
<1> HIDE DEF Part
<1>1. 0 \in S
  <2> DEFINE h == [b \in 0 .. 0 |-> InitialHash]
  <2>1. Is(h, 0)
    OBVIOUS
  <2> QED BY <2>1
<1>2. ASSUME NEW n \in Nat, n \in S PROVE n + 1 \in S
  <2>1. PICK h : Is(h, n)
    BY <1>2
  <2> DEFINE g == [b \in 0 .. n + 1 |-> IF b = n + 1 THEN Compress(h[n], Part(b)) ELSE h[b]]
  <2>2. Is(g, n + 1)
    BY <2>1
  <2>3. \E k : Is(k, n + 1)
    <3> HIDE DEF g, Is
    <3> QED BY <2>2
  <2> QED BY <2>3
<1>3. N \in S
  <2> HIDE DEF S
  <2> QED BY <1>1, <1>2, Induction
<1>4. Is(Chain(text), N)
  <2>1. \E h : Is(h, N)
    BY <1>3
  <2>2. Chain(text) = CHOOSE h : Is(h, N)
    BY DEF Chain, Part
  <2> HIDE DEF Is
  <2> QED BY <2>1, <2>2
<1> HIDE DEF N
<1>5. N \in Nat
  BY DEF N
<1>6. /\ Chain(text)[0] = InitialHash
      /\ \A b \in 1 .. N : Chain(text)[b] = Compress(Chain(text)[b - 1], Part(b))
  BY <1>4, <1>5
<1> QED BY <1>6 DEF N, Part

\* The end of a message, padded by hand.
HandPad(r, length) == <<TopBit>> \o Zeros(14 - r) \o <<LengthWord(length)>>

\* The last block of a message of q whole blocks and r words is those r words and
\* the pad.
LEMMA TailBlock ==
  ASSUME NEW q \in 0 .. 3, NEW r \in 1 .. 13, NEW n \in 0 .. 50, n = 16 * q + r, NEW m \in Words(n)
  PROVE  /\ Padded(m) \in Words(16 * (q + 1))
         /\ \A b \in 1 .. q : SubSeq(Padded(m), 16 * b - 15, 16 * b) = SubSeq(m, 16 * b - 15, 16 * b)
         /\ SubSeq(Padded(m), 16 * (q + 1) - 15, 16 * (q + 1))
              = SubSeq(m, 16 * q + 1, n) \o HandPad(r, 32 * n)
<1> DEFINE P == Padded(m)
           x == LengthWord(32 * n)
           a == SubSeq(m, 16 * q + 1, n)
           hand == a \o (<<TopBit>> \o Zeros(14 - r) \o <<x>>)
<1>0. n \in Nat /\ 16 \in Nat /\ r \in Nat /\ (13 - n) % 16 = 13 - r /\ 16 * (q + 1) \in Nat
  OBVIOUS
<1>1. /\ P \in Words(16 * (q + 1))
      /\ \A i \in 1 .. n : P[i] = m[i]
      /\ P[n + 1] = TopBit
      /\ \A i \in n + 2 .. 16 * (q + 1) - 1 : P[i] = 0
      /\ P[16 * (q + 1)] = x
  <2>1. LET z == (13 - n) % 16 IN
         /\ P \in Words(n + z + 3) /\ z \in 0 .. 15
         /\ \A i \in 1 .. n : P[i] = m[i]
         /\ P[n + 1] = TopBit
         /\ \A i \in n + 2 .. n + z + 2 : P[i] = 0
         /\ P[n + z + 3] = x
    BY PaddedLemma
  <2> HIDE DEF P, x
  <2>2. n + (13 - r) + 3 = 16 * (q + 1) /\ n + (13 - r) + 2 = 16 * (q + 1) - 1
    OBVIOUS
  <2> QED BY <1>0, <2>1, <2>2
<1>2. ASSUME NEW b \in 1 .. q
      PROVE  SubSeq(P, 16 * b - 15, 16 * b) = SubSeq(m, 16 * b - 15, 16 * b)
  <2> DEFINE lo == 16 * b - 15
             hi == 16 * b
             size == 16 * (q + 1)
  <2>0. 16 \in Nat /\ n \in Nat /\ size \in Nat /\ P \in Words(size)
    BY <1>1
  <2>1. lo \in 1 .. n /\ hi \in lo .. n /\ hi - lo + 1 = 16
    OBVIOUS
  <2>6. lo \in 1 .. size /\ hi \in lo .. size
    OBVIOUS
  <2>7. \A i \in 1 .. 16 : P[lo + i - 1] = m[lo + i - 1]
    BY <1>1
  <2> HIDE DEF P, lo, hi, size
  <2>2. /\ SubSeq(P, lo, hi) \in Words(16)
        /\ \A i \in 1 .. 16 : SubSeq(P, lo, hi)[i] = P[lo + i - 1]
    BY <2>0, <2>1, <2>6, SubSeqLemma, ZenonT(60)
  <2>3. /\ SubSeq(m, lo, hi) \in Words(16)
        /\ \A i \in 1 .. 16 : SubSeq(m, lo, hi)[i] = m[lo + i - 1]
    BY <2>0, <2>1, SubSeqLemma, ZenonT(60)
  <2>4. \A i \in 1 .. 16 : SubSeq(P, lo, hi)[i] = SubSeq(m, lo, hi)[i]
    BY <2>2, <2>3, <2>7, Zenon
  <2>5. SubSeq(P, lo, hi) = SubSeq(m, lo, hi)
    BY <2>0, <2>2, <2>3, <2>4, SameWords, Zenon
  <2> QED BY <2>5 DEF lo, hi
<1>3. SubSeq(P, 16 * (q + 1) - 15, 16 * (q + 1)) = hand
  <2> DEFINE j == 16 * q + 1
             size == 16 * (q + 1)
             last == SubSeq(P, 16 * (q + 1) - 15, 16 * (q + 1))
  <2>1. j \in 1 .. n /\ n \in j .. n /\ n - j + 1 = r
    OBVIOUS
  <2>2. a \in Words(r) /\ \A i \in 1 .. r : a[i] = m[j + i - 1]
    <3>1. SubSeq(m, j, n) \in Words(r) /\ \A i \in 1 .. r : SubSeq(m, j, n)[i] = m[j + i - 1]
      <4>1. n \in Nat /\ r \in Nat
        OBVIOUS
      <4> HIDE DEF j
      <4> QED BY <2>1, <4>1, SubSeqLemma, ZenonT(60)
    <3> QED BY <3>1
  <2>3. last \in Words(16) /\ \A i \in 1 .. 16 : last[i] = P[j + i - 1]
    <3>1. 16 \in Nat /\ size \in Nat /\ P \in Words(size)
      BY <1>1
    <3>2. j \in 1 .. size /\ size \in j .. size /\ size - j + 1 = 16
      OBVIOUS
    <3>3. last = SubSeq(P, j, size)
      OBVIOUS
    <3> HIDE DEF P, j, size, last
    <3>4. /\ SubSeq(P, j, size) \in Words(16)
          /\ \A i \in 1 .. 16 : SubSeq(P, j, size)[i] = P[j + i - 1]
      BY <3>1, <3>2, SubSeqLemma, Zenon
    <3> QED BY <3>3, <3>4, Zenon
  <2>4. /\ hand \in Words(16)
        /\ \A i \in 1 .. r : hand[i] = a[i]
        /\ hand[r + 1] = TopBit
        /\ \A i \in r + 2 .. 15 : hand[i] = 0
        /\ hand[16] = x
    <3>1. x \in Word
      BY SomeFacts
    <3>2. r \in Nat /\ 14 - r \in Nat /\ r + (14 - r) + 2 = 16 /\ r + (14 - r) + 1 = 15
      OBVIOUS
    <3> HIDE DEF a, x
    <3>3. /\ hand \in Words(r + (14 - r) + 2)
          /\ \A i \in 1 .. r : hand[i] = a[i]
          /\ hand[r + 1] = TopBit
          /\ \A i \in r + 2 .. r + (14 - r) + 1 : hand[i] = 0
          /\ hand[r + (14 - r) + 2] = x
      BY <2>2, <3>1, <3>2, HandPadLemma
    <3> HIDE DEF hand
    <3> QED BY <3>2, <3>3
  <2> HIDE DEF hand, last, P, a, x
  <2>5. \A i \in 1 .. 16 : last[i] = hand[i]
    <3> SUFFICES ASSUME NEW i \in 1 .. 16 PROVE last[i] = hand[i]
      OBVIOUS
    <3>0. last[i] = P[16 * q + i]
      BY <2>3 DEF j
    <3>1. CASE i <= r
      BY <1>1, <2>2, <2>4, <3>0, <3>1 DEF j
    <3>2. CASE i = r + 1
      BY <1>1, <2>4, <3>0, <3>2
    <3>3. CASE i \in r + 2 .. 15
      BY <1>1, <2>4, <3>0, <3>3
    <3>4. CASE i = 16
      BY <1>1, <2>4, <3>0, <3>4
    <3> QED BY <3>1, <3>2, <3>3, <3>4
  <2>6. last = hand
    BY <2>3, <2>4, <2>5, SameWords, 16 \in Nat, Zenon
  <2> QED BY <2>6 DEF last
<1> QED BY <1>1, <1>2, <1>3 DEF HandPad

\* SHA-256 of a message of q whole blocks and r words.
LEMMA ShaLemma ==
  ASSUME NEW q \in 0 .. 3, NEW r \in 1 .. 13, NEW n \in 0 .. 50, n = 16 * q + r, NEW m \in Words(n)
  PROVE  LET hash == Chain(Padded(m)) IN
         /\ hash[0] = InitialHash
         /\ \A b \in 1 .. q : hash[b] = Compress(hash[b - 1], SubSeq(m, 16 * b - 15, 16 * b))
         /\ Sha256(m) = Compress(hash[q], SubSeq(m, 16 * q + 1, n) \o HandPad(r, 32 * n))
<1> DEFINE P == Padded(m)
<1>1. /\ P \in Words(16 * (q + 1))
      /\ \A b \in 1 .. q : SubSeq(P, 16 * b - 15, 16 * b) = SubSeq(m, 16 * b - 15, 16 * b)
      /\ SubSeq(P, 16 * (q + 1) - 15, 16 * (q + 1)) = SubSeq(m, 16 * q + 1, n) \o HandPad(r, 32 * n)
  BY TailBlock
<1>2. Sha256(m) = Chain(P)[Len(P) \div 16]
  BY DEF Sha256, Chain
<1> HIDE DEF P
<1>3. Len(P) = 16 * (q + 1)
  BY <1>1 DEF Words
<1>4. Len(P) \div 16 = q + 1
  BY <1>3
<1>5. /\ Chain(P)[0] = InitialHash
      /\ \A b \in 1 .. q + 1 :
           Chain(P)[b] = Compress(Chain(P)[b - 1], SubSeq(P, 16 * b - 15, 16 * b))
  <2>1. q + 1 \in Nat
    OBVIOUS
  <2> QED BY <1>4, <2>1, ChainLemma, Zenon
<1>6. q + 1 \in 1 .. q + 1 /\ (q + 1) - 1 = q
  OBVIOUS
<1>7. Sha256(m) = Compress(Chain(P)[q], SubSeq(m, 16 * q + 1, n) \o HandPad(r, 32 * n))
  BY <1>1, <1>2, <1>4, <1>5, <1>6, Zenon
<1>8. \A b \in 1 .. q : Chain(P)[b] = Compress(Chain(P)[b - 1], SubSeq(m, 16 * b - 15, 16 * b))
  <2>1. \A b \in 1 .. q : b \in 1 .. q + 1
    OBVIOUS
  <2> QED BY <1>1, <1>5, <2>1, Zenon
<1> QED BY <1>5, <1>7, <1>8 DEF P

-----------------------------------------------------------------------------
\* Parts of messages.

\* The parts of a concatenation that lie in one of its messages.
LEMMA SubConcat ==
  ASSUME NEW m \in Nat, m >= 1, NEW n \in Nat, NEW a \in Words(m), NEW b \in Words(n),
         NEW j \in 1 .. n, NEW k \in j .. n
  PROVE  /\ Same(SubSeq(a \o b, 1, m), a)
         /\ Same(SubSeq(a \o b, m + j, m + k), SubSeq(b, j, k))
<1> DEFINE ab == a \o b
<1>1. /\ ab \in Words(m + n) /\ \A i \in 1 .. m : ab[i] = a[i]
      /\ \A i \in m + 1 .. m + n : ab[i] = b[i - m]
  BY ConcatLemma
<1> HIDE DEF ab
<1>2. SubSeq(ab, 1, m) = a
  <2>1. m + n \in Nat /\ 1 \in 1 .. m + n /\ m \in 1 .. m + n /\ m - 1 + 1 = m
    OBVIOUS
  <2>2. SubSeq(ab, 1, m) \in Words(m) /\ \A i \in 1 .. m : SubSeq(ab, 1, m)[i] = ab[1 + i - 1]
    BY <1>1, <2>1, SubSeqLemma, ZenonT(60)
  <2>3. \A i \in 1 .. m : SubSeq(ab, 1, m)[i] = a[i]
    BY <1>1, <2>2
  <2> QED BY <2>2, <2>3, SameWords, Zenon
<1>3. SubSeq(ab, m + j, m + k) = SubSeq(b, j, k)
  <2> DEFINE c == k - j + 1
  <2>1. /\ m + n \in Nat /\ m + j \in 1 .. m + n /\ m + k \in m + j .. m + n
        /\ (m + k) - (m + j) + 1 = c /\ k - j + 1 = c /\ c \in Nat
    OBVIOUS
  <2> HIDE DEF c
  <2>2. SubSeq(ab, m + j, m + k) \in Words(c)
        /\ \A i \in 1 .. c : SubSeq(ab, m + j, m + k)[i] = ab[(m + j) + i - 1]
    BY <1>1, <2>1, SubSeqLemma, Zenon
  <2>3. SubSeq(b, j, k) \in Words(c) /\ \A i \in 1 .. c : SubSeq(b, j, k)[i] = b[j + i - 1]
    BY <2>1, SubSeqLemma, Zenon
  <2>4. ASSUME NEW i \in 1 .. c PROVE ab[(m + j) + i - 1] = b[j + i - 1]
    <3>1. (m + j) + i - 1 \in m + 1 .. m + n /\ ((m + j) + i - 1) - m = j + i - 1
      BY <2>1
    <3> QED BY <1>1, <3>1
  <2>5. \A i \in 1 .. c : SubSeq(ab, m + j, m + k)[i] = SubSeq(b, j, k)[i]
    BY <2>2, <2>3, <2>4, Zenon
  <2> QED BY <2>1, <2>2, <2>3, <2>5, SameWords, Zenon
<1> QED BY <1>2, <1>3, Zenon DEF ab, Same

\* A part that begins in the first of two messages and ends with the second.
LEMMA SubAcross ==
  ASSUME NEW m \in Nat, NEW n \in Nat, n >= 1, NEW a \in Words(m), NEW b \in Words(n),
         NEW j \in 1 .. m
  PROVE  Same(SubSeq(a \o b, j, m + n), SubSeq(a, j, m) \o b)
<1> DEFINE ab == a \o b
           c == m - j + 1
           s == SubSeq(a, j, m)
           sb == s \o b
           l == SubSeq(ab, j, m + n)
<1>0. c \in Nat /\ m - j + 1 = c /\ m \in j .. m
  OBVIOUS
<1>10. /\ m + n \in Nat /\ j \in 1 .. m + n /\ m + n \in j .. m + n
       /\ (m + n) - j + 1 = c + n /\ c + n \in Nat
  OBVIOUS
<1>1. /\ ab \in Words(m + n) /\ \A i \in 1 .. m : ab[i] = a[i]
      /\ \A i \in m + 1 .. m + n : ab[i] = b[i - m]
  BY ConcatLemma
<1> HIDE DEF ab, c
<1>2. s \in Words(c) /\ \A i \in 1 .. c : s[i] = a[j + i - 1]
  BY <1>0, SubSeqLemma, ZenonT(60)
<1>3. l \in Words(c + n) /\ \A i \in 1 .. c + n : l[i] = ab[j + i - 1]
  <2>1. ab \in Words(m + n)
    BY <1>1
  <2> QED BY <1>10, <2>1, SubSeqLemma, Zenon
<1> HIDE DEF s, l
<1>4. /\ sb \in Words(c + n) /\ \A i \in 1 .. c : sb[i] = s[i]
      /\ \A i \in c + 1 .. c + n : sb[i] = b[i - c]
  <2>1. s \in Words(c) /\ c \in Nat
    BY <1>0, <1>2
  <2> QED BY <2>1, ConcatLemma, Zenon
<1> HIDE DEF sb
<1>5. ASSUME NEW i \in 1 .. c + n PROVE l[i] = sb[i]
  <2>1. CASE i <= c
    <3>1. j + i - 1 \in 1 .. m /\ i \in 1 .. c
      BY <1>0, <1>10, <2>1
    <3> QED BY <1>1, <1>2, <1>3, <1>4, <3>1
  <2>2. CASE i > c
    <3>1. j + i - 1 \in m + 1 .. m + n /\ i \in c + 1 .. c + n /\ (j + i - 1) - m = i - c
      BY <1>0, <1>10, <2>2
    <3> QED BY <1>1, <1>3, <1>4, <3>1
  <2> QED BY <1>0, <1>10, <2>1, <2>2
<1>6. l = sb
  BY <1>10, <1>3, <1>4, <1>5, SameWords, Zenon
<1> QED BY <1>6, Zenon DEF l, sb, s, ab, Same

\* The whole of a message.
LEMMA SubWhole ==
  ASSUME NEW n \in Nat, n >= 1, NEW a \in Words(n)
  PROVE  Same(SubSeq(a, 1, n), a)
<1>1. 1 \in 1 .. n /\ n \in 1 .. n /\ n - 1 + 1 = n
  OBVIOUS
<1>2. SubSeq(a, 1, n) \in Words(n) /\ \A i \in 1 .. n : SubSeq(a, 1, n)[i] = a[1 + i - 1]
  BY <1>1, SubSeqLemma, Zenon
<1>3. \A i \in 1 .. n : SubSeq(a, 1, n)[i] = a[i]
  BY <1>2
<1>4. SubSeq(a, 1, n) = a
  BY <1>2, <1>3, SameWords, Zenon
<1> QED BY <1>4, Zenon DEF Same

\* Concatenation is associative.
LEMMA ConcatAssoc ==
  ASSUME NEW m \in Nat, NEW n \in Nat, NEW l \in Nat,
         NEW a \in Words(m), NEW b \in Words(n), NEW c \in Words(l)
  PROVE  Same((a \o b) \o c, a \o (b \o c))
<1> DEFINE ab == a \o b
           bc == b \o c
           x == ab \o c
           y == a \o bc
<1>0. m + n \in Nat /\ n + l \in Nat /\ (m + n) + l = m + (n + l) /\ (m + n) + l \in Nat
  OBVIOUS
<1>1. /\ ab \in Words(m + n) /\ \A i \in 1 .. m : ab[i] = a[i]
      /\ \A i \in m + 1 .. m + n : ab[i] = b[i - m]
  BY ConcatLemma
<1>2. /\ bc \in Words(n + l) /\ \A i \in 1 .. n : bc[i] = b[i]
      /\ \A i \in n + 1 .. n + l : bc[i] = c[i - n]
  BY ConcatLemma
<1> HIDE DEF ab, bc
<1>3. /\ x \in Words((m + n) + l) /\ \A i \in 1 .. m + n : x[i] = ab[i]
      /\ \A i \in (m + n) + 1 .. (m + n) + l : x[i] = c[i - (m + n)]
  BY <1>0, <1>1, ConcatLemma, ZenonT(60)
<1>4. /\ y \in Words(m + (n + l)) /\ \A i \in 1 .. m : y[i] = a[i]
      /\ \A i \in m + 1 .. m + (n + l) : y[i] = bc[i - m]
  BY <1>0, <1>2, ConcatLemma, ZenonT(60)
<1> HIDE DEF x, y
<1>5. ASSUME NEW i \in 1 .. (m + n) + l PROVE x[i] = y[i]
  <2>1. CASE i <= m
    BY <1>1, <1>3, <1>4, <2>1
  <2>2. CASE m < i /\ i <= m + n
    <3>1. i \in m + 1 .. m + n /\ i \in 1 .. m + n /\ i \in m + 1 .. m + (n + l) /\ i - m \in 1 .. n
      BY <2>2
    <3> QED BY <1>1, <1>2, <1>3, <1>4, <3>1
  <2>3. CASE i > m + n
    <3>1. /\ i \in (m + n) + 1 .. (m + n) + l /\ i \in m + 1 .. m + (n + l)
          /\ i - m \in n + 1 .. n + l /\ (i - m) - n = i - (m + n)
      BY <2>3
    <3> QED BY <1>2, <1>3, <1>4, <3>1
  <2> QED BY <2>1, <2>2, <2>3
<1>6. x = y
  BY <1>0, <1>3, <1>4, <1>5, SameWords, Zenon
<1> QED BY <1>6, Zenon DEF x, y, ab, bc, Same

\* A message is known by its two parts.
LEMMA TwoParts ==
  ASSUME NEW m \in Nat, NEW n \in Nat,
         NEW s \in Words(m + n), NEW t \in Words(m), NEW u \in Words(n),
         \A i \in 1 .. m : s[i] = t[i], \A i \in m + 1 .. m + n : s[i] = u[i - m]
  PROVE  Same(s, t \o u)
<1> DEFINE tu == t \o u
<1>0. m + n \in Nat
  OBVIOUS
<1>1. /\ tu \in Words(m + n) /\ \A i \in 1 .. m : tu[i] = t[i]
      /\ \A i \in m + 1 .. m + n : tu[i] = u[i - m]
  BY ConcatLemma
<1> HIDE DEF tu
<1>2. ASSUME NEW i \in 1 .. m + n PROVE s[i] = tu[i]
  <2>1. i \in 1 .. m \/ i \in m + 1 .. m + n
    OBVIOUS
  <2> QED BY <1>1, <2>1, Zenon
<1>3. s = tu
  BY <1>0, <1>1, <1>2, SameWords, Zenon
<1> QED BY <1>3, Zenon DEF tu, Same

\* Swapping bytes, and masking, word by word.
LEMMA SwabbedParts ==
  ASSUME NEW m \in Nat, NEW n \in Nat, NEW a \in Words(m), NEW b \in Words(n), NEW x \in Word
  PROVE  /\ Same(Swabbed(a \o b), Swabbed(a) \o Swabbed(b))
         /\ Same(Masked(a \o b, x), Masked(a, x) \o Masked(b, x))
<1> DEFINE ab == a \o b
<1>0. m + n \in Nat
  OBVIOUS
<1>1. /\ ab \in Words(m + n) /\ \A i \in 1 .. m : ab[i] = a[i]
      /\ \A i \in m + 1 .. m + n : ab[i] = b[i - m]
  BY ConcatLemma
<1> HIDE DEF ab
<1>2. \A i \in m + 1 .. m + n : i - m \in 1 .. n /\ i \in 1 .. m + n
  OBVIOUS
<1>3. \A i \in 1 .. m : i \in 1 .. m + n
  OBVIOUS
<1>4. /\ Swabbed(ab) \in Words(m + n) /\ \A i \in 1 .. m + n : Swabbed(ab)[i] = Swab(ab[i])
      /\ Masked(ab, x) \in Words(m + n) /\ \A i \in 1 .. m + n : Masked(ab, x)[i] = Xor(ab[i], x)
  BY <1>0, <1>1, MaskedLemma, Zenon
<1>5. /\ Swabbed(a) \in Words(m) /\ \A i \in 1 .. m : Swabbed(a)[i] = Swab(a[i])
      /\ Masked(a, x) \in Words(m) /\ \A i \in 1 .. m : Masked(a, x)[i] = Xor(a[i], x)
      /\ Swabbed(b) \in Words(n) /\ \A i \in 1 .. n : Swabbed(b)[i] = Swab(b[i])
      /\ Masked(b, x) \in Words(n) /\ \A i \in 1 .. n : Masked(b, x)[i] = Xor(b[i], x)
  BY MaskedLemma, Zenon
<1>6. Same(Swabbed(ab), Swabbed(a) \o Swabbed(b))
  <2>1. \A i \in 1 .. m : Swabbed(ab)[i] = Swabbed(a)[i]
    BY <1>1, <1>3, <1>4, <1>5, Zenon
  <2>2. \A i \in m + 1 .. m + n : Swabbed(ab)[i] = Swabbed(b)[i - m]
    BY <1>1, <1>2, <1>4, <1>5, Zenon
  <2>3. Swabbed(ab) \in Words(m + n) /\ Swabbed(a) \in Words(m) /\ Swabbed(b) \in Words(n)
    BY <1>4, <1>5
  <2> QED BY <2>1, <2>2, <2>3, TwoParts, Zenon
<1>7. Same(Masked(ab, x), Masked(a, x) \o Masked(b, x))
  <2>1. \A i \in 1 .. m : Masked(ab, x)[i] = Masked(a, x)[i]
    BY <1>1, <1>3, <1>4, <1>5, Zenon
  <2>2. \A i \in m + 1 .. m + n : Masked(ab, x)[i] = Masked(b, x)[i - m]
    BY <1>1, <1>2, <1>4, <1>5, ZenonT(60)
  <2>3. Masked(ab, x) \in Words(m + n) /\ Masked(a, x) \in Words(m) /\ Masked(b, x) \in Words(n)
    BY <1>4, <1>5
  <2> QED BY <2>1, <2>2, <2>3, TwoParts, Zenon
<1> QED BY <1>6, <1>7, Zenon DEF ab

\* Swapping a part is a part of what is swapped.
LEMMA SwabbedPart ==
  ASSUME NEW n \in Nat, NEW a \in Words(n), NEW j \in 1 .. n, NEW k \in j .. n
  PROVE  Same(SubSeq(Swabbed(a), j, k), Swabbed(SubSeq(a, j, k)))
<1> DEFINE c == k - j + 1
           s == SubSeq(a, j, k)
           l == SubSeq(Swabbed(a), j, k)
<1>0. c \in Nat /\ k - j + 1 = c
  OBVIOUS
<1> HIDE DEF c
<1>1. s \in Words(c) /\ \A i \in 1 .. c : s[i] = a[j + i - 1]
  BY <1>0, SubSeqLemma, Zenon
<1>2. Swabbed(a) \in Words(n) /\ \A i \in 1 .. n : Swabbed(a)[i] = Swab(a[i])
  BY MaskedLemma, WordFacts, Zenon
<1>3. l \in Words(c) /\ \A i \in 1 .. c : l[i] = Swabbed(a)[j + i - 1]
  BY <1>0, <1>2, SubSeqLemma, ZenonT(60)
<1> HIDE DEF s, l
<1>4. Swabbed(s) \in Words(c) /\ \A i \in 1 .. c : Swabbed(s)[i] = Swab(s[i])
  BY <1>0, <1>1, MaskedLemma, WordFacts, Zenon
<1>5. \A i \in 1 .. c : j + i - 1 \in 1 .. n
  BY <1>0
<1>6. \A i \in 1 .. c : l[i] = Swabbed(s)[i]
  BY <1>1, <1>2, <1>3, <1>4, <1>5, Zenon
<1>7. l = Swabbed(s)
  BY <1>0, <1>3, <1>4, <1>6, SameWords, Zenon
<1> QED BY <1>7, Zenon DEF l, s, Same

-----------------------------------------------------------------------------
\* The bitcoin kernel.

\* A header with another nonce keeps its first nineteen words.
LEMMA NonceLemma ==
  ASSUME NEW h \in Words(20), NEW x \in Word
  PROVE  /\ WithNonce(h, x) \in Words(20)
         /\ SubSeq(WithNonce(h, x), 1, 16) = SubSeq(h, 1, 16)
         /\ SubSeq(WithNonce(h, x), 17, 20) = SubSeq(h, 17, 19) \o <<x>>
<1> DEFINE w == WithNonce(h, x)
           s == SubSeq(w, 1, 16)
           t == SubSeq(h, 1, 16)
           l == SubSeq(w, 17, 20)
           u == SubSeq(h, 17, 19)
           y == <<x>>
           uy == u \o y
<1>1. w \in Words(20) /\ w[20] = x /\ \A i \in 1 .. 19 : w[i] = h[i]
  BY DEF WithNonce, Words
<1> HIDE DEF w
<1>0. /\ 20 \in Nat /\ 16 \in Nat /\ 4 \in Nat /\ 3 \in Nat /\ 1 \in Nat
      /\ 1 \in 1 .. 20 /\ 16 \in 1 .. 20 /\ 17 \in 1 .. 20 /\ 19 \in 17 .. 20 /\ 20 \in 17 .. 20
      /\ 16 - 1 + 1 = 16 /\ 19 - 17 + 1 = 3 /\ 20 - 17 + 1 = 4
  OBVIOUS
<1>2. s = t
  <2>1. s \in Words(16) /\ \A i \in 1 .. 16 : s[i] = w[1 + i - 1]
    BY <1>0, <1>1, SubSeqLemma, Zenon
  <2>2. t \in Words(16) /\ \A i \in 1 .. 16 : t[i] = h[1 + i - 1]
    BY <1>0, SubSeqLemma, Zenon
  <2> HIDE DEF s, t
  <2>3. \A i \in 1 .. 16 : s[i] = t[i]
    BY <1>1, <2>1, <2>2
  <2> QED BY <1>0, <2>1, <2>2, <2>3, SameWords, Zenon
<1>3. l = u \o y
  <2>1. l \in Words(4) /\ \A i \in 1 .. 4 : l[i] = w[17 + i - 1]
    BY <1>0, <1>1, SubSeqLemma, ZenonT(60)
  <2>2. u \in Words(3) /\ \A i \in 1 .. 3 : u[i] = h[17 + i - 1]
    BY <1>0, SubSeqLemma, Zenon
  <2>3. y \in Words(1) /\ y[1] = x
    BY OneWord
  <2> HIDE DEF l, u, y
  <2>4. \A i \in 1 .. 3 : l[i] = u[i]
    BY <1>1, <2>1, <2>2
  <2>5. l[4] = x
    BY <1>1, <2>1
  <2>6. u \in Words(3) /\ y \in Words(1)
    BY <2>2, <2>3
  <2>7. /\ uy \in Words(3 + 1) /\ \A i \in 1 .. 3 : uy[i] = u[i]
        /\ \A i \in 3 + 1 .. 3 + 1 : uy[i] = y[i - 3]
    BY <1>0, <2>6, ConcatLemma, ZenonT(60) DEF uy
  <2> HIDE DEF uy
  <2>8. uy \in Words(4) /\ \A i \in 1 .. 4 : l[i] = uy[i]
    BY <2>3, <2>4, <2>5, <2>7
  <2>9. l \in Words(4)
    BY <2>1
  <2>10. l = uy
    BY <1>0, <2>8, <2>9, SameWords, Zenon
  <2> QED BY <2>10 DEF uy
<1>4. w \in Words(20)
  BY <1>1
<1> QED BY <1>2, <1>3, <1>4, Zenon DEF w, s, t, l, u, y

\* What the kernel computes for a nonce is the double hash of its header.
LEMMA BlockLemma ==
  ASSUME NEW h \in Words(20), NEW nonce \in Word
  PROVE  ComputeHash2(ComputeHash1(PoolMidstate(h), SubSeq(h, 17, 19), nonce))
           = DoubleSha256(WithNonce(h, Swab(nonce)))
<1> DEFINE w == WithNonce(h, Swab(nonce))
           h1 == Sha256(w)
<1>1. /\ w \in Words(20) /\ SubSeq(w, 1, 16) = SubSeq(h, 1, 16)
      /\ SubSeq(w, 17, 20) = SubSeq(h, 17, 19) \o <<Swab(nonce)>>
  BY SomeFacts, NonceLemma
<1> HIDE DEF w
<1>2. h1 = Compress(Compress(InitialHash, SubSeq(w, 1, 16)), SubSeq(w, 17, 20) \o HandPad(4, 640))
  <2>1. LET hash == Chain(Padded(w)) IN
         /\ hash[0] = InitialHash
         /\ \A b \in 1 .. 1 : hash[b] = Compress(hash[b - 1], SubSeq(w, 16 * b - 15, 16 * b))
         /\ Sha256(w) = Compress(hash[1], SubSeq(w, 16 * 1 + 1, 20) \o HandPad(4, 32 * 20))
    <3>1. 1 \in 0 .. 3 /\ 4 \in 1 .. 13 /\ 20 \in 0 .. 50 /\ 20 = 16 * 1 + 4
      OBVIOUS
    <3> QED BY <1>1, <3>1, ShaLemma, ZenonT(60)
  <2>2. Chain(Padded(w))[1] = Compress(InitialHash, SubSeq(w, 1, 16))
    BY <2>1
  <2>3. 16 * 1 + 1 = 17 /\ 32 * 20 = 640
    OBVIOUS
  <2> QED BY <2>1, <2>2, <2>3, ZenonT(60)
<1>3. h1 = ComputeHash1(PoolMidstate(h), SubSeq(h, 17, 19), nonce)
  <2>1. HASH1_BITS = HandPad(4, 640)
    <3>1. 14 - 4 = 10
      OBVIOUS
    <3> QED BY <3>1, Zenon DEF HASH1_BITS, HandPad
  <2> QED BY <1>1, <1>2, <2>1, ZenonT(60) DEF ComputeHash1, PoolMidstate
<1>4. h1 \in Words(8)
  BY <1>2, CompressLemma
<1> HIDE DEF h1
<1>5. Sha256(h1) = Compress(InitialHash, h1 \o HandPad(8, 256))
  <2>1. LET hash == Chain(Padded(h1)) IN
         /\ hash[0] = InitialHash
         /\ \A b \in 1 .. 0 : hash[b] = Compress(hash[b - 1], SubSeq(h1, 16 * b - 15, 16 * b))
         /\ Sha256(h1) = Compress(hash[0], SubSeq(h1, 16 * 0 + 1, 8) \o HandPad(8, 32 * 8))
    <3>1. 0 \in 0 .. 3 /\ 8 \in 1 .. 13 /\ 8 \in 0 .. 50 /\ 8 = 16 * 0 + 8
      OBVIOUS
    <3> QED BY <1>4, <3>1, ShaLemma, Zenon
  <2>2. 16 * 0 + 1 = 1 /\ 32 * 8 = 256 /\ 8 \in Nat /\ 8 >= 1
    OBVIOUS
  <2>3. SubSeq(h1, 1, 8) = h1
    <3>1. 8 \in Nat /\ 8 >= 1
      OBVIOUS
    <3> QED BY <1>4, <3>1, SubWhole, Zenon DEF Same
  <2> QED BY <2>1, <2>2, <2>3, Zenon
<1>6. HASH2_BITS = HandPad(8, 256)
  <2>1. 14 - 8 = 6
    OBVIOUS
  <2> QED BY <2>1, Zenon DEF HASH2_BITS, HandPad
<1>7. Sha256(h1) = ComputeHash2(h1)
  BY <1>5, <1>6, Zenon DEF ComputeHash2
<1>8. Sha256(h1) = DoubleSha256(w)
  BY DEF DoubleSha256, h1
<1> QED BY <1>3, <1>7, <1>8, Zenon DEF w

-----------------------------------------------------------------------------
\* Messages of the four lengths that occur.

\* The last fifteen words of finalblk.
FinalPad == HandPad(1, 1568)

\* The pads of sha2.h are those of the standard.
LEMMA HandPads ==
  /\ keypad = HandPad(4, 640) /\ innerpad = HandPad(5, 1184) /\ outerpad = HandPad(8, 768)
  /\ finalblk = <<1>> \o FinalPad
<1>1. 14 - 4 = 10 /\ 14 - 5 = 9 /\ 14 - 8 = 6 /\ 14 - 1 = 13
  OBVIOUS
<1>2. keypad = HandPad(4, 640) /\ innerpad = HandPad(5, 1184) /\ outerpad = HandPad(8, 768)
  <2>1. keypad = HandPad(4, 640)
    BY <1>1, Zenon DEF keypad, HandPad
  <2>2. innerpad = HandPad(5, 1184)
    BY <1>1, ZenonT(60) DEF innerpad, HandPad
  <2>3. outerpad = HandPad(8, 768)
    BY <1>1, Zenon DEF outerpad, HandPad
  <2> QED BY <2>1, <2>2, <2>3
<1>3. finalblk = <<1>> \o FinalPad
  <2> DEFINE one == <<1>>
             top == <<TopBit>>
             z == Zeros(13)
             l == <<LengthWord(1568)>>
             zz == Zeros(14 - 1)
             pad == FinalPad
  <2>1. /\ one \in Words(1) /\ top \in Words(1) /\ z \in Words(13) /\ l \in Words(1)
    <3>1. 1568 = 32 * 49 /\ 49 \in 0 .. 50
      OBVIOUS
    <3>2. LengthWord(1568) \in Word
      BY <3>1, SomeFacts
    <3>3. 1 \in Word
      BY StandardsAssumption, WordFacts DEF Word
    <3> QED BY <3>2, <3>3, WordFacts, OneWord, ZerosLemma
  <2>2. <<1, TopBit>> = one \o top
    OBVIOUS
  <2> HIDE DEF one, top, z, l
  <2>3. 1 \in Nat /\ 13 \in Nat /\ 1 + 13 \in Nat
    OBVIOUS
  <2>4. top \o z \in Words(1 + 13)
    BY <2>1, <2>3, ConcatLemma, Zenon
  <2>5. Same((one \o top) \o z, one \o (top \o z))
    BY <2>1, <2>3, ConcatAssoc, Zenon
  <2>6. Same((one \o (top \o z)) \o l, one \o ((top \o z) \o l))
    BY <2>1, <2>3, <2>4, ConcatAssoc, Zenon
  <2>7. ((one \o top) \o z) \o l = one \o ((top \o z) \o l)
    BY <2>5, <2>6, Zenon DEF Same
  <2>8. finalblk = (<<1, TopBit>> \o z) \o l
    BY Zenon DEF finalblk, z, l
  <2>9. pad = (top \o zz) \o l
    BY Zenon DEF FinalPad, HandPad, top, l
  <2>10. zz = z
    BY <1>1, Zenon DEF z
  <2> HIDE DEF pad, zz
  <2>11. finalblk = one \o pad
    BY <2>2, <2>7, <2>8, <2>9, <2>10, Zenon
  <2> QED BY <2>11, Zenon DEF one, pad
<1> QED BY <1>2, <1>3

\* A message of two whole blocks and five words.
LEMMA Sha37 ==
  ASSUME NEW a \in Words(16), NEW m \in Words(21)
  PROVE  Same(Sha256(a \o m),
              Compress(Compress(Compress(InitialHash, a), SubSeq(m, 1, 16)),
                       SubSeq(m, 17, 21) \o innerpad))
<1> DEFINE am == a \o m
           hash == Chain(Padded(am))
           u1 == SubSeq(am, 1, 16)
           u2 == SubSeq(am, 17, 32)
           u3 == SubSeq(am, 33, 37)
           v1 == SubSeq(m, 1, 16)
           v2 == SubSeq(m, 17, 21)
           pad == innerpad
           whole == Sha256(am)
<1>0. 16 \in Nat /\ 21 \in Nat /\ 16 >= 1 /\ 1 \in 1 .. 21 /\ 16 \in 1 .. 21 /\ 17 \in 1 .. 21 /\ 21 \in 17 .. 21
  OBVIOUS
<1>1. am \in Words(37)
  <2>1. am \in Words(16 + 21)
    BY <1>0, ConcatLemma, Zenon
  <2> HIDE DEF am
  <2> QED BY <2>1
<1>2. Same(SubSeq(am, 1, 16), a) /\ Same(SubSeq(am, 16 + 1, 16 + 16), SubSeq(m, 1, 16))
  BY <1>0, SubConcat, Zenon
<1>3. Same(SubSeq(am, 16 + 17, 16 + 21), SubSeq(m, 17, 21))
  BY <1>0, SubConcat, Zenon
<1> HIDE DEF am
<1>4. /\ hash[0] = InitialHash
      /\ \A b \in 1 .. 2 : hash[b] = Compress(hash[b - 1], SubSeq(am, 16 * b - 15, 16 * b))
      /\ Sha256(am) = Compress(hash[2], SubSeq(am, 16 * 2 + 1, 37) \o HandPad(5, 32 * 37))
  <2>1. 2 \in 0 .. 3 /\ 5 \in 1 .. 13 /\ 37 \in 0 .. 50 /\ 37 = 16 * 2 + 5
    OBVIOUS
  <2> QED BY <1>1, <2>1, ShaLemma, ZenonT(60)
<1> HIDE DEF hash
<1>5. 16 + 1 = 17 /\ 16 + 16 = 32 /\ 16 + 17 = 33 /\ 16 + 21 = 37
  OBVIOUS
<1>6. u1 = a /\ u2 = v1 /\ u3 = v2
  BY <1>2, <1>3, <1>5, Zenon DEF Same
<1>7. hash[1] = Compress(InitialHash, u1) /\ hash[2] = Compress(hash[1], u2)
  BY <1>4
<1>8. whole = Compress(hash[2], u3 \o pad)
  <2> DEFINE hand == HandPad(5, 1184)
  <2>1. whole = Compress(hash[2], u3 \o hand)
    BY <1>4
  <2>2. hand = pad
    BY HandPads
  <2> HIDE DEF hand, pad, u3, whole
  <2> QED BY <2>1, <2>2, Zenon
<1> HIDE DEF u1, u2, u3, v1, v2, pad, whole
<1>9. whole = Compress(Compress(Compress(InitialHash, a), v1), v2 \o pad)
  BY <1>6, <1>7, <1>8
<1> QED BY <1>9 DEF am, whole, v1, v2, pad, Same

\* A message of three whole blocks and a word.
LEMMA Sha49 ==
  ASSUME NEW a \in Words(16), NEW m \in Words(33)
  PROVE  Same(Sha256(a \o m),
              Compress(Compress(Compress(Compress(InitialHash, a), SubSeq(m, 1, 16)), SubSeq(m, 17, 32)),
                       SubSeq(m, 33, 33) \o FinalPad))
<1> DEFINE am == a \o m
           hash == Chain(Padded(am))
           u1 == SubSeq(am, 1, 16)
           u2 == SubSeq(am, 17, 32)
           u3 == SubSeq(am, 33, 48)
           u4 == SubSeq(am, 49, 49)
           v1 == SubSeq(m, 1, 16)
           v2 == SubSeq(m, 17, 32)
           v3 == SubSeq(m, 33, 33)
           pad == FinalPad
           whole == Sha256(am)
<1>0. /\ 16 \in Nat /\ 33 \in Nat /\ 16 >= 1 /\ 1 \in 1 .. 33 /\ 16 \in 1 .. 33 /\ 17 \in 1 .. 33
      /\ 32 \in 17 .. 33 /\ 33 \in 1 .. 33 /\ 33 \in 33 .. 33
  OBVIOUS
<1>1. am \in Words(49)
  <2>1. am \in Words(16 + 33)
    BY <1>0, ConcatLemma, Zenon
  <2> HIDE DEF am
  <2> QED BY <2>1
<1>2. Same(SubSeq(am, 1, 16), a) /\ Same(SubSeq(am, 16 + 1, 16 + 16), SubSeq(m, 1, 16))
  BY <1>0, SubConcat, Zenon
<1>3. Same(SubSeq(am, 16 + 17, 16 + 32), SubSeq(m, 17, 32)) /\ Same(SubSeq(am, 16 + 33, 16 + 33), SubSeq(m, 33, 33))
  BY <1>0, SubConcat, Zenon
<1> HIDE DEF am
<1>4. /\ hash[0] = InitialHash
      /\ \A b \in 1 .. 3 : hash[b] = Compress(hash[b - 1], SubSeq(am, 16 * b - 15, 16 * b))
      /\ Sha256(am) = Compress(hash[3], SubSeq(am, 16 * 3 + 1, 49) \o HandPad(1, 32 * 49))
  <2>1. 3 \in 0 .. 3 /\ 1 \in 1 .. 13 /\ 49 \in 0 .. 50 /\ 49 = 16 * 3 + 1
    OBVIOUS
  <2> QED BY <1>1, <2>1, ShaLemma, ZenonT(60)
<1> HIDE DEF hash
<1>5. 16 + 1 = 17 /\ 16 + 16 = 32 /\ 16 + 17 = 33 /\ 16 + 32 = 48 /\ 16 + 33 = 49
  OBVIOUS
<1>6. u1 = a /\ u2 = v1 /\ u3 = v2 /\ u4 = v3
  BY <1>2, <1>3, <1>5, Zenon DEF Same
<1>7. /\ hash[1] = Compress(InitialHash, u1)
      /\ hash[2] = Compress(hash[1], u2)
      /\ hash[3] = Compress(hash[2], u3)
  BY <1>4
<1>8. whole = Compress(hash[3], u4 \o pad)
  BY <1>4 DEF FinalPad
<1> HIDE DEF u1, u2, u3, u4, v1, v2, v3, pad, whole
<1>9. whole = Compress(Compress(Compress(Compress(InitialHash, a), v1), v2), v3 \o pad)
  BY <1>6, <1>7, <1>8
<1> QED BY <1>9 DEF am, whole, v1, v2, v3, pad, Same

\* A message of one block and eight words.
LEMMA Sha24 ==
  ASSUME NEW a \in Words(16), NEW m \in Words(8)
  PROVE  Same(Sha256(a \o m), Compress(Compress(InitialHash, a), m \o outerpad))
<1> DEFINE am == a \o m
           hash == Chain(Padded(am))
<1>0. 16 \in Nat /\ 8 \in Nat /\ 16 >= 1 /\ 8 >= 1 /\ 1 \in 1 .. 8 /\ 8 \in 1 .. 8
  OBVIOUS
<1>1. am \in Words(24)
  <2>1. am \in Words(16 + 8)
    BY <1>0, ConcatLemma, Zenon
  <2> HIDE DEF am
  <2> QED BY <2>1
<1>2. Same(SubSeq(am, 1, 16), a) /\ Same(SubSeq(am, 16 + 1, 16 + 8), SubSeq(m, 1, 8))
  BY <1>0, SubConcat, Zenon
<1>3. Same(SubSeq(m, 1, 8), m)
  BY <1>0, SubWhole, Zenon
<1> HIDE DEF am
<1>4. /\ hash[0] = InitialHash
      /\ \A b \in 1 .. 1 : hash[b] = Compress(hash[b - 1], SubSeq(am, 16 * b - 15, 16 * b))
      /\ Sha256(am) = Compress(hash[1], SubSeq(am, 16 * 1 + 1, 24) \o HandPad(8, 32 * 24))
  <2>1. 1 \in 0 .. 3 /\ 8 \in 1 .. 13 /\ 24 \in 0 .. 50 /\ 24 = 16 * 1 + 8
    OBVIOUS
  <2> QED BY <1>1, <2>1, ShaLemma, ZenonT(60)
<1> HIDE DEF hash
<1>5. 16 + 1 = 17 /\ 16 + 8 = 24
  OBVIOUS
<1>6. SubSeq(am, 1, 16) = a /\ SubSeq(am, 17, 24) = m
  BY <1>2, <1>3, <1>5, Zenon DEF Same
<1>7. hash[1] = Compress(InitialHash, SubSeq(am, 1, 16))
  BY <1>4
<1>8. Sha256(am) = Compress(hash[1], SubSeq(am, 17, 24) \o outerpad)
  <2>1. 16 * 1 + 1 = 17 /\ 32 * 24 = 768
    OBVIOUS
  <2> QED BY <1>4, <2>1, HandPads, ZenonT(60)
<1>9. Sha256(am) = Compress(Compress(InitialHash, a), m \o outerpad)
  BY <1>6, <1>7, <1>8, Zenon
<1> QED BY <1>9 DEF am, Same

\* A message of one block and four words: a header.
LEMMA Sha20 ==
  ASSUME NEW w \in Words(20)
  PROVE  /\ Sha256(w) = Compress(Compress(InitialHash, SubSeq(w, 1, 16)), SubSeq(w, 17, 20) \o HandPad(4, 640))
         /\ Sha256(w) \in Words(8)
<1>1. Sha256(w) = Compress(Compress(InitialHash, SubSeq(w, 1, 16)), SubSeq(w, 17, 20) \o HandPad(4, 640))
  <2>1. LET hash == Chain(Padded(w)) IN
         /\ hash[0] = InitialHash
         /\ \A b \in 1 .. 1 : hash[b] = Compress(hash[b - 1], SubSeq(w, 16 * b - 15, 16 * b))
         /\ Sha256(w) = Compress(hash[1], SubSeq(w, 16 * 1 + 1, 20) \o HandPad(4, 32 * 20))
    <3>1. 1 \in 0 .. 3 /\ 4 \in 1 .. 13 /\ 20 \in 0 .. 50 /\ 20 = 16 * 1 + 4
      OBVIOUS
    <3> QED BY <3>1, ShaLemma, ZenonT(60)
  <2>2. Chain(Padded(w))[1] = Compress(InitialHash, SubSeq(w, 1, 16))
    BY <2>1
  <2>3. 16 * 1 + 1 = 17 /\ 32 * 20 = 640
    OBVIOUS
  <2> QED BY <2>1, <2>2, <2>3, ZenonT(60)
<1> QED BY <1>1, CompressLemma, ZenonT(60)

\* A part of the first of two messages.
LEMMA SubInFirst ==
  ASSUME NEW m \in Nat, NEW n \in Nat, NEW a \in Words(m), NEW b \in Words(n),
         NEW j \in 1 .. m, NEW k \in j .. m
  PROVE  Same(SubSeq(a \o b, j, k), SubSeq(a, j, k))
<1> DEFINE ab == a \o b
           c == k - j + 1
           s == SubSeq(ab, j, k)
           t == SubSeq(a, j, k)
<1>0. c \in Nat /\ k - j + 1 = c /\ m + n \in Nat /\ j \in 1 .. m + n /\ k \in j .. m + n
  OBVIOUS
<1>1. ab \in Words(m + n) /\ \A i \in 1 .. m : ab[i] = a[i]
  BY ConcatLemma, Zenon
<1> HIDE DEF ab, c
<1>2. s \in Words(c) /\ \A i \in 1 .. c : s[i] = ab[j + i - 1]
  <2>1. ab \in Words(m + n)
    BY <1>1
  <2> QED BY <1>0, <2>1, SubSeqLemma, ZenonT(60)
<1>3. t \in Words(c) /\ \A i \in 1 .. c : t[i] = a[j + i - 1]
  BY <1>0, SubSeqLemma, ZenonT(60)
<1> HIDE DEF s, t
<1>4. \A i \in 1 .. c : j + i - 1 \in 1 .. m
  BY <1>0
<1>5. \A i \in 1 .. c : s[i] = t[i]
  BY <1>1, <1>2, <1>3, <1>4, Zenon
<1>6. s = t
  BY <1>0, <1>2, <1>3, <1>5, SameWords, Zenon
<1> QED BY <1>6, Zenon DEF ab, s, t, Same

-----------------------------------------------------------------------------
\* HMAC.

\* The first blocks of HMAC's two messages, for a header as the key.
KeyBlock(key, x) == Masked(Sha256(key), x) \o Fill(8, x)

\* HMAC with a header as its key: the key is hashed, and what fills it up with zeros is
\* the filling of the masked key.
LEMMA HmacKey ==
  ASSUME NEW key \in Words(20), NEW message
  PROVE  /\ KeyBlock(key, Ipad) \in Words(16) /\ KeyBlock(key, Opad) \in Words(16)
         /\ Hmac(key, message)
              = Sha256(KeyBlock(key, Opad) \o Sha256(KeyBlock(key, Ipad) \o message))
<1> DEFINE short == Sha256(key)
           zeros == Zeros(8)
           padded == short \o zeros
<1>1. short \in Words(8)
  BY Sha20
<1>2. Len(key) = 20 /\ Len(short) = 8
  BY <1>1 DEF Words
<1>3. zeros \in Words(8) /\ \A i \in 1 .. 8 : zeros[i] = 0
  <2>1. 8 \in Nat
    OBVIOUS
  <2> QED BY <2>1, ZerosLemma, Zenon
<1> HIDE DEF short, zeros
<1>4. ASSUME NEW x \in Word
      PROVE  KeyBlock(key, x) \in Words(16) /\ Masked(padded, x) = KeyBlock(key, x)
  <2> DEFINE low == Masked(short, x)
             high == Masked(zeros, x)
             fill == Fill(8, x)
  <2>1. 8 \in Nat
    OBVIOUS
  <2>2. Same(Masked(padded, x), low \o high)
    BY <1>1, <1>3, <2>1, SwabbedParts, Zenon
  <2>3. low \in Words(8)
    BY <1>1, <2>1, MaskedLemma, Zenon
  <2>4. high \in Words(8) /\ \A i \in 1 .. 8 : high[i] = Xor(zeros[i], x)
    BY <1>3, <2>1, MaskedLemma, Zenon
  <2>5. fill \in Words(8) /\ \A i \in 1 .. 8 : fill[i] = x
    BY <2>1, FillLemma, Zenon
  <2> HIDE DEF low, high, fill, padded
  <2>6. Xor(0, x) = x
    BY SomeFacts
  <2>7. \A i \in 1 .. 8 : high[i] = fill[i]
    BY <1>3, <2>4, <2>5, <2>6, Zenon
  <2>8. high = fill
    BY <2>1, <2>4, <2>5, <2>7, SameWords, Zenon
  <2>9. Masked(padded, x) = low \o fill
    BY <2>2, <2>8, Zenon DEF Same
  <2>10. KeyBlock(key, x) = low \o fill
    BY Zenon DEF KeyBlock, low, fill, short
  <2>11. low \o fill \in Words(8 + 8)
    BY <2>1, <2>3, <2>5, ConcatLemma, Zenon
  <2> DEFINE block2 == low \o fill
  <2> HIDE DEF block2
  <2>12. block2 \in Words(16)
    BY <2>11 DEF block2
  <2> QED BY <2>9, <2>10, <2>12, Zenon DEF block2
<1>5. Ipad \in Word /\ Opad \in Word
  BY WordFacts
<1>6. Hmac(key, message) = Sha256(Masked(padded, Opad) \o Sha256(Masked(padded, Ipad) \o message))
  <2>1. 20 > 16 /\ 16 - 8 = 8
    OBVIOUS
  <2>2. (IF Len(key) > 16 THEN Sha256(key) ELSE key) = short
    BY <1>2, <2>1, Zenon DEF short
  <2>3. short \o Zeros(16 - Len(short)) = padded
    BY <1>2, <2>1, Zenon DEF zeros
  <2> HIDE DEF padded
  <2> QED BY <2>2, <2>3, Zenon DEF Hmac
<1> HIDE DEF padded
<1>7. /\ KeyBlock(key, Ipad) \in Words(16) /\ KeyBlock(key, Opad) \in Words(16)
      /\ Masked(padded, Ipad) = KeyBlock(key, Ipad) /\ Masked(padded, Opad) = KeyBlock(key, Opad)
  BY <1>4, <1>5
<1> QED BY <1>6, <1>7, Zenon

\* HMAC_SHA256_80_init: the hash values after those two blocks.
LEMMA HmacInitLemma ==
  ASSUME NEW key \in Words(20)
  PROVE  HmacInit(key, Compress(InitialHash, SubSeq(key, 1, 16)))
           = [o |-> Compress(InitialHash, KeyBlock(key, Opad)),
              t |-> Compress(InitialHash, KeyBlock(key, Ipad))]
<1>1. Sha256(key) = Compress(Compress(InitialHash, SubSeq(key, 1, 16)), SubSeq(key, 17, 20) \o keypad)
  BY Sha20, HandPads, ZenonT(60)
<1> QED BY <1>1, Zenon DEF HmacInit, KeyBlock

\* HMAC of twenty words and the number of a block.
LEMMA HmacShort ==
  ASSUME NEW key \in Words(20), NEW salt \in Words(20), NEW k \in Word
  PROVE  Hmac(key, salt \o <<k>>)
           = Compress(Compress(InitialHash, KeyBlock(key, Opad)),
                      Compress(Compress(Compress(InitialHash, KeyBlock(key, Ipad)), SubSeq(salt, 1, 16)),
                               SubSeq(salt, 17, 20) \o <<k>> \o innerpad) \o outerpad)
<1> DEFINE one == <<k>>
           m == salt \o one
           ki == KeyBlock(key, Ipad)
           ko == KeyBlock(key, Opad)
           inner == Sha256(ki \o m)
           s1 == SubSeq(salt, 1, 16)
           s2 == SubSeq(salt, 17, 20)
           m1 == SubSeq(m, 1, 16)
           m2 == SubSeq(m, 17, 21)
<1>0. /\ 20 \in Nat /\ 1 \in Nat /\ 1 >= 1 /\ 1 \in 1 .. 20 /\ 16 \in 1 .. 20 /\ 17 \in 1 .. 20
      /\ 20 + 1 = 21
  OBVIOUS
<1>1. one \in Words(1)
  BY OneWord
<1> HIDE DEF one
<1>2. m \in Words(21)
  <2>1. m \in Words(20 + 1)
    BY <1>0, <1>1, ConcatLemma, Zenon
  <2> HIDE DEF m
  <2> QED BY <2>1
<1>3. m1 = s1
  <2>1. Same(m1, s1)
    BY <1>0, <1>1, SubInFirst, Zenon
  <2> QED BY <2>1, Zenon DEF Same
<1>4. m2 = s2 \o one
  <2>1. Same(SubSeq(m, 17, 20 + 1), s2 \o one)
    BY <1>0, <1>1, SubAcross, Zenon
  <2> QED BY <1>0, <2>1, Zenon DEF Same
<1>5. ki \in Words(16) /\ ko \in Words(16) /\ Hmac(key, m) = Sha256(ko \o inner)
  BY HmacKey, Zenon
<1> HIDE DEF m, ki, ko
<1>6. inner = Compress(Compress(Compress(InitialHash, ki), m1), m2 \o innerpad)
  <2>1. Same(Sha256(ki \o m), Compress(Compress(Compress(InitialHash, ki), m1), m2 \o innerpad))
    BY <1>2, <1>5, Sha37, Zenon
  <2> QED BY <2>1, Zenon DEF Same
<1>7. inner \in Words(8)
  BY <1>6, CompressLemma, Zenon
<1> HIDE DEF inner
<1>8. Sha256(ko \o inner) = Compress(Compress(InitialHash, ko), inner \o outerpad)
  BY <1>5, <1>7, Sha24, Zenon DEF Same
<1> DEFINE sk == s2 \o one
<1> HIDE DEF m1, m2, s1, sk
<1>9. Hmac(key, m) = Compress(Compress(InitialHash, ko),
                              Compress(Compress(Compress(InitialHash, ki), s1), sk \o innerpad) \o outerpad)
  <2>1. m2 = sk
    BY <1>4 DEF sk
  <2> QED BY <1>3, <1>5, <1>6, <1>8, <2>1, Zenon
<1> QED BY <1>9 DEF m, ki, ko, s1, s2, sk, one

\* HMAC of thirty-two words and the number of the only block.
LEMMA HmacLong ==
  ASSUME NEW key \in Words(20), NEW salt \in Words(32)
  PROVE  Hmac(key, salt \o <<1>>)
           = Compress(Compress(InitialHash, KeyBlock(key, Opad)),
                      Compress(Compress(Compress(Compress(InitialHash, KeyBlock(key, Ipad)),
                                                 SubSeq(salt, 1, 16)),
                                        SubSeq(salt, 17, 32)), finalblk) \o outerpad)
<1> DEFINE one == <<1>>
           m == salt \o one
           ki == KeyBlock(key, Ipad)
           ko == KeyBlock(key, Opad)
           inner == Sha256(ki \o m)
           s1 == SubSeq(salt, 1, 16)
           s2 == SubSeq(salt, 17, 32)
           m1 == SubSeq(m, 1, 16)
           m2 == SubSeq(m, 17, 32)
           m3 == SubSeq(m, 33, 33)
           pad == FinalPad
<1>0. /\ 32 \in Nat /\ 1 \in Nat /\ 32 >= 1 /\ 1 >= 1 /\ 1 \in 1 .. 32 /\ 16 \in 1 .. 32 /\ 17 \in 1 .. 32
      /\ 32 \in 17 .. 32 /\ 32 + 1 = 33 /\ 1 \in 1 .. 1
  OBVIOUS
<1>1. one \in Words(1)
  <2>1. 1 \in Word
    BY StandardsAssumption, WordFacts DEF Word
  <2> QED BY <2>1, OneWord
<1> HIDE DEF one
<1>2. m \in Words(33)
  <2>1. m \in Words(32 + 1)
    BY <1>0, <1>1, ConcatLemma, Zenon
  <2> HIDE DEF m
  <2> QED BY <2>1
<1>3. m1 = s1 /\ m2 = s2
  <2>1. Same(m1, s1)
    BY <1>0, <1>1, SubInFirst, Zenon
  <2>2. Same(m2, s2)
    BY <1>0, <1>1, SubInFirst, Zenon
  <2> QED BY <2>1, <2>2, Zenon DEF Same
<1>4. m3 = one
  <2>1. Same(SubSeq(m, 32 + 1, 32 + 1), SubSeq(one, 1, 1))
    BY <1>0, <1>1, SubConcat, Zenon
  <2>2. Same(SubSeq(one, 1, 1), one)
    BY <1>0, <1>1, SubWhole, Zenon
  <2> QED BY <1>0, <2>1, <2>2, Zenon DEF Same
<1>5. ki \in Words(16) /\ ko \in Words(16) /\ Hmac(key, m) = Sha256(ko \o inner)
  BY HmacKey, Zenon
<1> HIDE DEF m, ki, ko
<1>6. inner = Compress(Compress(Compress(Compress(InitialHash, ki), m1), m2), m3 \o pad)
  <2>1. Same(Sha256(ki \o m),
             Compress(Compress(Compress(Compress(InitialHash, ki), m1), m2), m3 \o pad))
    BY <1>2, <1>5, Sha49, Zenon
  <2> QED BY <2>1, Zenon DEF Same
<1>61. one \o pad = finalblk
  BY HandPads, Zenon DEF one, pad
<1> HIDE DEF pad
<1>7. inner \in Words(8)
  BY <1>6, CompressLemma, Zenon
<1> HIDE DEF inner
<1>8. Sha256(ko \o inner) = Compress(Compress(InitialHash, ko), inner \o outerpad)
  BY <1>5, <1>7, Sha24, Zenon DEF Same
<1> HIDE DEF m1, m2, m3, s1, s2
<1>9. Hmac(key, m) = Compress(Compress(InitialHash, ko),
                              Compress(Compress(Compress(Compress(InitialHash, ki), s1), s2), finalblk)
                                \o outerpad)
  BY <1>3, <1>4, <1>5, <1>6, <1>61, <1>8, Zenon
<1> QED BY <1>9 DEF m, ki, ko, s1, s2, one

-----------------------------------------------------------------------------
\* PBKDF2.

\* The derived words, block by block.
Derived(password, salt, blocks) ==
  LET derived[b \in 0 .. blocks] ==
        IF b = 0 THEN <<>> ELSE derived[b - 1] \o Hmac(password, salt \o <<b>>)
  IN derived

NextDerived(password, salt, d, b) == d \o Hmac(password, salt \o <<b>>)

\* The recursive function is the one that its equation describes.
LEMMA DerivedLemma ==
  ASSUME NEW password, NEW salt, NEW N \in Nat
  PROVE  /\ Derived(password, salt, N)[0] = <<>>
         /\ \A b \in 1 .. N :
              Derived(password, salt, N)[b]
                = NextDerived(password, salt, Derived(password, salt, N)[b - 1], b)
<1> DEFINE Step(d, b) == NextDerived(password, salt, d, b)
           Is(h, n) == h = [b \in 0 .. n |-> IF b = 0 THEN <<>> ELSE Step(h[b - 1], b)]
           S == {n \in Nat : \E h : Is(h, n)}
           D == Derived(password, salt, N)
<1> HIDE DEF Step
<1>1. 0 \in S
  <2> DEFINE h == [b \in 0 .. 0 |-> <<>>]
  <2>1. Is(h, 0)
    OBVIOUS
  <2> QED BY <2>1
<1>2. ASSUME NEW n \in Nat, n \in S PROVE n + 1 \in S
  <2>1. PICK h : Is(h, n)
    BY <1>2
  <2> DEFINE g == [b \in 0 .. n + 1 |-> IF b = n + 1 THEN Step(h[n], b) ELSE h[b]]
  <2>2. Is(g, n + 1)
    BY <2>1
  <2>3. \E k : Is(k, n + 1)
    <3> HIDE DEF g, Is
    <3> QED BY <2>2
  <2> QED BY <2>3
<1>3. N \in S
  <2> HIDE DEF S
  <2> QED BY <1>1, <1>2, Induction
<1>4. Is(D, N)
  <2>1. \E h : Is(h, N)
    BY <1>3
  <2>2. D = CHOOSE h : Is(h, N)
    BY DEF Derived, Step, NextDerived
  <2> HIDE DEF Is, D
  <2> QED BY <2>1, <2>2
<1> HIDE DEF D
<1>5. D[0] = <<>> /\ \A b \in 1 .. N : D[b] = Step(D[b - 1], b)
  BY <1>4
<1> QED BY <1>5 DEF D, Step

\* Hashes and their concatenation with nothing.
LEMMA NothingFirst == ASSUME NEW n \in Nat, NEW a \in Words(n) PROVE Same(<<>> \o a, a)
<1>1. a \in Seq(Word)
  BY DEF Words
<1> QED BY <1>1 DEF Same

\* The hash values of a header's two first blocks, as SHA256_before keeps them.
Inner(key) == Compress(InitialHash, KeyBlock(key, Ipad))
Outer(key) == Compress(InitialHash, KeyBlock(key, Opad))

\* Four blocks of the header's own words: PBKDF2_SHA256_80_128.
LEMMA DeriveFour ==
  ASSUME NEW key \in Words(20)
  PROVE  /\ Derive80to128(Inner(key), Outer(key), key) = Swabbed(Pbkdf2(key, key, 4))
         /\ Swabbed(Pbkdf2(key, key, 4)) \in Words(32)
<1> DEFINE D == Derived(key, key, 4)
           H(k) == Hmac(key, key \o <<k>>)
           obuf(k) == Compress(Compress(Inner(key), SubSeq(key, 1, 16)),
                               SubSeq(key, 17, 20) \o <<k>> \o innerpad)
           part(k) == Swabbed(Compress(Outer(key), obuf(k) \o outerpad))
<1>1. ASSUME NEW k \in Word PROVE part(k) = Swabbed(H(k)) /\ H(k) \in Words(8)
  <2>1. H(k) = Compress(Outer(key), obuf(k) \o outerpad)
    BY HmacShort, Zenon DEF Inner, Outer
  <2> QED BY <2>1, CompressLemma, Zenon
<1>2. 1 \in Word /\ 2 \in Word /\ 3 \in Word /\ 4 \in Word
  BY StandardsAssumption, WordFacts DEF Word
<1>3. Derive80to128(Inner(key), Outer(key), key) = ((part(1) \o part(2)) \o part(3)) \o part(4)
  BY Zenon DEF Derive80to128
<1>4. D[0] = <<>> /\ \A b \in 1 .. 4 : D[b] = NextDerived(key, key, D[b - 1], b)
  <2>1. 4 \in Nat
    OBVIOUS
  <2> QED BY <2>1, DerivedLemma, ZenonT(60)
<1>5. Pbkdf2(key, key, 4) = D[4]
  BY DEF Pbkdf2, Derived
<1> DEFINE p1 == part(1)
           p2 == part(2)
           p3 == part(3)
           p4 == part(4)
           h1 == H(1)
           h2 == H(2)
           h3 == H(3)
           h4 == H(4)
<1>6. /\ h1 \in Words(8) /\ h2 \in Words(8) /\ h3 \in Words(8) /\ h4 \in Words(8)
      /\ p1 = Swabbed(h1) /\ p2 = Swabbed(h2) /\ p3 = Swabbed(h3) /\ p4 = Swabbed(h4)
  BY <1>1, <1>2
<1> HIDE DEF part, D, obuf
<1>7. D[1] = <<>> \o h1 /\ D[2] = D[1] \o h2 /\ D[3] = D[2] \o h3 /\ D[4] = D[3] \o h4
  <2>1. /\ D[1] = NextDerived(key, key, <<>>, 1) /\ D[2] = NextDerived(key, key, D[1], 2)
        /\ D[3] = NextDerived(key, key, D[2], 3) /\ D[4] = NextDerived(key, key, D[3], 4)
    BY <1>4
  <2> QED BY <2>1, Zenon DEF NextDerived, h1, h2, h3, h4, H
<1> HIDE DEF H
<1> HIDE DEF h1, h2, h3, h4, p1, p2, p3, p4
<1> DEFINE c2 == h1 \o h2
           c3 == c2 \o h3
           c4 == c3 \o h4
<1>0. 8 \in Nat /\ 16 \in Nat /\ 24 \in Nat
  OBVIOUS
<1>8. c2 \in Words(16) /\ Same(Swabbed(c2), p1 \o p2)
  <2>1. c2 \in Words(8 + 8)
    BY <1>0, <1>6, ConcatLemma, Zenon
  <2>2. Same(Swabbed(c2), Swabbed(h1) \o Swabbed(h2))
    BY <1>0, <1>6, WordFacts, SwabbedParts, Zenon
  <2> HIDE DEF c2
  <2>3. c2 \in Words(16)
    BY <2>1
  <2> QED BY <1>6, <2>2, <2>3, Zenon
<1> HIDE DEF c2
<1>9. c3 \in Words(24) /\ Same(Swabbed(c3), Swabbed(c2) \o p3)
  <2>1. c3 \in Words(16 + 8)
    BY <1>0, <1>6, <1>8, ConcatLemma, Zenon
  <2>2. Same(Swabbed(c3), Swabbed(c2) \o Swabbed(h3))
    BY <1>0, <1>6, <1>8, WordFacts, SwabbedParts, Zenon
  <2> HIDE DEF c3
  <2>3. c3 \in Words(24)
    BY <2>1
  <2> QED BY <1>6, <2>2, <2>3, Zenon
<1> HIDE DEF c3
<1>10. c4 \in Words(32) /\ Same(Swabbed(c4), Swabbed(c3) \o p4)
  <2>1. c4 \in Words(24 + 8)
    BY <1>0, <1>6, <1>9, ConcatLemma, Zenon
  <2>2. Same(Swabbed(c4), Swabbed(c3) \o Swabbed(h4))
    BY <1>0, <1>6, <1>9, WordFacts, SwabbedParts, Zenon
  <2> HIDE DEF c4
  <2>3. c4 \in Words(32)
    BY <2>1
  <2> QED BY <1>6, <2>2, <2>3, Zenon
<1> HIDE DEF c4
<1>11. Swabbed(c4) = ((p1 \o p2) \o p3) \o p4
  BY <1>8, <1>9, <1>10, Zenon DEF Same
<1>12. D[4] = c4
  <2>1. <<>> \o h1 = h1
    BY <1>0, <1>6, NothingFirst, Zenon DEF Same
  <2>2. D[2] = c2
    BY <1>7, <2>1, Zenon DEF c2
  <2>3. D[3] = c3
    BY <1>7, <2>2, Zenon DEF c3
  <2> QED BY <1>7, <2>3, Zenon DEF c4
<1>13. Derive80to128(Inner(key), Outer(key), key) = ((p1 \o p2) \o p3) \o p4
  BY <1>3 DEF p1, p2, p3, p4
<1>14. Swabbed(c4) \in Words(32)
  <2>1. 32 \in Nat
    OBVIOUS
  <2> QED BY <1>10, <2>1, WordFacts, MaskedLemma, Zenon
<1> QED BY <1>5, <1>11, <1>12, <1>13, <1>14, Zenon

\* One block of what the DFE returns: PBKDF2_SHA256_128_32.
LEMMA DeriveOne ==
  ASSUME NEW key \in Words(20), NEW x \in Words(32)
  PROVE  Derive128to32(Inner(key), Outer(key), x).hash = Swabbed(Pbkdf2(key, Swabbed(x), 1))
<1> DEFINE salt == Swabbed(x)
           D == Derived(key, salt, 1)
           h == Hmac(key, salt \o <<1>>)
           s1 == SubSeq(salt, 1, 16)
           s2 == SubSeq(salt, 17, 32)
           t1 == Swabbed(SubSeq(x, 1, 16))
           t2 == Swabbed(SubSeq(x, 17, 32))
<1>0. 32 \in Nat /\ 1 \in 1 .. 32 /\ 16 \in 1 .. 32 /\ 17 \in 1 .. 32 /\ 32 \in 17 .. 32 /\ 1 \in Nat /\ 8 \in Nat
  OBVIOUS
<1>1. salt \in Words(32)
  BY <1>0, WordFacts, MaskedLemma, Zenon
<1>2. s1 = t1 /\ s2 = t2
  <2>1. Same(s1, t1)
    BY <1>0, SwabbedPart, Zenon
  <2>2. Same(s2, t2)
    BY <1>0, SwabbedPart, Zenon
  <2> QED BY <2>1, <2>2, Zenon DEF Same
<1> HIDE DEF salt
<1>3. h = Compress(Outer(key), Compress(Compress(Compress(Inner(key), s1), s2), finalblk) \o outerpad)
  BY <1>1, HmacLong, Zenon DEF Inner, Outer
<1>4. h \in Words(8)
  BY <1>3, CompressLemma, Zenon
<1>5. Pbkdf2(key, salt, 1) = D[1]
  BY DEF Pbkdf2, Derived
<1>6. D[0] = <<>> /\ \A b \in 1 .. 1 : D[b] = NextDerived(key, salt, D[b - 1], b)
  <2>1. 1 \in Nat
    OBVIOUS
  <2> QED BY <2>1, DerivedLemma, ZenonT(60)
<1> HIDE DEF D
<1>7. D[1] = <<>> \o h
  <2>1. D[1] = NextDerived(key, salt, <<>>, 1)
    BY <1>6
  <2> QED BY <2>1, Zenon DEF NextDerived, h
<1> HIDE DEF h
<1>8. D[1] = h
  <2>1. Same(<<>> \o h, h)
    BY <1>0, <1>4, NothingFirst, Zenon
  <2> QED BY <1>7, <2>1, Zenon DEF Same
<1> HIDE DEF s1, s2, t1, t2
<1>9. Derive128to32(Inner(key), Outer(key), x).hash
        = Swabbed(Compress(Outer(key), Compress(Compress(Compress(Inner(key), t1), t2), finalblk) \o outerpad))
  BY DEF Derive128to32, t1, t2
<1>10. Derive128to32(Inner(key), Outer(key), x).hash = Swabbed(h)
  BY <1>2, <1>3, <1>9, Zenon
<1> QED BY <1>5, <1>8, <1>10, Zenon DEF salt

-----------------------------------------------------------------------------
\* scryptROMix.

\* Exclusive or commutes, bit by bit.
LEMMA XorCommutes == ASSUME NEW x \in Word, NEW y \in Word PROVE Xor(x, y) = Xor(y, x)
<1>1. Xor(x, y) \in Word /\ Xor(y, x) \in Word
  BY BitsAssumption, Zenon
<1>2. ASSUME NEW i \in Index PROVE Bit(Xor(x, y), i) <=> Bit(Xor(y, x), i)
  <2>1. Bit(Xor(x, y), i) <=> ~(Bit(x, i) <=> Bit(y, i))
    BY BitsAssumption, Zenon
  <2>2. Bit(Xor(y, x), i) <=> ~(Bit(y, i) <=> Bit(x, i))
    BY BitsAssumption, Zenon
  <2> QED BY <2>1, <2>2, Zenon
<1> QED BY <1>1, <1>2, BitsAssumption, Zenon

\* So it does word by word.
LEMMA XorWordsCommute ==
  ASSUME NEW n \in Nat, NEW a \in Words(n), NEW b \in Words(n)
  PROVE  Same(XorWords(a, b), XorWords(b, a))
<1> DEFINE ab == XorWords(a, b)
           ba == XorWords(b, a)
<1>1. ab \in Words(n) /\ \A i \in 1 .. n : ab[i] = Xor(a[i], b[i])
  BY XorWordsLemma, Zenon
<1>2. ba \in Words(n) /\ \A i \in 1 .. n : ba[i] = Xor(b[i], a[i])
  BY XorWordsLemma, Zenon
<1>3. \A i \in 1 .. n : Xor(a[i], b[i]) = Xor(b[i], a[i])
  <2>1. \A i \in 1 .. n : a[i] \in Word /\ b[i] \in Word
    BY DEF Words
  <2> QED BY <2>1, XorCommutes, Zenon
<1> HIDE DEF ab, ba
<1>4. \A i \in 1 .. n : ab[i] = ba[i]
  BY <1>1, <1>2, <1>3, Zenon
<1>5. ab = ba
  BY <1>1, <1>2, <1>4, SameWords, Zenon
<1> QED BY <1>5, Zenon DEF ab, ba, Same

\* scryptBlockMix gives 32 words, and xor_salsa8 called twice computes it.
LEMMA BlockMixLemma ==
  ASSUME NEW b \in Words(32)
  PROVE  BlockMix(b) \in Words(32) /\ XorSalsas(b) = BlockMix(b)
<1> DEFINE low == SubSeq(b, 1, 16)
           high == SubSeq(b, 17, 32)
           first == Salsa(XorWords(high, low))
           second == Salsa(XorWords(first, high))
<1>0. /\ 32 \in Nat /\ 16 \in Nat /\ 1 \in 1 .. 32 /\ 16 \in 1 .. 32 /\ 17 \in 1 .. 32 /\ 32 \in 17 .. 32
      /\ 16 - 1 + 1 = 16 /\ 32 - 17 + 1 = 16
  OBVIOUS
<1>1. low \in Words(16)
  BY <1>0, SubSeqLemma, Zenon
<1>2. high \in Words(16)
  BY <1>0, SubSeqLemma, Zenon
<1>3. BlockMix(b) = first \o second
  BY Zenon DEF BlockMix
<1>4. XorSalsas(b) = Salsa(XorWords(low, high)) \o Salsa(XorWords(high, Salsa(XorWords(low, high))))
  BY Zenon DEF XorSalsas
<1> HIDE DEF low, high
<1>5. XorWords(low, high) = XorWords(high, low)
  <2>1. Same(XorWords(low, high), XorWords(high, low))
    BY <1>0, <1>1, <1>2, XorWordsCommute, Zenon
  <2> QED BY <2>1, Zenon DEF Same
<1>6. first \in Words(16) /\ second \in Words(16)
  BY SalsaLemma, Zenon
<1>7. XorSalsas(b) = first \o Salsa(XorWords(high, first))
  BY <1>4, <1>5, Zenon
<1> HIDE DEF first
<1>8. XorWords(high, first) = XorWords(first, high)
  <2>1. Same(XorWords(high, first), XorWords(first, high))
    BY <1>0, <1>2, <1>6, XorWordsCommute, Zenon
  <2> QED BY <2>1, Zenon DEF Same
<1>9. XorSalsas(b) = first \o second
  BY <1>7, <1>8, Zenon
<1> DEFINE whole == first \o second
<1>10. whole \in Words(16 + 16)
  BY <1>0, <1>6, ConcatLemma, Zenon
<1> HIDE DEF whole
<1>11. whole \in Words(32)
  BY <1>10
<1> QED BY <1>3, <1>9, <1>11, Zenon DEF whole

\* The scratchpad of ROMix, and what the second loop makes of the last word.
Pads(b) ==
  LET v[k \in 0 .. Iterations] == IF k = 0 THEN b ELSE BlockMix(v[k - 1]) IN v
Mixed(t, v) == BlockMix(XorWords(t, v[t[17] % Iterations]))
Mixes(b) ==
  LET x[k \in 0 .. Iterations] ==
        IF k = 0 THEN Pads(b)[Iterations] ELSE Mixed(x[k - 1], Pads(b))
  IN x

\* The recursive function is the one that its equation describes.
LEMMA PadsLemma ==
  ASSUME NEW b
  PROVE  Pads(b)[0] = b /\ \A k \in 1 .. Iterations : Pads(b)[k] = BlockMix(Pads(b)[k - 1])
<1> DEFINE Is(h, n) == h = [k \in 0 .. n |-> IF k = 0 THEN b ELSE BlockMix(h[k - 1])]
           S == {n \in Nat : \E h : Is(h, n)}
           D == Pads(b)
<1>0. Iterations \in Nat
  BY SomeFacts
<1>1. 0 \in S
  <2> DEFINE h == [k \in 0 .. 0 |-> b]
  <2>1. Is(h, 0)
    OBVIOUS
  <2> QED BY <2>1
<1>2. ASSUME NEW n \in Nat, n \in S PROVE n + 1 \in S
  <2>1. PICK h : Is(h, n)
    BY <1>2
  <2> DEFINE g == [k \in 0 .. n + 1 |-> IF k = n + 1 THEN BlockMix(h[n]) ELSE h[k]]
  <2>2. Is(g, n + 1)
    BY <2>1
  <2>3. \E k : Is(k, n + 1)
    <3> HIDE DEF g, Is
    <3> QED BY <2>2
  <2> QED BY <2>3
<1>3. Iterations \in S
  <2> HIDE DEF S
  <2> QED BY <1>0, <1>1, <1>2, Induction
<1>4. Is(D, Iterations)
  <2>1. \E h : Is(h, Iterations)
    BY <1>3
  <2>2. D = CHOOSE h : Is(h, Iterations)
    BY DEF Pads
  <2> HIDE DEF Is, D
  <2> QED BY <2>1, <2>2
<1> HIDE DEF D
<1>5. D[0] = b /\ \A k \in 1 .. Iterations : D[k] = BlockMix(D[k - 1])
  BY <1>0, <1>4
<1> QED BY <1>5 DEF D

\* The recursive function is the one that its equation describes.
LEMMA MixesLemma ==
  ASSUME NEW b
  PROVE  /\ Mixes(b)[0] = Pads(b)[Iterations]
         /\ \A k \in 1 .. Iterations : Mixes(b)[k] = Mixed(Mixes(b)[k - 1], Pads(b))
<1> DEFINE v == Pads(b)
           top == v[Iterations]
           Is(h, n) == h = [k \in 0 .. n |-> IF k = 0 THEN top ELSE Mixed(h[k - 1], v)]
           S == {n \in Nat : \E h : Is(h, n)}
           D == Mixes(b)
<1>4. Is(D, Iterations)
  <2>0. Iterations \in Nat
    BY SomeFacts
  <2>1. D = CHOOSE h : Is(h, Iterations)
    BY DEF Mixes
  <2> HIDE DEF v, top
  <2>2. 0 \in S
    <3> DEFINE h == [k \in 0 .. 0 |-> top]
    <3>1. Is(h, 0)
      OBVIOUS
    <3> QED BY <3>1
  <2>3. ASSUME NEW n \in Nat, n \in S PROVE n + 1 \in S
    <3>1. PICK h : Is(h, n)
      BY <2>3
    <3> DEFINE g == [k \in 0 .. n + 1 |-> IF k = n + 1 THEN Mixed(h[n], v) ELSE h[k]]
    <3>2. Is(g, n + 1)
      BY <3>1
    <3>3. \E k : Is(k, n + 1)
      <4> HIDE DEF g, Is
      <4> QED BY <3>2
    <3> QED BY <3>3
  <2>4. Iterations \in S
    <3> HIDE DEF S
    <3> QED BY <2>0, <2>2, <2>3, Induction
  <2>5. \E h : Is(h, Iterations)
    BY <2>4
  <2> HIDE DEF Is, D
  <2> QED BY <2>1, <2>5
<1>0. Iterations \in Nat
  BY SomeFacts
<1> HIDE DEF D, v, top
<1>5. D[0] = top /\ \A k \in 1 .. Iterations : D[k] = Mixed(D[k - 1], v)
  BY <1>0, <1>4
<1> QED BY <1>5 DEF D, v, top

\* All of them are of 32 words.
LEMMA ROMixLemma ==
  ASSUME NEW b \in Words(32)
  PROVE  /\ \A k \in 0 .. Iterations : Pads(b)[k] \in Words(32) /\ Mixes(b)[k] \in Words(32)
         /\ ROMix(b) = Mixes(b)[Iterations]
<1>1. ASSUME NEW t \in Words(32) PROVE BlockMix(t) \in Words(32)
  BY BlockMixLemma
<1> DEFINE v == Pads(b)
           x == Mixes(b)
<1>2. v[0] = b /\ \A k \in 1 .. Iterations : v[k] = BlockMix(v[k - 1])
  BY PadsLemma
<1>3. x[0] = v[Iterations] /\ \A k \in 1 .. Iterations : x[k] = Mixed(x[k - 1], v)
  BY MixesLemma
<1>4. ROMix(b) = x[Iterations]
  BY DEF ROMix, Mixes, Mixed, Pads
<1>0. Iterations \in Nat \ {0}
  BY SomeFacts
<1> HIDE DEF v, x
<1>5. \A n \in Nat : n <= Iterations => v[n] \in Words(32)
  <2> DEFINE S == {n \in Nat : n <= Iterations => v[n] \in Words(32)}
  <2>1. 0 \in S
    BY <1>2
  <2>2. ASSUME NEW n \in Nat, n \in S PROVE n + 1 \in S
    <3> SUFFICES ASSUME n + 1 <= Iterations PROVE v[n + 1] \in Words(32)
      OBVIOUS
    <3>1. n + 1 \in 1 .. Iterations /\ (n + 1) - 1 = n /\ n <= Iterations
      BY <1>0
    <3>2. v[n] \in Words(32)
      BY <2>2, <3>1
    <3>3. v[n + 1] = BlockMix(v[n])
      BY <1>2, <3>1
    <3> QED BY <1>1, <3>2, <3>3, Zenon
  <2>3. \A n \in Nat : n \in S
    <3> HIDE DEF S
    <3> QED BY <2>1, <2>2, Induction
  <2> QED BY <2>3
<1>6. \A n \in Nat : n <= Iterations => x[n] \in Words(32)
  <2> DEFINE S == {n \in Nat : n <= Iterations => x[n] \in Words(32)}
  <2>1. 0 \in S
    BY <1>0, <1>3, <1>5
  <2>2. ASSUME NEW n \in Nat, n \in S PROVE n + 1 \in S
    <3> SUFFICES ASSUME n + 1 <= Iterations PROVE x[n + 1] \in Words(32)
      OBVIOUS
    <3>1. n + 1 \in 1 .. Iterations /\ (n + 1) - 1 = n /\ n <= Iterations
      BY <1>0
    <3>2. x[n] \in Words(32)
      BY <2>2, <3>1
    <3> DEFINE j == x[n][17] % Iterations
    <3>3. x[n + 1] = BlockMix(XorWords(x[n], v[j]))
      BY <1>3, <3>1 DEF Mixed
    <3>4. x[n][17] \in Nat
      BY <3>2, WordFacts DEF Words, Word
    <3>5. j \in Nat /\ j <= Iterations
      BY <1>0, <3>4
    <3> HIDE DEF j
    <3>6. v[j] \in Words(32)
      BY <1>5, <3>5
    <3>7. XorWords(x[n], v[j]) \in Words(32)
      <4>1. 32 \in Nat
        OBVIOUS
      <4> QED BY <3>2, <3>6, <4>1, XorWordsLemma, Zenon
    <3> QED BY <1>1, <3>3, <3>7, Zenon
  <2>3. \A n \in Nat : n \in S
    <3> HIDE DEF S
    <3> QED BY <2>1, <2>2, Induction
  <2> QED BY <2>3
<1>7. \A k \in 0 .. Iterations : v[k] \in Words(32) /\ x[k] \in Words(32)
  BY <1>0, <1>5, <1>6
<1> QED BY <1>4, <1>7 DEF v, x

-----------------------------------------------------------------------------
\* Scrypt, begun and finished on the host.

\* What ROMix gives has the length of what it takes.
LEMMA ROMixWords == ASSUME NEW b \in Words(32) PROVE ROMix(b) \in Words(32)
<1>1. Iterations \in 0 .. Iterations
  BY SomeFacts
<1> QED BY <1>1, ROMixLemma

\* What SHA256_before makes of a header, given the hash of its first block.
LEMMA BegunLemma ==
  ASSUME NEW w \in Words(20)
  PROVE  Begun(w, Compress(InitialHash, SubSeq(w, 1, 16)))
           = [t |-> Inner(w), o |-> Outer(w), x |-> Swabbed(Pbkdf2(w, w, 4))]
<1> DEFINE keys == HmacInit(w, Compress(InitialHash, SubSeq(w, 1, 16)))
<1>1. keys = [o |-> Outer(w), t |-> Inner(w)]
  BY HmacInitLemma, Zenon DEF Inner, Outer
<1> HIDE DEF keys
<1>2. keys.t = Inner(w) /\ keys.o = Outer(w)
  BY <1>1
<1>3. Begun(w, Compress(InitialHash, SubSeq(w, 1, 16)))
        = [t |-> keys.t, o |-> keys.o, x |-> Derive80to128(keys.t, keys.o, w)]
  BY Zenon DEF Begun, keys
<1>4. Derive80to128(Inner(w), Outer(w), w) = Swabbed(Pbkdf2(w, w, 4))
  BY DeriveFour
<1> QED BY <1>2, <1>3, <1>4, Zenon

\* What SHA256_after makes of it, once it is mixed: scrypt of the header.
THEOREM ScryptInHalves ==
  ASSUME NEW w \in Words(20)
  PROVE  LET begun == Begun(w, Compress(InitialHash, SubSeq(w, 1, 16))) IN
         /\ begun.x \in Words(32)
         /\ Derive128to32(begun.t, begun.o, ROMix(begun.x)).hash = Scrypt(w)
<1> DEFINE begun == Begun(w, Compress(InitialHash, SubSeq(w, 1, 16)))
           b == Swabbed(Pbkdf2(w, w, 4))
<1>1. begun = [t |-> Inner(w), o |-> Outer(w), x |-> b]
  BY BegunLemma, Zenon
<1>2. b \in Words(32)
  BY DeriveFour
<1>3. Scrypt(w) = Swabbed(Pbkdf2(w, Swabbed(ROMix(b)), 1))
  BY DEF Scrypt
<1> HIDE DEF begun, b
<1>4. begun.t = Inner(w) /\ begun.o = Outer(w) /\ begun.x = b
  BY <1>1
<1>5. ROMix(b) \in Words(32)
  BY <1>2, ROMixWords, Zenon
<1>6. Derive128to32(Inner(w), Outer(w), ROMix(b)).hash = Swabbed(Pbkdf2(w, Swabbed(ROMix(b)), 1))
  BY <1>5, DeriveOne, Zenon
<1>7. /\ begun.x \in Words(32)
      /\ Derive128to32(begun.t, begun.o, ROMix(begun.x)).hash = Scrypt(w)
  BY <1>2, <1>3, <1>4, <1>6, Zenon
<1> QED BY <1>7, Zenon DEF begun

-----------------------------------------------------------------------------
\* The inductive invariant.

\* The header of job k, and its begun buffers.
Job(words, k) == WithNonce(words, k)
Mid(words) == Compress(InitialHash, SubSeq(words, 1, 16))
BegunJob(words, k) == Begun(Job(words, k), Mid(words))

HashingTypeOK ==
  /\ stage \in {"idle", "before", "dfe", "after", "hashed", "fill", "mix", "compared"}
  /\ header \in Headers \cup {TestHeader} /\ (testing => header = TestHeader)
  /\ left \subseteq Items /\ bad \subseteq Items
  /\ DOMAIN tstates = Items /\ DOMAIN ostates = Items /\ DOMAIN X = Items /\ DOMAIN output = Items
  /\ DOMAIN V = 0 .. Iterations - 1

\* The midstate is the job's.
MidstateInv == stage # "idle" => midstate = Mid(header)

\* Before the DFE runs: the headers that are done have been begun.
BeforeInv ==
  stage \in {"before", "dfe"} =>
    \A k \in Items : (stage = "dfe" \/ k \notin left) =>
      /\ tstates[k] = BegunJob(header, k).t /\ ostates[k] = BegunJob(header, k).o
      /\ X[k] = BegunJob(header, k).x

\* After it has run: what it got right is mixed, and the hash values wait until their
\* header is finished.
AfterInv ==
  stage = "after" =>
    \A k \in Items \ bad :
      /\ X[k] = ROMix(BegunJob(header, k).x)
      /\ k \in left => tstates[k] = BegunJob(header, k).t /\ ostates[k] = BegunJob(header, k).o
      /\ k \notin left => output[k] = Scrypt(Job(header, k))

OutputInv ==
  stage \in {"hashed", "fill", "mix", "compared"} =>
    \A k \in Items \ bad : output[k] = Scrypt(Job(header, k))

\* The self test: the headers before p are mixed, those after p only begun.
CpuInv ==
  stage \in {"fill", "mix"} =>
    /\ testing /\ p \in Items /\ iter \in 0 .. Iterations - 1
    /\ cpu = [k \in Items |-> [t |-> BegunJob(header, k).t, o |-> BegunJob(header, k).o, x |-> cpu[k].x]]
    /\ \A k \in Items : /\ k < p => cpu[k].x = ROMix(BegunJob(header, k).x)
                        /\ k > p => cpu[k].x = BegunJob(header, k).x

\* Header p: the scratchpad is ROMix's up to iter, and then whole.
FillInv ==
  stage = "fill" =>
    /\ cpu[p].x = Pads(BegunJob(header, p).x)[iter]
    /\ \A i \in 0 .. iter - 1 : V[i] = Pads(BegunJob(header, p).x)[i]
MixInv ==
  stage = "mix" =>
    /\ cpu[p].x = Mixes(BegunJob(header, p).x)[iter]
    /\ \A i \in 0 .. Iterations - 1 : V[i] = Pads(BegunJob(header, p).x)[i]

ComparedInv ==
  stage = "compared" => mismatches = {k \in Items : output[k] # Scrypt(Job(header, k))}

HashingInv ==
  /\ HashingTypeOK /\ MidstateInv /\ BeforeInv /\ AfterInv /\ OutputInv /\ BlockIsHashedTwice
  /\ CpuInv /\ FillInv /\ MixInv /\ ComparedInv

\* A job's header, begun with the midstate of the header without its nonce.
LEMMA JobLemma ==
  ASSUME NEW words \in Headers \cup {TestHeader}, NEW k \in Items
  PROVE  /\ words \in Words(20)
         /\ BegunJob(words, k).x \in Words(32)
         /\ BegunJob(words, k) = [t |-> BegunJob(words, k).t, o |-> BegunJob(words, k).o,
                                  x |-> BegunJob(words, k).x]
         /\ Derive128to32(BegunJob(words, k).t, BegunJob(words, k).o,
                          ROMix(BegunJob(words, k).x)).hash = Scrypt(Job(words, k))
<1>1. words \in Words(20)
  BY RunAssumption
<1>2. k \in Word
  BY RunAssumption, WordFacts DEF Items, Word
<1>3. Job(words, k) \in Words(20) /\ Mid(words) = Compress(InitialHash, SubSeq(Job(words, k), 1, 16))
  BY <1>1, <1>2, NonceLemma, Zenon DEF Job, Mid
<1> DEFINE begun == Begun(Job(words, k), Compress(InitialHash, SubSeq(Job(words, k), 1, 16)))
<1>4. begun = BegunJob(words, k)
  BY <1>3, Zenon DEF BegunJob
<1>5. begun.x \in Words(32) /\ Derive128to32(begun.t, begun.o, ROMix(begun.x)).hash = Scrypt(Job(words, k))
  BY <1>3, ScryptInHalves, Zenon
<1>6. begun = [t |-> Inner(Job(words, k)), o |-> Outer(Job(words, k)),
               x |-> Swabbed(Pbkdf2(Job(words, k), Job(words, k), 4))]
  BY <1>3, BegunLemma, Zenon
<1> HIDE DEF begun
<1>7. begun = [t |-> begun.t, o |-> begun.o, x |-> begun.x]
  BY <1>6
<1> QED BY <1>1, <1>4, <1>5, <1>7, Zenon

\* What never changes: the items are numbers from 0.
LEMMA ItemsFacts ==
  /\ NumScrypt \in Nat \ {0} /\ 0 \in Items /\ Items \subseteq Nat
  /\ \A k \in Items : k < NumScrypt - 1 => k + 1 \in Items
  /\ \A k \in Items : k <= NumScrypt - 1
BY RunAssumption DEF Items

\* Nothing is hashed yet.
LEMMA HashingInitInv == HashingInit => HashingInv
<1> SUFFICES ASSUME HashingInit PROVE HashingInv
  OBVIOUS
<1> USE DEF HashingInit
<1>1. HashingTypeOK
  BY DEF HashingTypeOK
<1>2. stage = "idle"
  OBVIOUS
<1> QED
  BY <1>1, <1>2 DEF HashingInv, MidstateInv, BeforeInv, AfterInv, OutputInv, BlockIsHashedTwice,
     CpuInv, FillInv, MixInv, ComparedInv

\* A new job: its midstate is computed, and every buffer is to be begun.
LEMMA PrepareRunInv == ASSUME HashingInv, PrepareRun PROVE HashingInv'
<1> USE DEF HashingInv, PrepareRun, buffers, cpuVars
<1>1. HashingTypeOK'
  BY DEF HashingTypeOK
<1>2. MidstateInv'
  BY DEF MidstateInv, Mid
<1>3. BeforeInv'
  BY DEF BeforeInv
<1> QED
  BY <1>1, <1>2, <1>3 DEF AfterInv, OutputInv, BlockIsHashedTwice, CpuInv, FillInv, MixInv, ComparedInv

\* SHA256_before on header k leaves the buffers that the job describes.
LEMMA BeforeStepInv == ASSUME HashingInv, NEW k \in Items, Before(k) PROVE HashingInv'
<1> USE DEF HashingInv, Before, buffers, cpuVars
<1>1. HashingTypeOK'
  BY DEF HashingTypeOK
<1>2. MidstateInv'
  BY DEF MidstateInv, HashingTypeOK
<1>3. BeforeInv'
  <2> DEFINE b(j) == BegunJob(header, j)
  <2>1. /\ tstates' = [tstates EXCEPT ![k] = b(k).t] /\ ostates' = [ostates EXCEPT ![k] = b(k).o]
        /\ X' = [X EXCEPT ![k] = b(k).x]
    <3>1. midstate = Mid(header)
      BY DEF MidstateInv
    <3> QED BY <3>1, Zenon DEF BegunJob, Job
  <2>2. header' = header /\ left' = left \ {k} /\ (stage' = "dfe" => left' = {}) /\ stage = "before"
    BY DEF HashingTypeOK
  <2>3. \A j \in Items : j \notin left =>
          tstates[j] = b(j).t /\ ostates[j] = b(j).o /\ X[j] = b(j).x
    BY <2>2 DEF BeforeInv
  <2>4. k \in DOMAIN tstates /\ k \in DOMAIN ostates /\ k \in DOMAIN X
    BY DEF HashingTypeOK
  <2> HIDE DEF b, Before, HashingInv
  <2>5. ASSUME NEW j \in Items, stage' = "dfe" \/ j \notin left'
        PROVE  tstates'[j] = b(j).t /\ ostates'[j] = b(j).o /\ X'[j] = b(j).x
    <3>1. j = k \/ j \notin left
      BY <2>2, <2>5
    <3>2. DOMAIN tstates = Items /\ DOMAIN ostates = Items /\ DOMAIN X = Items
      BY DEF HashingInv, HashingTypeOK
    <3> QED BY <2>1, <2>3, <2>4, <3>1, <3>2
  <2> QED BY <2>2, <2>5 DEF BeforeInv, b
<1>4. stage' \in {"before", "dfe"}
  OBVIOUS
<1> QED
  BY <1>1, <1>2, <1>3, <1>4
     DEF AfterInv, OutputInv, BlockIsHashedTwice, CpuInv, FillInv, MixInv, ComparedInv

\* A DFE run mixes every header but those it gets wrong.
LEMMA DfeRunInv == ASSUME HashingInv, DfeRun PROVE HashingInv'
<1> USE DEF HashingInv, DfeRun, buffers, cpuVars
<1>1. HashingTypeOK'
  BY DEF HashingTypeOK
<1>2. MidstateInv'
  BY DEF MidstateInv
<1>3. AfterInv'
  <2> SUFFICES ASSUME NEW k \in Items, k \notin bad'
               PROVE  /\ X'[k] = ROMix(BegunJob(header, k).x)
                      /\ tstates[k] = BegunJob(header, k).t /\ ostates[k] = BegunJob(header, k).o
    BY DEF AfterInv
  <2> QED BY DEF BeforeInv
<1>4. BlockIsHashedTwice'
  <2>1. PICK nonce \in BlockNonces :
          block' = [nonce |-> nonce,
                    hash2 |-> ComputeHash2(ComputeHash1(PoolMidstate(header), SubSeq(header, 17, 19), nonce))]
    BY Zenon
  <2>2. header \in Words(20) /\ nonce \in Word /\ header' = header
    BY RunAssumption DEF HashingTypeOK
  <2>3. ComputeHash2(ComputeHash1(PoolMidstate(header), SubSeq(header, 17, 19), nonce))
          = DoubleSha256(WithNonce(header, Swab(nonce)))
    BY <2>2, BlockLemma, Zenon
  <2>4. block'.nonce = nonce /\ block'.hash2 = DoubleSha256(WithNonce(header, Swab(nonce)))
    BY <2>1, <2>3
  <2> QED BY <2>2, <2>4, Zenon DEF BlockIsHashedTwice
<1> QED
  BY <1>1, <1>2, <1>3, <1>4 DEF BeforeInv, OutputInv, CpuInv, FillInv, MixInv, ComparedInv

\* SHA256_after on header k finishes the hash of that header.
LEMMA AfterStepInv == ASSUME HashingInv, NEW k \in Items, After(k) PROVE HashingInv'
<1> USE DEF HashingInv, After, buffers, cpuVars
<1>1. HashingTypeOK'
  BY DEF HashingTypeOK
<1>2. MidstateInv'
  BY DEF MidstateInv
<1> DEFINE b(j) == BegunJob(header, j)
<1>3. /\ header' = header /\ bad' = bad /\ X' = X /\ left' = left \ {k} /\ stage = "after"
      /\ stage' \in {"after", "hashed"} /\ (stage' = "hashed" => left' = {})
      /\ header \in Headers \cup {TestHeader} /\ k \in left
  BY DEF HashingTypeOK
<1>4. k \notin bad => output'[k] = Scrypt(Job(header, k))
  <2> SUFFICES ASSUME k \notin bad PROVE output'[k] = Scrypt(Job(header, k))
    OBVIOUS
  <2>1. tstates[k] = b(k).t /\ ostates[k] = b(k).o /\ X[k] = ROMix(b(k).x)
    BY <1>3 DEF AfterInv
  <2>2. output' = [output EXCEPT ![k] = Derive128to32(b(k).t, b(k).o, ROMix(b(k).x)).hash]
    BY <2>1, Zenon
  <2>3. Derive128to32(b(k).t, b(k).o, ROMix(b(k).x)).hash = Scrypt(Job(header, k))
    BY <1>3, JobLemma, Zenon
  <2> QED BY <2>2, <2>3 DEF HashingTypeOK
<1>5. \A j \in Items : j # k => tstates'[j] = tstates[j] /\ ostates'[j] = ostates[j] /\ output'[j] = output[j]
  BY DEF HashingTypeOK
<1>6. \A j \in Items \ bad : j \notin left' => output'[j] = Scrypt(Job(header, j))
  BY <1>3, <1>4, <1>5 DEF AfterInv
<1>7. \A j \in Items \ bad :
        /\ X[j] = ROMix(b(j).x)
        /\ j \in left' => tstates'[j] = b(j).t /\ ostates'[j] = b(j).o
  BY <1>3, <1>5 DEF AfterInv
<1> HIDE DEF b, HashingInv, After
<1>8. AfterInv'
  BY <1>3, <1>6, <1>7 DEF AfterInv, b
<1>9. OutputInv'
  BY <1>3, <1>6 DEF OutputInv
<1>10. BlockIsHashedTwice'
  BY <1>3 DEF BlockIsHashedTwice, HashingInv, After
<1> QED
  BY <1>1, <1>2, <1>3, <1>8, <1>9, <1>10 DEF HashingInv, BeforeInv, CpuInv, FillInv, MixInv, ComparedInv

\* The run is over.
LEMMA NextJobInv == ASSUME HashingInv, NextJob PROVE HashingInv'
<1> USE DEF HashingInv, NextJob, buffers, cpuVars
<1>1. HashingTypeOK'
  BY DEF HashingTypeOK
<1> QED
  BY <1>1 DEF MidstateInv, BeforeInv, AfterInv, OutputInv, BlockIsHashedTwice, CpuInv, FillInv, MixInv,
     ComparedInv

\* The self test begins its own buffers, every one of them, from the same header.
LEMMA RunCpuNewInv == ASSUME HashingInv, RunCpuNew PROVE HashingInv'
<1> USE DEF HashingInv, RunCpuNew, buffers, cpuVars
<1>1. HashingTypeOK'
  BY DEF HashingTypeOK
<1>2. MidstateInv'
  BY DEF MidstateInv
<1> DEFINE b(j) == BegunJob(header, j)
<1>3. /\ header' = header /\ testing /\ testing' = testing /\ p' = 0 /\ iter' = 0 /\ stage' = "fill"
      /\ header \in Headers \cup {TestHeader} /\ header[20] = 0
  BY RunAssumption DEF HashingTypeOK
<1>4. cpu' = [k \in Items |-> b(k)]
  <2>1. \A k \in Items : Low(header[20] + k) = k
    BY <1>3, RunAssumption, WordFacts DEF Items, Low
  <2>2. cpu' = [k \in Items |-> Begun(WithNonce(header, Low(header[20] + k)), Mid(header))]
    BY Zenon DEF Mid
  <2> HIDE DEF HashingInv, RunCpuNew
  <2>3. [k \in Items |-> Begun(WithNonce(header, Low(header[20] + k)), Mid(header))]
          = [k \in Items |-> Begun(WithNonce(header, k), Mid(header))]
    BY <2>1
  <2> QED BY <2>2, <2>3, Zenon DEF BegunJob, Job
<1>5. \A k \in Items : b(k) = [t |-> b(k).t, o |-> b(k).o, x |-> b(k).x]
  BY <1>3, JobLemma, Zenon
<1> HIDE DEF HashingInv, RunCpuNew
<1>6. CpuInv'
  <2> HIDE DEF b
  <2>1. \A k \in Items : cpu'[k] = b(k)
    BY <1>4
  <2>2. cpu' = [k \in Items |-> [t |-> b(k).t, o |-> b(k).o, x |-> cpu'[k].x]]
    BY <1>4, <1>5
  <2>3. \A k \in Items : /\ k < 0 => cpu'[k].x = ROMix(b(k).x)
                         /\ k > 0 => cpu'[k].x = b(k).x
    BY <2>1, ItemsFacts
  <2>4. 0 \in 0 .. Iterations - 1
    BY SomeFacts
  <2> QED BY <1>3, <2>2, <2>3, <2>4, ItemsFacts DEF CpuInv, b
<1>7. FillInv'
  <2>1. cpu'[0].x = b(0).x
    BY <1>4, ItemsFacts
  <2>2. Pads(b(0).x)[0] = b(0).x
    BY PadsLemma, Zenon
  <2> QED BY <1>3, <2>1, <2>2 DEF FillInv
<1>8. BlockIsHashedTwice'
  BY DEF BlockIsHashedTwice, HashingInv, RunCpuNew
<1>9. OutputInv'
  BY DEF OutputInv, HashingInv, RunCpuNew, buffers
<1> QED
  BY <1>1, <1>2, <1>3, <1>6, <1>7, <1>8, <1>9 DEF HashingInv, BeforeInv, AfterInv, MixInv, ComparedInv

\* One step of either loop, on header p.
LEMMA CpuFacts ==
  ASSUME HashingInv, stage \in {"fill", "mix"}
  PROVE  /\ testing /\ p \in Items /\ iter \in 0 .. Iterations - 1
         /\ header \in Headers \cup {TestHeader}
         /\ BegunJob(header, p).x \in Words(32)
         /\ \A k \in 0 .. Iterations :
              Pads(BegunJob(header, p).x)[k] \in Words(32) /\ Mixes(BegunJob(header, p).x)[k] \in Words(32)
         /\ ROMix(BegunJob(header, p).x) = Mixes(BegunJob(header, p).x)[Iterations]
         /\ DOMAIN V = 0 .. Iterations - 1
<1>1. testing /\ p \in Items /\ iter \in 0 .. Iterations - 1
  BY DEF HashingInv, CpuInv
<1>2. header \in Headers \cup {TestHeader} /\ DOMAIN V = 0 .. Iterations - 1
  BY DEF HashingInv, HashingTypeOK
<1>3. BegunJob(header, p).x \in Words(32)
  BY <1>1, <1>2, JobLemma, Zenon
<1>4. /\ \A k \in 0 .. Iterations :
           Pads(BegunJob(header, p).x)[k] \in Words(32) /\ Mixes(BegunJob(header, p).x)[k] \in Words(32)
      /\ ROMix(BegunJob(header, p).x) = Mixes(BegunJob(header, p).x)[Iterations]
  BY <1>3, ROMixLemma, Zenon
<1> QED BY <1>1, <1>2, <1>3, <1>4

\* Changing the words of header p keeps the rest of cpu.
LEMMA CpuChange ==
  ASSUME HashingInv, stage \in {"fill", "mix"}, NEW w, cpu' = [cpu EXCEPT ![p].x = w]
  PROVE  /\ cpu' = [k \in Items |-> [t |-> BegunJob(header, k).t, o |-> BegunJob(header, k).o,
                                     x |-> cpu'[k].x]]
         /\ cpu'[p].x = w
         /\ \A k \in Items : k # p => cpu'[k].x = cpu[k].x
<1> DEFINE bt(j) == BegunJob(header, j).t
           bo(j) == BegunJob(header, j).o
<1>1. p \in Items /\ cpu = [k \in Items |-> [t |-> bt(k), o |-> bo(k), x |-> cpu[k].x]]
  BY Zenon DEF HashingInv, CpuInv
<1> HIDE DEF bt, bo
<1>2. \A k \in Items : cpu[k].t = bt(k) /\ cpu[k].o = bo(k) /\ DOMAIN cpu[k] = {"t", "o", "x"}
  BY <1>1
<1>3. cpu'[p].x = w /\ \A k \in Items : k # p => cpu'[k].x = cpu[k].x
  BY <1>1
<1>4. DOMAIN cpu' = Items
  BY <1>1
<1>5. ASSUME NEW k \in Items PROVE cpu'[k] = [t |-> bt(k), o |-> bo(k), x |-> cpu'[k].x]
  BY <1>1
<1>6. cpu' = [k \in Items |-> [t |-> bt(k), o |-> bo(k), x |-> cpu'[k].x]]
  BY <1>1, <1>4, <1>5
<1> QED BY <1>3, <1>6 DEF bt, bo

\* One block of the scratchpad of header p is written; after the last of them it is
\* whole, and mixing starts.
LEMMA CpuFillInv == ASSUME HashingInv, CpuFill PROVE HashingInv'
<1> DEFINE b == BegunJob(header, p).x
           v == Pads(b)
           x == Mixes(b)
<1> USE DEF CpuFill, buffers
<1>1. HashingTypeOK'
  BY DEF HashingInv, HashingTypeOK
<1>2. MidstateInv'
  BY DEF HashingInv, MidstateInv
<1>3. BlockIsHashedTwice' /\ OutputInv'
  BY DEF HashingInv, BlockIsHashedTwice, OutputInv
<1>0. Iterations \in Nat \ {0, 1}
  BY SomeFacts
<1>4. /\ testing /\ p \in Items /\ iter \in 0 .. Iterations - 1
      /\ b \in Words(32) /\ \A k \in 0 .. Iterations : v[k] \in Words(32)
      /\ DOMAIN V = 0 .. Iterations - 1
  BY CpuFacts
<1>5. cpu[p].x = v[iter] /\ \A i \in 0 .. iter - 1 : V[i] = v[i]
  BY DEF HashingInv, FillInv
<1>6. v[iter + 1] = BlockMix(v[iter]) /\ x[0] = v[Iterations] /\ v[0] = b
  <2>1. iter + 1 \in 1 .. Iterations /\ (iter + 1) - 1 = iter
    BY <1>0, <1>4
  <2> QED BY <2>1, PadsLemma, MixesLemma, ZenonT(60)
<1> HIDE DEF b, v, x
<1>7. XorSalsas(cpu[p].x) = v[iter + 1]
  <2>1. v[iter] \in Words(32)
    BY <1>0, <1>4
  <2> QED BY <1>5, <1>6, <2>1, BlockMixLemma, Zenon
<1>8. /\ cpu' = [cpu EXCEPT ![p].x = v[iter + 1]] /\ stage = "fill" /\ p' = p /\ header' = header
      /\ testing' = testing /\ V' = [V EXCEPT ![iter] = v[iter]]
  BY <1>5, <1>7
<1>9. /\ cpu' = [k \in Items |-> [t |-> BegunJob(header, k).t, o |-> BegunJob(header, k).o, x |-> cpu'[k].x]]
      /\ cpu'[p].x = v[iter + 1]
      /\ \A k \in Items : k # p => cpu'[k].x = cpu[k].x
  BY <1>8, CpuChange, Zenon
<1>10. \A i \in 0 .. iter : V'[i] = v[i]
  BY <1>4, <1>5, <1>8
<1>11. \/ iter < Iterations - 1 /\ iter' = iter + 1 /\ stage' = "fill"
       \/ iter = Iterations - 1 /\ iter' = 0 /\ stage' = "mix"
  BY <1>0, <1>4, <1>8 DEF FillMore
<1>12. iter' \in 0 .. Iterations - 1
  BY <1>0, <1>4, <1>11
<1>13. CpuInv'
  <2>1. \A k \in Items : /\ k < p => cpu[k].x = ROMix(BegunJob(header, k).x)
                         /\ k > p => cpu[k].x = BegunJob(header, k).x
    BY <1>8 DEF HashingInv, CpuInv
  <2>2. \A k \in Items : /\ k < p => cpu'[k].x = ROMix(BegunJob(header, k).x)
                         /\ k > p => cpu'[k].x = BegunJob(header, k).x
    <3>1. \A k \in Items : (k < p \/ k > p) => k # p
      BY <1>4, ItemsFacts
    <3> QED BY <1>9, <2>1, <3>1
  <2> HIDE DEF CpuFill
  <2> QED BY <1>4, <1>8, <1>9, <1>12, <2>2 DEF CpuInv
<1>14. FillInv'
  <2> SUFFICES ASSUME stage' = "fill" PROVE FillInv'
    BY DEF FillInv
  <2>1. iter' = iter + 1 /\ iter' - 1 = iter
    BY <1>4, <1>11
  <2> HIDE DEF CpuFill
  <2> QED BY <1>8, <1>9, <1>10, <2>1 DEF FillInv, v, b
<1>15. MixInv'
  <2> SUFFICES ASSUME stage' = "mix" PROVE MixInv'
    BY DEF MixInv
  <2>1. iter = Iterations - 1 /\ iter' = 0 /\ iter + 1 = Iterations
    BY <1>4, <1>11, <1>0
  <2>2. cpu'[p].x = x[0]
    BY <1>6, <1>9, <2>1
  <2> HIDE DEF CpuFill
  <2> QED BY <1>8, <1>10, <2>1, <2>2 DEF MixInv, v, b, x
<1>16. stage' \in {"fill", "mix"}
  BY <1>11
<1> QED
  BY <1>1, <1>2, <1>3, <1>13, <1>14, <1>15, <1>16 DEF HashingInv, BeforeInv, AfterInv, ComparedInv

\* One block is mixed; after the last the header is finished, and the next is taken or
\* the outputs are compared.
LEMMA CpuMixInv == ASSUME HashingInv, CpuMix PROVE HashingInv'
<1> DEFINE b == BegunJob(header, p).x
           v == Pads(b)
           x == Mixes(b)
<1> USE DEF CpuMix, buffers
<1>1. HashingTypeOK'
  BY DEF HashingInv, HashingTypeOK
<1>2. MidstateInv'
  BY DEF HashingInv, MidstateInv
<1>3. BlockIsHashedTwice' /\ OutputInv'
  BY DEF HashingInv, BlockIsHashedTwice, OutputInv
<1>0. Iterations \in Nat \ {0, 1}
  BY SomeFacts
<1>4. /\ testing /\ p \in Items /\ iter \in 0 .. Iterations - 1
      /\ header \in Headers \cup {TestHeader}
      /\ b \in Words(32) /\ \A k \in 0 .. Iterations : v[k] \in Words(32) /\ x[k] \in Words(32)
      /\ ROMix(b) = x[Iterations]
  BY CpuFacts
<1>5. cpu[p].x = x[iter] /\ \A i \in 0 .. Iterations - 1 : V[i] = v[i]
  BY DEF HashingInv, MixInv
<1>6. x[iter + 1] = Mixed(x[iter], v)
  <2>1. iter + 1 \in 1 .. Iterations /\ (iter + 1) - 1 = iter
    BY <1>0, <1>4
  <2> QED BY <2>1, MixesLemma, Zenon
<1> HIDE DEF b, v, x
<1> DEFINE j == And(cpu[p].x[17], Iterations - 1)
<1>7. XorSalsas(XorWords(cpu[p].x, V[j])) = x[iter + 1]
  <2>1. x[iter] \in Words(32) /\ x[iter][17] \in Word
    <3>1. x[iter] \in Words(32)
      BY <1>0, <1>4
    <3> QED BY <3>1 DEF Words
  <2>2. j = x[iter][17] % Iterations
    BY <1>5, <2>1, SomeFacts, Zenon
  <2>3. x[iter][17] % Iterations \in 0 .. Iterations - 1
    BY <1>0, <2>1, WordFacts DEF Word
  <2>4. V[j] = v[x[iter][17] % Iterations]
    BY <1>5, <2>2, <2>3
  <2>5. v[x[iter][17] % Iterations] \in Words(32)
    BY <1>0, <1>4, <2>3
  <2>6. XorWords(x[iter], v[x[iter][17] % Iterations]) \in Words(32)
    <3>1. 32 \in Nat
      OBVIOUS
    <3> QED BY <2>1, <2>5, <3>1, XorWordsLemma, Zenon
  <2>7. XorSalsas(XorWords(x[iter], v[x[iter][17] % Iterations]))
          = BlockMix(XorWords(x[iter], v[x[iter][17] % Iterations]))
    BY <2>6, BlockMixLemma, Zenon
  <2> HIDE DEF CpuMix, j
  <2> QED BY <1>5, <1>6, <2>4, <2>7, Zenon DEF Mixed
<1>8. /\ cpu' = [cpu EXCEPT ![p].x = x[iter + 1]] /\ stage = "mix" /\ header' = header
      /\ testing' = testing /\ V' = V /\ output' = output
  BY <1>7
<1>9. /\ cpu' = [k \in Items |-> [t |-> BegunJob(header, k).t, o |-> BegunJob(header, k).o, x |-> cpu'[k].x]]
      /\ cpu'[p].x = x[iter + 1]
      /\ \A k \in Items : k # p => cpu'[k].x = cpu[k].x
  BY <1>8, CpuChange, Zenon
<1>10. \A k \in Items : /\ k < p => cpu'[k].x = ROMix(BegunJob(header, k).x)
                        /\ k > p => cpu'[k].x = BegunJob(header, k).x
  <2>1. \A k \in Items : /\ k < p => cpu[k].x = ROMix(BegunJob(header, k).x)
                         /\ k > p => cpu[k].x = BegunJob(header, k).x
    BY <1>8 DEF HashingInv, CpuInv
  <2>2. \A k \in Items : (k < p \/ k > p) => k # p
    BY <1>4, ItemsFacts
  <2> HIDE DEF CpuMix
  <2> QED BY <1>9, <2>1, <2>2
<1>11. CASE iter < Iterations - 1
  <2>1. iter' = iter + 1 /\ stage' = "mix" /\ p' = p
    BY <1>8, <1>11
  <2>2. iter' \in 0 .. Iterations - 1
    BY <1>0, <1>4, <1>11, <2>1
  <2> HIDE DEF CpuMix
  <2>3. CpuInv'
    BY <1>4, <1>8, <1>9, <1>10, <2>1, <2>2 DEF CpuInv
  <2>4. MixInv'
    BY <1>5, <1>8, <1>9, <2>1 DEF MixInv, v, b, x
  <2> QED
    BY <1>1, <1>2, <1>3, <2>1, <2>3, <2>4 DEF HashingInv, BeforeInv, AfterInv, FillInv, ComparedInv
<1>12. CASE ~(iter < Iterations - 1)
  <2>1. iter + 1 = Iterations /\ cpu'[p].x = ROMix(b)
    BY <1>0, <1>4, <1>9, <1>12
  <2>2. CASE p < NumScrypt - 1
    <3>1. iter' = 0 /\ p' = p + 1 /\ stage' = "fill"
      BY <1>12, <2>2
    <3> HIDE DEF CpuMix
    <3>2. p + 1 \in Items /\ p \in Nat /\ Items \subseteq Nat /\ 0 \in 0 .. Iterations - 1
      BY <1>0, <1>4, <2>2, ItemsFacts
    <3>3. \A k \in Items : /\ k < p + 1 => cpu'[k].x = ROMix(BegunJob(header, k).x)
                           /\ k > p + 1 => cpu'[k].x = BegunJob(header, k).x
      <4> SUFFICES ASSUME NEW k \in Items
                   PROVE  /\ k < p + 1 => cpu'[k].x = ROMix(BegunJob(header, k).x)
                          /\ k > p + 1 => cpu'[k].x = BegunJob(header, k).x
        OBVIOUS
      <4>1. k < p + 1 => k < p \/ k = p
        BY <3>2
      <4>2. k > p + 1 => k > p
        BY <3>2
      <4> QED BY <1>10, <2>1, <4>1, <4>2 DEF b
    <3>4. CpuInv'
      BY <1>4, <1>8, <1>9, <3>1, <3>2, <3>3 DEF CpuInv
    <3>5. FillInv'
      <4> DEFINE nb == BegunJob(header, p + 1).x
      <4>1. cpu'[p + 1].x = nb
        BY <1>10, <3>2
      <4>2. Pads(nb)[0] = nb
        BY PadsLemma, Zenon
      <4> QED BY <1>8, <3>1, <4>1, <4>2 DEF FillInv
    <3> QED
      BY <1>1, <1>2, <1>3, <3>1, <3>4, <3>5 DEF HashingInv, BeforeInv, AfterInv, MixInv, ComparedInv
  <2>3. CASE ~(p < NumScrypt - 1)
    <3>1. stage' = "compared" /\ mismatches' = Mismatched(cpu')
      BY <1>12, <2>3
    <3> HIDE DEF CpuMix
    <3>2. \A k \in Items : k < p \/ k = p
      BY <1>4, <2>3, ItemsFacts
    <3>3. \A k \in Items : cpu'[k].x = ROMix(BegunJob(header, k).x)
      BY <1>10, <2>1, <3>2 DEF b
    <3>4. \A k \in Items : cpu'[k].t = BegunJob(header, k).t /\ cpu'[k].o = BegunJob(header, k).o
      BY <1>9
    <3>5. \A k \in Items : Derive128to32(cpu'[k].t, cpu'[k].o, cpu'[k].x).hash = Scrypt(Job(header, k))
      BY <1>4, <3>3, <3>4, JobLemma, Zenon
    <3>6. mismatches' = {k \in Items : output[k] # Scrypt(Job(header, k))}
      BY <3>1, <3>5 DEF Mismatched
    <3>7. ComparedInv'
      BY <1>8, <3>6 DEF ComparedInv
    <3> QED
      BY <1>1, <1>2, <1>3, <3>1, <3>7 DEF HashingInv, BeforeInv, AfterInv, CpuInv, FillInv, MixInv
  <2> QED BY <2>2, <2>3
<1> QED BY <1>11, <1>12

\* A step that changes nothing.
LEMMA HashingStutter == ASSUME HashingInv, UNCHANGED hashingVars PROVE HashingInv'
BY DEF HashingInv, hashingVars, buffers, cpuVars, HashingTypeOK, MidstateInv, BeforeInv, AfterInv, OutputInv,
       BlockIsHashedTwice, CpuInv, FillInv, MixInv, ComparedInv

\* HashingInv holds throughout.
THEOREM HashingInvariant == HashingSpec => []HashingInv
<1>1. HashingInit => HashingInv
  BY HashingInitInv
<1>2. HashingInv /\ [HashingNext]_hashingVars => HashingInv'
  <2> SUFFICES ASSUME HashingInv, [HashingNext]_hashingVars PROVE HashingInv'
    OBVIOUS
  <2>1. CASE PrepareRun
    BY <2>1, PrepareRunInv
  <2>2. CASE DfeRun
    BY <2>2, DfeRunInv
  <2>3. CASE NextJob
    BY <2>3, NextJobInv
  <2>4. CASE RunCpuNew
    BY <2>4, RunCpuNewInv
  <2>5. CASE CpuFill
    BY <2>5, CpuFillInv
  <2>6. CASE CpuMix
    BY <2>6, CpuMixInv
  <2>7. ASSUME NEW k \in Items, Before(k) PROVE HashingInv'
    BY <2>7, BeforeStepInv
  <2>8. ASSUME NEW k \in Items, After(k) PROVE HashingInv'
    BY <2>8, AfterStepInv
  <2>9. CASE UNCHANGED hashingVars
    BY <2>9, HashingStutter
  <2> QED BY <2>1, <2>2, <2>3, <2>4, <2>5, <2>6, <2>7, <2>8, <2>9 DEF HashingNext
<1> QED BY <1>1, <1>2, PTL DEF HashingSpec

\* The table of right answers holds scrypt of every header.
LEMMA ScryptOfLemma ==
  ASSUME NEW words \in Headers \cup {TestHeader}, NEW k \in Items
  PROVE  ScryptOf[words][k] = Scrypt(Job(words, k))
BY DEF ScryptOf, Job

\* What the host hands to the share check is scrypt of each header with its nonce, for
\* every header that the DFE mixed right: the hand-padded blocks of sha2.c and the two
\* halves of PBKDF2 before and after the DFE are PBKDF2, whatever the compression
\* function, the width of a word and the number of iterations.
THEOREM OutputsAreScrypt == HashingSpec => []OutputIsScrypt
<1>1. HashingInv => OutputIsScrypt
  <2> SUFFICES ASSUME HashingInv, stage \in {"hashed", "fill", "mix", "compared"},
                      NEW k \in Items \ bad
               PROVE  output[k] = ScryptOf[header][k]
    BY DEF OutputIsScrypt
  <2>1. header \in Headers \cup {TestHeader} /\ output[k] = Scrypt(Job(header, k))
    BY DEF HashingInv, HashingTypeOK, OutputInv
  <2> QED BY <2>1, ScryptOfLemma
<1> QED BY <1>1, HashingInvariant, PTL

\* The share check of bitcoin compares the SHA-256 of the SHA-256 of the header, padded
\* by hand in main.c's order of words.
THEOREM BlocksAreHashedTwice == HashingSpec => []BlockIsHashedTwice
<1>1. HashingInv => BlockIsHashedTwice
  BY DEF HashingInv
<1> QED BY <1>1, HashingInvariant, PTL

\* Once the self test has compared, the mismatches it logs are exactly the headers that
\* the DFE got wrong: the CPU's own scratchpad loop computes ROMix.
THEOREM FaultsAreAllLogged == HashingSpec => []FaultsAreLogged
<1>1. HashingInv => FaultsAreLogged
  <2> SUFFICES ASSUME HashingInv, stage = "compared"
               PROVE  mismatches = {k \in Items : output[k] # ScryptOf[header][k]}
    BY DEF FaultsAreLogged
  <2>1. header \in Headers \cup {TestHeader} /\ mismatches = {k \in Items : output[k] # Scrypt(Job(header, k))}
    BY DEF HashingInv, HashingTypeOK, ComparedInv
  <2>2. \A k \in Items : ScryptOf[header][k] = Scrypt(Job(header, k))
    BY <2>1, ScryptOfLemma, Zenon
  <2> QED BY <2>1, <2>2
<1> QED BY <1>1, HashingInvariant, PTL
=============================================================================
