--------------------------- MODULE HashStandards ---------------------------
(***************************************************************************)
(* What the coins ask to be computed, as their standards define it: SHA-256*)
(* of a message of any length (FIPS 180-4), HMAC (RFC 2104), PBKDF2 with   *)
(* one iteration (RFC 8018), scrypt with r = p = 1 (RFC 7914), and         *)
(* bitcoin's double SHA-256.  None of it is code of the miner: the program *)
(* has no such general functions, only the blocks it needs, padded by      *)
(* hand.                                                                   *)
(*                                                                         *)
(* A message is a sequence of 32-bit words, most significant byte first.   *)
(* The compression function and the salsa core are any functions to words; *)
(* the modules Sha256Host and SalsaHost are about them.                    *)
(***************************************************************************)
EXTENDS Sha256Words, Sequences

CONSTANTS
  CompressWord(_, _, _),              \* a word of SHA-256's step from a hash value and a block
  InitialHash,
  LengthWord(_),                      \* a length in bits, as the last word of a block
  Ipad, Opad,                         \* words of HMAC's bytes 0x36 and 0x5c
  Swab(_),                            \* a word with its bytes the other way round
  SalsaWord(_, _),                    \* a word of salsa20/8 of sixteen words
  Iterations                          \* scrypt's N, 1024 in the source

Words(n) == [1 .. n -> Word]

ASSUME StandardsAssumption ==
  /\ InitialHash \in Words(8)
  /\ \A n \in 0 .. 50 : LengthWord(32 * n) \in Word
  /\ Ipad \in Word /\ Opad \in Word
  /\ \A x \in Word : Swab(x) \in Word /\ Swab(Swab(x)) = x
  /\ Iterations \in {2, 4, 8, 16, 32, 64, 128, 256, 512, 1024}
  /\ Modulus % 2 = 0 /\ Modulus > 4 /\ Iterations <= Modulus

\* Exclusive or with zero, and masking with one less than a power of two.
ASSUME MaskAssumption ==
  \A x \in Word : Xor(0, x) = x /\ And(x, Iterations - 1) = x % Iterations

\* Whatever the two functions give is a word.
ToWord(x) == IF x \in Word THEN x ELSE 0

\* (Tuples, which TLC evaluates once.)
Compress(hash, block) ==
  LET word(k) == ToWord(CompressWord(hash, block, k))
  IN <<word(1), word(2), word(3), word(4), word(5), word(6), word(7), word(8)>>
Salsa(b) ==
  LET word(k) == ToWord(SalsaWord(b, k))
  IN <<word(1), word(2), word(3), word(4), word(5), word(6), word(7), word(8),
       word(9), word(10), word(11), word(12), word(13), word(14), word(15), word(16)>>

Zeros(n) == [k \in 1 .. n |-> 0]
Fill(n, x) == [k \in 1 .. n |-> x]
Masked(words, x) == [k \in DOMAIN words |-> Xor(words[k], x)]
Swabbed(words) == [k \in DOMAIN words |-> Swab(words[k])]
XorWords(a, b) == [k \in DOMAIN a |-> Xor(a[k], b[k])]

\* A one bit, zeros up to a multiple of sixteen words, and the length in bits.
TopBit == Modulus \div 2
Padded(message) ==
  message \o <<TopBit>> \o Zeros((13 - Len(message)) % 16) \o <<0, LengthWord(32 * Len(message))>>

Sha256(message) ==
  LET text == Padded(message)
      hash[b \in 0 .. Len(text) \div 16] ==
        IF b = 0 THEN InitialHash
        ELSE Compress(hash[b - 1], SubSeq(text, 16 * b - 15, 16 * b))
  IN hash[Len(text) \div 16]

\* A key longer than a block is hashed, a shorter one filled up with zeros.
Hmac(key, message) ==
  LET short == IF Len(key) > 16 THEN Sha256(key) ELSE key
      block == short \o Zeros(16 - Len(short))
  IN Sha256(Masked(block, Opad) \o Sha256(Masked(block, Ipad) \o message))

Pbkdf2(password, salt, blocks) ==
  LET derived[b \in 0 .. blocks] ==
        IF b = 0 THEN <<>> ELSE derived[b - 1] \o Hmac(password, salt \o <<b>>)
  IN derived[blocks]

\* scryptBlockMix and scryptROMix on the two halves of 32 words, which are read
\* with the least significant byte first.
BlockMix(b) ==
  LET first == Salsa(XorWords(SubSeq(b, 17, 32), SubSeq(b, 1, 16)))
  IN first \o Salsa(XorWords(first, SubSeq(b, 17, 32)))

ROMix(b) ==
  LET v[k \in 0 .. Iterations] == IF k = 0 THEN b ELSE BlockMix(v[k - 1])
      x[k \in 0 .. Iterations] ==
        IF k = 0 THEN v[Iterations]
        ELSE LET t == x[k - 1] IN BlockMix(XorWords(t, v[t[17] % Iterations]))
  IN x[Iterations]

Scrypt(header) ==
  LET b == Swabbed(Pbkdf2(header, header, 4))
  IN Swabbed(Pbkdf2(header, Swabbed(ROMix(b)), 1))

DoubleSha256(header) == Sha256(Sha256(header))

=============================================================================
