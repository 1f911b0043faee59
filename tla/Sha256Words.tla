---------------------------- MODULE Sha256Words ----------------------------
(***************************************************************************)
(* The words that the hashing on the host and on the DFE computes with.  A *)
(* word is a number of Width bits; addition wraps.  What the two SHA-256   *)
(* programs, the host's sha256_transform (common/sha2.c) and the bitcoin   *)
(* kernel's hashBlock (SHA256.maxj), share is a constant: the round        *)
(* table (sha256_k and K are equal entry by entry) and the four sigmas     *)
(* (the same rotations and shifts in ROTR form and in circularRightShift   *)
(* form).  What they write differently, Ch and Maj, is spelled out in the  *)
(* module of each over the machine's bitwise operations, which are known   *)
(* only by what they do to each bit.                                       *)
(***************************************************************************)
EXTENDS Integers

CONSTANTS
  Width,                              \* bits in a word, 32 in the source
  Modulus,                            \* 2^Width
  K,                                  \* the round table
  Bit(_, _),                          \* Bit(x, i): bit i of x is set
  And(_, _), Or(_, _), Xor(_, _), Not(_),
  BigSigma0(_), BigSigma1(_), SmallSigma0(_), SmallSigma1(_),
  Blocks,                             \* message blocks: 16 words
  Hashes                              \* hash values: 8 words

Word == 0 .. (Modulus - 1)
Index == 0 .. (Width - 1)
Round == 0 .. 63
Role == 0 .. 7                        \* a, b, c, d, e, f, g, h

ASSUME WordsAssumption ==
  /\ Width \in Nat \ {0}
  /\ Modulus \in Nat \ {0}
  /\ Modulus = 2 ^ Width
  /\ K \in [Round -> Word]

\* A word is its bits, and the bitwise operations are bit by bit.
ASSUME BitsAssumption ==
  \A x, y \in Word :
    /\ \A i \in Index : Bit(x, i) \in BOOLEAN
    /\ (\A i \in Index : Bit(x, i) <=> Bit(y, i)) => x = y
    /\ And(x, y) \in Word /\ Or(x, y) \in Word /\ Xor(x, y) \in Word /\ Not(x) \in Word
    /\ \A i \in Index :
         /\ Bit(And(x, y), i) <=> (Bit(x, i) /\ Bit(y, i))
         /\ Bit(Or(x, y), i) <=> (Bit(x, i) \/ Bit(y, i))
         /\ Bit(Xor(x, y), i) <=> ~(Bit(x, i) <=> Bit(y, i))
         /\ Bit(Not(x), i) <=> ~Bit(x, i)

ASSUME SigmaAssumption ==
  \A x \in Word :
    /\ BigSigma0(x) \in Word /\ BigSigma1(x) \in Word
    /\ SmallSigma0(x) \in Word /\ SmallSigma1(x) \in Word

ASSUME InputsAssumption ==
  /\ Blocks \subseteq [0 .. 15 -> Word]
  /\ Hashes \subseteq [Role -> Word]

\* The low Width bits: what a uint32_t keeps of a sum, and to32.
Low(x) == x % Modulus

\* Addition of words, in C and on a dfeUInt(32).
Plus(x, y) == Low(x + y)

=============================================================================
