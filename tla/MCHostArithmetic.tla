-------------------------- MODULE MCHostArithmetic --------------------------
(***************************************************************************)
(* What the host computes, in words of six bits: a call of               *)
(* sha256_transform, a call of xor_salsa8, or the hashing of whole runs.   *)
(* They share no state; a behaviour is one of the three.                   *)
(***************************************************************************)
EXTENDS Sha256Host, SalsaHost, RunHashing, FiniteSetsExt

\* Tables, so that TLC computes each bitwise operation once; a pairing says
\* whether two bits give one.
BitTable == [a \in 0 .. 63 |-> [k \in 0 .. 5 |-> (a \div 2 ^ k) % 2 = 1]]
MCBit(a, k) == BitTable[a][k]
Weight(s) == FoldSet(LAMBDA k, sum : sum + 2 ^ k, 0, s)
TableOf(pairing(_, _)) ==
  [a \in 0 .. 63 |-> [b \in 0 .. 63 |-> Weight({k \in 0 .. 5 : pairing(MCBit(a, k), MCBit(b, k))})]]
AndTable == TableOf(LAMBDA a, b : a /\ b)
OrTable == TableOf(LAMBDA a, b : a \/ b)
XorTable == TableOf(LAMBDA a, b : a # b)
MCAnd(a, b) == AndTable[a][b]
MCOr(a, b) == OrTable[a][b]
MCXor(a, b) == XorTable[a][b]
MCNot(a) == 63 - a

RotateRight(a, k) == (a \div 2 ^ (k % 6)) + (a % 2 ^ (k % 6)) * 2 ^ ((-k) % 6)
RotateLeft(a, k) == RotateRight(a, (-k) % 6)
ShiftRight(a, k) == a \div 2 ^ k
MCBigSigma0(a) == MCXor(MCXor(RotateRight(a, 2), RotateRight(a, 5)), RotateRight(a, 6))
MCBigSigma1(a) == MCXor(MCXor(RotateRight(a, 1), RotateRight(a, 3)), RotateRight(a, 6))
MCSmallSigma0(a) == MCXor(MCXor(RotateRight(a, 7), RotateRight(a, 2)), ShiftRight(a, 3))
MCSmallSigma1(a) == MCXor(MCXor(RotateRight(a, 1), RotateRight(a, 3)), ShiftRight(a, 2))

\* The low six bits of sha256_k and sha256_h.
RoundTable ==
  <<24, 17, 15, 37, 27, 49, 36, 21, 24,  1, 62,  3, 52, 62, 39, 52,
     1,  6,  6, 12, 47, 42, 28, 26, 18, 45,  8,  7, 51,  7, 17, 39,
     5, 56, 60, 19, 20, 59, 46,  5, 33, 11, 48, 35, 25, 36,  5, 48,
    22,  8, 12, 53, 51, 10, 15, 51, 46, 47, 20,  8, 58, 43, 55, 50>>
MCK == [k \in 0 .. 63 |-> RoundTable[k + 1]]
MCInitialHash == <<39, 5, 50, 58, 63, 12, 43, 25>>

\* Blocks and hash values that differ in every word.
MCBlocks == {[k \in 0 .. 15 |-> (a * k * k + b) % 64] : a \in {0, 37}, b \in {0, 255}}
MCHashes == {[k \in 0 .. 7 |-> (a * k + b) % 64] : a \in {0, 91}, b \in {0, 55, 255}}
MCHalves == {[k \in 0 .. 15 |-> (a * k * k + b * k + 3) % 64] : a \in {0, 29}, b \in {0, 71}}

\* RunHashing's compression and salsa depend on every word and on its place.
Weighed(words, n, k) ==
  LET term(j) == words[n + j] * (2 * j + n + k)
  IN term(1) + term(2) + term(3) + term(4) + term(5) + term(6) + term(7) + term(8)
MCCompressWord(hash, text, k) ==
  (Weighed(text, 0, k) + Weighed(text, 8, k) * text[k] + Weighed(hash, 0, k) * hash[k] + k) % 64
MCSalsaWord(b, k) == (Weighed(b, 0, k) * 3 + Weighed(b, 8, k) * b[k] + k) % 64

\* Three bytes of two bits.
MCSwab(a) == (a % 4) * 16 + ((a \div 4) % 4) * 4 + a \div 16
\* Lengths are whole words, so this one is different for each.
MCLengthWord(bits) == bits \div 32

MCHeaders == {[k \in 1 .. 20 |-> (a * k + 11 * k * k + 7) % 64] : a \in {3, 50}}
MCTestHeader == [k \in 1 .. 20 |-> IF k = 20 THEN 0 ELSE (k * k * 5 + k) % 64]
MCGarbage == [k \in 1 .. 32 |-> (k * 77) % 64]

VARIABLE call   \* "sha256_transform", "xor_salsa8" or "run"

First(s) == CHOOSE e \in s : TRUE

HostInit ==
  /\ call \in {"sha256_transform", "xor_salsa8", "run"}
  /\ IF call = "sha256_transform" THEN Init
     ELSE Init /\ W = First(Blocks) /\ state = First(Hashes) /\ S = state
  /\ IF call = "xor_salsa8" THEN SalsaInit
     ELSE SalsaInit /\ B = First(Halves) /\ Bx = B
  /\ IF call = "run" THEN HashingInit ELSE HashingInit /\ testing = TRUE

HostNext ==
  \/ call = "sha256_transform" /\ Next /\ UNCHANGED <<call, salsaVars, hashingVars>>
  \/ call = "xor_salsa8" /\ SalsaNext /\ UNCHANGED <<call, vars, hashingVars>>
  \/ call = "run" /\ HashingNext /\ UNCHANGED <<call, vars, salsaVars>>

HostSpec == HostInit /\ [][HostNext]_<<call, vars, salsaVars, hashingVars>>

=============================================================================
