----------------------------- MODULE Sha256Host -----------------------------
(***************************************************************************)
(* The host's sha256_transform.  It extends the schedule two words per     *)
(* iteration, and instead of moving eight working variables along in each  *)
(* round it leaves them where they are and renames them: in round r the    *)
(* variable of role j is S[(64 + j - r) % 8], and only the places of d and *)
(* h are written.  The refinement says that it computes, step by step,     *)
(* what the kernel computes.                                               *)
(***************************************************************************)
EXTENDS Sha256Words

VARIABLES
  pc,                                 \* "schedule", "mix" or "done"
  W,                                  \* the message schedule so far
  i,                                  \* the loop counter, even
  second,                             \* the iteration's first word is written
  state,                              \* the caller's hash value
  S,                                  \* the working variables, in place, unset before the rounds
  r                                   \* the round

vars == <<pc, W, i, second, state, S, r>>

Ch(x, y, z) == Xor(And(x, Xor(y, z)), z)
Maj(x, y, z) == Or(And(x, Or(y, z)), And(y, z))

\* How many words of the schedule are written.
Written == IF second THEN i + 1 ELSE i

\* W with one more word at its end.
Extended(x) == [k \in 0 .. Written |-> IF k < Written THEN W[k] ELSE x]

\* Mutant: the roles turn the other way.
PlaceBack(j, k) == (64 + j + k) % 8

\* The place of role j in round k.
Place(j, k) == (64 + j - k) % 8

\* The variable of role j in this round.
Reg(j) == S[Place(j, r)]

t0 == Plus(Plus(Plus(Reg(7), BigSigma1(Reg(4))), Ch(Reg(4), Reg(5), Reg(6))), Plus(W[r], K[r]))
t1 == Plus(BigSigma0(Reg(0)), Maj(Reg(0), Reg(1), Reg(2)))

TypeOK ==
  /\ pc \in {"schedule", "mix", "done"}
  /\ i \in 16 .. 64 /\ i % 2 = 0
  /\ second \in BOOLEAN
  /\ second => i < 64
  /\ pc # "schedule" => i = 64 /\ ~second
  /\ W \in [0 .. (Written - 1) -> Word]
  /\ state \in [Role -> Word]
  /\ S \in [Role -> Word]
  /\ r \in 0 .. 64
  /\ pc = "schedule" => r = 0

Init ==
  /\ pc = "schedule"
  /\ W \in Blocks
  /\ i = 16
  /\ second = FALSE
  /\ state \in Hashes
  /\ S \in Hashes
  /\ r = 0

\* W[i] = s1(W[i - 2]) + W[i - 7] + s0(W[i - 15]) + W[i - 16]
ExtendFirst ==
  /\ pc = "schedule"
  /\ i < 64
  /\ ~second
  /\ W' = Extended(Plus(Plus(Plus(SmallSigma1(W[i - 2]), W[i - 7]),
                             SmallSigma0(W[i - 15])), W[i - 16]))
  /\ second' = TRUE
  /\ UNCHANGED <<pc, i, state, S, r>>

\* W[i+1] = s1(W[i - 1]) + W[i - 6] + s0(W[i - 14]) + W[i - 15]
ExtendSecond ==
  /\ pc = "schedule"
  /\ second
  /\ W' = Extended(Plus(Plus(Plus(SmallSigma1(W[i - 1]), W[i - 6]),
                             SmallSigma0(W[i - 14])), W[i - 15]))
  /\ second' = FALSE
  /\ i' = i + 2
  /\ UNCHANGED <<pc, state, S, r>>

\* memcpy(S, state, 32)
Initialize ==
  /\ pc = "schedule"
  /\ i = 64
  /\ S' = state
  /\ pc' = "mix"
  /\ UNCHANGED <<W, i, second, state, r>>

\* RNDr(S, W, r)
Mix ==
  /\ pc = "mix"
  /\ r < 64
  /\ S' = [S EXCEPT ![Place(3, r)] = Plus(@, t0), ![Place(7, r)] = Plus(t0, t1)]
  /\ r' = r + 1
  /\ UNCHANGED <<pc, W, i, second, state>>

\* state[k] += S[k]
Accumulate ==
  /\ pc = "mix"
  /\ r = 64
  /\ state' = [k \in Role |-> Plus(state[k], S[k])]
  /\ pc' = "done"
  /\ UNCHANGED <<W, i, second, S, r>>

Next == ExtendFirst \/ ExtendSecond \/ Initialize \/ Mix \/ Accumulate

Spec == Init /\ [][Next]_vars

-----------------------------------------------------------------------------
\* The kernel's working variables: before the rounds a copy of the hash value;
\* then the places read in the roles' order, with the word of the coming round
\* already in h.
Turned ==
  [j \in Role |->
     IF pc = "schedule" THEN state[j]
     ELSE IF j = 7 /\ r < 64 THEN Plus(Reg(7), Plus(K[r], W[r])) ELSE Reg(j)]

Kernel == INSTANCE Sha256Kernel WITH
  phase <- CASE pc = "schedule" -> "schedule" [] pc = "mix" -> "rounds" [] OTHER -> "done",
  w <- W, n <- Written, hash <- state, v <- Turned, t <- r

\* The host and the kernel compute the same hash from the same block and hash
\* value: every statement of sha256_transform is the kernel's step or leaves
\* its state as it is, through the renaming of the places and the early sum.
SameAsKernel == Kernel!Spec

=============================================================================
