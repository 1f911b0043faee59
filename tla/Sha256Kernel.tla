---------------------------- MODULE Sha256Kernel ----------------------------
(***************************************************************************)
(* The bitcoin kernel's SHA256.hashBlock, in the order in which its loops  *)
(* unroll into hardware.  The kernel adds w[t] + K[t] into h one round     *)
(* early, while h is still called g, so that no round has a chain of       *)
(* additions behind h: v[7] is never the plain working variable h.         *)
(***************************************************************************)
EXTENDS Sha256Words

VARIABLES
  phase,                              \* "schedule", "rounds" or "done"
  w,                                  \* the message schedule so far
  n,                                  \* its length
  hash,                               \* the hash value: argument, then result
  v,                                  \* the working variables
  t                                   \* the round

vars == <<phase, w, n, hash, v, t>>

Ch(x, y, z) == Xor(And(x, y), And(Not(x), z))
Maj(x, y, z) == Xor(Xor(And(x, y), And(x, z)), And(y, z))

wk(i) == Plus(K[i], w[i])

Init ==
  /\ phase = "schedule"
  /\ w \in Blocks
  /\ n = 16
  /\ hash \in Hashes
  /\ v = hash
  /\ t = 0

\* messageSchedule: one word.
Schedule ==
  /\ phase = "schedule"
  /\ n < 64
  /\ w' = [i \in 0 .. n |->
             IF i < n THEN w[i]
             ELSE Plus(Plus(SmallSigma1(w[n - 2]), w[n - 7]),
                       Plus(SmallSigma0(w[n - 15]), w[n - 16]))]
  /\ n' = n + 1
  /\ UNCHANGED <<phase, hash, v, t>>

\* hashBlock: copy the hash value, with the first round's word in h already.
Start ==
  /\ phase = "schedule"
  /\ n = 64
  /\ v' = [hash EXCEPT ![7] = Plus(@, wk(0))]
  /\ phase' = "rounds"
  /\ UNCHANGED <<w, n, hash, t>>

\* Summed with all their bits and then cut to a word.
t1 == Low(BigSigma1(v[4]) + Ch(v[4], v[5], v[6]) + v[7])
t2 == Low(BigSigma0(v[0]) + Maj(v[0], v[1], v[2]))

\* round: every variable moves one role on; d and h take the sums.
DoRound ==
  /\ phase = "rounds"
  /\ t < 64
  /\ v' = [j \in Role |->
             CASE j = 0 -> Plus(t1, t2)
               [] j = 4 -> Plus(t1, v[3])
               [] j = 7 -> IF t < 63 THEN Plus(v[6], wk(t + 1)) ELSE v[6]
               [] OTHER -> v[j - 1]]
  /\ t' = t + 1
  /\ UNCHANGED <<phase, w, n, hash>>

\* hashBlock returns the next hash value.
Finish ==
  /\ phase = "rounds"
  /\ t = 64
  /\ hash' = [j \in Role |-> Plus(v[j], hash[j])]
  /\ phase' = "done"
  /\ UNCHANGED <<w, n, v, t>>

Next == Schedule \/ Start \/ DoRound \/ Finish

Spec == Init /\ [][Next]_vars

=============================================================================
