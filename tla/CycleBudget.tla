---------------------------- MODULE CycleBudget ----------------------------
(***************************************************************************)
(* How common/dfe.c fits a bitcoin sweep and a number of scrypt jobs to    *)
(* one run of the DFE: create_limits stretches the range of nonces,        *)
(* dfe_init derives the number of scrypt jobs from it, and the two         *)
(* dfe_setup_run functions the ticks of both kernels.  The builds differ   *)
(* in the constants the maxfile defines, with 0 pipes for a kernel that is *)
(* not there.                                                              *)
(*                                                                         *)
(* The arithmetic in double is exact here, except that a quotient that is  *)
(* an integer may come out just below it: its truncation is the integer or *)
(* the one before.                                                         *)
(***************************************************************************)
EXTENDS Integers

CONSTANTS
  Builds,       \* the maxfiles considered
  TestMode,     \* run_test, not run_live
  Limit,        \* the length that one asks for
  Iters         \* Scrypt_Iterations

\* Every kernel that is there has a clock, and the scrypt pipes are started
\* before the first of them is done.
ASSUME BuildsAssumption ==
  \A b \in Builds :
    /\ b.numPipes \in Nat /\ b.numRecordsPerPipe \in Nat /\ b.Cslow \in Nat /\ b.NumPipes \in Nat
    /\ b.numPipes > 0 => b.numRecordsPerPipe > 0 /\ b.bFreq \in Nat \ {0}
    /\ b.NumPipes > 0 => b.Cslow > 0 /\ b.sFreq \in Nat \ {0} /\ b.NumPipes <= Iters
    /\ b.numPipes > 0 \/ b.NumPipes > 0
ASSUME LimitAssumption == Limit \in Nat \ {0} /\ Iters \in Nat \ {0} /\ TestMode \in BOOLEAN

VARIABLES
  build,
  pc,               \* "create", "init", "setup", "run" or "exited"
  length,           \* limits.length
  num_scrypt,       \* ctx->num_scrypt
  bcTicks, sTicks, nmax    \* what the run is given

vars == <<build, pc, length, num_scrypt, bcTicks, sTicks, nmax>>

P == build.numPipes
Records == build.numPipes * build.numRecordsPerPipe
ComputeUnit == build.NumPipes * build.Cslow
Stagger == build.Cslow * (build.NumPipes - 1)     \* scrypt_const
Batch == 2 * build.Cslow * Iters                  \* denom: the ticks of a scrypt batch
Both == build.numPipes > 0 /\ build.NumPipes > 0

\* next_multiple, ROUND_UP
RoundDown(a, b) == (a \div b) * b       \* (Mutant: the other direction.)
NextMultiple(a, b) == ((a + b - 1) \div b) * b

\* A double converted to an integer.
Truncations(num, den) ==
  {num \div den} \cup (IF num % den = 0 /\ num > 0 THEN {num \div den - 1} ELSE {})

\* The ticks a sweep over "nonces" and the read-out of all records take.
SweepTicks(nonces) == NextMultiple(nonces, P) \div P + Records

\* The length create_limits makes of the one it is given: the sweep in scrypt
\* ticks, rounded up to whole batches, and turned back into nonces.
Stretched(nonces) ==
  UNION {Truncations((NextMultiple(ticks, Batch) - Stagger) * build.bFreq * P
                     - Records * P * build.sFreq, build.sFreq) :
         ticks \in Truncations(SweepTicks(nonces) * build.sFreq + Stagger * build.bFreq, build.bFreq)}

\* scrypt_N: the batches that fit a sweep over "nonces".
OneMore(nonces) ==                      \* (Mutant: rounded up.)
  {(SweepTicks(nonces) * build.sFreq - Stagger * build.bFreq) \div (Batch * build.bFreq) + 1}
PerUnit(nonces) ==                      \* (Mutant: a batch takes longer with more pipes.)
  Truncations(SweepTicks(nonces) * build.sFreq - Stagger * build.bFreq,
              2 * ComputeUnit * Iters * build.bFreq)
BatchesFor(nonces) ==
  Truncations(SweepTicks(nonces) * build.sFreq - Stagger * build.bFreq, Batch * build.bFreq)

Init ==
  /\ build \in Builds
  /\ pc = "create" /\ length = 0 /\ num_scrypt = 0
  /\ bcTicks = 0 /\ sTicks = 0 /\ nmax = 0

CreateLimits ==
  /\ pc = "create" /\ pc' = "init"
  /\ length' \in IF Both THEN Stretched(Limit) ELSE {Limit}
  /\ UNCHANGED <<build, num_scrypt, bcTicks, sTicks, nmax>>

\* dfe_init, with the constants a build without bitcoin falls back to.
NumScrypts ==
  IF build.NumPipes = 0 THEN {0}
  ELSE IF Both THEN {batches * ComputeUnit : batches \in BatchesFor(length)}
  ELSE {(IF TestMode THEN 10000 ELSE 2000000) \div ComputeUnit}

DfeInit ==
  /\ pc = "init"
  /\ IF length = 0 THEN pc' = "exited" /\ UNCHANGED num_scrypt
     ELSE pc' = "setup" /\ num_scrypt' \in NumScrypts
  /\ UNCHANGED <<build, length, bcTicks, sTicks, nmax>>

\* dfe_setup_run_bitcoin and dfe_setup_run_scrypt.
SetupRun ==
  /\ pc = "setup" /\ pc' = "run"
  /\ bcTicks' = IF build.numPipes = 0 THEN 0 ELSE SweepTicks(length)
  /\ IF build.NumPipes = 0 THEN nmax' = 0 /\ sTicks' = 0
     ELSE /\ nmax' = num_scrypt \div ComputeUnit
          /\ sTicks' = nmax' * Batch + Stagger
  /\ UNCHANGED <<build, length, num_scrypt>>

\* The same limits serve every run until the process ends.
Running == pc \in {"run", "exited"} /\ UNCHANGED vars

Next == CreateLimits \/ DfeInit \/ SetupRun \/ Running

Spec == Init /\ [][Next]_vars

-----------------------------------------------------------------------------
\* Properties.

\* In one run of both kernels the scrypt kernel works on whole batches, so that no
\* input is left in the stream and every result comes back, and it is done when the
\* bitcoin kernel is, so that scrypt never holds up the sweep (the subtraction of
\* the stagger and the truncation in dfe.c:205).
ScryptFits ==
  pc = "run" /\ Both =>
    num_scrypt = nmax * ComputeUnit /\ sTicks * build.bFreq <= bcTicks * build.sFreq

\* And the scrypt kernel has no time for a batch more, up to the rounding of an
\* exact quotient.
NoRoomForMore ==
  pc = "run" /\ Both => (sTicks + Batch) * build.bFreq >= bcTicks * build.sFreq

\* create_limits changes the length by less than the nonces of one scrypt batch
\* upwards and, as the sweep in scrypt ticks is truncated before it is rounded
\* up, by no more than those of one scrypt tick and one nonce downwards.
LengthNear ==
  pc # "create" /\ Both =>
    /\ (length - Limit - P) * build.sFreq <= Batch * build.bFreq * P
    /\ (Limit - length - 1) * build.sFreq <= build.bFreq * P

\* "round it up to a number that is friendly for Scrypt cycle calculation"
\* (dfe.c:108): the sweep covers at least the nonces that were asked for.
RoundedUp == pc # "create" => length >= Limit

=============================================================================
