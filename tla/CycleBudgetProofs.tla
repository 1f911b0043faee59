------------------------- MODULE CycleBudgetProofs -------------------------
(***************************************************************************)
(* Proofs about CycleBudget, for every build, length and number of         *)
(* iterations, the live length 2^32 among them, which the model checker's  *)
(* integers do not hold: how many scrypt batches create_limits and dfe_init*)
(* fit to a sweep, and how far the length is stretched for them.           *)
(***************************************************************************)
EXTENDS CycleBudget, TLAPS

-----------------------------------------------------------------------------
\* Arithmetic.

\* Division rounds down.
LEMMA DivisionLemma ==
  ASSUME NEW a \in Int, NEW d \in Nat, d > 0
  PROVE  /\ a \div d \in Int /\ (a \div d) * d <= a /\ a < (a \div d) * d + d
         /\ a % d = 0 => (a \div d) * d = a
OBVIOUS

\* A multiple divides without rest.
LEMMA QuotientLemma ==
  ASSUME NEW b \in Int, NEW d \in Nat, d > 0
  PROVE  (b * d) \div d = b
OBVIOUS

\* The truncation of a quotient is less than the quotient by at most one.
LEMMA TruncationsLemma ==
  ASSUME NEW num \in Int, NEW den \in Nat, den > 0, NEW k \in Truncations(num, den)
  PROVE  k \in Int /\ k * den <= num /\ num <= k * den + den
<1> DEFINE q == num \div den
<1>1. /\ q \in Int /\ q * den <= num /\ num < q * den + den
      /\ num % den = 0 => q * den = num
  BY DivisionLemma
<1>2. k = q \/ (k = q - 1 /\ num % den = 0)
  BY DEF Truncations
<1> HIDE DEF q
<1>3. CASE k = q
  BY <1>1, <1>3
<1>4. CASE k = q - 1 /\ num % den = 0
  <2>1. k * den = q * den - den
    BY <1>1, <1>4
  <2> QED BY <1>1, <1>4, <2>1
<1> QED BY <1>2, <1>3, <1>4

\* The next multiple is one, and near.
LEMMA NextMultipleLemma ==
  ASSUME NEW a \in Int, NEW b \in Nat, b > 0
  PROVE  /\ NextMultiple(a, b) \in Int
         /\ a <= NextMultiple(a, b) /\ NextMultiple(a, b) < a + b
         /\ (NextMultiple(a, b) \div b) \in Int
         /\ (NextMultiple(a, b) \div b) * b = NextMultiple(a, b)
<1> DEFINE q == (a + b - 1) \div b
<1>1. q \in Int /\ q * b <= a + b - 1 /\ a + b - 1 < q * b + b
  BY DivisionLemma
<1>2. q * b \in Int /\ (q * b) \div b = q
  BY <1>1, QuotientLemma
<1>3. NextMultiple(a, b) = q * b
  BY DEF NextMultiple
<1> HIDE DEF q
<1> QED BY <1>1, <1>2, <1>3

-----------------------------------------------------------------------------
\* A build with both kernels.

\* The parameters of a build are what arithmetic needs them to be.
LEMMA BuildLemma ==
  ASSUME build \in Builds, Both
  PROVE  /\ P \in Nat /\ P > 0 /\ Records \in Nat
         /\ ComputeUnit \in Nat /\ ComputeUnit > 0
         /\ Stagger \in Nat /\ Batch \in Nat /\ Batch > 0
         /\ build.bFreq \in Nat /\ build.bFreq > 0 /\ build.sFreq \in Nat /\ build.sFreq > 0
         /\ Batch * build.bFreq \in Nat /\ Batch * build.bFreq > 0
<1>1. /\ build.numPipes \in Nat /\ build.numPipes > 0 /\ build.numRecordsPerPipe \in Nat
      /\ build.NumPipes \in Nat /\ build.NumPipes > 0 /\ build.Cslow \in Nat /\ build.Cslow > 0
      /\ build.bFreq \in Nat /\ build.bFreq > 0 /\ build.sFreq \in Nat /\ build.sFreq > 0
      /\ Iters \in Nat /\ Iters > 0
  BY BuildsAssumption, LimitAssumption DEF Both
<1>2. \A a, b \in Nat : a * b \in Nat /\ (a > 0 /\ b > 0 => a * b > 0)
  OBVIOUS
<1>3. Records \in Nat /\ ComputeUnit \in Nat /\ ComputeUnit > 0
  BY <1>1, <1>2 DEF Records, ComputeUnit
<1>4. build.NumPipes - 1 \in Nat
  BY <1>1
<1>5. Stagger \in Nat
  BY <1>1, <1>2, <1>4 DEF Stagger
<1>6. Batch \in Nat /\ Batch > 0
  BY <1>1, <1>2 DEF Batch
<1> QED BY <1>1, <1>2, <1>3, <1>5, <1>6 DEF P

\* The ticks of a sweep: those of the nonces, rounded up to whole steps of all pipes,
\* and those of the records.
LEMMA SweepLemma ==
  ASSUME build \in Builds, Both, NEW nonces \in Int
  PROVE  /\ SweepTicks(nonces) \in Int
         /\ nonces <= (SweepTicks(nonces) - Records) * P
         /\ (SweepTicks(nonces) - Records) * P < nonces + P
<1> DEFINE steps == NextMultiple(nonces, P) \div P
<1>1. /\ steps \in Int /\ nonces <= steps * P /\ steps * P < nonces + P
  BY BuildLemma, NextMultipleLemma
<1>2. SweepTicks(nonces) = steps + Records
  BY DEF SweepTicks
<1> HIDE DEF steps
<1> QED BY <1>1, <1>2, BuildLemma

\* What the model knows at each point of the start-up: the length is one that
\* create_limits makes, and the numbers of the run follow from a number of batches.
Budget ==
  /\ build \in Builds
  /\ pc \in {"create", "init", "setup", "run", "exited"}
  /\ pc # "create" /\ Both => length \in Stretched(Limit)
  /\ pc = "setup" /\ Both => \E b \in BatchesFor(length) : num_scrypt = b * ComputeUnit
  /\ pc = "run" /\ Both =>
       \E b \in BatchesFor(length) :
         /\ num_scrypt = b * ComputeUnit /\ nmax = num_scrypt \div ComputeUnit
         /\ sTicks = nmax * Batch + Stagger
         /\ bcTicks = SweepTicks(length)

\* Start-up computes them in this order.
LEMMA BudgetHolds == Spec => []Budget
<1>1. Init => Budget
  BY DEF Init, Budget
<1>2. Budget /\ [Next]_vars => Budget'
  <2> SUFFICES ASSUME Budget, [Next]_vars PROVE Budget'
    OBVIOUS
  <2>1. ASSUME build' = build
        PROVE  /\ Both' = Both /\ ComputeUnit' = ComputeUnit /\ Batch' = Batch /\ Stagger' = Stagger
               /\ Stretched(Limit)' = Stretched(Limit)
               /\ length' = length => BatchesFor(length)' = BatchesFor(length)
                                       /\ SweepTicks(length)' = SweepTicks(length)
    BY <2>1 DEF Both, ComputeUnit, Batch, Stagger, Stretched, BatchesFor, SweepTicks, Records, P
  <2>2. CASE CreateLimits
    BY <2>1, <2>2 DEF CreateLimits, Budget
  <2>3. CASE DfeInit
    <3>1. build' = build /\ length' = length /\ pc = "init" /\ pc' \in {"setup", "exited"}
      BY <2>3 DEF DfeInit
    <3>2. ASSUME pc' = "setup", Both PROVE \E b \in BatchesFor(length) : num_scrypt' = b * ComputeUnit
      <4>1. num_scrypt' \in NumScrypts
        BY <2>3, <3>2 DEF DfeInit
      <4>2. NumScrypts = {batches * ComputeUnit : batches \in BatchesFor(length)}
        BY <3>2 DEF NumScrypts, Both, Budget
      <4> QED BY <4>1, <4>2
    <3> QED BY <2>1, <3>1, <3>2 DEF Budget
  <2>4. CASE SetupRun
    <3>1. Both => build.numPipes # 0 /\ build.NumPipes # 0
      BY DEF Both
    <3> QED BY <2>1, <2>4, <3>1 DEF SetupRun, Budget
  <2>5. CASE Running \/ UNCHANGED vars
    <3>1. UNCHANGED vars
      BY <2>5 DEF Running
    <3> QED BY <2>1, <3>1 DEF vars, Budget
  <2> QED BY <2>2, <2>3, <2>4, <2>5 DEF Next
<1> QED BY <1>1, <1>2, PTL DEF Spec

\* create_limits makes an integer of the length, between the bounds of LengthNear.
LEMMA StretchedLemma ==
  ASSUME build \in Builds, Both, NEW l \in Stretched(Limit)
  PROVE  /\ l \in Int
         /\ (l - Limit - P) * build.sFreq <= Batch * build.bFreq * P
         /\ (Limit - l - 1) * build.sFreq <= build.bFreq * P
<1> DEFINE F == build.bFreq
           G == build.sFreq
           S == SweepTicks(Limit)
<1>0. /\ P \in Nat /\ P > 0 /\ Records \in Nat /\ Stagger \in Nat /\ Batch \in Nat /\ Batch > 0
      /\ F \in Nat /\ F > 0 /\ G \in Nat /\ G > 0 /\ Limit \in Int
      /\ S \in Int /\ Limit <= (S - Records) * P /\ (S - Records) * P < Limit + P
  BY BuildLemma, SweepLemma, LimitAssumption
<1>1. PICK t \in Truncations(S * G + Stagger * F, F) :
        l \in Truncations((NextMultiple(t, Batch) - Stagger) * F * P - Records * P * G, G)
  BY DEF Stretched
<1> DEFINE X == NextMultiple(t, Batch)
<1> HIDE DEF F, G, S
<1>2. t \in Int /\ t * F <= S * G + Stagger * F /\ S * G + Stagger * F <= t * F + F
  BY <1>0, <1>1, TruncationsLemma
<1>3. X \in Int /\ t <= X /\ X < t + Batch
  BY <1>0, <1>2, NextMultipleLemma
<1> HIDE DEF X
<1>4. /\ l \in Int /\ l * G <= (X - Stagger) * F * P - Records * P * G
      /\ (X - Stagger) * F * P - Records * P * G <= l * G + G
  BY <1>0, <1>1, <1>3, TruncationsLemma DEF X
<1>5. /\ (X - Stagger) * F <= S * G + Batch * F
      /\ S * G - F <= (X - Stagger) * F
  <2>1. X * F <= t * F + Batch * F /\ t * F <= X * F
    BY <1>0, <1>2, <1>3
  <2>2. (X - Stagger) * F = X * F - Stagger * F
    BY <1>0, <1>3
  <2> QED BY <1>0, <1>2, <1>3, <2>1, <2>2
<1>6. /\ (X - Stagger) * F * P <= S * G * P + Batch * F * P
      /\ S * G * P - F * P <= (X - Stagger) * F * P
  <2> DEFINE y == (X - Stagger) * F
             z == S * G
             b == Batch * F
  <2>1. y \in Int /\ z \in Int /\ b \in Int /\ y <= z + b /\ z - F <= y
    BY <1>0, <1>3, <1>5
  <2> HIDE DEF y, z, b
  <2>2. y * P <= (z + b) * P /\ (z - F) * P <= y * P
    BY <1>0, <2>1
  <2>3. (z + b) * P = z * P + b * P /\ (z - F) * P = z * P - F * P
    BY <1>0, <2>1
  <2>4. y * P <= z * P + b * P /\ z * P - F * P <= y * P
    BY <2>2, <2>3
  <2> QED BY <2>4 DEF y, z, b
<1>7. S * G * P - Records * P * G = ((S - Records) * P) * G
  BY <1>0
<1>8. /\ Limit * G <= ((S - Records) * P) * G
      /\ ((S - Records) * P) * G <= (Limit + P) * G
  BY <1>0
<1> DEFINE u == (X - Stagger) * F * P
           v == S * G * P
           w == Records * P * G
           c == Batch * F * P
           d == F * P
           e == l * G
           m == ((S - Records) * P) * G
<1>9. /\ u \in Int /\ v \in Int /\ w \in Int /\ c \in Int /\ d \in Int /\ e \in Int /\ m \in Int
      /\ e <= u - w /\ u - w <= e + G /\ u <= v + c /\ v - d <= u /\ v - w = m
      /\ Limit * G <= m /\ m <= (Limit + P) * G /\ Limit * G \in Int /\ (Limit + P) * G \in Int
  BY <1>0, <1>3, <1>4, <1>6, <1>7, <1>8
<1>10. /\ (l - Limit - P) * G = e - (Limit + P) * G
       /\ (Limit - l - 1) * G = Limit * G - e - G
  BY <1>0, <1>4
<1> HIDE DEF u, v, w, c, d, e, m
<1>11. (l - Limit - P) * G <= c /\ (Limit - l - 1) * G <= d
  BY <1>0, <1>9, <1>10
<1> QED BY <1>4, <1>11 DEF c, d, F, G

\* How far create_limits stretches the length (dfe.c:104-127), for every build and length.
THEOREM LengthStaysNear == Spec => []LengthNear
<1>1. Budget => LengthNear
  BY StretchedLemma DEF Budget, LengthNear
<1> QED BY <1>1, BudgetHolds, PTL

\* The batches dfe_init computes fill the sweep, in scrypt ticks times its clock.
LEMMA BatchesLemma ==
  ASSUME build \in Builds, Both, NEW l \in Int, NEW b \in BatchesFor(l)
  PROVE  /\ b \in Int
         /\ (b * Batch + Stagger) * build.bFreq <= SweepTicks(l) * build.sFreq
         /\ SweepTicks(l) * build.sFreq <= (b * Batch + Stagger + Batch) * build.bFreq
<1> DEFINE F == build.bFreq
           G == build.sFreq
           S == SweepTicks(l)
           den == Batch * F
<1>0. /\ Stagger \in Nat /\ Batch \in Nat /\ F \in Nat /\ G \in Nat /\ S \in Int
      /\ den \in Nat /\ den > 0
  BY BuildLemma, SweepLemma
<1>1. b \in Truncations(S * G - Stagger * F, den)
  BY DEF BatchesFor
<1> HIDE DEF F, G, S, den
<1>2. b \in Int /\ b * den <= S * G - Stagger * F /\ S * G - Stagger * F <= b * den + den
  BY <1>0, <1>1, TruncationsLemma
<1>3. /\ (b * Batch + Stagger) * F = b * (Batch * F) + Stagger * F
      /\ (b * Batch + Stagger + Batch) * F = b * (Batch * F) + Stagger * F + Batch * F
  BY <1>0, <1>2
<1>4. /\ (b * Batch + Stagger) * F = b * den + Stagger * F
      /\ (b * Batch + Stagger + Batch) * F = b * den + Stagger * F + den
  BY <1>3 DEF den
<1>5. (b * Batch + Stagger) * F <= S * G /\ S * G <= (b * Batch + Stagger + Batch) * F
  <2> DEFINE x == b * den
             y == Stagger * F
             z == S * G
  <2>1. x \in Int /\ y \in Int /\ z \in Int /\ x <= z - y /\ z - y <= x + den
    BY <1>0, <1>2
  <2> HIDE DEF x, y, z
  <2>2. x + y <= z /\ z <= x + y + den
    BY <1>0, <2>1
  <2> QED BY <1>4, <2>2 DEF x, y, z
<1> QED BY <1>2, <1>5 DEF F, G, S

\* What a run of both kernels works on.
LEMMA RunLemma ==
  ASSUME Budget, pc = "run", Both
  PROVE  /\ num_scrypt = nmax * ComputeUnit
         /\ sTicks * build.bFreq <= bcTicks * build.sFreq
         /\ bcTicks * build.sFreq <= (sTicks + Batch) * build.bFreq
<1>1. PICK b \in BatchesFor(length) :
        /\ num_scrypt = b * ComputeUnit /\ nmax = num_scrypt \div ComputeUnit
        /\ sTicks = nmax * Batch + Stagger /\ bcTicks = SweepTicks(length)
  BY DEF Budget
<1>2. build \in Builds /\ length \in Int
  BY StretchedLemma DEF Budget
<1>3. /\ b \in Int
      /\ (b * Batch + Stagger) * build.bFreq <= SweepTicks(length) * build.sFreq
      /\ SweepTicks(length) * build.sFreq <= (b * Batch + Stagger + Batch) * build.bFreq
  BY <1>2, BatchesLemma
<1>4. nmax = b
  BY <1>1, <1>2, <1>3, BuildLemma, QuotientLemma
<1> QED BY <1>1, <1>3, <1>4

\* The scrypt jobs of a run are whole batches, done when the sweep is (dfe.c:201-206).
THEOREM ScryptFitsAlways == Spec => []ScryptFits
<1>1. Budget => ScryptFits
  BY RunLemma DEF ScryptFits
<1> QED BY <1>1, BudgetHolds, PTL

\* And no batch more would fit.
THEOREM NoRoomEver == Spec => []NoRoomForMore
<1>1. Budget => NoRoomForMore
  BY RunLemma DEF NoRoomForMore
<1> QED BY <1>1, BudgetHolds, PTL

=============================================================================
