-------------------------- MODULE ScryptRunProofs --------------------------
(***************************************************************************)
(* Proofs about ScryptRun, for any number of pipes, slots, batches and     *)
(* rounds.  First the types and the counters are an inductive invariant,   *)
(* and from it the cycles dfe_setup_run_scrypt computes are exactly those  *)
(* the kernel needs to read all inputs and to write all results.  Then the *)
(* data: the invariant says which rounds of which job every loop and every *)
(* scratchpad holds, and from it each job reads its own rounds and the     *)
(* results leave in the order of the inputs.                               *)
(***************************************************************************)
EXTENDS ScryptRun, TLAPS

-----------------------------------------------------------------------------
\* Constants.

\* The constants are what arithmetic needs them to be.
LEMMA ConstantsLemma ==
  /\ NumPipes \in Nat /\ NumPipes > 0 /\ Cslow \in Nat /\ Cslow > 0
  /\ FifoDepth \in Nat /\ FifoDepth > 0
  /\ Iters \in Nat /\ Iters > 0 /\ NumPipes < 2 * Iters
  /\ NumScrypt \in Nat /\ Nmax \in Nat /\ Nmax > 0
<1>1. Nmax \in Nat /\ Nmax > 0
  BY BatchAssumption
<1> QED BY <1>1, ShapeAssumption, BatchAssumption

\* The products the schedule is made of.  A compute unit is read, and all but
\* the last Cslow ticks are over, before a batch writes its first result.
LEMMA ScheduleLemma ==
  /\ ComputeUnit \in Nat /\ ComputeCycles \in Nat /\ TailCycles \in Nat
  /\ TailCycles = ComputeUnit - Cslow
  /\ ComputeUnit <= ComputeCycles - Cslow
  /\ NumPipes * Cslow = ComputeUnit /\ Cslow * NumPipes = ComputeUnit
  /\ Cslow * (NumPipes - 1) = TailCycles /\ (NumPipes - 1) * Cslow = TailCycles
<1> DEFINE q == 2 * Iters - NumPipes
<1>1. q \in Nat /\ q >= 1 /\ 2 * Iters = NumPipes + q
  BY ConstantsLemma
<1>2. ComputeCycles = Cslow * (2 * Iters)
  BY ConstantsLemma DEF ComputeCycles
<1>3. ComputeCycles = Cslow * NumPipes + Cslow * q
  BY <1>1, <1>2, ConstantsLemma
<1>4. Cslow * q \in Nat /\ Cslow * q >= Cslow
  BY <1>1, ConstantsLemma
<1>5. Cslow * NumPipes \in Nat /\ NumPipes * Cslow = Cslow * NumPipes
  BY ConstantsLemma
<1>6. /\ Cslow * (NumPipes - 1) = Cslow * NumPipes - Cslow
      /\ (NumPipes - 1) * Cslow = Cslow * NumPipes - Cslow
  BY ConstantsLemma
<1>7. Cslow * NumPipes >= Cslow
  BY ConstantsLemma
<1> HIDE DEF q
<1> QED BY <1>3, <1>4, <1>5, <1>6, <1>7, ConstantsLemma DEF ComputeUnit, TailCycles

\* A number of batches times their length.
LEMMA BatchLemma ==
  ASSUME NEW b \in Nat, NEW d \in Nat
  PROVE  /\ b * d \in Nat /\ (b + 1) * d = b * d + d
         /\ (b >= 1 => b * d >= d)
<1>1. b * d \in Nat /\ (b + 1) * d = b * d + d
  OBVIOUS
<1>2. ASSUME b >= 1 PROVE b * d >= d
  <2>1. (b - 1) * d \in Nat
    BY <1>2
  <2>2. b * d = (b - 1) * d + d
    OBVIOUS
  <2> QED BY <2>1, <2>2
<1> QED BY <1>1, <1>2

\* The cycles of a run in terms of the tail.
LEMMA CyclesLemma ==
  RunCycles = Nmax * ComputeCycles + TailCycles /\ RunCycles \in Nat
BY ScheduleLemma, ConstantsLemma, BatchLemma DEF RunCycles

\* The counter wraps like this.
LEMMA WrapLemma ==
  ASSUME NEW d \in Nat, NEW w \in 0 .. d - 1
  PROVE  /\ (w + 1) % d \in 0 .. d - 1
         /\ (w + 1) % d = IF w = d - 1 THEN 0 ELSE w + 1
<1>1. CASE w = d - 1
  BY <1>1, d > 0, d % d = 0
<1>2. CASE w # d - 1
  <2>1. w + 1 \in Nat /\ w + 1 < d /\ d > 0
    BY <1>2
  <2> QED BY <1>2, <2>1
<1> QED BY <1>1, <1>2

-----------------------------------------------------------------------------
\* Types.

Counters == [phase : 0 .. 1, iteration : Addresses, cslowidx : 0 .. Cslow - 1]

\* A round of salsa, a mixing round, and what a pipe computes are values.
LEMMA ValueLemma ==
  ASSUME NEW x \in Value, NEW v \in Value, NEW a \in Addresses
  PROVE  Junk \in Value /\ Salsa(x) \in Value /\ Mixed(x, v, a) \in Value
<1>1. Junk \in Value /\ Mixed(x, v, a) \in Value
  BY DEF Value, Mixed
<1>2. CASE x = Junk \/ x.round = 2 * Iters
  BY <1>1, <1>2 DEF Salsa
<1>3. CASE ~(x = Junk \/ x.round = 2 * Iters)
  <2>0. x # Junk /\ x.round # 2 * Iters
    BY <1>3
  <2>1. x \in Rounds
    BY <2>0 DEF Value
  <2>2. x.round + 1 \in 0 .. 2 * Iters
    BY <2>0, <2>1, ConstantsLemma DEF Rounds
  <2>3. [job |-> x.job, round |-> x.round + 1] \in Value
    BY <2>1, <2>2 DEF Rounds, Value
  <2>4. Salsa(x) = [job |-> x.job, round |-> x.round + 1]
    BY <1>3, Zenon DEF Salsa
  <2> QED BY <1>1, <2>3, <2>4
<1> QED BY <1>1, <1>2, <1>3

\* A slot and an address name a cell of the scratchpad.
LEMMA CellLemma ==
  ASSUME NEW slot \in 0 .. Cslow - 1, NEW a \in Addresses
  PROVE  CellOf(slot, a) \in Cells
<1>1. slot * Iters \in Nat /\ slot * Iters + Iters <= Cslow * Iters
  <2>1. slot \in Nat /\ Cslow - 1 - slot \in Nat
    BY ConstantsLemma
  <2>2. (Cslow - 1 - slot) * Iters \in Nat /\ slot * Iters \in Nat
    BY <2>1, ConstantsLemma
  <2>3. Cslow * Iters = (Cslow - 1 - slot) * Iters + slot * Iters + Iters
    BY <2>1, ConstantsLemma
  <2> QED BY <2>2, <2>3, ConstantsLemma
<1>2. slot * Iters + a \in 0 .. Depth - 1
  BY <1>1, ConstantsLemma DEF Depth, Addresses
<1> QED BY <1>2 DEF CellOf, Cells

\* The counter chain of a pipe stays within its bounds.
LEMMA AdvanceLemma ==
  ASSUME NEW c \in Counters
  PROVE  Advance(c) \in Counters
<1>0. /\ c.phase \in 0 .. 1 /\ c.iteration \in 0 .. Iters - 1 /\ c.cslowidx \in 0 .. Cslow - 1
      /\ c = [phase |-> c.phase, iteration |-> c.iteration, cslowidx |-> c.cslowidx]
  BY DEF Counters, Addresses
<1>1. CASE c.cslowidx < Cslow - 1
  <2>1. c.cslowidx + 1 \in 0 .. Cslow - 1
    BY <1>0, <1>1, ConstantsLemma
  <2>2. [c EXCEPT !.cslowidx = @ + 1] \in Counters
    BY <2>1 DEF Counters
  <2> QED BY <1>1, <2>2 DEF Advance
<1>2. CASE ~(c.cslowidx < Cslow - 1) /\ c.iteration < Iters - 1
  <2>1. c.iteration + 1 \in Addresses /\ 0 \in 0 .. Cslow - 1
    BY <1>0, <1>2, ConstantsLemma DEF Addresses
  <2>2. [c EXCEPT !.cslowidx = 0, !.iteration = @ + 1] \in Counters
    BY <2>1 DEF Counters
  <2> QED BY <1>2, <2>2 DEF Advance
<1>3. CASE ~(c.cslowidx < Cslow - 1) /\ ~(c.iteration < Iters - 1)
  <2>1. 1 - c.phase \in 0 .. 1 /\ 0 \in Addresses /\ 0 \in 0 .. Cslow - 1
    BY <1>0, ConstantsLemma DEF Addresses
  <2> QED BY <1>3, <2>1 DEF Advance, Counters
<1> QED BY <1>1, <1>2, <1>3

\* What a pipe takes, computes and leaves in its scratchpad.
LEMMA PipeLemma ==
  ASSUME TypeOK, NEW p \in Pipes, NEW in \in Value, NEW a \in Addresses
  PROVE  NewX(p, in, a) \in Value /\ Written(p, in) \in [Cells -> Value]
<1>1. /\ at[p] \in Counters /\ memory[p] \in [Cells -> Value]
      /\ loop[p] \in Seq(Value) /\ Len(loop[p]) = Cslow
  BY DEF TypeOK, Counters
<1>2. loop[p] # <<>> /\ Head(loop[p]) \in Value
  BY <1>1, ConstantsLemma
<1>3. X(p, in) \in Value
  BY <1>2 DEF X
<1>4. CellOf(at[p].cslowidx, a) \in Cells /\ CellOf(at[p].cslowidx, at[p].iteration) \in Cells
  BY <1>1, CellLemma DEF Counters
<1>5. NewX(p, in, a) \in Value
  <2>1. Salsa(X(p, in)) \in Value
    BY <1>3, ValueLemma
  <2> DEFINE v == memory[p][CellOf(at[p].cslowidx, a)]
  <2>2. v \in Value
    BY <1>1, <1>4
  <2>3. Mixed(X(p, in), v, a) \in Value
    BY <1>3, <2>2, ValueLemma
  <2>4. Salsa(Mixed(X(p, in), v, a)) \in Value
    BY <2>2, <2>3, ValueLemma
  <2> QED BY <2>1, <2>4 DEF NewX
<1>6. Written(p, in) \in [Cells -> Value]
  BY <1>1, <1>3, <1>4 DEF Written
<1> QED BY <1>5, <1>6

\* The kernel and the streams start well-typed.
LEMMA ResetLemma ==
  /\ Junk \in Value
  /\ [p \in Pipes |-> [phase |-> 0, iteration |-> 0, cslowidx |-> 0]] \in [Pipes -> Counters]
  /\ [p \in Pipes |-> [s \in 1 .. Cslow |-> Junk]] \in [Pipes -> Seq(Value)]
  /\ \A p \in Pipes : Len([q \in Pipes |-> [s \in 1 .. Cslow |-> Junk]][p]) = Cslow
  /\ [p \in Pipes |-> [c \in Cells |-> Junk]] \in [Pipes -> [Cells -> Value]]
  /\ <<>> \in Seq(Value) /\ Len(<<>>) = 0
  /\ 0 \in Pipes
<1>1. Junk \in Value
  BY DEF Value
<1>2. [s \in 1 .. Cslow |-> Junk] \in Seq(Value) /\ Len([s \in 1 .. Cslow |-> Junk]) = Cslow
  BY <1>1, ConstantsLemma
<1>3. 0 \in Addresses /\ 0 \in 0 .. Cslow - 1 /\ 0 \in Pipes
  BY ConstantsLemma DEF Addresses, Pipes
<1>4. [phase |-> 0, iteration |-> 0, cslowidx |-> 0] \in Counters
  BY <1>3 DEF Counters
<1> DEFINE c0 == [phase |-> 0, iteration |-> 0, cslowidx |-> 0]
           l0 == [s \in 1 .. Cslow |-> Junk]
<1>5. c0 \in Counters /\ l0 \in Seq(Value) /\ Len(l0) = Cslow
  BY <1>2, <1>4
<1> HIDE DEF c0, l0
<1>6. /\ [p \in Pipes |-> c0] \in [Pipes -> Counters]
      /\ [p \in Pipes |-> l0] \in [Pipes -> Seq(Value)]
      /\ \A p \in Pipes : Len([q \in Pipes |-> l0][p]) = Cslow
  BY <1>5
<1>7. [p \in Pipes |-> [c \in Cells |-> Junk]] \in [Pipes -> [Cells -> Value]]
  BY <1>1
<1>8. <<>> \in Seq(Value) /\ Len(<<>>) = 0
  OBVIOUS
<1> QED BY <1>1, <1>3, <1>6, <1>7, <1>8 DEF c0, l0

-----------------------------------------------------------------------------
\* The invariant.

\* It holds before the first run.
LEMMA InitCounted == Init => RunInv
<1> SUFFICES ASSUME Init PROVE RunInv
  OBVIOUS
<1>1. TypeOK
  <2>1. /\ 0 \in 0 .. NumScrypt /\ 0 \in 0 .. RunCycles /\ 0 \in 0 .. StartupMax
        /\ 0 \in 0 .. Nmax /\ 0 \in 0 .. ComputeCycles - 1 /\ 0 \in 0 .. Cslow - 1
        /\ 0 <= FifoDepth
    BY ConstantsLemma, ScheduleLemma, CyclesLemma DEF StartupMax
  <2>2. buffer \in [Jobs -> Value]
    BY ResetLemma DEF Init
  <2> QED BY <2>1, <2>2, ResetLemma DEF Init, TypeOK, Counters
<1>2. CountInv
  BY DEF Init, CountInv
<1> QED BY <1>1, <1>2 DEF RunInv

\* A run starts with everything at zero.
LEMMA PrepareStep == RunInv /\ Prepare => RunInv'
<1> SUFFICES ASSUME RunInv, Prepare PROVE RunInv'
  OBVIOUS
<1>0. /\ 0 \in 0 .. NumScrypt /\ 0 \in 0 .. RunCycles /\ 0 \in 0 .. StartupMax
      /\ 0 \in 0 .. Nmax /\ 0 \in 0 .. ComputeCycles - 1 /\ 0 \in 0 .. Cslow - 1
      /\ 0 <= FifoDepth
  BY ConstantsLemma, ScheduleLemma, CyclesLemma DEF StartupMax
<1>1. TypeOK'
  <2>1. buffer' \in [Jobs -> Value]
    <3>1. \A k \in Jobs : Input(k) \in Value
      BY ConstantsLemma DEF Input, Value, Rounds
    <3> QED BY <3>1 DEF Prepare
  <2> QED BY <1>0, <2>1, ResetLemma DEF Prepare, TypeOK, Counters
<1>2. CountInv'
  <2>1. /\ tick' = 0 /\ n' = 0 /\ cycleCount' = 0 /\ startupCnt' = 0 /\ fed' = 0 /\ drained' = 0
        /\ Len(fromHost') = 0 /\ Len(toHost') = 0
    BY DEF Prepare
  <2>2. 0 = 0 * ComputeCycles + 0 /\ 0 = UpTo(0, StartupMax)
    BY ScheduleLemma, ConstantsLemma DEF UpTo, StartupMax
  <2>3. ReadSoFar' = 0
    BY <2>1, ScheduleLemma, ConstantsLemma DEF ReadSoFar, UpTo
  <2>4. WrittenSoFar' = 0
    BY <2>1, ScheduleLemma, ConstantsLemma DEF WrittenSoFar
  <2> QED BY <2>1, <2>2, <2>3, <2>4 DEF CountInv
<1> QED BY <1>1, <1>2 DEF RunInv

\* Feeding, draining and the end of a run move values, and no counter of the kernel.
LEMMA StreamStep == RunInv /\ (Feed \/ Drain \/ Return) => RunInv'
<1> SUFFICES ASSUME RunInv, Feed \/ Drain \/ Return PROVE RunInv'
  OBVIOUS
<1>0. TypeOK /\ CountInv
  BY DEF RunInv
<1>1. CASE Feed
  <2>1. fed \in Jobs /\ buffer[fed] \in Value
    BY <1>0, <1>1, ConstantsLemma DEF TypeOK, Feed, Jobs
  <2>2. /\ fromHost' \in Seq(Value) /\ Len(fromHost') = Len(fromHost) + 1
        /\ Len(fromHost) \in Nat /\ Len(fromHost) < FifoDepth
    BY <1>0, <1>1, <2>1 DEF TypeOK, Feed
  <2>3. fed' \in 0 .. NumScrypt /\ Len(fromHost') <= FifoDepth
    BY <1>0, <1>1, <2>1, <2>2, ConstantsLemma DEF TypeOK, Feed, Jobs
  <2>4. TypeOK'
    BY <1>0, <1>1, <2>2, <2>3 DEF TypeOK, Feed, kernel
  <2>5. CountInv'
    BY <1>0, <1>1, <2>2 DEF TypeOK, CountInv, Feed, kernel, ReadSoFar, WrittenSoFar
  <2> QED BY <2>4, <2>5 DEF RunInv
<1>2. CASE Drain
  <2>1. drained \in Jobs /\ Head(toHost) \in Value
    BY <1>0, <1>2, ConstantsLemma DEF TypeOK, Drain, Jobs
  <2>2. /\ toHost' \in Seq(Value) /\ Len(toHost') = Len(toHost) - 1
        /\ Len(toHost) \in Nat
    BY <1>0, <1>2 DEF TypeOK, Drain
  <2>3. drained' \in 0 .. NumScrypt /\ Len(toHost') <= FifoDepth
    BY <1>0, <1>2, <2>1, <2>2, ConstantsLemma DEF TypeOK, Drain, Jobs
  <2>4. TypeOK'
    BY <1>0, <1>2, <2>1, <2>2, <2>3 DEF TypeOK, Drain, kernel
  <2>5. CountInv'
    BY <1>0, <1>2, <2>2 DEF TypeOK, CountInv, Drain, kernel, ReadSoFar, WrittenSoFar
  <2> QED BY <2>4, <2>5 DEF RunInv
<1>3. CASE Return
  <2>1. TypeOK'
    BY <1>0, <1>3 DEF TypeOK, Return, streams, kernel
  <2>2. CountInv'
    BY <1>3 DEF CountInv, Return
  <2> QED BY <2>1, <2>2 DEF RunInv
<1> QED BY <1>1, <1>2, <1>3

\* A tick keeps the types of the data.
LEMMA TickData ==
  ASSUME TypeOK, Tick
  PROVE  /\ host' = host /\ buffer' = buffer /\ fed' = fed /\ drained' = drained
         /\ held' \in Value
         /\ loop' \in [Pipes -> Seq(Value)] /\ \A p \in Pipes : Len(loop'[p]) = Cslow
         /\ memory' \in [Pipes -> [Cells -> Value]]
         /\ at' \in [Pipes -> Counters]
         /\ fromHost' \in Seq(Value)
         /\ Len(fromHost') = IF ReadInput THEN Len(fromHost) - 1 ELSE Len(fromHost)
         /\ toHost' \in Seq(Value)
         /\ Len(toHost') = IF WriteOutput THEN Len(toHost) + 1 ELSE Len(toHost)
         /\ Len(toHost') <= FifoDepth /\ Len(fromHost') <= FifoDepth
<1>0. /\ held \in Value /\ fromHost \in Seq(Value) /\ toHost \in Seq(Value)
      /\ Len(fromHost) <= FifoDepth /\ Len(toHost) <= FifoDepth
      /\ loop \in [Pipes -> Seq(Value)] /\ \A p \in Pipes : Len(loop[p]) = Cslow
      /\ at \in [Pipes -> Counters] /\ pipeIdx \in Pipes
  BY DEF TypeOK, Counters
<1>1. /\ ReadInput => fromHost # <<>>
      /\ WriteOutput => Len(toHost) < FifoDepth
      /\ fromHost' = IF ReadInput THEN Tail(fromHost) ELSE fromHost
      /\ at' = [p \in Pipes |-> IF Enabled(p) THEN Advance(at[p]) ELSE at[p]]
      /\ host' = host /\ buffer' = buffer /\ fed' = fed /\ drained' = drained
  BY DEF Tick
<1> DEFINE in == IF ReadInput THEN Head(fromHost) ELSE held
<1>2. PICK mix \in [Pipes -> Addresses] :
        /\ held' = in
        /\ loop' = [p \in Pipes |-> Append(Tail(loop[p]), NewX(p, in, mix[p]))]
        /\ memory' = [p \in Pipes |-> Written(p, in)]
        /\ toHost' = IF WriteOutput
                     THEN Append(toHost, [p \in Pipes |-> NewX(p, in, mix[p])][pipeIdx])
                     ELSE toHost
  BY DEF Tick
<1>3. in \in Value
  BY <1>0, <1>1
<1> HIDE DEF in
<1>4. \A p \in Pipes : NewX(p, in, mix[p]) \in Value /\ Written(p, in) \in [Cells -> Value]
  BY <1>2, <1>3, PipeLemma
<1>5. \A p \in Pipes : /\ Append(Tail(loop[p]), NewX(p, in, mix[p])) \in Seq(Value)
                       /\ Len(Append(Tail(loop[p]), NewX(p, in, mix[p]))) = Cslow
  <2> SUFFICES ASSUME NEW p \in Pipes
               PROVE  /\ Append(Tail(loop[p]), NewX(p, in, mix[p])) \in Seq(Value)
                      /\ Len(Append(Tail(loop[p]), NewX(p, in, mix[p]))) = Cslow
    OBVIOUS
  <2>1. loop[p] \in Seq(Value) /\ loop[p] # <<>> /\ Len(loop[p]) = Cslow
    BY <1>0, ConstantsLemma
  <2>2. Tail(loop[p]) \in Seq(Value) /\ Len(Tail(loop[p])) = Cslow - 1
    BY <2>1
  <2> QED BY <1>4, <2>2, ConstantsLemma
<1>6. \A p \in Pipes : Advance(at[p]) \in Counters
  BY <1>0, AdvanceLemma
<1>7. at' \in [Pipes -> Counters]
  BY <1>0, <1>1, <1>6
<1>8. /\ loop' \in [Pipes -> Seq(Value)] /\ \A p \in Pipes : Len(loop'[p]) = Cslow
      /\ memory' \in [Pipes -> [Cells -> Value]]
  BY <1>2, <1>4, <1>5
<1>9. /\ fromHost' \in Seq(Value)
      /\ Len(fromHost') = IF ReadInput THEN Len(fromHost) - 1 ELSE Len(fromHost)
  BY <1>0, <1>1
<1>10. /\ toHost' \in Seq(Value)
       /\ Len(toHost') = IF WriteOutput THEN Len(toHost) + 1 ELSE Len(toHost)
  BY <1>0, <1>2, <1>4
<1>11. Len(toHost') <= FifoDepth /\ Len(fromHost') <= FifoDepth
  BY <1>0, <1>1, <1>9, <1>10, ConstantsLemma
<1> QED BY <1>1, <1>2, <1>3, <1>7, <1>8, <1>9, <1>10, <1>11

\* A tick moves the chain n, cycleCount one on, and n never gets beyond the
\* batch after the last, in which the run ends.
LEMMA ChainStep ==
  ASSUME RunInv, Tick
  PROVE  /\ host = "run" /\ tick' = tick + 1 /\ tick' \in 0 .. RunCycles
         /\ cycleCount' = IF cycleCount = ComputeCycles - 1 THEN 0 ELSE cycleCount + 1
         /\ n' = IF cycleCount = ComputeCycles - 1 THEN n + 1 ELSE n
         /\ n' \in 0 .. Nmax /\ cycleCount' \in 0 .. ComputeCycles - 1
         /\ tick' = n' * ComputeCycles + cycleCount'
         /\ startupCnt' = UpTo(tick', StartupMax) /\ startupCnt' \in 0 .. StartupMax
<1>0. /\ host = "run" /\ tick < RunCycles /\ tick \in 0 .. RunCycles
      /\ n \in 0 .. Nmax /\ cycleCount \in 0 .. ComputeCycles - 1
      /\ tick = n * ComputeCycles + cycleCount
      /\ startupCnt = UpTo(tick, StartupMax) /\ startupCnt \in 0 .. StartupMax
  BY DEF RunInv, TypeOK, CountInv, Tick
<1>1. /\ tick' = tick + 1
      /\ startupCnt' = IF startupCnt = StartupMax THEN startupCnt ELSE startupCnt + 1
      /\ cycleCount' = (cycleCount + 1) % ComputeCycles
      /\ n' = IF cycleCount' = 0 THEN (n + 1) % (Nmax + 1) ELSE n
  BY DEF Tick
<1>2. cycleCount' = IF cycleCount = ComputeCycles - 1 THEN 0 ELSE cycleCount + 1
  BY <1>0, <1>1, WrapLemma, ScheduleLemma
<1>3. (n + 1) % (Nmax + 1) = IF n = Nmax THEN 0 ELSE n + 1
  <2>1. n \in 0 .. (Nmax + 1) - 1 /\ Nmax + 1 \in Nat
    BY <1>0, ConstantsLemma
  <2>2. (n + 1) % (Nmax + 1) = IF n = (Nmax + 1) - 1 THEN 0 ELSE n + 1
    BY <2>1, WrapLemma
  <2> QED BY <2>2, ConstantsLemma
<1>4. /\ n * ComputeCycles \in Nat /\ (n + 1) * ComputeCycles = n * ComputeCycles + ComputeCycles
      /\ RunCycles = Nmax * ComputeCycles + TailCycles /\ RunCycles \in Nat
  BY <1>0, BatchLemma, ScheduleLemma, CyclesLemma, ConstantsLemma
<1>5. cycleCount = ComputeCycles - 1 => n # Nmax
  <2> SUFFICES ASSUME cycleCount = ComputeCycles - 1, n = Nmax PROVE FALSE
    OBVIOUS
  <2>1. Nmax * ComputeCycles \in Nat /\ tick = Nmax * ComputeCycles + (ComputeCycles - 1)
    BY <1>0, <1>4
  <2>2. TailCycles <= ComputeCycles - 1
    BY ScheduleLemma, ConstantsLemma
  <2> QED BY <1>0, <1>4, <2>1, <2>2, ScheduleLemma
<1>6. n' = IF cycleCount = ComputeCycles - 1 THEN n + 1 ELSE n
  BY <1>0, <1>1, <1>2, <1>3, <1>5, ScheduleLemma
<1>7. n' \in 0 .. Nmax /\ cycleCount' \in 0 .. ComputeCycles - 1
  BY <1>0, <1>2, <1>5, <1>6, ScheduleLemma, ConstantsLemma
<1>8. tick' = n' * ComputeCycles + cycleCount'
  BY <1>0, <1>1, <1>2, <1>4, <1>6, ScheduleLemma
<1>9. startupCnt' = UpTo(tick', StartupMax) /\ startupCnt' \in 0 .. StartupMax
  <2>1. StartupMax \in Nat
    BY ScheduleLemma, ConstantsLemma DEF StartupMax
  <2> QED BY <1>0, <1>1, <1>4, <2>1 DEF UpTo
<1> QED BY <1>0, <1>1, <1>2, <1>4, <1>6, <1>7, <1>8, <1>9

\* The kernel writes in the last Cslow ticks of every batch, and in the first
\* ticks of every batch but the first.
LEMMA WriteLemma ==
  ASSUME RunInv, host = "run"
  PROVE  WriteOutput <=> \/ n >= 1 /\ cycleCount < TailCycles
                         \/ cycleCount >= ComputeCycles - Cslow
<1>0. /\ n \in 0 .. Nmax /\ cycleCount \in 0 .. ComputeCycles - 1
      /\ tick = n * ComputeCycles + cycleCount
      /\ startupCnt = UpTo(tick, StartupMax)
  BY DEF RunInv, TypeOK, CountInv
<1>1. n * ComputeCycles \in Nat /\ (n >= 1 => n * ComputeCycles >= ComputeCycles)
  BY <1>0, BatchLemma, ScheduleLemma, ConstantsLemma
<1>2. StartupMax = ComputeUnit + 2
  BY ScheduleLemma DEF StartupMax
<1>3. CASE n >= 1
  <2>1. startupCnt > ComputeUnit
    BY <1>0, <1>1, <1>2, <1>3, ScheduleLemma, ConstantsLemma DEF UpTo
  <2> QED BY <1>3, <2>1, ScheduleLemma DEF WriteOutput
<1>4. CASE n = 0
  <2>1. tick = cycleCount
    BY <1>0, <1>4, ScheduleLemma
  <2>2. cycleCount < TailCycles => ~(startupCnt > ComputeUnit)
    BY <1>0, <1>2, <2>1, ScheduleLemma, ConstantsLemma DEF UpTo
  <2> QED BY <1>4, <2>2, ScheduleLemma DEF WriteOutput
<1> QED BY <1>0, <1>3, <1>4, ConstantsLemma

\* A tick keeps the invariant.
LEMMA TickStep == RunInv /\ Tick => RunInv'
<1> SUFFICES ASSUME RunInv, Tick PROVE RunInv'
  OBVIOUS
<1>0. /\ TypeOK /\ CountInv
      /\ n \in 0 .. Nmax /\ cycleCount \in 0 .. ComputeCycles - 1
      /\ fed \in Nat /\ drained \in Nat /\ Len(fromHost) \in Nat /\ Len(toHost) \in Nat
  BY DEF RunInv, TypeOK
<1>1. TypeOK'
  <2>1. pipeIdx' \in Pipes /\ cslowIdx' \in 0 .. Cslow - 1
    <3>1. pipeIdx \in 0 .. NumPipes - 1 /\ cslowIdx \in 0 .. Cslow - 1
      BY <1>0 DEF TypeOK, Pipes
    <3>2. (pipeIdx + 1) % NumPipes \in 0 .. NumPipes - 1 /\ (cslowIdx + 1) % Cslow \in 0 .. Cslow - 1
      BY <3>1, WrapLemma, ConstantsLemma
    <3> QED BY <3>1, <3>2 DEF Tick, Pipes
  <2> QED BY <1>0, <2>1, TickData, ChainStep DEF TypeOK, Counters
<1>2. fed' - Len(fromHost') = ReadSoFar'
  <2>1. fed' - Len(fromHost') = fed - Len(fromHost) + (IF ReadInput THEN 1 ELSE 0)
    <3>1. /\ fed' = fed
          /\ Len(fromHost') = IF ReadInput THEN Len(fromHost) - 1 ELSE Len(fromHost)
      BY <1>0, TickData
    <3>2. CASE ReadInput
      BY <1>0, <3>1, <3>2
    <3>3. CASE ~ReadInput
      BY <1>0, <3>1, <3>3
    <3> QED BY <3>2, <3>3
  <2>2. fed - Len(fromHost) = ReadSoFar
    BY <1>0, ChainStep DEF CountInv
  <2>3. ReadInput <=> cycleCount < ComputeUnit /\ n < Nmax
    BY ScheduleLemma DEF ReadInput
  <2>4. /\ n * ComputeUnit \in Nat /\ (n + 1) * ComputeUnit = n * ComputeUnit + ComputeUnit
        /\ Nmax * ComputeUnit \in Nat
    BY <1>0, BatchLemma, ScheduleLemma, ConstantsLemma
  <2>5. CASE cycleCount = ComputeCycles - 1
    <3>1. cycleCount' = 0 /\ n' = n + 1 /\ n < Nmax /\ ~(cycleCount < ComputeUnit)
      BY <1>0, <2>5, ChainStep, ScheduleLemma, ConstantsLemma
    <3>2. ReadSoFar = n * ComputeUnit + ComputeUnit
      BY <1>0, <2>5, <3>1, ScheduleLemma DEF ReadSoFar, UpTo
    <3>3. ReadSoFar' = (n + 1) * ComputeUnit
      <4>1. CASE n + 1 < Nmax
        BY <2>4, <3>1, <4>1, ScheduleLemma DEF ReadSoFar, UpTo
      <4>2. CASE n + 1 = Nmax
        BY <3>1, <4>2, ConstantsLemma DEF ReadSoFar
      <4> QED BY <1>0, <3>1, <4>1, <4>2, ConstantsLemma
    <3> QED BY <2>1, <2>2, <2>3, <2>4, <3>1, <3>2, <3>3
  <2>6. CASE cycleCount # ComputeCycles - 1
    <3>1. cycleCount' = cycleCount + 1 /\ n' = n
      BY <2>6, ChainStep
    <3>2. ReadSoFar' = ReadSoFar + (IF ReadInput THEN 1 ELSE 0)
      BY <1>0, <2>3, <2>4, <3>1, ScheduleLemma, ConstantsLemma DEF ReadSoFar, UpTo
    <3> QED BY <2>1, <2>2, <3>2
  <2> QED BY <2>5, <2>6
<1>3. drained' + Len(toHost') = WrittenSoFar'
  <2>1. drained' + Len(toHost') = drained + Len(toHost) + (IF WriteOutput THEN 1 ELSE 0)
    <3>1. /\ drained' = drained
          /\ Len(toHost') = IF WriteOutput THEN Len(toHost) + 1 ELSE Len(toHost)
      BY <1>0, TickData
    <3>2. CASE WriteOutput
      BY <1>0, <3>1, <3>2
    <3>3. CASE ~WriteOutput
      BY <1>0, <3>1, <3>3
    <3> QED BY <3>2, <3>3
  <2>2. drained + Len(toHost) = WrittenSoFar
    BY <1>0, ChainStep DEF CountInv
  <2>3. WriteOutput <=> \/ n >= 1 /\ cycleCount < TailCycles
                        \/ cycleCount >= ComputeCycles - Cslow
    BY ChainStep, WriteLemma
  <2>4. /\ n * ComputeUnit \in Nat /\ (n + 1) * ComputeUnit = n * ComputeUnit + ComputeUnit
        /\ 0 * ComputeUnit = 0
    BY <1>0, BatchLemma, ScheduleLemma, ConstantsLemma
  <2>5. CASE cycleCount = ComputeCycles - 1
    <3>1. cycleCount' = 0 /\ n' = n + 1 /\ WriteOutput
      BY <1>0, <2>3, <2>5, ChainStep, ScheduleLemma, ConstantsLemma
    <3>2. WrittenSoFar = n * ComputeUnit + Cslow - 1
      <4>1. CASE n = 0
        BY <2>4, <2>5, <4>1, ScheduleLemma, ConstantsLemma DEF WrittenSoFar
      <4>2. CASE n # 0
        BY <1>0, <2>4, <2>5, <4>2, ScheduleLemma, ConstantsLemma DEF WrittenSoFar, UpTo
      <4> QED BY <4>1, <4>2
    <3>3. WrittenSoFar' = (n + 1) * ComputeUnit - TailCycles
      BY <1>0, <2>4, <3>1, ScheduleLemma, ConstantsLemma DEF WrittenSoFar, UpTo
    <3> QED BY <2>1, <2>2, <2>4, <3>1, <3>2, <3>3, ScheduleLemma, ConstantsLemma
  <2>6. CASE cycleCount # ComputeCycles - 1
    <3>1. cycleCount' = cycleCount + 1 /\ n' = n
      BY <2>6, ChainStep
    <3>2. WrittenSoFar' = WrittenSoFar + (IF WriteOutput THEN 1 ELSE 0)
      <4>1. CASE n = 0
        BY <1>0, <2>3, <3>1, <4>1, ScheduleLemma, ConstantsLemma DEF WrittenSoFar
      <4>2. CASE n # 0
        BY <1>0, <2>3, <2>4, <3>1, <4>2, ScheduleLemma, ConstantsLemma DEF WrittenSoFar, UpTo
      <4> QED BY <4>1, <4>2
    <3> QED BY <2>1, <2>2, <3>2
  <2> QED BY <2>5, <2>6
<1>4. CountInv'
  BY <1>2, <1>3, ChainStep DEF CountInv
<1> QED BY <1>1, <1>4 DEF RunInv

\* The types and the counters are an inductive invariant.
THEOREM CountsHold == Spec => []RunInv
<1>1. Init => RunInv
  BY InitCounted
<1>2. RunInv /\ [Next]_vars => RunInv'
  <2>1. ASSUME RunInv, UNCHANGED vars PROVE RunInv'
    BY <2>1 DEF RunInv, TypeOK, CountInv, vars, streams, kernel, ReadSoFar, WrittenSoFar
  <2> QED BY <2>1, PrepareStep, StreamStep, TickStep DEF Next
<1> QED BY <1>1, <1>2, PTL DEF Spec

\* The cycle count of dfe_setup_run_scrypt (dfe.c:286-289) is exact, for every
\* shape of the kernel: not a tick is missing for the pipes that start last.
THEOREM CyclesSuffice == Spec => []CyclesExact
<1>1. RunInv => CyclesExact
  <2> SUFFICES ASSUME RunInv, host = "run", tick = RunCycles
               PROVE  /\ fed - Len(fromHost) = Nmax * ComputeUnit
                      /\ drained + Len(toHost) = Nmax * ComputeUnit
    BY DEF CyclesExact
  <2>0. /\ n \in 0 .. Nmax /\ cycleCount \in 0 .. ComputeCycles - 1
        /\ tick = n * ComputeCycles + cycleCount
        /\ fed - Len(fromHost) = ReadSoFar /\ drained + Len(toHost) = WrittenSoFar
    BY DEF RunInv, TypeOK, CountInv
  <2>1. n = Nmax
    <3> SUFFICES ASSUME n < Nmax PROVE FALSE
      BY <2>0, ConstantsLemma
    <3>1. Nmax - 1 - n \in Nat
      BY <2>0, ConstantsLemma
    <3>2. (Nmax - 1 - n) * ComputeCycles \in Nat
      BY <3>1, BatchLemma, ScheduleLemma
    <3>3. Nmax * ComputeCycles = (Nmax - 1 - n) * ComputeCycles + n * ComputeCycles + ComputeCycles
      BY <2>0, ConstantsLemma, ScheduleLemma
    <3>4. n * ComputeCycles \in Nat
      BY <2>0, BatchLemma, ScheduleLemma
    <3>5. tick = Nmax * ComputeCycles + TailCycles
      BY CyclesLemma
    <3>6. /\ tick >= n * ComputeCycles + ComputeCycles
          /\ tick < n * ComputeCycles + ComputeCycles
      <4> DEFINE a == (Nmax - 1 - n) * ComputeCycles
                 b == n * ComputeCycles
                 c == Nmax * ComputeCycles
      <4>1. /\ a \in Nat /\ b \in Nat /\ c = a + b + ComputeCycles
            /\ tick = c + TailCycles /\ tick = b + cycleCount
        BY <2>0, <3>2, <3>3, <3>4, <3>5
      <4> HIDE DEF a, b, c
      <4>2. tick >= b + ComputeCycles /\ tick < b + ComputeCycles
        BY <2>0, <4>1, ScheduleLemma
      <4> QED BY <4>2 DEF b
    <3>7. tick \in Int /\ n * ComputeCycles + ComputeCycles \in Int
      BY <3>4, <2>0, ScheduleLemma
    <3> QED BY <3>6, <3>7
  <2>2. cycleCount = TailCycles
    <3>1. Nmax * ComputeCycles \in Nat
      BY BatchLemma, ScheduleLemma, ConstantsLemma
    <3>2. tick = Nmax * ComputeCycles + TailCycles /\ tick = Nmax * ComputeCycles + cycleCount
      BY <2>0, <2>1, CyclesLemma
    <3> DEFINE c == Nmax * ComputeCycles
    <3>3. c \in Nat /\ c + TailCycles = c + cycleCount
      BY <3>1, <3>2
    <3> HIDE DEF c
    <3> QED BY <2>0, <3>3, ScheduleLemma
  <2>3. Nmax * ComputeUnit \in Nat
    BY BatchLemma, ScheduleLemma, ConstantsLemma
  <2>4. ReadSoFar = Nmax * ComputeUnit
    BY <2>1, ConstantsLemma DEF ReadSoFar
  <2>5. WrittenSoFar = Nmax * ComputeUnit
    BY <2>1, <2>2, <2>3, ScheduleLemma, ConstantsLemma DEF WrittenSoFar, UpTo
  <2> QED BY <2>0, <2>4, <2>5
<1> QED BY <1>1, CountsHold, PTL

\* Type correctness.
THEOREM ScryptTypeCorrect == Spec => []TypeOK
<1>1. RunInv => TypeOK
  BY DEF RunInv
<1> QED BY <1>1, CountsHold, PTL

-----------------------------------------------------------------------------
\* The scratchpad.

\* A number is a quotient and a remainder, and in only one way.
LEMMA QuotientLemma ==
  ASSUME NEW x \in Int, NEW d \in Nat, d > 0
  PROVE  x \div d \in Int /\ x % d \in 0 .. d - 1 /\ x = (x \div d) * d + (x % d)
BY SMT

\* Quotient and remainder by d are unique.
LEMMA OneQuotient ==
  ASSUME NEW d \in Nat, d > 0, NEW p \in Int, NEW q \in Int,
         NEW x \in 0 .. d - 1, NEW y \in 0 .. d - 1, p * d + x = q * d + y
  PROVE  p = q /\ x = y
<1>1. ASSUME NEW a \in Int, NEW b \in Int, a < b
      PROVE  a * d + d <= b * d
  <2>1. b - a - 1 \in Nat
    BY <1>1
  <2>2. (b - a - 1) * d \in Nat
    BY ONLY <2>1, BatchLemma, d \in Nat
  <2>3. (b - a - 1) * d = b * d - a * d - d
    BY SMT
  <2>4. a * d \in Int /\ b * d \in Int
    OBVIOUS
  <2> QED BY <2>2, <2>3, <2>4
<1>2. p * d \in Int /\ q * d \in Int
  OBVIOUS
<1>3. ~(p < q) /\ ~(q < p)
  BY <1>1, <1>2
<1>4. p = q
  BY <1>3
<1> QED BY <1>2, <1>4

\* Two numbers with the same remainder are the same, or at least the divisor apart.
LEMMA RemainderLemma ==
  ASSUME NEW d \in Nat, d > 0, NEW x \in Nat, NEW y \in Nat, x % d = y % d,
         x < y + d, y < x + d
  PROVE  x = y
<1> DEFINE qx == x \div d
           qy == y \div d
           r == x % d
<1>1. /\ qx \in Int /\ r \in 0 .. d - 1 /\ x = qx * d + r
      /\ qy \in Int /\ y = qy * d + r
  BY QuotientLemma
<1> HIDE DEF qx, qy, r
<1>2. ASSUME NEW a \in Int, NEW b \in Int, a < b
      PROVE  a * d + d <= b * d
  <2>1. b - a - 1 \in Nat
    BY <1>2
  <2>2. (b - a - 1) * d \in Nat
    BY ONLY <2>1, BatchLemma, d \in Nat
  <2>3. (b - a - 1) * d = b * d - a * d - d
    BY SMT
  <2>4. a * d \in Int /\ b * d \in Int
    OBVIOUS
  <2> QED BY <2>2, <2>3, <2>4
<1>3. qx * d \in Int /\ qy * d \in Int
  BY <1>1
<1>4. ~(qx < qy) /\ ~(qy < qx)
  BY <1>1, <1>2, <1>3
<1>5. qx = qy
  BY <1>1, <1>4
<1> QED BY <1>1, <1>5

\* A memory block has at least one word.
LEMMA MaxDepthLemma == MaxDepth \in Nat /\ MaxDepth > 0 /\ BlockSizes \subseteq Nat
BY ShapeAssumption DEF BlockSizes

\* There is an address space for every part of a block.
LEMMA BlockSizeLemma ==
  ASSUME NEW d \in Nat, d > 0, d <= MaxDepth
  PROVE  \E s \in BlockSizes : d <= s /\ s < 2 * d
<1>1. d <= 4096
  BY ShapeAssumption DEF BlockSizes
<1>2. \/ d \in 1 .. 1 \/ d \in 2 .. 2 \/ d \in 3 .. 4 \/ d \in 5 .. 8 \/ d \in 9 .. 16
      \/ d \in 17 .. 32 \/ d \in 33 .. 64 \/ d \in 65 .. 128 \/ d \in 129 .. 256
      \/ d \in 257 .. 512 \/ d \in 513 .. 1024 \/ d \in 1025 .. 2048 \/ d \in 2049 .. 4096
  BY <1>1
<1> QED BY <1>2 DEF BlockSizes

\* The address space of a block holds all its words.
LEMMA AddressSpaceLemma ==
  ASSUME NEW d \in Nat, d > 0, d <= MaxDepth
  PROVE  AddressSpace(d) \in Nat /\ d <= AddressSpace(d)
<1>1. \E s \in BlockSizes : d <= s /\ s < 2 * d
  BY BlockSizeLemma
<1>2. AddressSpace(d) \in BlockSizes /\ d <= AddressSpace(d)
  BY <1>1 DEF AddressSpace
<1> QED BY <1>2, MaxDepthLemma

\* No two addresses of a scratchpad are the same cell of the same block.
LEMMA LocateLemma ==
  ASSUME NEW x \in 0 .. Depth - 1, NEW y \in 0 .. Depth - 1, Locate(x) = Locate(y)
  PROVE  x = y
<1> DEFINE D == MaxDepth
           last == TotalRAMs - 1
<1>0. Depth \in Nat /\ D \in Nat /\ D > 0 /\ x \in Nat /\ y \in Nat
  BY MaxDepthLemma, ConstantsLemma DEF Depth
<1>1. CASE Depth <= MaxDepth
  BY <1>1 DEF Locate
<1>2. CASE ~(Depth <= MaxDepth)
  <2> DEFINE bank == x \div D
  <2>1. /\ bank = y \div D
        /\ bank # last => x % D = y % D
        /\ bank = last => x % AddressSpace(LastSize) = y % AddressSpace(LastSize)
    BY <1>2 DEF Locate
  <2>2. /\ bank \in Int /\ x % D \in 0 .. D - 1 /\ x = bank * D + (x % D)
        /\ y % D \in 0 .. D - 1 /\ y = bank * D + (y % D)
    BY <1>0, <2>1, QuotientLemma
  <2>3. CASE bank # last
    BY <2>1, <2>2, <2>3
  <2>4. CASE bank = last
    <3> DEFINE r == (Depth + D - 1) % D
               m == TotalRAMs * D
    <3>1. TotalRAMs \in Int /\ r \in 0 .. D - 1 /\ Depth + D - 1 = m + r
      BY <1>0, QuotientLemma DEF TotalRAMs
    <3>2. last \in Int /\ last * D = m - D /\ D * last = m - D /\ m \in Int
      BY <1>0, <3>1
    <3> HIDE DEF r, m, last
    <3>3. LastSize = Depth - (m - D)
      BY <3>2 DEF LastSize, last
    <3>4. LastSize \in Nat /\ LastSize > 0 /\ LastSize <= D
      BY <1>0, <3>1, <3>2, <3>3
    <3>5. x >= m - D /\ y >= m - D
      <4> DEFINE b == bank * D
      <4>1. b = m - D /\ x = b + (x % D) /\ y = b + (y % D)
        BY <2>2, <2>4, <3>2
      <4> HIDE DEF b, bank
      <4> QED BY <1>0, <2>2, <3>2, <4>1
    <3>6. x < y + LastSize /\ y < x + LastSize
      BY <1>0, <3>2, <3>3, <3>5
    <3> DEFINE size == AddressSpace(LastSize)
    <3>7. size \in Nat /\ LastSize <= size
      BY <3>4, AddressSpaceLemma
    <3>8. x % size = y % size
      BY <2>1, <2>4, Zenon
    <3> HIDE DEF size
    <3>9. size > 0 /\ x < y + size /\ y < x + size
      BY <1>0, <3>4, <3>6, <3>7
    <3> QED BY <1>0, <3>7, <3>8, <3>9, RemainderLemma
  <2> QED BY <2>3, <2>4
<1> QED BY <1>1, <1>2

\* Two slots never share a cell, nor do two addresses of a slot.
LEMMA CellsApart ==
  ASSUME NEW s \in 0 .. Cslow - 1, NEW t \in 0 .. Cslow - 1,
         NEW a \in Addresses, NEW b \in Addresses, CellOf(s, a) = CellOf(t, b)
  PROVE  s = t /\ a = b
<1>1. ASSUME NEW slot \in 0 .. Cslow - 1, NEW c \in Addresses
      PROVE  slot * Iters + c \in 0 .. Depth - 1
  <2>1. slot \in Nat /\ Cslow - 1 - slot \in Nat
    BY ConstantsLemma
  <2>2. (Cslow - 1 - slot) * Iters \in Nat /\ slot * Iters \in Nat
    BY <2>1, ConstantsLemma
  <2>3. Cslow * Iters = (Cslow - 1 - slot) * Iters + slot * Iters + Iters
    BY <2>1, ConstantsLemma
  <2> QED BY <2>2, <2>3, ConstantsLemma DEF Addresses, Depth
<1>2. s * Iters + a = t * Iters + b
  BY <1>1, LocateLemma DEF CellOf
<1>3. /\ s \in Int /\ t \in Int /\ a \in 0 .. Iters - 1 /\ b \in 0 .. Iters - 1
      /\ Iters \in Nat /\ Iters > 0
  BY ConstantsLemma DEF Addresses
<1> QED BY ONLY <1>2, <1>3, OneQuotient

-----------------------------------------------------------------------------
\* Where a pipe is.

\* The ticks a pipe has spent on its batch, by its own counters.
Place(c) == c.phase * Depth + c.iteration * Cslow + c.cslowidx

\* The batch a pipe is in, and its ticks in it, by the counters of the kernel.
BatchOf(p) == IF cycleCount >= Cslow * p THEN n ELSE n - 1
LocalCycle(p) ==
  IF cycleCount >= Cslow * p THEN cycleCount - Cslow * p
                             ELSE cycleCount - Cslow * p + ComputeCycles

\* What the arithmetic about places needs to know.
LEMMA DepthLemma ==
  /\ Depth \in Nat /\ ComputeCycles = Depth + Depth /\ Depth >= Cslow
  /\ \A i \in Addresses :
       /\ i * Cslow \in Nat /\ i * Cslow <= Depth - Cslow
       /\ (i + 1) * Cslow = i * Cslow + Cslow
       /\ (i > 0 => i * Cslow >= Cslow)
       /\ (i < Iters - 1 => i * Cslow <= Depth - 2 * Cslow)
       /\ (i = Iters - 1 => i * Cslow = Depth - Cslow)
<1>1. Depth \in Nat /\ Depth = Iters * Cslow
  BY ConstantsLemma DEF Depth
<1>2. ComputeCycles = Depth + Depth
  BY ConstantsLemma DEF ComputeCycles, Depth
<1>3. ASSUME NEW i \in Addresses
      PROVE  /\ i * Cslow \in Nat /\ i * Cslow <= Depth - Cslow
             /\ (i + 1) * Cslow = i * Cslow + Cslow
             /\ (i > 0 => i * Cslow >= Cslow)
             /\ (i < Iters - 1 => i * Cslow <= Depth - 2 * Cslow)
             /\ (i = Iters - 1 => i * Cslow = Depth - Cslow)
  <2>1. i \in Nat /\ Iters - 1 - i \in Nat
    BY ConstantsLemma DEF Addresses
  <2> DEFINE rest == Iters - 1 - i
             m == i * Cslow
             r == rest * Cslow
  <2>2. m \in Nat /\ (i + 1) * Cslow = m + Cslow /\ (i >= 1 => m >= Cslow)
    BY <2>1, BatchLemma, ConstantsLemma
  <2>3. rest \in Nat
    BY <2>1
  <2>4. r \in Nat /\ (rest >= 1 => r >= Cslow)
    <3> HIDE DEF rest
    <3> QED BY <2>3, BatchLemma, ConstantsLemma
  <2>5. Depth = m + r + Cslow
    BY <1>1, <2>1, ConstantsLemma
  <2>6. i = Iters - 1 => r = 0
    BY ConstantsLemma
  <2>7. i < Iters - 1 => rest >= 1
    BY <2>1, ConstantsLemma
  <2>8. i > 0 => i >= 1
    BY <2>1
  <2> HIDE DEF m, r, rest
  <2>9. /\ m \in Nat /\ m <= Depth - Cslow
        /\ (i > 0 => m >= Cslow)
        /\ (i < Iters - 1 => m <= Depth - 2 * Cslow)
        /\ (i = Iters - 1 => m = Depth - Cslow)
    BY <2>2, <2>4, <2>5, <2>6, <2>7, <2>8, ConstantsLemma
  <2> QED BY <2>2, <2>9 DEF m
<1>4. Depth >= Cslow
  <2>1. 0 \in Addresses
    BY ConstantsLemma DEF Addresses
  <2>2. 0 * Cslow = 0
    BY ConstantsLemma
  <2> QED BY <1>1, <1>3, <2>1, <2>2, ConstantsLemma
<1> QED BY <1>1, <1>2, <1>3, <1>4

\* The counter chain of a pipe counts its ticks.
LEMMA PlaceLemma ==
  ASSUME NEW c \in Counters
  PROVE  /\ Place(c) \in 0 .. ComputeCycles - 1
         /\ Place(c) < Cslow => c.phase = 0 /\ c.iteration = 0 /\ c.cslowidx = Place(c)
         /\ c.phase = 0 /\ c.iteration = 0 => Place(c) = c.cslowidx
         /\ Place(c) >= ComputeCycles - Cslow =>
              c.phase = 1 /\ c.iteration = Iters - 1
                /\ c.cslowidx = Place(c) - (ComputeCycles - Cslow)
         /\ (Place(c) = ComputeCycles - 1) <=>
              (c.phase = 1 /\ c.iteration = Iters - 1 /\ c.cslowidx = Cslow - 1)
<1>1. c.phase \in {0, 1} /\ c.iteration \in Addresses /\ c.cslowidx \in 0 .. Cslow - 1
  BY DEF Counters
<1> DEFINE m == c.iteration * Cslow
           f == c.phase * Depth
<1>2. /\ m \in Nat /\ m <= Depth - Cslow
      /\ (c.iteration > 0 => m >= Cslow)
      /\ (c.iteration < Iters - 1 => m <= Depth - 2 * Cslow)
      /\ (c.iteration = Iters - 1 => m = Depth - Cslow)
  BY <1>1, DepthLemma
<1>3. (c.phase = 0 => f = 0) /\ (c.phase = 1 => f = Depth)
  BY DepthLemma
<1>4. Place(c) = f + m + c.cslowidx
  BY DEF Place
<1>5. c.iteration \in 0 .. Iters - 1 /\ (c.iteration = 0 => m = 0)
  BY <1>1, ConstantsLemma DEF Addresses
<1>6. /\ Depth \in Nat /\ Depth >= Cslow /\ ComputeCycles = Depth + Depth
      /\ Cslow \in Nat /\ Cslow > 0 /\ Iters \in Nat /\ Iters > 0
  BY DepthLemma, ConstantsLemma
<1> DEFINE pl == Place(c)
           s == c.cslowidx
           i == c.iteration
           ph == c.phase
<1>7. pl = f + m + s
  BY <1>4
<1> HIDE DEF m, f, pl
<1>8. CASE c.phase = 0
  <2>1. pl = m + c.cslowidx
    BY <1>1, <1>2, <1>3, <1>7, <1>8
  <2> QED BY <1>1, <1>2, <1>5, <1>6, <1>8, <2>1 DEF pl
<1>9. CASE c.phase = 1
  <2>1. pl = Depth + m + c.cslowidx
    BY <1>1, <1>2, <1>3, <1>7, <1>9
  <2> QED BY <1>1, <1>2, <1>5, <1>6, <1>9, <2>1 DEF pl
<1> QED BY <1>1, <1>8, <1>9

\* One tick moves it one on, from the end of a batch to the start of the next.
LEMMA PlaceStep ==
  ASSUME NEW c \in Counters
  PROVE  Place(Advance(c)) = IF Place(c) = ComputeCycles - 1 THEN 0 ELSE Place(c) + 1
<1>1. /\ c.phase \in {0, 1} /\ c.iteration \in Addresses /\ c.cslowidx \in 0 .. Cslow - 1
      /\ c = [phase |-> c.phase, iteration |-> c.iteration, cslowidx |-> c.cslowidx]
  BY DEF Counters
<1>2. /\ Depth \in Nat /\ Depth >= Cslow /\ ComputeCycles = Depth + Depth
      /\ Cslow \in Nat /\ Cslow > 0 /\ Iters \in Nat /\ Iters > 0
  BY DepthLemma, ConstantsLemma
<1> DEFINE m == c.iteration * Cslow
           f == c.phase * Depth
<1>3. /\ m \in Nat /\ (c.iteration + 1) * Cslow = m + Cslow
      /\ (c.iteration = Iters - 1 => m = Depth - Cslow)
  BY <1>1, DepthLemma
<1>4. f \in Nat /\ (c.phase = 0 => f = 0 /\ (1 - c.phase) * Depth = Depth)
                /\ (c.phase = 1 => f = Depth /\ (1 - c.phase) * Depth = 0)
  BY <1>1, <1>2
<1>5. Place(c) = f + m + c.cslowidx
  BY DEF Place
<1>6. CASE c.cslowidx < Cslow - 1
  <2>1. Advance(c) = [phase |-> c.phase, iteration |-> c.iteration, cslowidx |-> c.cslowidx + 1]
    BY <1>1, <1>6 DEF Advance
  <2>2. Place(Advance(c)) = f + m + (c.cslowidx + 1)
    BY <2>1 DEF Place
  <2>3. Place(c) # ComputeCycles - 1
    BY <1>1, <1>2, <1>6, PlaceLemma
  <2> HIDE DEF f, m
  <2> QED BY <1>1, <1>3, <1>4, <1>5, <2>2, <2>3
<1>7. CASE ~(c.cslowidx < Cslow - 1) /\ c.iteration < Iters - 1
  <2>1. Advance(c) = [phase |-> c.phase, iteration |-> c.iteration + 1, cslowidx |-> 0]
    BY <1>1, <1>7 DEF Advance
  <2>2. Place(Advance(c)) = f + (c.iteration + 1) * Cslow + 0
    BY <2>1 DEF Place
  <2>3. Place(c) # ComputeCycles - 1
    BY <1>1, <1>2, <1>7, PlaceLemma DEF Addresses
  <2>4. c.cslowidx = Cslow - 1
    BY <1>1, <1>2, <1>7
  <2>5. Place(Advance(c)) = f + (m + Cslow) + 0
    BY <1>3, <2>2
  <2> HIDE DEF f, m
  <2> QED BY <1>2, <1>3, <1>4, <1>5, <2>3, <2>4, <2>5
<1>8. CASE ~(c.cslowidx < Cslow - 1) /\ ~(c.iteration < Iters - 1)
  <2>1. Advance(c) = [phase |-> 1 - c.phase, iteration |-> 0, cslowidx |-> 0]
    BY <1>1, <1>8 DEF Advance
  <2>2. Place(Advance(c)) = (1 - c.phase) * Depth + 0 * Cslow + 0
    BY <2>1 DEF Place
  <2>3. c.cslowidx = Cslow - 1 /\ c.iteration = Iters - 1
    BY <1>1, <1>2, <1>8 DEF Addresses
  <2>4. 0 * Cslow = 0
    BY <1>2
  <2>5. CASE c.phase = 0
    <3>1. Place(Advance(c)) = Depth
      BY <1>2, <1>4, <2>2, <2>4, <2>5
    <3>2. Place(c) = 0 + (Depth - Cslow) + (Cslow - 1)
      BY <1>3, <1>4, <1>5, <2>3, <2>5
    <3> QED BY <1>2, <3>1, <3>2
  <2>6. CASE c.phase = 1
    <3>1. Place(Advance(c)) = 0
      BY <1>2, <1>4, <2>2, <2>4, <2>6
    <3>2. Place(c) = ComputeCycles - 1
      BY <2>3, <2>6, PlaceLemma
    <3> QED BY <3>1, <3>2
  <2> QED BY <1>1, <2>5, <2>6
<1> QED BY <1>6, <1>7, <1>8

\* The pipes start within the first compute unit.
LEMMA OffsetLemma ==
  ASSUME NEW p \in Pipes
  PROVE  Cslow * p \in Nat /\ Cslow * p <= TailCycles /\ (p > 0 => Cslow * p >= Cslow)
<1>1. p \in Nat /\ NumPipes - 1 - p \in Nat
  BY ConstantsLemma DEF Pipes
<1> DEFINE rest == NumPipes - 1 - p
<1>2. p * Cslow \in Nat /\ rest * Cslow \in Nat /\ (p >= 1 => p * Cslow >= Cslow)
  <2>1. rest \in Nat
    BY <1>1
  <2> HIDE DEF rest
  <2> QED BY <1>1, <2>1, BatchLemma, ConstantsLemma
<1>3. (NumPipes - 1) * Cslow = p * Cslow + rest * Cslow /\ Cslow * p = p * Cslow
  BY <1>1, ConstantsLemma
<1>4. TailCycles = p * Cslow + rest * Cslow
  BY <1>3, ScheduleLemma
<1> HIDE DEF rest
<1> QED BY <1>1, <1>2, <1>3, <1>4

\* A pipe is enabled from its first tick on.
LEMMA EnabledLemma ==
  ASSUME RunInv, host = "run", NEW p \in Pipes
  PROVE  Enabled(p) <=> n >= 1 \/ cycleCount >= Cslow * p
<1>0. /\ n \in 0 .. Nmax /\ cycleCount \in 0 .. ComputeCycles - 1
      /\ tick = n * ComputeCycles + cycleCount
      /\ startupCnt = UpTo(tick, StartupMax)
  BY DEF RunInv, TypeOK, CountInv
<1>1. n * ComputeCycles \in Nat /\ (n >= 1 => n * ComputeCycles >= ComputeCycles)
  BY <1>0, BatchLemma, ScheduleLemma, ConstantsLemma
<1>2. StartupMax = ComputeUnit + 2
  BY ScheduleLemma DEF StartupMax
<1>3. Cslow * p \in Nat /\ Cslow * p <= TailCycles
  BY OffsetLemma
<1> DEFINE o == Cslow * p
<1>4. Enabled(p) <=> startupCnt >= o
  BY DEF Enabled
<1>5. o \in Nat /\ o <= TailCycles
  BY <1>3
<1> HIDE DEF o
<1>6. CASE n >= 1
  <2>1. tick \in Nat /\ tick >= ComputeCycles
    BY <1>0, <1>1, <1>6, ScheduleLemma
  <2> QED BY <1>0, <1>2, <1>4, <1>5, <1>6, <2>1, ScheduleLemma, ConstantsLemma DEF UpTo
<1>7. CASE n = 0
  <2>1. tick = cycleCount
    BY <1>0, <1>7, ScheduleLemma
  <2>2. Enabled(p) <=> cycleCount >= o
    BY <1>0, <1>2, <1>4, <1>5, <2>1, ScheduleLemma, ConstantsLemma DEF UpTo
  <2> QED BY <1>7, <2>2 DEF o
<1> QED BY <1>0, <1>6, <1>7, ConstantsLemma

\* In the batch after the last the kernel has no more than the tail.
LEMMA TailLemma ==
  ASSUME RunInv, host = "run", n = Nmax
  PROVE  cycleCount <= TailCycles /\ (tick < RunCycles => cycleCount < TailCycles)
<1>0. /\ cycleCount \in 0 .. ComputeCycles - 1 /\ tick \in 0 .. RunCycles
      /\ tick = Nmax * ComputeCycles + cycleCount
  BY DEF RunInv, TypeOK, CountInv
<1> DEFINE c == Nmax * ComputeCycles
<1>1. c \in Nat /\ RunCycles = c + TailCycles /\ tick = c + cycleCount
  BY <1>0, BatchLemma, ScheduleLemma, CyclesLemma, ConstantsLemma
<1> HIDE DEF c
<1> QED BY <1>0, <1>1, ScheduleLemma

\* A tick of an enabled pipe is a tick of its batch, and the first tick of a
\* pipe starts its first batch.
LEMMA LocalStep ==
  ASSUME RunInv, Tick, NEW p \in Pipes
  PROVE  /\ Enabled(p) =>
              /\ Enabled(p)'
              /\ BatchOf(p) \in 0 .. Nmax /\ LocalCycle(p) \in 0 .. ComputeCycles - 1
              /\ LocalCycle(p)' = IF LocalCycle(p) = ComputeCycles - 1 THEN 0 ELSE LocalCycle(p) + 1
              /\ BatchOf(p)' = IF LocalCycle(p) = ComputeCycles - 1 THEN BatchOf(p) + 1 ELSE BatchOf(p)
         /\ ~Enabled(p) /\ Enabled(p)' => LocalCycle(p)' = 0 /\ BatchOf(p)' = 0
<1> DEFINE o == Cslow * p
<1>0. /\ host = "run" /\ host' = "run" /\ RunInv'
      /\ n \in 0 .. Nmax /\ cycleCount \in 0 .. ComputeCycles - 1
      /\ cycleCount' = IF cycleCount = ComputeCycles - 1 THEN 0 ELSE cycleCount + 1
      /\ n' = IF cycleCount = ComputeCycles - 1 THEN n + 1 ELSE n
      /\ n' \in 0 .. Nmax
  BY TickStep, TickData, ChainStep DEF RunInv, TypeOK
<1>1. o \in Nat /\ o <= TailCycles /\ TailCycles <= ComputeCycles - 2 * Cslow
      /\ ComputeCycles \in Nat /\ Cslow > 0 /\ Cslow \in Nat /\ TailCycles \in Nat
  BY OffsetLemma, ScheduleLemma, ConstantsLemma
<1>2. (Enabled(p) <=> n >= 1 \/ cycleCount >= o) /\ (Enabled(p)' <=> n' >= 1 \/ cycleCount' >= o)
  <2>1. Enabled(p) <=> n >= 1 \/ cycleCount >= o
    BY <1>0, EnabledLemma
  <2>2. Enabled(p)' <=> n' >= 1 \/ cycleCount' >= o
    <3>1. (RunInv /\ host = "run" => (Enabled(p) <=> n >= 1 \/ cycleCount >= o))'
      BY EnabledLemma, PTL
    <3> QED BY <1>0, <3>1
  <2> QED BY <2>1, <2>2
<1>3. /\ LocalCycle(p) = IF cycleCount >= o THEN cycleCount - o ELSE cycleCount - o + ComputeCycles
      /\ LocalCycle(p)' = IF cycleCount' >= o THEN cycleCount' - o ELSE cycleCount' - o + ComputeCycles
      /\ BatchOf(p) = IF cycleCount >= o THEN n ELSE n - 1
      /\ BatchOf(p)' = IF cycleCount' >= o THEN n' ELSE n' - 1
  BY DEF LocalCycle, BatchOf
<1> HIDE DEF o
<1>4. CASE cycleCount = ComputeCycles - 1
  BY <1>0, <1>1, <1>2, <1>3, <1>4
<1>5. CASE cycleCount # ComputeCycles - 1
  <2>1. cycleCount' = cycleCount + 1 /\ n' = n /\ cycleCount < ComputeCycles - 1
    BY <1>0, <1>1, <1>5
  <2>2. CASE cycleCount >= o
    BY <1>0, <1>1, <1>2, <1>3, <2>1, <2>2
  <2>3. CASE cycleCount = o - 1
    <3>1. BatchOf(p) = n - 1 /\ LocalCycle(p) = ComputeCycles - 1 /\ (Enabled(p) <=> n >= 1)
      BY <1>0, <1>1, <1>2, <1>3, <2>3
    <3>2. BatchOf(p)' = n /\ LocalCycle(p)' = 0 /\ Enabled(p)'
      BY <1>0, <1>1, <1>2, <1>3, <2>1, <2>3
    <3>3. Enabled(p) => BatchOf(p) \in 0 .. Nmax
      BY <1>0, <3>1, ConstantsLemma
    <3>4. BatchOf(p) + 1 = n /\ (~Enabled(p) => n = 0)
      BY <1>0, <3>1
    <3>5. ComputeCycles - 1 \in 0 .. ComputeCycles - 1
      BY <1>1
    <3> QED BY <3>1, <3>2, <3>3, <3>4, <3>5
  <2>4. CASE cycleCount < o - 1
    <3>1. /\ BatchOf(p) = n - 1 /\ LocalCycle(p) = cycleCount - o + ComputeCycles
          /\ (Enabled(p) <=> n >= 1)
      BY <1>0, <1>1, <1>2, <1>3, <2>4
    <3>2. /\ BatchOf(p)' = n - 1 /\ LocalCycle(p)' = cycleCount + 1 - o + ComputeCycles
          /\ (Enabled(p)' <=> n >= 1)
      BY <1>0, <1>1, <1>2, <1>3, <2>1, <2>4
    <3>3. Enabled(p) => BatchOf(p) \in 0 .. Nmax
      BY <1>0, <3>1, ConstantsLemma
    <3>4. /\ cycleCount - o + ComputeCycles \in 0 .. ComputeCycles - 1
          /\ cycleCount - o + ComputeCycles # ComputeCycles - 1
          /\ cycleCount + 1 - o + ComputeCycles = cycleCount - o + ComputeCycles + 1
      BY <1>0, <1>1, <2>4
    <3> QED BY <3>1, <3>2, <3>3, <3>4
  <2> QED BY <1>0, <1>1, <2>2, <2>3, <2>4
<1> QED BY <1>4, <1>5

-----------------------------------------------------------------------------
\* The data invariant.

Start == [phase |-> 0, iteration |-> 0, cslowidx |-> 0]

\* The job in slot t of pipe p.  In the tail of the run, pipes that are done mix
\* the last input over and over.
JobOf(p, t) ==
  IF BatchOf(p) < Nmax THEN BatchOf(p) * ComputeUnit + Cslow * p + t
                       ELSE Nmax * ComputeUnit - 1

\* The rounds slot t has had, and where its value is in the loop.
Done(c, t) == c.phase * Iters + c.iteration + (IF t < c.cslowidx THEN 1 ELSE 0)
Index(s, t) == IF t < s THEN t - s + 1 + Cslow ELSE t - s + 1

Slots == 0 .. Cslow - 1

\* An enabled pipe is where the counters of the kernel put it.
InStep ==
  \A p \in Pipes : IF Enabled(p) THEN LocalCycle(p) = Place(at[p]) ELSE at[p] = Start

\* Every slot that has had a round holds its job, after all its rounds ...
LoopHolds ==
  \A p \in Pipes : Enabled(p) =>
    \A t \in Slots : Done(at[p], t) > 0 =>
      loop[p][Index(at[p].cslowidx, t)] = [job |-> JobOf(p, t), round |-> Done(at[p], t)]

\* ... and the scratchpad every round of its first phase that is over.
MemoryHolds ==
  \A p \in Pipes : Enabled(p) =>
    \A t \in Slots : \A a \in Addresses : a < Done(at[p], t) =>
      memory[p][CellOf(t, a)] = [job |-> JobOf(p, t), round |-> a]

\* The inputs are in the order of the jobs, wherever they are.
InputsInOrder ==
  /\ \A k \in Jobs : k >= drained => buffer[k] = Input(k)
  /\ \A j \in 1 .. Len(fromHost) : fromHost[j] = Input(ReadSoFar + j - 1)
  /\ ReadSoFar > 0 => held = Input(ReadSoFar - 1)

\* The output counter is at the pipe and the slot whose last round it is.
Muxed == pipeIdx * Cslow + cslowIdx
MuxInStep ==
  Muxed = IF n >= 1 /\ cycleCount < TailCycles THEN cycleCount + Cslow
          ELSE IF cycleCount >= ComputeCycles - Cslow THEN cycleCount - (ComputeCycles - Cslow)
          ELSE 0

PipesHold == InStep /\ LoopHolds /\ MemoryHolds /\ InputsInOrder /\ MuxInStep
DataInv == RunInv /\ ResultsInOrder /\ (host = "run" => PipesHold)

-----------------------------------------------------------------------------
\* The parts of a tick.

Incoming == IF ReadInput THEN Head(fromHost) ELSE held

\* What a tick does to each part of the state.
LEMMA TickParts ==
  ASSUME RunInv, Tick
  PROVE  /\ ReadInput => fromHost # <<>>
         /\ host = "run" /\ host' = "run" /\ tick < RunCycles
         /\ buffer' = buffer /\ fed' = fed /\ drained' = drained
         /\ held' = Incoming
         /\ fromHost' = IF ReadInput THEN Tail(fromHost) ELSE fromHost
         /\ \A p \in Pipes :
              /\ at'[p] = IF Enabled(p) THEN Advance(at[p]) ELSE at[p]
              /\ memory'[p] = Written(p, Incoming)
         /\ \E mix \in [Pipes -> Addresses] :
              /\ \A p \in Pipes : loop'[p] = Append(Tail(loop[p]), NewX(p, Incoming, mix[p]))
              /\ toHost' = IF WriteOutput
                           THEN Append(toHost, NewX(pipeIdx, Incoming, mix[pipeIdx])) ELSE toHost
<1>1. pipeIdx \in Pipes
  BY DEF RunInv, TypeOK
<1>2. PICK mix \in [Pipes -> Addresses] :
        /\ held' = Incoming
        /\ loop' = [p \in Pipes |-> Append(Tail(loop[p]), [q \in Pipes |-> NewX(q, Incoming, mix[q])][p])]
        /\ memory' = [p \in Pipes |-> Written(p, Incoming)]
        /\ toHost' = IF WriteOutput
                     THEN Append(toHost, [q \in Pipes |-> NewX(q, Incoming, mix[q])][pipeIdx])
                     ELSE toHost
  BY DEF Tick, Incoming
<1>3. /\ \A p \in Pipes : loop'[p] = Append(Tail(loop[p]), NewX(p, Incoming, mix[p]))
      /\ \A p \in Pipes : memory'[p] = Written(p, Incoming)
      /\ toHost' = IF WriteOutput
                   THEN Append(toHost, NewX(pipeIdx, Incoming, mix[pipeIdx])) ELSE toHost
  BY <1>1, <1>2
<1>4. /\ ReadInput => fromHost # <<>>
      /\ host = "run" /\ host' = host /\ tick < RunCycles
      /\ buffer' = buffer /\ fed' = fed /\ drained' = drained
      /\ fromHost' = IF ReadInput THEN Tail(fromHost) ELSE fromHost
      /\ at' = [p \in Pipes |-> IF Enabled(p) THEN Advance(at[p]) ELSE at[p]]
  BY DEF Tick
<1> QED BY <1>2, <1>3, <1>4

\* The jobs of a run are whole batches of those the host has queued.
LEMMA JobsLemma == Nmax * ComputeUnit \in Nat /\ Nmax * ComputeUnit <= NumScrypt
                   /\ Nmax * ComputeUnit > 0
<1>1. ComputeUnit \in Nat /\ ComputeUnit > 0
  BY ScheduleLemma, ConstantsLemma
<1>2. /\ NumScrypt \div ComputeUnit \in Int /\ NumScrypt % ComputeUnit \in 0 .. ComputeUnit - 1
      /\ NumScrypt = (NumScrypt \div ComputeUnit) * ComputeUnit + (NumScrypt % ComputeUnit)
  BY <1>1, QuotientLemma, ConstantsLemma
<1> DEFINE c == Nmax * ComputeUnit
           r == NumScrypt % ComputeUnit
<1>3. NumScrypt = c + r /\ r \in Nat
  BY <1>1, <1>2 DEF Nmax
<1>4. c \in Nat /\ c >= ComputeUnit
  BY <1>1, BatchLemma, ConstantsLemma
<1> HIDE DEF c, r
<1> QED BY <1>1, <1>3, <1>4, ConstantsLemma DEF c

\* A batch is within the jobs.
LEMMA JobOfLemma ==
  ASSUME NEW p \in Pipes, NEW t \in Slots, BatchOf(p) \in 0 .. Nmax
  PROVE  JobOf(p, t) \in Jobs /\ JobOf(p, t) \in 0 .. Nmax * ComputeUnit - 1
<1>1. Cslow * p \in Nat /\ Cslow * p <= TailCycles /\ TailCycles = ComputeUnit - Cslow
  BY OffsetLemma, ScheduleLemma
<1>2. ComputeUnit \in Nat /\ Nmax \in Nat /\ t \in Nat /\ t < Cslow /\ Cslow \in Nat /\ NumScrypt \in Nat
  BY ScheduleLemma, ConstantsLemma DEF Slots
<1>3. CASE BatchOf(p) < Nmax
  <2> DEFINE b == BatchOf(p)
             rest == Nmax - 1 - b
             x == b * ComputeUnit
             y == rest * ComputeUnit
             z == Nmax * ComputeUnit
             o == Cslow * p
  <2>1. b \in Nat /\ rest \in Nat
    BY <1>2, <1>3
  <2>2. x \in Nat /\ y \in Nat
    <3> HIDE DEF b, rest
    <3> QED BY <1>2, <2>1, BatchLemma
  <2>3. z = x + y + ComputeUnit
    BY <1>2, <2>1
  <2>4. JobOf(p, t) = x + o + t
    BY <1>3 DEF JobOf
  <2>5. z \in Nat /\ z <= NumScrypt
    BY JobsLemma
  <2>6. o \in Nat /\ o <= ComputeUnit - Cslow
    BY <1>1
  <2> HIDE DEF x, y, z, b, rest, o
  <2>7. x + o + t \in 0 .. z - 1 /\ x + o + t \in 0 .. NumScrypt - 1
    BY <1>2, <2>2, <2>3, <2>5, <2>6
  <2> QED BY <2>4, <2>7 DEF Jobs, z
<1>4. CASE ~(BatchOf(p) < Nmax)
  <2>1. JobOf(p, t) = Nmax * ComputeUnit - 1
    BY <1>4 DEF JobOf
  <2> QED BY <1>2, <2>1, JobsLemma DEF Jobs
<1> QED BY <1>3, <1>4

\* A step of the counter chain is a round for the slot that is at its turn, and
\* the end of the batch for all of them.
LEMMA DoneLemma ==
  ASSUME NEW c \in Counters, NEW t \in Slots
  PROVE  /\ Done(c, t) \in 0 .. 2 * Iters
         /\ Done(c, c.cslowidx) = c.phase * Iters + c.iteration
         /\ Done(c, c.cslowidx) \in 0 .. 2 * Iters - 1
         /\ (c.phase = 0 => Done(c, c.cslowidx) = c.iteration)
         /\ (c.phase = 1 => Done(c, c.cslowidx) >= Iters)
         /\ Done(Advance(c), t) = IF Place(c) = ComputeCycles - 1 THEN 0
                                  ELSE IF t = c.cslowidx THEN Done(c, t) + 1 ELSE Done(c, t)
<1>1. /\ c.phase \in {0, 1} /\ c.iteration \in 0 .. Iters - 1 /\ c.cslowidx \in 0 .. Cslow - 1
      /\ c = [phase |-> c.phase, iteration |-> c.iteration, cslowidx |-> c.cslowidx]
      /\ t \in 0 .. Cslow - 1
  BY DEF Counters, Addresses, Slots
<1>2. Iters \in Nat /\ Iters > 0 /\ Cslow \in Nat /\ Cslow > 0
  BY ConstantsLemma
<1>3. /\ c.phase = 0 => c.phase * Iters = 0 /\ (1 - c.phase) * Iters = Iters
      /\ c.phase = 1 => c.phase * Iters = Iters /\ (1 - c.phase) * Iters = 0
  BY <1>2
<1>4. /\ Done(c, t) = c.phase * Iters + c.iteration + (IF t < c.cslowidx THEN 1 ELSE 0)
      /\ Done(c, c.cslowidx) = c.phase * Iters + c.iteration
  BY <1>1, <1>2, <1>3 DEF Done
<1>5. Done(Advance(c), t) = IF Place(c) = ComputeCycles - 1 THEN 0
                            ELSE IF t = c.cslowidx THEN Done(c, t) + 1 ELSE Done(c, t)
  <2>0. Place(c) = ComputeCycles - 1 <=>
          c.phase = 1 /\ c.iteration = Iters - 1 /\ c.cslowidx = Cslow - 1
    BY PlaceLemma
  <2>1. CASE c.cslowidx < Cslow - 1
    <3>1. Advance(c) = [phase |-> c.phase, iteration |-> c.iteration, cslowidx |-> c.cslowidx + 1]
      BY <1>1, <2>1 DEF Advance
    <3>2. Done(Advance(c), t) = c.phase * Iters + c.iteration + (IF t < c.cslowidx + 1 THEN 1 ELSE 0)
      BY <3>1 DEF Done
    <3> QED BY <1>1, <1>2, <1>3, <1>4, <2>0, <2>1, <3>2
  <2>2. CASE ~(c.cslowidx < Cslow - 1) /\ c.iteration < Iters - 1
    <3>1. Advance(c) = [phase |-> c.phase, iteration |-> c.iteration + 1, cslowidx |-> 0]
      BY <1>1, <2>2 DEF Advance
    <3>2. Done(Advance(c), t) = c.phase * Iters + (c.iteration + 1) + (IF t < 0 THEN 1 ELSE 0)
      BY <3>1 DEF Done
    <3> QED BY <1>1, <1>2, <1>3, <1>4, <2>0, <2>2, <3>2
  <2>3. CASE ~(c.cslowidx < Cslow - 1) /\ ~(c.iteration < Iters - 1)
    <3>1. Advance(c) = [phase |-> 1 - c.phase, iteration |-> 0, cslowidx |-> 0]
      BY <1>1, <2>3 DEF Advance
    <3>2. Done(Advance(c), t) = (1 - c.phase) * Iters + 0 + (IF t < 0 THEN 1 ELSE 0)
      BY <3>1 DEF Done
    <3> QED BY <1>1, <1>2, <1>3, <1>4, <2>0, <2>3, <3>2
  <2> QED BY <2>1, <2>2, <2>3
<1> QED BY <1>1, <1>2, <1>3, <1>4, <1>5

\* The loop turns: the slot at its turn goes from its head to its end.
LEMMA IndexLemma ==
  ASSUME NEW c \in Counters, NEW t \in Slots
  PROVE  /\ Index(c.cslowidx, c.cslowidx) = 1
         /\ t # c.cslowidx => Index(c.cslowidx, t) \in 2 .. Cslow
         /\ Index(Advance(c).cslowidx, t) =
              IF t = c.cslowidx THEN Cslow ELSE Index(c.cslowidx, t) - 1
<1>1. c.cslowidx \in 0 .. Cslow - 1 /\ t \in 0 .. Cslow - 1 /\ Cslow \in Nat /\ Cslow > 0
  BY ConstantsLemma DEF Counters, Slots
<1>2. Advance(c).cslowidx = IF c.cslowidx < Cslow - 1 THEN c.cslowidx + 1 ELSE 0
  BY DEF Advance, Counters
<1> QED BY <1>1, <1>2 DEF Index

-----------------------------------------------------------------------------
\* What the pipes compute.

\* A pipe that starts a job takes the input of its slot: the window in which the
\* kernel reads passes over the pipes as they start.
LEMMA StartLemma ==
  ASSUME RunInv, host = "run", InStep, InputsInOrder, ReadInput => fromHost # <<>>,
         NEW p \in Pipes, Enabled(p), at[p].phase = 0, at[p].iteration = 0
  PROVE  Incoming = Input(JobOf(p, at[p].cslowidx))
<1> DEFINE s == at[p].cslowidx
           o == Cslow * p
           x == n * ComputeUnit
<1>0. /\ n \in 0 .. Nmax /\ cycleCount \in 0 .. ComputeCycles - 1 /\ at[p] \in Counters
      /\ fromHost \in Seq(Value)
  BY DEF RunInv, TypeOK, Counters
<1>1. s \in 0 .. Cslow - 1 /\ LocalCycle(p) = s
  BY <1>0, PlaceLemma DEF InStep, Counters
<1>2. /\ o \in Nat /\ o <= TailCycles /\ TailCycles = ComputeUnit - Cslow
      /\ ComputeUnit <= ComputeCycles - Cslow
      /\ ComputeUnit \in Nat /\ ComputeCycles \in Nat /\ Cslow \in Nat /\ Cslow > 0
      /\ Nmax \in Nat
  BY OffsetLemma, ScheduleLemma, ConstantsLemma
<1>3. /\ LocalCycle(p) = IF cycleCount >= o THEN cycleCount - o ELSE cycleCount - o + ComputeCycles
      /\ BatchOf(p) = IF cycleCount >= o THEN n ELSE n - 1
  BY DEF LocalCycle, BatchOf
<1>4. x \in Nat
  BY <1>0, <1>2, BatchLemma
<1>5. JobOf(p, s) = IF BatchOf(p) < Nmax THEN BatchOf(p) * ComputeUnit + o + s
                                         ELSE Nmax * ComputeUnit - 1
  BY DEF JobOf
<1> HIDE DEF s, o
<1>6. cycleCount = o + s /\ BatchOf(p) = n /\ cycleCount < ComputeUnit
  BY <1>0, <1>1, <1>2, <1>3
<1>7. ReadInput <=> n < Nmax
  BY <1>6, ScheduleLemma DEF ReadInput
<1>8. CASE n < Nmax
  <2>1. fromHost # <<>> /\ Incoming = fromHost[1] /\ 1 \in 1 .. Len(fromHost)
    BY <1>0, <1>7, <1>8 DEF Incoming
  <2>2. ReadSoFar = x + cycleCount
    BY <1>6, <1>8 DEF ReadSoFar, UpTo
  <2>3. fromHost[1] = Input(ReadSoFar + 1 - 1)
    BY <2>1 DEF InputsInOrder
  <2>4. JobOf(p, s) = x + o + s
    BY <1>5, <1>6, <1>8
  <2> HIDE DEF x
  <2>5. ReadSoFar + 1 - 1 = JobOf(p, s)
    BY <1>0, <1>1, <1>2, <1>4, <1>6, <2>2, <2>4
  <2> QED BY <2>1, <2>3, <2>5 DEF s
<1>9. CASE n = Nmax
  <2>1. Incoming = held
    BY <1>7, <1>9, <1>2 DEF Incoming
  <2>2. ReadSoFar = Nmax * ComputeUnit
    BY <1>9, <1>2 DEF ReadSoFar
  <2>3. held = Input(ReadSoFar - 1)
    BY <2>2, JobsLemma DEF InputsInOrder
  <2>4. JobOf(p, s) = Nmax * ComputeUnit - 1
    BY <1>2, <1>5, <1>6, <1>9
  <2> QED BY <2>1, <2>2, <2>3, <2>4 DEF s
<1> QED BY <1>0, <1>2, <1>8, <1>9

\* A round of a job.
LEMMA RoundLemma ==
  ASSUME NEW j \in Jobs, NEW d \in 0 .. 2 * Iters - 1
  PROVE  /\ Salsa([job |-> j, round |-> d]) = [job |-> j, round |-> d + 1]
         /\ \A a \in Addresses :
              Mixed([job |-> j, round |-> d], [job |-> j, round |-> a], a) = [job |-> j, round |-> d]
<1>1. d \in 0 .. 2 * Iters /\ d # 2 * Iters
  BY ConstantsLemma
<1>2. [job |-> j, round |-> d] \in Rounds
  BY <1>1 DEF Rounds
<1>3. [job |-> j, round |-> d] # Junk
  BY <1>2, JunkAssumption
<1>4. Salsa([job |-> j, round |-> d]) = [job |-> j, round |-> d + 1]
  BY <1>1, <1>3 DEF Salsa
<1>5. ASSUME NEW a \in Addresses
      PROVE  Mixed([job |-> j, round |-> d], [job |-> j, round |-> a], a) = [job |-> j, round |-> d]
  <2>1. [job |-> j, round |-> a] \in Rounds
    BY ConstantsLemma DEF Rounds, Addresses
  <2>2. [job |-> j, round |-> a] # Junk
    BY <2>1, JunkAssumption
  <2> QED BY <1>3, <2>2 DEF Mixed
<1> QED BY <1>4, <1>5

\* A pipe does the next round of the job in the slot at its turn, whichever
\* address the round reads.
LEMMA PipeRound ==
  ASSUME RunInv, host = "run", PipesHold, ReadInput => fromHost # <<>>,
         NEW p \in Pipes, Enabled(p), BatchOf(p) \in 0 .. Nmax
  PROVE  LET s == at[p].cslowidx
         IN  /\ X(p, Incoming) = [job |-> JobOf(p, s), round |-> Done(at[p], s)]
             /\ \A a \in Addresses :
                  NewX(p, Incoming, a) = [job |-> JobOf(p, s), round |-> Done(at[p], s) + 1]
<1> DEFINE s == at[p].cslowidx
           j == JobOf(p, s)
           d == Done(at[p], s)
           x == [job |-> j, round |-> d]
<1>1. /\ at[p] \in Counters /\ s \in Slots /\ at[p].phase \in {0, 1}
      /\ at[p].iteration \in 0 .. Iters - 1
      /\ loop[p] \in Seq(Value) /\ Len(loop[p]) = Cslow
  BY DEF RunInv, TypeOK, Counters, Slots, Addresses
<1>2. /\ d = at[p].phase * Iters + at[p].iteration /\ d \in 0 .. 2 * Iters - 1
      /\ (at[p].phase = 0 => d = at[p].iteration)
      /\ (at[p].phase = 1 => d >= Iters)
  BY <1>1, DoneLemma
<1>3. j \in Jobs
  BY <1>1, JobOfLemma
<1>4. X(p, Incoming) = x
  <2>1. CASE at[p].phase = 0 /\ at[p].iteration = 0
    <3>1. X(p, Incoming) = Incoming
      BY <2>1 DEF X
    <3>2. Incoming = Input(j)
      BY <2>1, StartLemma DEF PipesHold
    <3> QED BY <1>2, <2>1, <3>1, <3>2 DEF Input
  <2>2. CASE ~(at[p].phase = 0 /\ at[p].iteration = 0)
    <3>1. X(p, Incoming) = loop[p][1]
      BY <1>1, <2>2, ConstantsLemma DEF X
    <3>2. d > 0
      BY <1>1, <1>2, <2>2, ConstantsLemma
    <3>3. Index(s, s) = 1
      BY <1>1, IndexLemma
    <3>4. loop[p][Index(s, s)] = x
      BY <1>1, <3>2 DEF PipesHold, LoopHolds
    <3> QED BY <3>1, <3>3, <3>4
  <2> QED BY <2>1, <2>2
<1>5. ASSUME NEW a \in Addresses
      PROVE  NewX(p, Incoming, a) = [job |-> j, round |-> d + 1]
  <2>1. Salsa(x) = [job |-> j, round |-> d + 1]
    BY <1>2, <1>3, RoundLemma
  <2>2. CASE at[p].phase = 0
    BY <1>4, <2>1, <2>2 DEF NewX
  <2>3. CASE at[p].phase = 1
    <3>1. a < d
      BY <1>2, <2>3, ConstantsLemma DEF Addresses
    <3>2. memory[p][CellOf(s, a)] = [job |-> j, round |-> a]
      BY <1>1, <3>1 DEF PipesHold, MemoryHolds
    <3>3. Mixed(x, memory[p][CellOf(s, a)], a) = x
      BY <1>2, <1>3, <3>2, RoundLemma
    <3>4. NewX(p, Incoming, a) = Salsa(Mixed(x, memory[p][CellOf(s, a)], a))
      BY <1>4, <2>3 DEF NewX
    <3> QED BY <2>1, <3>3, <3>4
  <2> QED BY <1>1, <2>2, <2>3
<1> QED BY <1>4, <1>5

\* A job stays in its slot until the end of the batch.
LEMMA JobStays ==
  ASSUME RunInv, Tick, NEW p \in Pipes, Enabled(p), LocalCycle(p) # ComputeCycles - 1,
         NEW t \in Slots
  PROVE  JobOf(p, t)' = JobOf(p, t)
<1>1. BatchOf(p)' = BatchOf(p)
  BY LocalStep
<1> QED BY <1>1 DEF JobOf

-----------------------------------------------------------------------------
\* A tick keeps the parts of the invariant.

\* The counters of every pipe stay where the kernel's counters say they are.
LEMMA InStepTick == ASSUME RunInv, host = "run", PipesHold, Tick PROVE InStep'
<1> SUFFICES ASSUME NEW p \in Pipes
             PROVE  IF Enabled(p)' THEN LocalCycle(p)' = Place(at'[p]) ELSE at'[p] = Start
  BY DEF InStep
<1>1. at'[p] = IF Enabled(p) THEN Advance(at[p]) ELSE at[p]
  BY TickParts
<1>2. at[p] \in Counters
  BY DEF RunInv, TypeOK, Counters
<1>3. CASE Enabled(p)
  <2>1. LocalCycle(p) = Place(at[p])
    BY <1>3 DEF PipesHold, InStep
  <2>2. /\ Enabled(p)'
        /\ LocalCycle(p)' = IF LocalCycle(p) = ComputeCycles - 1 THEN 0 ELSE LocalCycle(p) + 1
    BY <1>3, LocalStep
  <2>3. Place(Advance(at[p])) = IF Place(at[p]) = ComputeCycles - 1 THEN 0 ELSE Place(at[p]) + 1
    BY <1>2, PlaceStep
  <2> QED BY <1>1, <1>3, <2>1, <2>2, <2>3
<1>4. CASE ~Enabled(p)
  <2>1. at[p] = Start /\ at'[p] = Start
    BY <1>1, <1>4 DEF PipesHold, InStep
  <2>2. Enabled(p)' => LocalCycle(p)' = 0
    BY <1>4, LocalStep
  <2>3. Place(Start) = 0
    BY DepthLemma, ConstantsLemma DEF Place, Start
  <2> QED BY <2>1, <2>2, <2>3
<1> QED BY <1>3, <1>4

\* What a pipe that is enabled after the tick had before it: either it has its
\* first tick still to come, or it has been enabled, and its slots have gone on.
LEMMA SlotStep ==
  ASSUME RunInv, host = "run", PipesHold, Tick, NEW p \in Pipes, Enabled(p)',
         NEW t \in Slots, Done(at'[p], t) > 0
  PROVE  /\ Enabled(p) /\ BatchOf(p) \in 0 .. Nmax /\ JobOf(p, t)' = JobOf(p, t)
         /\ at'[p] = Advance(at[p])
         /\ Done(at'[p], t) = IF t = at[p].cslowidx THEN Done(at[p], t) + 1 ELSE Done(at[p], t)
<1>1. at'[p] = IF Enabled(p) THEN Advance(at[p]) ELSE at[p]
  BY TickParts
<1>2. at[p] \in Counters
  BY DEF RunInv, TypeOK, Counters
<1>3. Enabled(p)
  <2> SUFFICES ASSUME ~Enabled(p) PROVE FALSE
    OBVIOUS
  <2>1. at'[p] = Start
    BY <1>1 DEF PipesHold, InStep
  <2>2. Done(Start, t) = 0
    BY ConstantsLemma DEF Done, Start, Slots
  <2> QED BY <2>1, <2>2
<1>4. LocalCycle(p) = Place(at[p])
  BY <1>3 DEF PipesHold, InStep
<1>5. Place(at[p]) # ComputeCycles - 1
  BY <1>1, <1>2, <1>3, DoneLemma
<1>6. Done(at'[p], t) = IF t = at[p].cslowidx THEN Done(at[p], t) + 1 ELSE Done(at[p], t)
  BY <1>1, <1>2, <1>3, <1>5, DoneLemma
<1>7. JobOf(p, t)' = JobOf(p, t) /\ BatchOf(p) \in 0 .. Nmax
  BY <1>3, <1>4, <1>5, JobStays, LocalStep
<1> QED BY <1>1, <1>3, <1>6, <1>7

\* The value that leaves the loop of a pipe has had its round: it re-enters the loop
\* with one more, and the others move up.
LEMMA LoopTick == ASSUME RunInv, host = "run", PipesHold, Tick PROVE LoopHolds'
<1> SUFFICES ASSUME NEW p \in Pipes, Enabled(p)', NEW t \in Slots, Done(at'[p], t) > 0
             PROVE  loop'[p][Index(at'[p].cslowidx, t)]
                      = [job |-> JobOf(p, t)', round |-> Done(at'[p], t)]
  BY DEF LoopHolds
<1> DEFINE s == at[p].cslowidx
           k == Index(s, t)
<1>1. /\ Enabled(p) /\ BatchOf(p) \in 0 .. Nmax /\ JobOf(p, t)' = JobOf(p, t)
      /\ at'[p] = Advance(at[p])
      /\ Done(at'[p], t) = IF t = s THEN Done(at[p], t) + 1 ELSE Done(at[p], t)
  BY SlotStep
<1>2. at[p] \in Counters /\ loop[p] \in Seq(Value) /\ Len(loop[p]) = Cslow
  BY DEF RunInv, TypeOK, Counters
<1>3. PICK a \in Addresses : loop'[p] = Append(Tail(loop[p]), NewX(p, Incoming, a))
  BY TickParts
<1>4. NewX(p, Incoming, a) = [job |-> JobOf(p, s), round |-> Done(at[p], s) + 1]
  BY <1>1, TickParts, PipeRound
<1> DEFINE tail == Tail(loop[p])
           new == NewX(p, Incoming, a)
<1>5. /\ tail \in Seq(Value) /\ Len(tail) = Cslow - 1
      /\ \A i \in 1 .. Cslow - 1 : tail[i] = loop[p][i + 1]
  BY <1>2, ConstantsLemma
<1>6. /\ loop'[p][Cslow] = new
      /\ \A i \in 1 .. Cslow - 1 : loop'[p][i] = tail[i]
  <2> HIDE DEF tail, new
  <2> QED BY <1>3, <1>5, ConstantsLemma DEF tail, new
<1>7. /\ t # s => k \in 2 .. Cslow
      /\ Index(at'[p].cslowidx, t) = IF t = s THEN Cslow ELSE k - 1
  BY <1>1, <1>2, IndexLemma
<1>8. CASE t = s
  BY <1>1, <1>4, <1>6, <1>7, <1>8
<1>9. CASE t # s
  <2>1. k - 1 \in 1 .. Cslow - 1 /\ k - 1 + 1 = k
    BY <1>7, <1>9, ConstantsLemma
  <2>2. loop'[p][k - 1] = loop[p][k]
    BY <1>5, <1>6, <2>1
  <2>3. loop[p][k] = [job |-> JobOf(p, t), round |-> Done(at[p], t)]
    BY <1>1, <1>9 DEF PipesHold, LoopHolds
  <2> QED BY <1>1, <1>7, <1>9, <2>2, <2>3
<1> QED BY <1>8, <1>9

\* A pipe stores round a of its job at address a of its own slot, and touches no
\* other cell.
LEMMA MemoryTick == ASSUME RunInv, host = "run", PipesHold, Tick PROVE MemoryHolds'
<1> SUFFICES ASSUME NEW p \in Pipes, Enabled(p)', NEW t \in Slots, NEW a \in Addresses,
                    a < Done(at'[p], t)
             PROVE  memory'[p][CellOf(t, a)] = [job |-> JobOf(p, t)', round |-> a]
  BY DEF MemoryHolds
<1> DEFINE s == at[p].cslowidx
           i == at[p].iteration
<1>0. a \in Nat
  BY ConstantsLemma DEF Addresses
<1>1. at[p] \in Counters /\ s \in Slots /\ i \in Addresses /\ at[p].phase \in {0, 1}
      /\ memory[p] \in [Cells -> Value]
  BY DEF RunInv, TypeOK, Counters, Slots
<1>2. at'[p] \in Counters
  BY TickData DEF RunInv
<1>3. Done(at'[p], t) \in Nat
  BY <1>2, DoneLemma, ConstantsLemma
<1>4. /\ Enabled(p) /\ BatchOf(p) \in 0 .. Nmax /\ JobOf(p, t)' = JobOf(p, t)
      /\ at'[p] = Advance(at[p])
      /\ Done(at'[p], t) = IF t = s THEN Done(at[p], t) + 1 ELSE Done(at[p], t)
  BY <1>0, <1>3, SlotStep
<1>5. memory'[p] = Written(p, Incoming)
  BY TickParts
<1>6. Done(at[p], t) \in Nat /\ (at[p].phase = 0 => Done(at[p], s) = i)
      /\ (at[p].phase = 1 => Done(at[p], s) >= Iters)
  BY <1>1, DoneLemma, ConstantsLemma
<1>7. a < Done(at[p], t) => memory[p][CellOf(t, a)] = [job |-> JobOf(p, t), round |-> a]
  BY <1>4 DEF PipesHold, MemoryHolds
<1>8. CASE at[p].phase = 1
  <2>1. a < Done(at[p], t)
    BY <1>0, <1>1, <1>4, <1>6, <1>8, ConstantsLemma DEF Addresses
  <2>2. memory'[p] = memory[p]
    BY <1>5, <1>8 DEF Written
  <2> QED BY <1>4, <1>7, <2>1, <2>2
<1>9. CASE at[p].phase = 0
  <2>1. memory'[p] = [memory[p] EXCEPT ![CellOf(s, i)] = X(p, Incoming)]
    BY <1>5, <1>9 DEF Written
  <2>2. CellOf(t, a) \in Cells /\ CellOf(s, i) \in Cells
    BY <1>1, CellLemma DEF Slots
  <2>3. CASE t = s /\ a = i
    <3>1. X(p, Incoming) = [job |-> JobOf(p, s), round |-> Done(at[p], s)]
      BY <1>4, TickParts, PipeRound
    <3> QED BY <1>1, <1>4, <1>6, <1>9, <2>1, <2>2, <2>3, <3>1
  <2>4. CASE ~(t = s /\ a = i)
    <3>1. CellOf(t, a) # CellOf(s, i)
      BY <1>1, <2>4, CellsApart DEF Slots
    <3>2. memory'[p][CellOf(t, a)] = memory[p][CellOf(t, a)]
      BY <1>1, <2>1, <2>2, <3>1
    <3>3. a < Done(at[p], t)
      BY <1>0, <1>1, <1>4, <1>6, <1>9, <2>4, ConstantsLemma DEF Addresses
    <3> QED BY <1>4, <1>7, <3>2, <3>3
  <2> QED BY <2>3, <2>4
<1> QED BY <1>1, <1>8, <1>9

\* A tick takes at most the next input from the stream, and holds it.
LEMMA InputsTick == ASSUME RunInv, host = "run", PipesHold, Tick PROVE InputsInOrder'
<1>0. /\ fromHost \in Seq(Value) /\ Len(fromHost) \in Nat
      /\ RunInv' /\ host' = "run"
      /\ buffer' = buffer /\ drained' = drained /\ fed' = fed /\ held' = Incoming
      /\ fromHost' = IF ReadInput THEN Tail(fromHost) ELSE fromHost
      /\ (ReadInput => fromHost # <<>>)
      /\ fed \in Nat
  <2>1. fromHost \in Seq(Value) /\ fed \in Nat
    BY DEF RunInv, TypeOK
  <2>2. Len(fromHost) \in Nat
    BY <2>1
  <2>3. RunInv'
    BY TickStep
  <2>4. /\ host' = "run" /\ buffer' = buffer /\ drained' = drained /\ fed' = fed
        /\ held' = Incoming
        /\ fromHost' = IF ReadInput THEN Tail(fromHost) ELSE fromHost
        /\ (ReadInput => fromHost # <<>>)
    BY TickParts
  <2> QED BY <2>1, <2>2, <2>3, <2>4
<1>1. /\ fed - Len(fromHost) = ReadSoFar /\ fed' - Len(fromHost') = ReadSoFar'
  BY <1>0 DEF RunInv, CountInv
<1>2. InputsInOrder
  BY DEF PipesHold
<1>3. \A k \in Jobs : k >= drained' => buffer'[k] = Input(k)
  BY <1>0, <1>2 DEF InputsInOrder
<1>4. CASE ReadInput
  <2>1. /\ Len(fromHost') = Len(fromHost) - 1 /\ Len(fromHost) >= 1
        /\ \A j \in 1 .. Len(fromHost') : fromHost'[j] = fromHost[j + 1] /\ j + 1 \in 1 .. Len(fromHost)
        /\ Head(fromHost) = fromHost[1]
    BY <1>0, <1>4
  <2>2. ReadSoFar' = ReadSoFar + 1 /\ ReadSoFar \in Int
    BY <1>0, <1>1, <2>1
  <2>3. \A j \in 1 .. Len(fromHost') : fromHost'[j] = Input(ReadSoFar' + j - 1)
    <3> SUFFICES ASSUME NEW j \in 1 .. Len(fromHost')
                 PROVE  fromHost'[j] = Input(ReadSoFar' + j - 1)
      OBVIOUS
    <3>1. fromHost'[j] = Input(ReadSoFar + (j + 1) - 1)
      BY <1>2, <2>1 DEF InputsInOrder
    <3>2. ReadSoFar + (j + 1) - 1 = ReadSoFar' + j - 1
      BY <2>2
    <3> QED BY <3>1, <3>2
  <2>4. held' = Input(ReadSoFar' - 1)
    <3>1. held' = Input(ReadSoFar + 1 - 1)
      BY <1>0, <1>2, <1>4, <2>1 DEF InputsInOrder, Incoming
    <3> QED BY <2>2, <3>1
  <2> QED BY <1>3, <2>3, <2>4 DEF InputsInOrder
<1>5. CASE ~ReadInput
  <2>1. fromHost' = fromHost /\ held' = held
    BY <1>0, <1>5 DEF Incoming
  <2>2. ReadSoFar' = ReadSoFar
    BY <1>0, <1>1, <2>1
  <2> QED BY <1>2, <1>3, <2>1, <2>2 DEF InputsInOrder
<1> QED BY <1>4, <1>5

\* The output counter counts what is written, and starts again after a compute unit.
LEMMA MuxedLemma ==
  ASSUME TypeOK
  PROVE  /\ Muxed \in 0 .. ComputeUnit - 1
         /\ Muxed < Cslow => pipeIdx = 0 /\ cslowIdx = Muxed
         /\ Muxed >= Cslow => pipeIdx >= 1
         /\ Cslow * pipeIdx = pipeIdx * Cslow
<1>1. pipeIdx \in 0 .. NumPipes - 1 /\ cslowIdx \in 0 .. Cslow - 1
  BY DEF TypeOK, Pipes
<1>2. Cslow * pipeIdx \in Nat /\ Cslow * pipeIdx <= TailCycles /\ (pipeIdx > 0 => Cslow * pipeIdx >= Cslow)
  BY <1>1, OffsetLemma DEF Pipes
<1> DEFINE o == pipeIdx * Cslow
<1>3. Cslow * pipeIdx = o /\ (pipeIdx = 0 => o = 0)
  BY <1>1, ConstantsLemma
<1>4. o \in Nat /\ o <= TailCycles /\ (pipeIdx > 0 => o >= Cslow) /\ Muxed = o + cslowIdx
  BY <1>2, <1>3 DEF Muxed
<1> HIDE DEF o
<1>5. /\ Muxed \in 0 .. ComputeUnit - 1
      /\ Muxed < Cslow => pipeIdx = 0 /\ cslowIdx = Muxed
      /\ Muxed >= Cslow => pipeIdx >= 1
  BY <1>1, <1>3, <1>4, ScheduleLemma, ConstantsLemma
<1> QED BY <1>3, <1>5 DEF o

\* The output multiplexer moves to the next slot of the next pipe.
LEMMA MuxedStep ==
  ASSUME TypeOK, Tick
  PROVE  Muxed' = IF ~WriteOutput THEN Muxed
                  ELSE IF Muxed = ComputeUnit - 1 THEN 0 ELSE Muxed + 1
<1>1. pipeIdx \in 0 .. NumPipes - 1 /\ cslowIdx \in 0 .. Cslow - 1
  BY DEF TypeOK, Pipes
<1>2. /\ cslowIdx' = IF WriteOutput THEN (cslowIdx + 1) % Cslow ELSE cslowIdx
      /\ pipeIdx' = IF WriteOutput /\ cslowIdx' = 0 THEN (pipeIdx + 1) % NumPipes ELSE pipeIdx
  BY DEF Tick
<1>3. /\ (cslowIdx + 1) % Cslow = IF cslowIdx = Cslow - 1 THEN 0 ELSE cslowIdx + 1
      /\ (pipeIdx + 1) % NumPipes = IF pipeIdx = NumPipes - 1 THEN 0 ELSE pipeIdx + 1
  BY <1>1, WrapLemma, ConstantsLemma
<1> DEFINE o == pipeIdx * Cslow
<1>4. Muxed = o + cslowIdx /\ Muxed' = pipeIdx' * Cslow + cslowIdx'
  BY DEF Muxed
<1>5. o \in Nat /\ (pipeIdx + 1) * Cslow = o + Cslow
  BY <1>1, BatchLemma, ConstantsLemma
<1>6. CASE ~WriteOutput
  BY <1>2, <1>6 DEF Muxed
<1>7. CASE WriteOutput /\ cslowIdx # Cslow - 1
  <2>1. cslowIdx' = cslowIdx + 1 /\ pipeIdx' = pipeIdx
    BY <1>1, <1>2, <1>3, <1>7, ConstantsLemma
  <2>2. Muxed' = o + (cslowIdx + 1)
    BY <1>4, <2>1
  <2>3. o # TailCycles => o + Cslow <= TailCycles
    <3>1. pipeIdx + 1 \in Pipes \/ pipeIdx = NumPipes - 1
      BY <1>1, ConstantsLemma DEF Pipes
    <3>2. pipeIdx = NumPipes - 1 => o = TailCycles
      BY ScheduleLemma
    <3>3. pipeIdx + 1 \in Pipes => Cslow * (pipeIdx + 1) <= TailCycles
      BY OffsetLemma
    <3>4. Cslow * (pipeIdx + 1) = (pipeIdx + 1) * Cslow
      BY <1>1, ConstantsLemma
    <3> QED BY <1>5, <3>1, <3>2, <3>3, <3>4
  <2> HIDE DEF o
  <2>4. Muxed # ComputeUnit - 1
    BY <1>1, <1>4, <1>5, <1>7, <2>3, ScheduleLemma, ConstantsLemma
  <2> QED BY <1>1, <1>4, <1>5, <1>7, <2>2, <2>4
<1>8. CASE WriteOutput /\ cslowIdx = Cslow - 1 /\ pipeIdx # NumPipes - 1
  <2>1. cslowIdx' = 0 /\ pipeIdx' = pipeIdx + 1
    BY <1>2, <1>3, <1>8
  <2>2. Muxed' = (pipeIdx + 1) * Cslow + 0
    BY <1>4, <2>1
  <2>3. pipeIdx + 1 \in Pipes
    BY <1>1, <1>8, ConstantsLemma DEF Pipes
  <2>4. Cslow * (pipeIdx + 1) <= TailCycles /\ Cslow * (pipeIdx + 1) = (pipeIdx + 1) * Cslow
    BY <1>1, <2>3, OffsetLemma, ConstantsLemma
  <2>5. o + Cslow <= TailCycles
    BY <1>5, <2>4
  <2>6. Muxed' = o + Cslow + 0
    BY <1>5, <2>2
  <2> HIDE DEF o
  <2> QED BY <1>4, <1>5, <1>8, <2>5, <2>6, ScheduleLemma, ConstantsLemma
<1>9. CASE WriteOutput /\ cslowIdx = Cslow - 1 /\ pipeIdx = NumPipes - 1
  <2>1. cslowIdx' = 0 /\ pipeIdx' = 0
    BY <1>2, <1>3, <1>9
  <2>2. Muxed' = 0
    BY <1>4, <2>1, ConstantsLemma
  <2>3. o = TailCycles
    BY <1>9, ScheduleLemma
  <2> HIDE DEF o
  <2> QED BY <1>4, <1>9, <2>2, <2>3, ScheduleLemma, ConstantsLemma
<1> QED BY <1>1, <1>6, <1>7, <1>8, <1>9

\* The output multiplexer stays on the job whose last round is just over.
LEMMA MuxTick == ASSUME RunInv, host = "run", PipesHold, Tick PROVE MuxInStep'
<1>0. /\ n \in 0 .. Nmax /\ cycleCount \in 0 .. ComputeCycles - 1 /\ tick < RunCycles
      /\ cycleCount' = IF cycleCount = ComputeCycles - 1 THEN 0 ELSE cycleCount + 1
      /\ n' = IF cycleCount = ComputeCycles - 1 THEN n + 1 ELSE n
      /\ TypeOK
  BY ChainStep, TickParts DEF RunInv, TypeOK
<1>1. WriteOutput <=> \/ n >= 1 /\ cycleCount < TailCycles
                      \/ cycleCount >= ComputeCycles - Cslow
  BY WriteLemma
<1>2. Muxed' = IF ~WriteOutput THEN Muxed
               ELSE IF Muxed = ComputeUnit - 1 THEN 0 ELSE Muxed + 1
  BY <1>0, MuxedStep
<1>3. Muxed = IF n >= 1 /\ cycleCount < TailCycles THEN cycleCount + Cslow
              ELSE IF cycleCount >= ComputeCycles - Cslow THEN cycleCount - (ComputeCycles - Cslow)
              ELSE 0
  BY DEF PipesHold, MuxInStep
<1> DEFINE mm == Muxed'
<1>4. mm = Muxed'
  OBVIOUS
<1>5. /\ ComputeUnit \in Nat /\ ComputeCycles \in Nat /\ TailCycles \in Nat
      /\ TailCycles = ComputeUnit - Cslow /\ ComputeUnit <= ComputeCycles - Cslow
      /\ Cslow \in Nat /\ Cslow > 0
  BY ScheduleLemma, ConstantsLemma
<1> HIDE DEF mm
<1>6. mm = IF n' >= 1 /\ cycleCount' < TailCycles THEN cycleCount' + Cslow
           ELSE IF cycleCount' >= ComputeCycles - Cslow THEN cycleCount' - (ComputeCycles - Cslow)
           ELSE 0
  <2>1. CASE n >= 1 /\ cycleCount < TailCycles
    <3>1. mm = IF cycleCount = TailCycles - 1 THEN 0 ELSE cycleCount + 1 + Cslow
      BY <1>0, <1>1, <1>2, <1>3, <1>4, <1>5, <2>1
    <3>2. cycleCount' = cycleCount + 1 /\ n' = n
      BY <1>0, <1>5, <2>1
    <3> QED BY <1>0, <1>5, <2>1, <3>1, <3>2
  <2>2. CASE cycleCount >= ComputeCycles - Cslow
    <3>1. Muxed = cycleCount - (ComputeCycles - Cslow)
      BY <1>0, <1>3, <1>5, <2>2
    <3>2. CASE cycleCount = ComputeCycles - 1
      <4>1. cycleCount' = 0 /\ n' >= 1 /\ Muxed = Cslow - 1
        BY <1>0, <1>5, <3>1, <3>2
      <4>2. mm = IF ComputeUnit = Cslow THEN 0 ELSE Cslow
        BY <1>1, <1>2, <1>4, <1>5, <2>2, <4>1
      <4> QED BY <1>5, <4>1, <4>2
    <3>3. CASE cycleCount # ComputeCycles - 1
      <4>1. cycleCount' = cycleCount + 1 /\ n' = n /\ Muxed < Cslow - 1 /\ cycleCount < ComputeCycles - 1
        BY <1>0, <1>5, <3>1, <3>3
      <4>2. mm = Muxed + 1
        BY <1>1, <1>2, <1>4, <1>5, <2>2, <4>1
      <4>3. ~(cycleCount' < TailCycles) /\ cycleCount' >= ComputeCycles - Cslow
        BY <1>0, <1>5, <2>2, <4>1
      <4> QED BY <1>0, <1>5, <3>1, <4>1, <4>2, <4>3
    <3> QED BY <3>2, <3>3
  <2>3. CASE ~(n >= 1 /\ cycleCount < TailCycles) /\ ~(cycleCount >= ComputeCycles - Cslow)
    <3>1. mm = 0 /\ cycleCount' = cycleCount + 1 /\ n' = n
      BY <1>0, <1>1, <1>2, <1>3, <1>4, <1>5, <2>3
    <3>2. ~(n' >= 1 /\ cycleCount' < TailCycles)
      BY <1>0, <1>5, <2>3, <3>1
    <3> QED BY <1>0, <1>5, <2>3, <3>1, <3>2
  <2> QED BY <2>1, <2>2, <2>3
<1> QED BY <1>4, <1>6 DEF MuxInStep

\* What is written is the next result: the pipe and the slot at the output are in
\* their last round, of the job whose turn it is.
LEMMA NextResult ==
  ASSUME RunInv, host = "run", PipesHold, Tick, WriteOutput, NEW a \in Addresses
  PROVE  NewX(pipeIdx, Incoming, a) = Result(WrittenSoFar)
<1> DEFINE p == pipeIdx
           o == Cslow * p
           c == at[p]
<1>0. /\ n \in 0 .. Nmax /\ cycleCount \in 0 .. ComputeCycles - 1 /\ tick < RunCycles
      /\ p \in Pipes /\ c \in Counters /\ TypeOK /\ cslowIdx \in 0 .. Cslow - 1
  BY TickParts DEF RunInv, TypeOK, Counters
<1>1. \/ n >= 1 /\ cycleCount < TailCycles
      \/ cycleCount >= ComputeCycles - Cslow
  BY WriteLemma
<1>2. /\ ComputeUnit \in Nat /\ ComputeCycles \in Nat /\ TailCycles \in Nat
      /\ TailCycles = ComputeUnit - Cslow /\ ComputeUnit <= ComputeCycles - Cslow
      /\ Cslow \in Nat /\ Cslow > 0 /\ Nmax \in Nat /\ Nmax > 0
  BY ScheduleLemma, ConstantsLemma
<1>3. /\ Muxed \in 0 .. ComputeUnit - 1 /\ Muxed = o + cslowIdx /\ o \in Nat
      /\ Muxed < Cslow => p = 0 /\ cslowIdx = Muxed
      /\ Muxed >= Cslow => p >= 1
      /\ (p = 0 => o = 0)
  BY <1>0, <1>2, MuxedLemma, OffsetLemma DEF Muxed
<1>4. /\ n >= 1 /\ cycleCount < TailCycles => Muxed = cycleCount + Cslow
      /\ ~(n >= 1 /\ cycleCount < TailCycles) => Muxed = cycleCount - (ComputeCycles - Cslow)
  BY <1>1 DEF PipesHold, MuxInStep
<1>5. /\ LocalCycle(p) = IF cycleCount >= o THEN cycleCount - o ELSE cycleCount - o + ComputeCycles
      /\ BatchOf(p) = IF cycleCount >= o THEN n ELSE n - 1
      /\ (Enabled(p) <=> n >= 1 \/ cycleCount >= o)
  BY <1>0, EnabledLemma DEF LocalCycle, BatchOf
<1>6. n = Nmax => cycleCount < TailCycles
  BY <1>0, TailLemma
<1> DEFINE b == BatchOf(p)
<1> HIDE DEF p, o, c, b
<1>7. /\ Enabled(p) /\ b \in 0 .. Nmax - 1
      /\ LocalCycle(p) = ComputeCycles - Cslow + cslowIdx
      /\ b = IF n >= 1 /\ cycleCount < TailCycles THEN n - 1 ELSE n
  <2>1. CASE n >= 1 /\ cycleCount < TailCycles
    <3>1. Muxed = cycleCount + Cslow /\ cycleCount < o
      BY <1>0, <1>2, <1>3, <1>4, <2>1
    <3>2. LocalCycle(p) = cycleCount - o + ComputeCycles /\ b = n - 1 /\ Enabled(p)
      BY <1>0, <1>3, <1>5, <2>1, <3>1 DEF b
    <3> QED BY <1>0, <1>2, <1>3, <2>1, <3>1, <3>2
  <2>2. CASE ~(n >= 1 /\ cycleCount < TailCycles)
    <3>1. Muxed = cycleCount - (ComputeCycles - Cslow) /\ cycleCount >= ComputeCycles - Cslow
      BY <1>1, <1>4, <2>2
    <3>2. p = 0 /\ o = 0 /\ cslowIdx = Muxed
      BY <1>0, <1>2, <1>3, <3>1
    <3>3. LocalCycle(p) = cycleCount /\ b = n /\ Enabled(p)
      BY <1>0, <1>5, <3>2 DEF b
    <3>4. n < Nmax
      BY <1>0, <1>2, <1>6, <3>1
    <3> QED BY <1>0, <1>2, <2>2, <3>1, <3>2, <3>3, <3>4
  <2> QED BY <2>1, <2>2
<1>8. Place(c) = ComputeCycles - Cslow + cslowIdx
  BY <1>0, <1>7 DEF PipesHold, InStep, c
<1>9. c.phase = 1 /\ c.iteration = Iters - 1 /\ c.cslowidx = cslowIdx
  <2>1. Place(c) >= ComputeCycles - Cslow /\ cslowIdx = Place(c) - (ComputeCycles - Cslow)
    BY <1>0, <1>2, <1>8
  <2> QED BY <1>0, <2>1, PlaceLemma
<1>10. NewX(p, Incoming, a) = [job |-> JobOf(p, cslowIdx), round |-> Done(c, cslowIdx) + 1]
  <2>1. b \in 0 .. Nmax /\ (ReadInput => fromHost # <<>>)
    BY <1>2, <1>7, TickParts
  <2> QED BY <1>0, <1>7, <1>9, <2>1, PipeRound DEF b, c
<1>11. Done(c, cslowIdx) + 1 = 2 * Iters
  <2>1. Done(c, cslowIdx) = 1 * Iters + (Iters - 1)
    BY <1>0, <1>9, DoneLemma DEF Slots
  <2> QED BY <2>1, ConstantsLemma
<1>12. JobOf(p, cslowIdx) = b * ComputeUnit + o + cslowIdx
  BY <1>2, <1>7 DEF JobOf, b, o
<1>13. JobOf(p, cslowIdx) = WrittenSoFar
  <2> DEFINE x == n * ComputeUnit
             y == b * ComputeUnit
  <2>1. x \in Nat /\ y \in Nat /\ (n = 0 => x = 0)
    <3> HIDE DEF b
    <3> QED BY <1>0, <1>2, <1>7, BatchLemma
  <2>2. WrittenSoFar =
          (IF n = 0 THEN 0 ELSE x - TailCycles + UpTo(cycleCount, TailCycles))
          + (IF cycleCount <= ComputeCycles - Cslow THEN 0 ELSE cycleCount - (ComputeCycles - Cslow))
    BY DEF WrittenSoFar
  <2>3. CASE n >= 1 /\ cycleCount < TailCycles
    <3>1. b = n - 1 /\ n = b + 1 /\ b \in Nat
      BY <1>0, <1>7, <2>3
    <3>2. x = y + ComputeUnit
      BY <1>2, <3>1, BatchLemma
    <3> HIDE DEF x, y
    <3>3. WrittenSoFar = x - TailCycles + cycleCount
      BY <1>0, <1>2, <2>1, <2>2, <2>3 DEF UpTo
    <3>4. o + cslowIdx = cycleCount + Cslow
      BY <1>3, <1>4, <2>3
    <3>5. y + o + cslowIdx = WrittenSoFar
      BY <1>0, <1>2, <1>3, <2>1, <3>2, <3>3, <3>4
    <3> QED BY <1>12, <3>5 DEF y
  <2>4. CASE ~(n >= 1 /\ cycleCount < TailCycles)
    <3>1. b = n /\ cycleCount >= ComputeCycles - Cslow
      BY <1>1, <1>7, <2>4
    <3>2. x = y
      BY <3>1
    <3> HIDE DEF x, y
    <3>3. o + cslowIdx = cycleCount - (ComputeCycles - Cslow)
      BY <1>3, <1>4, <2>4
    <3>4. WrittenSoFar = x + (cycleCount - (ComputeCycles - Cslow))
      BY <1>0, <1>2, <2>1, <2>2, <3>1 DEF UpTo
    <3>5. y + o + cslowIdx = WrittenSoFar
      BY <1>0, <1>2, <1>3, <2>1, <3>2, <3>3, <3>4
    <3> QED BY <1>12, <3>5 DEF y
  <2> QED BY <2>3, <2>4
<1> QED BY <1>10, <1>11, <1>13 DEF Result, p

\* A tick that writes, writes the result of the next job.
LEMMA ResultsTick ==
  ASSUME RunInv, host = "run", PipesHold, ResultsInOrder, Tick PROVE ResultsInOrder'
<1>0. /\ toHost \in Seq(Value) /\ Len(toHost) \in Nat /\ drained \in Nat /\ pipeIdx \in Pipes
      /\ buffer' = buffer /\ drained' = drained /\ CountInv
  BY TickParts DEF RunInv, TypeOK
<1>1. PICK mix \in [Pipes -> Addresses] :
        toHost' = IF WriteOutput THEN Append(toHost, NewX(pipeIdx, Incoming, mix[pipeIdx])) ELSE toHost
  BY TickParts
<1>2. drained + Len(toHost) = WrittenSoFar
  BY <1>0 DEF CountInv
<1>3. CASE WriteOutput
  <2> DEFINE new == NewX(pipeIdx, Incoming, mix[pipeIdx])
  <2>1. new = Result(WrittenSoFar)
    BY <1>0, <1>3, NextResult
  <2>2. toHost' = Append(toHost, new)
    BY <1>1, <1>3
  <2> HIDE DEF new
  <2>3. /\ Len(toHost') = Len(toHost) + 1 /\ toHost'[Len(toHost) + 1] = new
        /\ \A j \in 1 .. Len(toHost) : toHost'[j] = toHost[j]
    BY <1>0, <2>2
  <2>4. ASSUME NEW j \in 1 .. Len(toHost') PROVE toHost'[j] = Result(drained + j - 1)
    <3>1. CASE j = Len(toHost) + 1
      <4>1. drained + j - 1 = WrittenSoFar
        BY <1>0, <1>2, <3>1
      <4> QED BY <2>1, <2>3, <3>1, <4>1
    <3>2. CASE j # Len(toHost) + 1
      <4>1. j \in 1 .. Len(toHost)
        BY <1>0, <2>3, <3>2
      <4> QED BY <2>3, <4>1 DEF ResultsInOrder
    <3> QED BY <3>1, <3>2
  <2> QED BY <1>0, <2>4 DEF ResultsInOrder
<1>4. CASE ~WriteOutput
  BY <1>0, <1>1, <1>4 DEF ResultsInOrder
<1> QED BY <1>3, <1>4

\* A tick keeps the invariant.
LEMMA DataTick == DataInv /\ Tick => DataInv'
<1> SUFFICES ASSUME DataInv, Tick PROVE DataInv'
  OBVIOUS
<1>1. RunInv /\ host = "run" /\ PipesHold /\ ResultsInOrder
  BY DEF DataInv, Tick
<1>2. RunInv' /\ host' = "run"
  BY <1>1, TickStep, TickParts
<1>3. InStep' /\ LoopHolds' /\ MemoryHolds' /\ InputsInOrder' /\ MuxInStep' /\ ResultsInOrder'
  BY <1>1, InStepTick, LoopTick, MemoryTick, InputsTick, MuxTick, ResultsTick
<1> QED BY <1>2, <1>3 DEF DataInv, PipesHold

-----------------------------------------------------------------------------
\* The host's steps.

\* Nothing is written before it is read.
LEMMA ReadFirst ==
  ASSUME RunInv, host = "run"
  PROVE  WrittenSoFar <= ReadSoFar /\ ReadSoFar \in Nat /\ WrittenSoFar \in Int
<1> DEFINE x == n * ComputeUnit
<1>0. n \in 0 .. Nmax /\ cycleCount \in 0 .. ComputeCycles - 1
  BY DEF RunInv, TypeOK
<1>1. /\ ComputeUnit \in Nat /\ ComputeCycles \in Nat /\ TailCycles \in Nat
      /\ TailCycles = ComputeUnit - Cslow /\ ComputeUnit <= ComputeCycles - Cslow
      /\ Cslow \in Nat /\ Cslow > 0 /\ Nmax \in Nat /\ Nmax > 0
  BY ScheduleLemma, ConstantsLemma
<1>2. x \in Nat /\ (n = 0 => x = 0) /\ (n >= 1 => x >= ComputeUnit)
  BY <1>0, <1>1, BatchLemma
<1>3. n = Nmax => cycleCount <= TailCycles
  BY TailLemma
<1>4. /\ ReadSoFar = IF n < Nmax THEN x + UpTo(cycleCount, ComputeUnit) ELSE Nmax * ComputeUnit
      /\ WrittenSoFar =
          (IF n = 0 THEN 0 ELSE x - TailCycles + UpTo(cycleCount, TailCycles))
          + (IF cycleCount <= ComputeCycles - Cslow THEN 0 ELSE cycleCount - (ComputeCycles - Cslow))
  BY DEF ReadSoFar, WrittenSoFar
<1>5. CASE n < Nmax
  <2>1. ReadSoFar = x + UpTo(cycleCount, ComputeUnit)
    BY <1>4, <1>5
  <2> HIDE DEF x
  <2> QED BY <1>0, <1>1, <1>2, <1>4, <1>5, <2>1 DEF UpTo
<1>6. CASE n = Nmax
  <2>1. ReadSoFar = x
    BY <1>1, <1>4, <1>6
  <2> HIDE DEF x
  <2> QED BY <1>0, <1>1, <1>2, <1>3, <1>4, <1>6, <2>1 DEF UpTo
<1>7. n < Nmax \/ n = Nmax
  BY <1>0, <1>1
<1> QED BY <1>5, <1>6, <1>7

\* Feeding, draining and the end of a run keep it.
LEMMA DataStream == DataInv /\ (Feed \/ Drain \/ Return) => DataInv'
<1> SUFFICES ASSUME DataInv, Feed \/ Drain \/ Return PROVE DataInv'
  OBVIOUS
<1>0. /\ RunInv /\ RunInv' /\ ResultsInOrder /\ host = "run" /\ PipesHold /\ InputsInOrder
      /\ TypeOK /\ CountInv
  BY StreamStep DEF DataInv, Feed, Drain, Return, PipesHold, RunInv
<1>1. /\ fed - Len(fromHost) = ReadSoFar /\ drained + Len(toHost) = WrittenSoFar
      /\ WrittenSoFar <= ReadSoFar /\ ReadSoFar \in Nat /\ WrittenSoFar \in Int
      /\ fed \in Nat /\ drained \in Nat /\ Len(fromHost) \in Nat /\ Len(toHost) \in Nat
      /\ fromHost \in Seq(Value) /\ toHost \in Seq(Value) /\ buffer \in [Jobs -> Value]
  BY <1>0, ReadFirst DEF CountInv, TypeOK
<1>2. ASSUME UNCHANGED kernel
      PROVE  InStep' /\ LoopHolds' /\ MemoryHolds' /\ MuxInStep' /\ ReadSoFar' = ReadSoFar
  <2>1. InStep /\ LoopHolds /\ MemoryHolds /\ MuxInStep
    BY <1>0 DEF PipesHold
  <2>2. /\ n' = n /\ cycleCount' = cycleCount /\ startupCnt' = startupCnt /\ at' = at
        /\ loop' = loop /\ memory' = memory /\ pipeIdx' = pipeIdx /\ cslowIdx' = cslowIdx
    BY <1>2 DEF kernel
  <2>3. InStep'
    BY <2>1, <2>2 DEF InStep, Enabled, LocalCycle
  <2>4. LoopHolds' /\ MemoryHolds'
    BY <2>1, <2>2 DEF LoopHolds, MemoryHolds, Enabled, JobOf, BatchOf
  <2>5. MuxInStep' /\ ReadSoFar' = ReadSoFar
    BY <2>1, <2>2 DEF MuxInStep, Muxed, ReadSoFar
  <2> QED BY <2>3, <2>4, <2>5
<1>3. CASE Feed
  <2>1. /\ fed < NumScrypt /\ fromHost' = Append(fromHost, buffer[fed])
        /\ buffer' = buffer /\ drained' = drained /\ toHost' = toHost /\ host' = host
        /\ UNCHANGED kernel
    BY <1>3 DEF Feed
  <2>2. fed \in Jobs /\ fed >= drained
    BY <1>1, <2>1, ConstantsLemma DEF Jobs
  <2>3. buffer[fed] = Input(fed) /\ buffer[fed] \in Value
    BY <1>0, <1>1, <2>2 DEF InputsInOrder
  <2>4. /\ Len(fromHost') = Len(fromHost) + 1 /\ fromHost'[Len(fromHost) + 1] = Input(fed)
        /\ \A j \in 1 .. Len(fromHost) : fromHost'[j] = fromHost[j]
    BY <1>1, <2>1, <2>3
  <2>5. \A j \in 1 .. Len(fromHost') : fromHost'[j] = Input(ReadSoFar + j - 1)
    <3> SUFFICES ASSUME NEW j \in 1 .. Len(fromHost') PROVE fromHost'[j] = Input(ReadSoFar + j - 1)
      OBVIOUS
    <3>1. CASE j = Len(fromHost) + 1
      <4>1. ReadSoFar + j - 1 = fed
        BY <1>1, <3>1
      <4> QED BY <2>4, <3>1, <4>1
    <3>2. CASE j # Len(fromHost) + 1
      <4>1. j \in 1 .. Len(fromHost)
        BY <1>1, <2>4, <3>2
      <4> QED BY <1>0, <2>4, <4>1 DEF InputsInOrder
    <3> QED BY <3>1, <3>2
  <2>6. held' = held
    BY <2>1 DEF kernel
  <2>7. InputsInOrder'
    BY <1>0, <1>2, <2>1, <2>5, <2>6 DEF InputsInOrder
  <2>8. ResultsInOrder'
    BY <1>0, <2>1 DEF ResultsInOrder
  <2> QED BY <1>0, <1>2, <2>1, <2>7, <2>8 DEF DataInv, PipesHold
<1>4. CASE Drain
  <2>1. /\ toHost # <<>> /\ drained < NumScrypt
        /\ buffer' = [buffer EXCEPT ![drained] = Head(toHost)]
        /\ drained' = drained + 1 /\ toHost' = Tail(toHost)
        /\ fromHost' = fromHost /\ host' = host /\ UNCHANGED kernel
    BY <1>4 DEF Drain
  <2>2. drained \in Jobs
    BY <1>1, <2>1, ConstantsLemma DEF Jobs
  <2>3. /\ Head(toHost) = toHost[1] /\ 1 \in 1 .. Len(toHost)
        /\ Len(toHost') = Len(toHost) - 1
        /\ \A j \in 1 .. Len(toHost') : toHost'[j] = toHost[j + 1] /\ j + 1 \in 1 .. Len(toHost)
    BY <1>1, <2>1
  <2>4. Head(toHost) = Result(drained)
    <3>1. toHost[1] = Result(drained + 1 - 1) /\ drained + 1 - 1 = drained
      BY <1>0, <1>1, <2>3 DEF ResultsInOrder
    <3> QED BY <2>3, <3>1
  <2>5. \A k \in Jobs : buffer'[k] = IF k = drained THEN Result(drained) ELSE buffer[k]
    BY <1>1, <2>1, <2>2, <2>4
  <2>6. \A k \in 0 .. drained' - 1 : buffer'[k] = Result(k)
    <3> SUFFICES ASSUME NEW k \in 0 .. drained' - 1 PROVE buffer'[k] = Result(k)
      OBVIOUS
    <3>1. k \in Jobs /\ (k # drained => k \in 0 .. drained - 1)
      BY <1>1, <2>1, ConstantsLemma DEF Jobs
    <3>2. k # drained => buffer[k] = Result(k)
      BY <1>0, <3>1 DEF ResultsInOrder
    <3> QED BY <2>5, <3>1, <3>2
  <2>7. \A j \in 1 .. Len(toHost') : toHost'[j] = Result(drained' + j - 1)
    <3> SUFFICES ASSUME NEW j \in 1 .. Len(toHost') PROVE toHost'[j] = Result(drained' + j - 1)
      OBVIOUS
    <3>1. toHost'[j] = Result(drained + (j + 1) - 1)
      BY <1>0, <2>3 DEF ResultsInOrder
    <3>2. drained + (j + 1) - 1 = drained' + j - 1
      BY <1>1, <2>1, <2>3
    <3> QED BY <3>1, <3>2
  <2>8. \A k \in Jobs : k >= drained' => buffer'[k] = Input(k)
    <3> SUFFICES ASSUME NEW k \in Jobs, k >= drained' PROVE buffer'[k] = Input(k)
      OBVIOUS
    <3>1. k >= drained /\ k # drained
      BY <1>1, <2>1 DEF Jobs
    <3> QED BY <1>0, <2>5, <3>1 DEF InputsInOrder
  <2>9. held' = held
    BY <2>1 DEF kernel
  <2>10. InputsInOrder'
    BY <1>0, <1>2, <2>1, <2>8, <2>9 DEF InputsInOrder
  <2>11. ResultsInOrder'
    BY <2>6, <2>7 DEF ResultsInOrder
  <2> QED BY <1>0, <1>2, <2>1, <2>10, <2>11 DEF DataInv, PipesHold
<1>5. CASE Return
  <2>1. host' = "prepare" /\ UNCHANGED streams
    BY <1>5 DEF Return
  <2>2. ResultsInOrder'
    BY <1>0, <2>1 DEF ResultsInOrder, streams
  <2> QED BY <1>0, <2>1, <2>2 DEF DataInv
<1> QED BY <1>3, <1>4, <1>5

\* A run starts with all inputs in the buffer, and no job in any pipe.
LEMMA DataPrepare == DataInv /\ Prepare => DataInv'
<1> SUFFICES ASSUME DataInv, Prepare PROVE DataInv'
  OBVIOUS
<1>0. /\ RunInv' /\ host' = "run"
      /\ buffer' = [k \in Jobs |-> Input(k)]
      /\ fromHost' = <<>> /\ drained' = 0 /\ toHost' = <<>>
      /\ startupCnt' = 0 /\ n' = 0 /\ cycleCount' = 0
      /\ at' = [p \in Pipes |-> Start]
      /\ pipeIdx' = 0 /\ cslowIdx' = 0
  BY PrepareStep DEF DataInv, Prepare, Start
<1>1. ResultsInOrder'
  BY <1>0 DEF ResultsInOrder
<1>2. ASSUME NEW p \in Pipes PROVE at'[p] = Start /\ (Enabled(p)' => LocalCycle(p)' = 0)
  <2>1. Cslow * p \in Nat
    BY OffsetLemma
  <2>2. Enabled(p)' <=> 0 >= Cslow * p
    BY <1>0 DEF Enabled
  <2>3. LocalCycle(p)' = IF 0 >= Cslow * p THEN 0 - Cslow * p ELSE 0 - Cslow * p + ComputeCycles
    BY <1>0 DEF LocalCycle
  <2> QED BY <1>0, <2>1, <2>2, <2>3
<1>3. Place(Start) = 0 /\ \A t \in Slots : Done(Start, t) = 0
  BY DepthLemma, ConstantsLemma DEF Place, Done, Start, Slots
<1>4. InStep'
  BY <1>2, <1>3 DEF InStep
<1>5. LoopHolds'
  BY <1>2, <1>3 DEF LoopHolds
<1>6. MemoryHolds'
  <2> SUFFICES ASSUME NEW p \in Pipes, NEW t \in Slots, NEW a \in Addresses PROVE ~(a < Done(at'[p], t))
    BY DEF MemoryHolds
  <2> QED BY <1>2, <1>3, ConstantsLemma DEF Addresses
<1>7. InputsInOrder'
  <2>1. ReadSoFar' = 0
    BY <1>0, ScheduleLemma, ConstantsLemma DEF ReadSoFar, UpTo
  <2> QED BY <1>0, <2>1 DEF InputsInOrder
<1>8. MuxInStep'
  BY <1>0, ScheduleLemma, ConstantsLemma DEF MuxInStep, Muxed
<1> QED BY <1>0, <1>1, <1>4, <1>5, <1>6, <1>7, <1>8 DEF DataInv, PipesHold

\* The invariant of the data, on top of that of the counters: at every tick each
\* pipe holds in its loop and in its scratchpad the rounds that its jobs have had.
THEOREM DataHolds == Spec => []DataInv
<1>1. Init => DataInv
  <2> SUFFICES ASSUME Init PROVE DataInv
    OBVIOUS
  <2>1. RunInv /\ host # "run"
    BY InitCounted DEF Init
  <2>2. ResultsInOrder
    BY DEF Init, ResultsInOrder
  <2> QED BY <2>1, <2>2 DEF DataInv
<1>2. DataInv /\ [Next]_vars => DataInv'
  <2>1. ASSUME DataInv, UNCHANGED vars PROVE DataInv'
    BY <2>1 DEF DataInv, RunInv, TypeOK, CountInv, vars, streams, kernel, ReadSoFar, WrittenSoFar,
       ResultsInOrder, PipesHold, InStep, LoopHolds, MemoryHolds, InputsInOrder, MuxInStep, Muxed,
       Enabled, LocalCycle, BatchOf, JobOf
  <2> QED BY <2>1, DataTick, DataStream, DataPrepare DEF Next
<1> QED BY <1>1, <1>2, PTL DEF Spec

\* Every job finds its own rounds at every address it might read, for any number
\* of pipes and slots and however a scratchpad is split over blocks.
THEOREM ScratchpadsAreOwned == Spec => []ScratchpadOwned
<1>1. DataInv => ScratchpadOwned
  <2> SUFFICES ASSUME DataInv, NEW p \in Pipes, host = "run", Enabled(p), at[p].phase = 1,
                      NEW a \in Addresses
               PROVE  memory[p][CellOf(at[p].cslowidx, a)] = [job |-> Head(loop[p]).job, round |-> a]
    BY DEF ScratchpadOwned
  <2> DEFINE s == at[p].cslowidx
             d == Done(at[p], s)
  <2>0. at[p] \in Counters /\ s \in Slots /\ loop[p] \in Seq(Value) /\ Len(loop[p]) = Cslow
    BY DEF DataInv, RunInv, TypeOK, Counters, Slots
  <2>1. d >= Iters /\ d \in Nat
    BY <2>0, DoneLemma, ConstantsLemma
  <2>2. a < d /\ d > 0
    BY <2>1, ConstantsLemma DEF Addresses
  <2>3. memory[p][CellOf(s, a)] = [job |-> JobOf(p, s), round |-> a]
    BY <2>0, <2>2 DEF DataInv, PipesHold, MemoryHolds
  <2>4. loop[p][1] = [job |-> JobOf(p, s), round |-> d]
    <3>1. Index(s, s) = 1
      BY <2>0, IndexLemma
    <3>2. loop[p][Index(s, s)] = [job |-> JobOf(p, s), round |-> d]
      BY <2>0, <2>2 DEF DataInv, PipesHold, LoopHolds
    <3> QED BY <3>1, <3>2
  <2>5. Head(loop[p]) = loop[p][1]
    BY <2>0, ConstantsLemma
  <2> QED BY <2>3, <2>4, <2>5
<1> QED BY <1>1, DataHolds, PTL

\* Result k is all rounds of input k, for every shape of the kernel, any number of
\* batches and any depth of the streams.
THEOREM ResultsAreInOrder == Spec => []ResultsInOrder
<1>1. DataInv => ResultsInOrder
  BY DEF DataInv
<1> QED BY <1>1, DataHolds, PTL

=============================================================================
