----------------------------- MODULE ScryptRun -----------------------------
(***************************************************************************)
(* One scrypt run on the DFE: ScryptKernel.maxj with its staggered, C-slow *)
(* pipes and their scratchpads, the cycle count dfe_setup_run_scrypt gives *)
(* it, and the streams dfe_process queues from and to the one buffer that  *)
(* scrypt_prepare_run filled.                                              *)
(*                                                                         *)
(* Data is abstracted to where it comes from: a value is "job k after s    *)
(* rounds of salsa", or Junk, which is what any mixture of two jobs and    *)
(* any uninitialised memory gives.  The address a mixing round reads is    *)
(* a function of the data, hence any address.                              *)
(***************************************************************************)
EXTENDS Integers, Sequences

CONSTANTS
  NumPipes,         \* Scrypt_NumPipes
  Cslow,            \* Scrypt_Cslow: jobs in flight in a pipe
  Iters,            \* Scrypt_Iterations: 1024 in the source, a power of two
  MaxDepth,         \* MAX_DEPTH of a memory block: 4096 in the source
  NumScrypt,        \* ctx->num_scrypt: jobs the host queues for a run
  FifoDepth,        \* bound: values between the buffer and the kernel
  Junk

Pipes == 0 .. NumPipes - 1
Addresses == 0 .. Iters - 1
Jobs == 0 .. NumScrypt - 1
ComputeUnit == NumPipes * Cslow
Nmax == NumScrypt \div ComputeUnit

\* Powers of two, up to the largest memory block.
BlockSizes == {1, 2, 4, 8, 16, 32, 64, 128, 256, 512, 1024, 2048, 4096}

ASSUME ShapeAssumption ==
  /\ NumPipes \in Nat \ {0} /\ Cslow \in Nat \ {0} /\ FifoDepth \in Nat \ {0}
  /\ Iters \in {2, 4, 8, 16, 32, 64, 128, 256, 512, 1024}
  /\ MaxDepth \in BlockSizes
  /\ NumPipes < 2 * Iters
\* A run has at least one batch, and nmax + 1 fits the 16 bits of nmax.
ASSUME BatchAssumption == NumScrypt \in Nat /\ Nmax \in 1 .. 2^16 - 2

\* The ticks that dfe_setup_run_scrypt gives the run.
ComputeCycles == Cslow * Iters * 2
NoTail == Nmax * ComputeCycles      \* (Mutant: the last pipes are cut off.)
RunCycles == Nmax * ComputeCycles + (NumPipes - 1) * Cslow

StartupMax == Cslow * NumPipes + 2

Rounds == [job : Jobs, round : 0 .. 2 * Iters]
Value == Rounds \cup {Junk}
ASSUME JunkAssumption == Junk \notin Rounds
Input(k) == [job |-> k, round |-> 0]
Result(k) == [job |-> k, round |-> 2 * Iters]

VARIABLES
  host,             \* "prepare" or "run"
  buffer,           \* scrypt_buffer of the slot: inputs, replaced by results
  fed, fromHost,    \* inputs taken from the buffer; those the kernel has not read
  drained, toHost,  \* results put in the buffer; those that are on their way
  tick, startupCnt, n, cycleCount,    \* the run and the counters of the kernel
  held,             \* what the input shows when it is not read
  at,               \* per pipe: phase, iteration, cslowidx
  loop,             \* per pipe: the last Cslow values of newX, oldest first
  memory,           \* per pipe: contents of the banks of its scratchpad
  pipeIdx, cslowIdx \* outputMuxCtr

streams == <<buffer, fed, fromHost, drained, toHost>>
kernel == <<tick, startupCnt, n, cycleCount, held, at, loop, memory, pipeIdx, cslowIdx>>
vars == <<host, streams, kernel>>

-----------------------------------------------------------------------------
\* The scratchpad: the method memory(), which splits it over blocks.

Depth == Cslow * Iters
TotalRAMs == (Depth + MaxDepth - 1) \div MaxDepth
LastSize == Depth - MaxDepth * (TotalRAMs - 1)

\* 2^MathUtils.bitsToAddress(d)
AddressSpace(d) == CHOOSE s \in BlockSizes : d <= s /\ s < 2 * d

\* Block and address within it.
OneBank(address) ==                 \* (Mutant: every block is selected by 0.)
  [bank |-> 0, cell |-> address % MaxDepth]
Locate(address) ==
  IF Depth <= MaxDepth THEN [bank |-> 0, cell |-> address]
  ELSE LET bank == address \div MaxDepth IN
       [bank |-> bank,
        cell |-> IF bank # TotalRAMs - 1 THEN address % MaxDepth
                                         ELSE address % AddressSpace(LastSize)]

Cells == {Locate(a) : a \in 0 .. Depth - 1}
CellOf(slot, address) == Locate(slot * Iters + address)    \* cslowidx.cat(address)

-----------------------------------------------------------------------------
\* A pipe.

\* xor_salsa8 on both halves is one round.
Salsa(x) == IF x = Junk \/ x.round = 2 * Iters THEN Junk
            ELSE [job |-> x.job, round |-> x.round + 1]

\* Round Iters + r of a job mixes in what its round "address" had written.
Mixed(x, v, address) ==
  IF x # Junk /\ v # Junk /\ v = [job |-> x.job, round |-> address] THEN x ELSE Junk

\* isStart selects the input, otherwise the value comes around the loop.
LateStart(p, in) == IF at[p].iteration = 0 THEN in ELSE Head(loop[p])   \* (Mutant: no phase.)
X(p, in) == IF at[p].phase = 0 /\ at[p].iteration = 0 THEN in ELSE Head(loop[p])

NewX(p, in, mix) ==
  LET x == X(p, in)
  IN  IF at[p].phase = 0 THEN Salsa(x)
      ELSE Salsa(Mixed(x, memory[p][CellOf(at[p].cslowidx, mix)], mix))

\* The scratchpad is written whenever the phase is 0, in a pipe that is not
\* enabled yet as well.
Written(p, in) ==
  IF at[p].phase = 0
  THEN [memory[p] EXCEPT ![CellOf(at[p].cslowidx, at[p].iteration)] = X(p, in)]
  ELSE memory[p]

\* The counter chain of the pipe: cslowidx is the fastest.
LateWrap(c) ==                      \* (Mutant: the slot counter wraps too late.)
  IF c.cslowidx < Cslow THEN [c EXCEPT !.cslowidx = @ + 1]
  ELSE IF c.iteration < Iters - 1 THEN [c EXCEPT !.cslowidx = 0, !.iteration = @ + 1]
  ELSE [phase |-> 1 - c.phase, iteration |-> 0, cslowidx |-> 0]
Advance(c) ==
  IF c.cslowidx < Cslow - 1 THEN [c EXCEPT !.cslowidx = @ + 1]
  ELSE IF c.iteration < Iters - 1 THEN [c EXCEPT !.cslowidx = 0, !.iteration = @ + 1]
  ELSE [phase |-> 1 - c.phase, iteration |-> 0, cslowidx |-> 0]

\* Pipes start Cslow ticks after one another.
AllAtOnce(p) == TRUE                \* (Mutant: no staggering.)
Enabled(p) == startupCnt >= Cslow * p

-----------------------------------------------------------------------------
\* The kernel.

ReadAlways == cycleCount < NumPipes * Cslow    \* (Mutant: one batch too many.)
ReadInput == cycleCount < NumPipes * Cslow /\ n < Nmax

WriteEarly ==                       \* (Mutant: no start-up guard.)
  \/ cycleCount < Cslow * (NumPipes - 1)
  \/ cycleCount >= ComputeCycles - Cslow
WriteOutput ==
  \/ startupCnt > NumPipes * Cslow /\ cycleCount < Cslow * (NumPipes - 1)
  \/ cycleCount >= ComputeCycles - Cslow

\* One tick.  The kernel stalls while an input or room for an output is missing.
Tick ==
  /\ host = "run" /\ tick < RunCycles
  /\ ReadInput => fromHost # <<>>
  /\ WriteOutput => Len(toHost) < FifoDepth
  /\ \E mix \in [Pipes -> Addresses] :
       LET in == IF ReadInput THEN Head(fromHost) ELSE held
           newX == [p \in Pipes |-> NewX(p, in, mix[p])]
       IN  /\ held' = in
           /\ loop' = [p \in Pipes |-> Append(Tail(loop[p]), newX[p])]
           /\ memory' = [p \in Pipes |-> Written(p, in)]
           /\ toHost' = IF WriteOutput THEN Append(toHost, newX[pipeIdx]) ELSE toHost
  /\ fromHost' = IF ReadInput THEN Tail(fromHost) ELSE fromHost
  /\ at' = [p \in Pipes |-> IF Enabled(p) THEN Advance(at[p]) ELSE at[p]]
  /\ tick' = tick + 1
  /\ startupCnt' = IF startupCnt = StartupMax THEN startupCnt ELSE startupCnt + 1
  /\ cycleCount' = (cycleCount + 1) % ComputeCycles
  /\ n' = IF cycleCount' = 0 THEN (n + 1) % (Nmax + 1) ELSE n
  /\ cslowIdx' = IF WriteOutput THEN (cslowIdx + 1) % Cslow ELSE cslowIdx
  /\ pipeIdx' = IF WriteOutput /\ cslowIdx' = 0 THEN (pipeIdx + 1) % NumPipes ELSE pipeIdx
  /\ UNCHANGED <<host, buffer, fed, drained>>

-----------------------------------------------------------------------------
\* The host and its streams.

\* scrypt_prepare_run fills the buffer, and max_run resets the kernel.  Its
\* memories keep what they hold, which is nothing of these jobs.
Prepare ==
  /\ host = "prepare"
  /\ host' = "run"
  /\ buffer' = [k \in Jobs |-> Input(k)]
  /\ fed' = 0 /\ fromHost' = <<>> /\ drained' = 0 /\ toHost' = <<>>
  /\ tick' = 0 /\ startupCnt' = 0 /\ n' = 0 /\ cycleCount' = 0
  /\ held' = Junk
  /\ at' = [p \in Pipes |-> [phase |-> 0, iteration |-> 0, cslowidx |-> 0]]
  /\ loop' = [p \in Pipes |-> [s \in 1 .. Cslow |-> Junk]]
  /\ memory' = [p \in Pipes |-> [c \in Cells |-> Junk]]
  /\ pipeIdx' = 0 /\ cslowIdx' = 0

\* max_queue_input: the next value of the buffer goes to the engine.
Feed ==
  /\ host = "run" /\ fed < NumScrypt /\ Len(fromHost) < FifoDepth
  /\ fromHost' = Append(fromHost, buffer[fed])
  /\ fed' = fed + 1
  /\ UNCHANGED <<host, buffer, drained, toHost, kernel>>

\* max_queue_output: the next result replaces a value of the same buffer.
Drain ==
  /\ host = "run" /\ toHost # <<>> /\ drained < NumScrypt
  /\ buffer' = [buffer EXCEPT ![drained] = Head(toHost)]
  /\ drained' = drained + 1
  /\ toHost' = Tail(toHost)
  /\ UNCHANGED <<host, fed, fromHost, kernel>>

\* max_run returns when the kernel has had its ticks and both streams their values.
Return ==
  /\ host = "run"
  /\ tick = RunCycles /\ fed = NumScrypt /\ drained = NumScrypt
  /\ host' = "prepare"
  /\ UNCHANGED <<streams, kernel>>

Init ==
  /\ host = "prepare"
  /\ buffer = [k \in Jobs |-> Junk]
  /\ fed = 0 /\ fromHost = <<>> /\ drained = 0 /\ toHost = <<>>
  /\ tick = 0 /\ startupCnt = 0 /\ n = 0 /\ cycleCount = 0
  /\ held = Junk
  /\ at = [p \in Pipes |-> [phase |-> 0, iteration |-> 0, cslowidx |-> 0]]
  /\ loop = [p \in Pipes |-> [s \in 1 .. Cslow |-> Junk]]
  /\ memory = [p \in Pipes |-> [c \in Cells |-> Junk]]
  /\ pipeIdx = 0 /\ cslowIdx = 0

Next == Prepare \/ Feed \/ Tick \/ Drain \/ Return

Spec == Init /\ [][Next]_vars

\* The clock of the kernel runs, both DMA engines move data, max_run returns.
FairSpec == Spec /\ WF_vars(Prepare) /\ WF_vars(Feed) /\ WF_vars(Tick)
                 /\ WF_vars(Drain) /\ WF_vars(Return)

-----------------------------------------------------------------------------
\* Properties.

\* Types, with the bounds of every counter of the kernel.
TypeOK ==
  /\ host \in {"prepare", "run"}
  /\ buffer \in [Jobs -> Value]
  /\ fed \in 0 .. NumScrypt /\ drained \in 0 .. NumScrypt
  /\ fromHost \in Seq(Value) /\ Len(fromHost) <= FifoDepth
  /\ toHost \in Seq(Value) /\ Len(toHost) <= FifoDepth
  /\ tick \in 0 .. RunCycles /\ startupCnt \in 0 .. StartupMax
  /\ n \in 0 .. Nmax /\ cycleCount \in 0 .. ComputeCycles - 1
  /\ held \in Value
  /\ at \in [Pipes -> [phase : 0 .. 1, iteration : Addresses, cslowidx : 0 .. Cslow - 1]]
  /\ loop \in [Pipes -> Seq(Value)] /\ \A p \in Pipes : Len(loop[p]) = Cslow
  /\ memory \in [Pipes -> [Cells -> Value]]
  /\ pipeIdx \in Pipes /\ cslowIdx \in 0 .. Cslow - 1

\* What the kernel has read and written after n batches and cycleCount ticks: a
\* batch is read in its first ComputeUnit ticks; the first pipe writes in the
\* last Cslow ticks of a batch, the others in the first ticks of the next.
TailCycles == Cslow * (NumPipes - 1)
UpTo(a, b) == IF a < b THEN a ELSE b
ReadSoFar ==
  IF n < Nmax THEN n * ComputeUnit + UpTo(cycleCount, ComputeUnit) ELSE Nmax * ComputeUnit
WrittenSoFar ==
  (IF n = 0 THEN 0 ELSE n * ComputeUnit - TailCycles + UpTo(cycleCount, TailCycles))
  + (IF cycleCount <= ComputeCycles - Cslow THEN 0 ELSE cycleCount - (ComputeCycles - Cslow))

\* The counters of the kernel and of the streams agree at every tick: the chain
\* n, cycleCount with the ticks, the saturating startupCnt with both, and the
\* two streams with the windows of ReadInput and WriteOutput.
CountInv ==
  host = "run" =>
    /\ tick = n * ComputeCycles + cycleCount
    /\ startupCnt = UpTo(tick, StartupMax)
    /\ fed - Len(fromHost) = ReadSoFar
    /\ drained + Len(toHost) = WrittenSoFar

\* The types, and how the counters agree (dfe.c:286-289 against the guards of
\* ScryptKernel.maxj): an inductive invariant.
RunInv == TypeOK /\ CountInv

\* A job that is about to mix finds its own rounds, and no other job's, at every
\* address it could read: C-slow slots, blocks of memory and successive batches
\* never share a cell (memory() and pipe() of ScryptKernel.maxj).
ScratchpadOwned ==
  \A p \in Pipes :
    host = "run" /\ Enabled(p) /\ at[p].phase = 1 /\ Head(loop[p]) # Junk =>
      \A a \in Addresses :
        memory[p][CellOf(at[p].cslowidx, a)] = [job |-> Head(loop[p]).job, round |-> a]

\* The k-th result the run writes is all 2 * Iters rounds of the k-th input,
\* although pipes are staggered, results are multiplexed and the results
\* overwrite the buffer the inputs come from: scrypt_process_result_and_send_work
\* pairs result k with nonce start_nonce + k and with tstate, ostate k.
ResultsInOrder ==
  /\ \A k \in 0 .. drained - 1 : buffer[k] = Result(k)
  /\ \A j \in 1 .. Len(toHost) : toHost[j] = Result(drained + j - 1)

\* The cycle count of dfe_setup_run_scrypt is exact: at its end the kernel has
\* read every input of nmax batches and written every result, and no more.
CyclesExact ==
  host = "run" /\ tick = RunCycles =>
    /\ fed - Len(fromHost) = Nmax * ComputeUnit
    /\ drained + Len(toHost) = Nmax * ComputeUnit

\* Every run comes to its end, so that dfe_process returns: the streams hold
\* exactly what the kernel reads and writes.  HybridMinerManager.maxj:104-108
\* gives them n times Cslow * NumPipes values, for n batches.
RunReturns == (host = "run") ~> (host = "prepare")

=============================================================================
