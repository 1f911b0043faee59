-------------------------- MODULE BitcoinRunProofs --------------------------
(***************************************************************************)
(* Proofs about BitcoinRun, for any number of pipes, records and nonces.   *)
(* RunInv is inductive; from it only the job's own matches are submitted,  *)
(* and the ticks dfe_setup_run_bitcoin computes end a run exactly when its *)
(* records are read out.  ScanInv adds which matches the RAMs, the buffer  *)
(* and the scan hold, and in which order; from it every match is submitted *)
(* and none twice, as far as the RAMs have room.                           *)
(***************************************************************************)
EXTENDS BitcoinRun, FiniteSetTheorems, TLAPS

USE DEF Pipes, Slots, Nonces

\* The constants are what arithmetic needs them to be.
LEMMA ConstantsLemma ==
  /\ NumPipes \in Nat /\ NumPipes > 0
  /\ NumRecords \in Nat /\ NumRecords > 0
  /\ NonceSpace \in Nat /\ NonceSpace > 0
  /\ Base \in Nat /\ Limit \in Nat /\ Limit > 0
  /\ TotalRecords \in Nat /\ TotalRecords > 0
<1>1. TotalRecords \in Nat /\ TotalRecords > 0
  BY PipesAssumption, RecordsAssumption, SMT DEF TotalRecords
<1> QED BY <1>1, PipesAssumption, RecordsAssumption, NonceAssumption, LimitAssumption

\* A run has at least one step, and Control.length holds its length.
LEMMA StepsLemma ==
  Steps \in Nat /\ Steps > 0 /\ Length \in Nat /\ Length < 2 * NonceSpace
<1>1. (Limit + NumPipes - 1) \in Nat /\ Limit + NumPipes - 1 >= NumPipes
  BY ConstantsLemma
<1>2. ASSUME NEW x \in Nat, NEW d \in Nat, d > 0, x >= d
      PROVE  x \div d \in Nat /\ x \div d > 0
  BY <1>2, SMT
<1>3. Steps \in Nat /\ Steps > 0
  BY <1>1, <1>2, ConstantsLemma DEF Steps
<1> QED BY <1>3, ConstantsLemma, LimitAssumption, SMT DEF Length

\* A remainder is below its divisor, and a number below the divisor is its own.
LEMMA ModLemma ==
  ASSUME NEW x \in Nat, NEW d \in Nat, d > 0
  PROVE  x % d \in 0 .. d - 1 /\ (x < d => x % d = x) /\ d % d = 0
BY SMT

\* A counter that wraps round stays below its bound.
LEMMA CounterLemma ==
  ASSUME NEW d \in Nat, NEW w \in 0 .. d - 1
  PROVE  /\ (w + 1) % d \in 0 .. d - 1
         /\ (w + 1) % d = IF w = d - 1 THEN 0 ELSE w + 1
<1>1. CASE w = d - 1
  BY <1>1, ModLemma
<1>2. CASE w # d - 1
  <2>1. w + 1 \in Nat /\ w + 1 < d /\ d > 0
    BY <1>2
  <2> QED BY <1>2, <2>1, ModLemma
<1> QED BY <1>1, <1>2

\* Every nonce a pipe looks at is one.
LEMMA NonceLemma ==
  ASSUME NEW c \in Nat, NEW p \in Pipes
  PROVE  NonceOf(c, p) \in Nonces
<1>1. (c + Base) % NonceSpace \in Nat
  BY ConstantsLemma, ModLemma
<1> QED BY <1>1, ConstantsLemma, ModLemma DEF NonceOf

\* The write counter stays inside the RAM: it goes up by one or falls to zero.
LEMMA NextWriteLemma ==
  ASSUME NEW w \in Slots
  PROVE  NextWrite(w) \in Slots /\ (NextWrite(w) = w + 1 \/ NextWrite(w) = 0)
BY CounterLemma, ConstantsLemma DEF NextWrite

\* Steps of the sweep are told apart by their offsets.
LEMMA MulLemma ==
  ASSUME NEW a \in Nat, NEW b \in Nat, NEW d \in Nat, d > 0
  PROVE  /\ a * d \in Nat
         /\ (a + 1) * d = a * d + d
         /\ a <= b => a * d <= b * d
         /\ a * d = b * d => a = b
BY SMT

-----------------------------------------------------------------------------
\* RunInv holds before the first run.
LEMMA InitRunInv == Init => RunInv
<1> SUFFICES ASSUME Init PROVE RunInv
  OBVIOUS
<1> USE ConstantsLemma DEF Init
<1>1. NumCycles \in Nat
  BY StepsLemma DEF NumCycles
<1>2. TypeOK
  BY <1>1 DEF TypeOK, OldRam, OldBuffer, Record
<1> QED BY <1>2 DEF RunInv, Phase, RamOfThisJob, BufferOfThisJob, OnlyHitsSubmitted

\* Every step keeps the types.
LEMMA RunTypeStep == TypeOK /\ [Next]_vars => TypeOK'
<1> SUFFICES ASSUME TypeOK, [Next]_vars PROVE TypeOK'
  OBVIOUS
<1> USE ConstantsLemma, StepsLemma DEF TypeOK
<1>0. NumCycles \in Nat
  BY DEF NumCycles
<1>1. CASE StartRun
  BY <1>1, <1>0 DEF StartRun, OldRam, OldBuffer, Record
<1>2. CASE Compute
  <2> USE <1>2 DEF Compute
  <2>1. \A p \in Pipes : PipeNonce(p) \in Nonces
    <3>1. nonce \in Nat
      OBVIOUS
    <3> QED BY ONLY <3>1, NonceLemma DEF PipeNonce
  <2>2. iWrite' \in [Pipes -> Slots]
    <3>1. \A p \in Pipes : iWrite[p] \in Slots /\ NextWrite(iWrite[p]) \in Slots
      BY NextWriteLemma
    <3> QED BY <3>1
  <2>3. ram' \in [Pipes -> [Slots -> Nonces \cup {Stale}]]
    BY <2>1
  <2>4. nonce' \in 0 .. 2 * NonceSpace - 1 /\ mode' \in {"COMPUTE", "OUTPUT"}
    <3>1. nonce + NumPipes \in Nat /\ 2 * NonceSpace \in Nat /\ 2 * NonceSpace > 0
      OBVIOUS
    <3>2. (nonce + NumPipes) % (2 * NonceSpace) \in 0 .. 2 * NonceSpace - 1
      BY ONLY <3>1, ModLemma
    <3> QED BY <3>2
  <2>5. tick' \in 0 .. NumCycles
    BY <1>0
  <2> QED BY <2>2, <2>3, <2>4, <2>5
<1>3. CASE Output
  <2> USE <1>3 DEF Output
  <2>1. [nonce |-> ram[iPipe][iRead], match |-> IsMatch(iRead, iWrite[iPipe])] \in Record
    <3>1. ram[iPipe] \in [Slots -> Nonces \cup {Stale}]
      OBVIOUS
    <3>2. ram[iPipe][iRead] \in Nonces \cup {Stale}
      BY <3>1
    <3>3. IsMatch(iRead, iWrite[iPipe]) \in BOOLEAN
      BY ONLY DEF IsMatch
    <3> QED BY ONLY <3>2, <3>3 DEF Record
  <2>2. buffer' \in [0 .. TotalRecords - 1 -> Record]
    <3>1. buffer' = [buffer EXCEPT ![sent] = [nonce |-> ram[iPipe][iRead],
                                              match |-> IsMatch(iRead, iWrite[iPipe])]]
      OBVIOUS
    <3>2. buffer \in [0 .. TotalRecords - 1 -> Record]
      OBVIOUS
    <3> QED BY ONLY <2>1, <3>1, <3>2
  <2>3. iRead' \in Slots
    BY CounterLemma
  <2>4. iPipe' \in Pipes
    BY CounterLemma
  <2>5. tick' \in 0 .. NumCycles /\ sent' \in 0 .. TotalRecords
    BY <1>0
  <2> QED BY <2>2, <2>3, <2>4, <2>5 DEF records
<1>4. CASE FinishRun
  BY <1>4 DEF FinishRun, control, records
<1>5. CASE SubmitMatch
  <2>1. buffer[i].nonce \in Nonces \cup {Stale}
    BY <1>5 DEF SubmitMatch, Record
  <2> QED BY <1>5, <2>1 DEF SubmitMatch, control, records
<1>6. CASE SkipRecord
  BY <1>6 DEF SkipRecord, control, records
<1>7. CASE EndScan
  BY <1>7 DEF EndScan, control, records
<1>8. CASE FailSubmit
  BY <1>8 DEF FailSubmit, control, records
<1>9. CASE UNCHANGED vars
  BY <1>9 DEF vars, control, records
<1> QED BY <1>1, <1>2, <1>3, <1>4, <1>5, <1>6, <1>7, <1>8, <1>9 DEF Next, Exited

\* Every step keeps what the ticks say of the run.
LEMMA PhaseStep == TypeOK /\ Phase /\ [Next]_vars => Phase'
<1> SUFFICES ASSUME TypeOK, Phase, [Next]_vars PROVE Phase'
  OBVIOUS
<1> USE ConstantsLemma, StepsLemma DEF TypeOK, Phase
<1>1. CASE StartRun
  <2>1. 0 * NumPipes = 0 /\ 0 \in 0 .. Steps - 1
    OBVIOUS
  <2>2. Sweeping'
    BY <1>1, <2>1 DEF StartRun, Sweeping, NumCycles
  <2> QED BY <1>1, <2>2 DEF StartRun
<1>2. CASE Compute
  <2> USE <1>2 DEF Compute
  <2>1. Sweeping
    BY DEF ReadingOut, Drained
  <2>2. PICK c \in 0 .. Steps - 1 : nonce = c * NumPipes /\ tick = Steps - c + TotalRecords
    BY <2>1 DEF Sweeping
  <2>3. nonce + NumPipes = (c + 1) * NumPipes /\ (c + 1) * NumPipes <= Length
    BY <2>2, MulLemma DEF Length
  <2>4. (nonce + NumPipes) % (2 * NonceSpace) = (c + 1) * NumPipes
    <3>1. nonce + NumPipes \in Nat /\ 2 * NonceSpace \in Nat /\ 2 * NonceSpace > 0
      OBVIOUS
    <3>2. nonce + NumPipes < 2 * NonceSpace
      BY <2>3
    <3> QED BY <2>3, <3>1, <3>2, ModLemma
  <2>5. CASE c + 1 = Steps
    <3>1. nonce' = 0 /\ mode' = "OUTPUT"
      BY <2>4, <2>5 DEF Length
    <3>2. 0 * NumRecords = 0 /\ tick' = TotalRecords
      BY <2>2, <2>5
    <3>3. ReadingOut'
      BY <2>1, <3>1, <3>2 DEF Sweeping, ReadingOut
    <3> QED BY <3>3
  <2>6. CASE c + 1 # Steps
    <3>1. (c + 1) * NumPipes # Length
      BY <2>6, MulLemma DEF Length
    <3>2. nonce' = (c + 1) * NumPipes /\ mode' = mode
      BY <2>4, <3>1
    <3>3. c + 1 \in 0 .. Steps - 1 /\ tick' = Steps - (c + 1) + TotalRecords
      BY <2>2, <2>6
    <3>4. Sweeping'
      BY <2>1, <3>2, <3>3 DEF Sweeping
    <3> QED BY <3>4
  <2> QED BY <2>5, <2>6
<1>3. CASE Output
  <2> USE <1>3 DEF Output
  <2>1. ReadingOut
    BY DEF Sweeping, Drained
  <2>2. CASE iRead # NumRecords - 1
    <3>1. iRead' = iRead + 1
      BY <2>2, CounterLemma
    <3>2. ReadingOut'
      BY <2>1, <2>2, <3>1 DEF ReadingOut
    <3> QED BY <3>2
  <2>3. CASE iRead = NumRecords - 1 /\ iPipe # NumPipes - 1
    <3>1. iRead' = 0 /\ iPipe' = iPipe + 1
      BY <2>3, CounterLemma
    <3>2. iPipe' * NumRecords = iPipe * NumRecords + NumRecords
      BY <3>1, MulLemma
    <3>3. sent' = iPipe' * NumRecords + iRead' /\ tick' = TotalRecords - sent'
      <4>1. sent' = sent + 1 /\ tick' = tick - 1
        OBVIOUS
      <4>2. sent = iPipe * NumRecords + (NumRecords - 1) /\ tick = TotalRecords - sent
        BY <2>1, <2>3 DEF ReadingOut
      <4>3. iPipe * NumRecords \in Nat
        BY MulLemma
      <4> QED BY <3>1, <3>2, <4>1, <4>2, <4>3
    <3>4. ReadingOut'
      BY <2>1, <2>3, <3>1, <3>3 DEF ReadingOut
    <3> QED BY <3>4
  <2>4. CASE iRead = NumRecords - 1 /\ iPipe = NumPipes - 1
    <3>1. iRead' = 0 /\ iPipe' = 0 /\ mode' = "COMPUTE"
      BY <2>4, CounterLemma
    <3>2. (iPipe + 1) * NumRecords = iPipe * NumRecords + NumRecords
      BY MulLemma
    <3>3. sent' = TotalRecords
      BY <2>1, <2>4, <3>2 DEF ReadingOut, TotalRecords
    <3>4. Drained'
      BY <2>1, <3>1, <3>3 DEF ReadingOut, Drained
    <3> QED BY <3>4
  <2> QED BY <2>2, <2>3, <2>4
<1>4. CASE FinishRun
  BY <1>4 DEF FinishRun, control, records
<1>5. CASE SubmitMatch
  BY <1>5 DEF SubmitMatch
<1>6. CASE SkipRecord
  BY <1>6 DEF SkipRecord, control, records
<1>7. CASE EndScan
  BY <1>7 DEF EndScan, control, records
<1>8. CASE FailSubmit
  BY <1>8 DEF FailSubmit, control, records
<1>9. CASE UNCHANGED vars
  BY <1>9 DEF vars, control, records, Sweeping, ReadingOut, Drained
<1> QED BY <1>1, <1>2, <1>3, <1>4, <1>5, <1>6, <1>7, <1>8, <1>9 DEF Next, Exited

\* Every step keeps the RAMs' valid records to this job's matches.
LEMMA RamStep == TypeOK /\ RamOfThisJob /\ [Next]_vars => RamOfThisJob'
<1> SUFFICES ASSUME TypeOK, RamOfThisJob, [Next]_vars PROVE RamOfThisJob'
  OBVIOUS
<1> USE ConstantsLemma DEF RamOfThisJob
<1>1. CASE StartRun
  BY <1>1 DEF StartRun
<1>2. CASE Compute
  <2> USE <1>2 DEF Compute
  <2> SUFFICES ASSUME NEW p \in Pipes, NEW r \in Slots, r < iWrite'[p]
               PROVE  ram'[p][r] \in hits
    OBVIOUS
  <2>1. iWrite[p] \in Slots /\ ram[p] \in [Slots -> Nonces \cup {Stale}]
    BY DEF TypeOK
  <2>2. CASE PipeNonce(p) \notin hits
    BY <2>2
  <2>3. CASE PipeNonce(p) \in hits
    <3>1. r < iWrite[p] \/ r = iWrite[p]
      <4>1. iWrite'[p] = NextWrite(iWrite[p])
        BY <2>3
      <4>2. iWrite'[p] = iWrite[p] + 1 \/ iWrite'[p] = 0
        BY <2>1, <4>1, NextWriteLemma
      <4> QED BY <2>1, <4>2
    <3>2. ram'[p][r] = IF r = iWrite[p] THEN PipeNonce(p) ELSE ram[p][r]
      BY <2>1, <2>3
    <3> QED BY <2>3, <3>1, <3>2
  <2> QED BY <2>2, <2>3
<1>3. CASE Output
  BY <1>3 DEF Output, records
<1>4. CASE FinishRun
  BY <1>4 DEF FinishRun, records
<1>5. CASE SubmitMatch
  BY <1>5 DEF SubmitMatch, records
<1>6. CASE SkipRecord
  BY <1>6 DEF SkipRecord, records
<1>7. CASE EndScan
  BY <1>7 DEF EndScan, records
<1>8. CASE FailSubmit
  BY <1>8 DEF FailSubmit, records
<1>9. CASE UNCHANGED vars
  BY <1>9 DEF vars, records
<1> QED BY <1>1, <1>2, <1>3, <1>4, <1>5, <1>6, <1>7, <1>8, <1>9 DEF Next, Exited

\* Every step keeps the matches among the records sent to this job's.
LEMMA BufferStep ==
  TypeOK /\ RamOfThisJob /\ BufferOfThisJob /\ [Next]_vars => BufferOfThisJob'
<1> SUFFICES ASSUME TypeOK, RamOfThisJob, BufferOfThisJob, [Next]_vars PROVE BufferOfThisJob'
  OBVIOUS
<1> USE ConstantsLemma DEF BufferOfThisJob
<1>1. CASE StartRun
  BY <1>1 DEF StartRun
<1>2. CASE Compute
  BY <1>2 DEF Compute
<1>3. CASE Output
  <2> USE <1>3 DEF Output
  <2> SUFFICES ASSUME NEW n \in 0 .. TotalRecords - 1, n < sent', buffer'[n].match
               PROVE  buffer'[n].nonce \in hits
    OBVIOUS
  <2>1. sent \in Nat /\ sent' = sent + 1 /\ iPipe \in Pipes /\ iRead \in Slots
    BY DEF TypeOK
  <2>2. CASE n = sent
    <3>1. buffer'[n] = [nonce |-> ram[iPipe][iRead],
                        match |-> IsMatch(iRead, iWrite[iPipe])]
      BY <2>2 DEF TypeOK
    <3>2. buffer'[n].match = (iRead < iWrite[iPipe]) /\ buffer'[n].nonce = ram[iPipe][iRead]
      BY <3>1 DEF IsMatch
    <3>3. iRead < iWrite[iPipe]
      BY <3>2
    <3>4. ram[iPipe][iRead] \in hits
      BY <2>1, <3>3 DEF RamOfThisJob
    <3> QED BY <3>2, <3>4
  <2>3. CASE n # sent
    <3>1. buffer'[n] = buffer[n] /\ n < sent
      BY <2>1, <2>3 DEF TypeOK
    <3> QED BY <3>1
  <2> QED BY <2>2, <2>3
<1>4. CASE FinishRun
  BY <1>4 DEF FinishRun
<1>5. CASE SubmitMatch
  BY <1>5 DEF SubmitMatch
<1>6. CASE SkipRecord
  BY <1>6 DEF SkipRecord
<1>7. CASE EndScan
  BY <1>7 DEF EndScan
<1>8. CASE FailSubmit
  BY <1>8 DEF FailSubmit
<1>9. CASE UNCHANGED vars
  BY <1>9 DEF vars
<1> QED BY <1>1, <1>2, <1>3, <1>4, <1>5, <1>6, <1>7, <1>8, <1>9 DEF Next, Exited

\* A submission comes from the buffer, of which the host reads nothing before the
\* run has filled all of it.
LEMMA SubmittedStep ==
  RunInv /\ [Next]_vars => OnlyHitsSubmitted'
<1> SUFFICES ASSUME RunInv, [Next]_vars PROVE OnlyHitsSubmitted'
  OBVIOUS
<1> USE ConstantsLemma DEF RunInv, OnlyHitsSubmitted
<1>1. CASE StartRun
  BY <1>1 DEF StartRun
<1>2. CASE Compute
  BY <1>2 DEF Compute
<1>3. CASE Output
  BY <1>3 DEF Output
<1>4. CASE FinishRun
  BY <1>4 DEF FinishRun
<1>5. CASE SubmitMatch
  <2> USE <1>5 DEF SubmitMatch
  <2>1. i \in 0 .. TotalRecords - 1 /\ i < sent
    BY DEF TypeOK, Phase
  <2>2. buffer[i].nonce \in hits
    BY <2>1 DEF BufferOfThisJob
  <2>3. submitted \in Seq(Nonces \cup {Stale}) /\ buffer[i].nonce \in Nonces \cup {Stale}
    BY <2>1 DEF TypeOK, Record
  <2>4. \A n \in 1 .. Len(submitted') :
          submitted'[n] = IF n = Len(submitted) + 1 THEN buffer[i].nonce ELSE submitted[n]
    BY <2>3
  <2>5. Len(submitted') = Len(submitted) + 1 /\ Len(submitted) \in Nat
    BY <2>3
  <2> QED BY <2>2, <2>4, <2>5
<1>6. CASE SkipRecord
  BY <1>6 DEF SkipRecord
<1>7. CASE EndScan
  BY <1>7 DEF EndScan
<1>8. CASE FailSubmit
  BY <1>8 DEF FailSubmit
<1>9. CASE UNCHANGED vars
  BY <1>9 DEF vars
<1> QED BY <1>1, <1>2, <1>3, <1>4, <1>5, <1>6, <1>7, <1>8, <1>9 DEF Next, Exited

-----------------------------------------------------------------------------
\* RunInv is an invariant of every run of every job.
THEOREM RunInvHolds == Spec => []RunInv
<1>1. Init => RunInv
  BY InitRunInv
<1>2. RunInv /\ [Next]_vars => RunInv'
  BY RunTypeStep, PhaseStep, RamStep, BufferStep, SubmittedStep DEF RunInv
<1> QED BY <1>1, <1>2, PTL DEF Spec

\* Whatever an earlier run left in the RAMs or in the host's buffer, only nonces
\* that meet the job's own target are submitted for it.
THEOREM SharesAreHits == Spec => []OnlyHitsSubmitted
<1>1. RunInv => OnlyHitsSubmitted
  BY DEF RunInv
<1> QED BY <1>1, RunInvHolds, PTL

\* The ticks of dfe_setup_run_bitcoin are one sweep and one read-out, for every
\* length and any number of pipes and records.
THEOREM CyclesSuffice == Spec => []RunEndsDrained
<1>1. RunInv => RunEndsDrained
  <2> SUFFICES ASSUME RunInv, host = "run", tick = 0
               PROVE  sent = TotalRecords /\ mode = "COMPUTE" /\ nonce = 0 /\ iPipe = 0 /\ iRead = 0
    BY DEF RunEndsDrained
  <2> USE ConstantsLemma, StepsLemma DEF RunInv, TypeOK
  <2>1. ~Sweeping
    BY DEF Sweeping
  <2>2. ~ReadingOut
    <3>1. (iPipe + 1) * NumRecords = iPipe * NumRecords + NumRecords
      BY MulLemma
    <3>2. (iPipe + 1) * NumRecords <= NumPipes * NumRecords
      <4>1. iPipe + 1 \in Nat /\ iPipe + 1 <= NumPipes
        OBVIOUS
      <4> QED BY ONLY <4>1, MulLemma, ConstantsLemma
    <3>3. iPipe * NumRecords + iRead < TotalRecords
      <4>1. iPipe * NumRecords \in Nat /\ iRead \in 0 .. NumRecords - 1
        BY MulLemma
      <4> QED BY ONLY <3>1, <3>2, <4>1, ConstantsLemma DEF TotalRecords
    <3> QED BY <3>3 DEF ReadingOut
  <2> QED BY <2>1, <2>2 DEF Phase, Drained
<1> QED BY <1>1, RunInvHolds, PTL

\* The types of BitcoinRun hold for all constants.
THEOREM RunTypeCorrect == Spec => []TypeOK
<1>1. RunInv => TypeOK
  BY DEF RunInv
<1> QED BY <1>1, RunInvHolds, PTL

-----------------------------------------------------------------------------
\* Which records a run leaves behind.

\* A number is a quotient and a remainder, and in only one way.
LEMMA QuotientLemma ==
  ASSUME NEW x \in Int, NEW d \in Nat, d > 0
  PROVE  x \div d \in Int /\ x % d \in 0 .. d - 1 /\ x = (x \div d) * d + (x % d)
BY SMT

LEMMA OneQuotient ==
  ASSUME NEW d \in Nat, d > 0, NEW p \in Int, NEW q \in Int,
         NEW x \in 0 .. d - 1, NEW y \in 0 .. d - 1, p * d + x = q * d + y
  PROVE  p = q /\ x = y
<1>1. ASSUME NEW a \in Int, NEW b \in Int, a < b
      PROVE  a * d + d <= b * d
  <2>1. (b - a - 1) * d >= 0
    <3>1. b - a - 1 \in Nat
      BY <1>1
    <3> QED BY ONLY <3>1, d \in Nat, MulLemma, d > 0
  <2>2. (b - a - 1) * d = b * d - a * d - d
    BY SMT
  <2>3. a * d \in Int /\ b * d \in Int
    OBVIOUS
  <2> QED BY <2>1, <2>2, <2>3
<1>2. p * d \in Int /\ q * d \in Int
  OBVIOUS
<1>3. ~(p < q) /\ ~(q < p)
  BY <1>1, <1>2
<1>4. p = q
  BY <1>3
<1> QED BY <1>2, <1>4

\* NonceOf wraps at the number of nonces.
LEMMA OffsetLemma ==
  ASSUME NEW c \in Nat, NEW p \in Pipes
  PROVE  \E q \in Nat : c + p + Base = NonceOf(c, p) + q * NonceSpace
<1> DEFINE a == c + Base
<1>1. a \in Nat /\ p \in Nat
  BY ConstantsLemma
<1>2. /\ a \div NonceSpace \in Int /\ a % NonceSpace \in Nat
      /\ a = (a \div NonceSpace) * NonceSpace + (a % NonceSpace)
  BY <1>1, QuotientLemma, ConstantsLemma
<1> DEFINE b == (a % NonceSpace) + p
<1>3. /\ b \in Nat /\ b \div NonceSpace \in Int /\ b % NonceSpace \in Nat
      /\ b = (b \div NonceSpace) * NonceSpace + (b % NonceSpace)
  BY <1>1, <1>2, QuotientLemma, ConstantsLemma
<1>4. a \div NonceSpace \in Nat /\ b \div NonceSpace \in Nat
  BY <1>1, <1>3, ConstantsLemma
<1>5. NonceOf(c, p) = b % NonceSpace
  BY DEF NonceOf
<1> DEFINE q == (a \div NonceSpace) + (b \div NonceSpace)
<1>6. q \in Nat /\ q * NonceSpace = (a \div NonceSpace) * NonceSpace + (b \div NonceSpace) * NonceSpace
  BY <1>4, ConstantsLemma
<1>7. c + p + Base = (a % NonceSpace) + p + (a \div NonceSpace) * NonceSpace
  BY <1>1, <1>2, ConstantsLemma
<1>8. c + p + Base = NonceOf(c, p) + q * NonceSpace
  <2>1. (a \div NonceSpace) * NonceSpace \in Int /\ (b \div NonceSpace) * NonceSpace \in Int
    BY <1>4, ConstantsLemma
  <2> HIDE DEF q
  <2> QED BY <1>1, <1>2, <1>3, <1>5, <1>6, <1>7, <2>1
<1> QED BY <1>6, <1>8

\* The offset at which the sweep passes a nonce in range, and the pipe that does.
LEMMA RangeLemma ==
  ASSUME NEW n \in Nonces, InRange(n)
  PROVE  \E p \in Pipes : \E c \in 0 .. Steps - 1 : NonceOf(c * NumPipes, p) = n
<1> DEFINE o == (n - Base) % NonceSpace
           c == o \div NumPipes
           p == o % NumPipes
<1> USE ConstantsLemma, StepsLemma
<1>1. /\ o \in 0 .. NonceSpace - 1 /\ (n - Base) \div NonceSpace \in Int
      /\ n - Base = ((n - Base) \div NonceSpace) * NonceSpace + o
  BY QuotientLemma
<1>2. c \in Int /\ p \in 0 .. NumPipes - 1 /\ o = c * NumPipes + p
  BY <1>1, QuotientLemma
<1>3. o < Steps * NumPipes
  BY DEF InRange, Length
<1> HIDE DEF o, c, p
<1>4. c \in 0 .. Steps - 1
  <2>1. c >= 0
    <3>1. ASSUME c < 0 PROVE FALSE
      <4>1. -c \in Nat /\ -c >= 1
        BY <1>2, <3>1
      <4>2. (-c) * NumPipes >= NumPipes
        BY ONLY <4>1, MulLemma, ConstantsLemma
      <4>3. (-c) * NumPipes = -(c * NumPipes)
        BY <1>2
      <4> QED BY <1>1, <1>2, <4>2, <4>3
    <3> QED BY <1>2, <3>1
  <2>2. ASSUME c >= Steps PROVE FALSE
    <3>1. Steps * NumPipes <= c * NumPipes
      BY ONLY <1>2, <2>1, <2>2, MulLemma, ConstantsLemma, StepsLemma
    <3> QED BY <1>2, <1>3, <3>1
  <2> QED BY <1>2, <2>1, <2>2
<1>5. PICK q \in Nat : c * NumPipes + p + Base = NonceOf(c * NumPipes, p) + q * NonceSpace
  <2>1. c * NumPipes \in Nat
    BY <1>4, MulLemma
  <2> QED BY <1>2, <2>1, OffsetLemma
<1>6. NonceOf(c * NumPipes, p) \in 0 .. NonceSpace - 1
  <2>1. c * NumPipes \in Nat
    BY <1>4, MulLemma
  <2> QED BY <1>2, <2>1, NonceLemma
<1> DEFINE e == (n - Base) \div NonceSpace
<1>7. e \in Int /\ n = e * NonceSpace + o + Base /\ e * NonceSpace \in Int
  BY <1>1
<1>8. o + Base = NonceOf(c * NumPipes, p) + q * NonceSpace /\ q * NonceSpace \in Int
  BY <1>2, <1>5
<1> HIDE DEF e
<1>9. 0 * NonceSpace + n = (e + q) * NonceSpace + NonceOf(c * NumPipes, p)
  <2>1. (e + q) * NonceSpace = e * NonceSpace + q * NonceSpace
    BY <1>7
  <2> DEFINE en == e * NonceSpace  qn == q * NonceSpace  v == NonceOf(c * NumPipes, p)
  <2>2. en \in Int /\ qn \in Int /\ v \in Int /\ o \in Int /\ 0 * NonceSpace = 0
    BY <1>1, <1>6, <1>7, <1>8
  <2>3. n = en + o + Base /\ o + Base = v + qn /\ (e + q) * NonceSpace = en + qn
    BY <1>7, <1>8, <2>1
  <2> HIDE DEF en, qn, v
  <2>4. 0 * NonceSpace + n = (e + q) * NonceSpace + v
    BY <2>2, <2>3
  <2> QED BY <2>4 DEF v
<1>10. n = NonceOf(c * NumPipes, p)
  <2>1. e + q \in Int /\ 0 \in Int /\ n \in 0 .. NonceSpace - 1 /\ NonceSpace \in Nat /\ NonceSpace > 0
    BY <1>7
  <2> QED BY ONLY <2>1, <1>6, <1>9, OneQuotient
<1> QED BY <1>2, <1>4, <1>10

\* Two places of the sweep with one nonce: the sweep has gone round.
LEMMA TwiceLemma ==
  ASSUME NEW c \in 0 .. Steps - 1, NEW p \in Pipes, NEW d \in 0 .. Steps - 1, NEW q \in Pipes,
         NonceOf(c * NumPipes, p) = NonceOf(d * NumPipes, q),
         c # d \/ p # q
  PROVE  PassedTwice(NonceOf(c * NumPipes, p))
<1> USE ConstantsLemma, StepsLemma
<1> DEFINE n == NonceOf(c * NumPipes, p)
           o == c * NumPipes + p
           u == d * NumPipes + q
<1>1. /\ c * NumPipes \in Nat /\ d * NumPipes \in Nat
      /\ c * NumPipes + NumPipes <= Length /\ d * NumPipes + NumPipes <= Length
  <2>1. ASSUME NEW a \in 0 .. Steps - 1 PROVE a * NumPipes \in Nat /\ a * NumPipes + NumPipes <= Length
    <3>1. (a + 1) * NumPipes = a * NumPipes + NumPipes /\ (a + 1) * NumPipes <= Steps * NumPipes
          /\ a * NumPipes \in Nat
      <4>1. a + 1 \in Nat /\ a + 1 <= Steps /\ a \in Nat
        OBVIOUS
      <4> QED BY ONLY <4>1, MulLemma, ConstantsLemma, StepsLemma
    <3> QED BY <3>1 DEF Length
  <2> QED BY <2>1
<1>2. o \in Nat /\ u \in Nat /\ o < Length /\ u < Length
  BY <1>1
<1>3. o # u
  <2>1. p \in 0 .. NumPipes - 1 /\ q \in 0 .. NumPipes - 1 /\ c \in Int /\ d \in Int
    OBVIOUS
  <2> QED BY <2>1, OneQuotient
<1>4. n \in 0 .. NonceSpace - 1
  BY <1>1, NonceLemma
<1>5. PICK k \in Nat : o + Base = n + k * NonceSpace
  BY <1>1, OffsetLemma
<1>6. PICK l \in Nat : u + Base = n + l * NonceSpace
  <2>1. \E l \in Nat : d * NumPipes + q + Base = NonceOf(d * NumPipes, q) + l * NonceSpace
    BY <1>1, OffsetLemma
  <2> QED BY <2>1
<1> HIDE DEF n, o, u
\* The two offsets differ by one round of the nonces, and the first is the remainder.
<1>7. ASSUME NEW a \in Nat, NEW b \in Nat, a < b, b < Length,
             NEW x \in Nat, NEW y \in Nat,
             a + Base = n + x * NonceSpace, b + Base = n + y * NonceSpace
      PROVE  PassedTwice(n)
  <2>1. x * NonceSpace \in Nat /\ y * NonceSpace \in Nat /\ y * NonceSpace - x * NonceSpace = b - a
    BY <1>4, <1>7, MulLemma
  <2>2. ~(y <= x)
    BY <1>7, <2>1, MulLemma
  <2>3. ~(y >= x + 2)
    <3>1. ASSUME y >= x + 2 PROVE FALSE
      <4>1. (x + 2) * NonceSpace <= y * NonceSpace
        BY ONLY x \in Nat, y \in Nat, <3>1, MulLemma, ConstantsLemma
      <4>2. (x + 2) * NonceSpace = x * NonceSpace + 2 * NonceSpace
        BY SMT
      <4> QED BY <1>7, <2>1, <4>1, <4>2
    <3> QED BY <3>1
  <2>4. y = x + 1
    BY <2>2, <2>3
  <2>5. (x + 1) * NonceSpace = x * NonceSpace + NonceSpace
    BY MulLemma
  <2>6. b - a = NonceSpace
    BY <2>1, <2>4, <2>5
  <2>7. a < Length - NonceSpace /\ a \in 0 .. NonceSpace - 1
    BY <1>7, <2>6
  <2> DEFINE e == (n - Base) \div NonceSpace
             w == (n - Base) % NonceSpace
  <2>8. e \in Int /\ w \in 0 .. NonceSpace - 1 /\ n - Base = e * NonceSpace + w
    BY <1>4, QuotientLemma
  <2> HIDE DEF e, w
  <2>9. (-x) * NonceSpace + a = e * NonceSpace + w
    <3>1. (-x) * NonceSpace = -(x * NonceSpace)
      BY SMT
    <3>2. e * NonceSpace \in Int
      BY <2>8
    <3> QED BY <1>4, <1>7, <2>1, <2>8, <3>1, <3>2
  <2>10. a = w
    <3>1. -x \in Int /\ NonceSpace \in Nat /\ NonceSpace > 0
      OBVIOUS
    <3> QED BY ONLY <2>7, <2>8, <2>9, <3>1, OneQuotient
  <2> QED BY <2>7, <2>10 DEF PassedTwice, w
<1>8. PassedTwice(n)
  <2>1. CASE o < u
    BY <1>2, <1>5, <1>6, <1>7, <2>1
  <2>2. CASE u < o
    BY <1>2, <1>5, <1>6, <1>7, <2>2
  <2> QED BY <1>2, <1>3, <2>1, <2>2
<1> QED BY <1>8 DEF n

-----------------------------------------------------------------------------
\* The steps of the sweep that are over, and those of them at which a pipe has
\* found a match.
Done == IF tick > TotalRecords THEN Steps + TotalRecords - tick ELSE Steps
Found(p, done) == {c \in 0 .. done - 1 : NonceOf(c * NumPipes, p) \in hits}
Entry(p, c) == NonceOf(c * NumPipes, p)

\* A write counter counts modulo the size of the RAM, the RAM keeps every match as
\* long as there are fewer than that, and its records are in the order of the sweep.
Counted == \A p \in Pipes : iWrite[p] = Cardinality(Found(p, Done)) % NumRecords
Kept ==
  \A p \in Pipes : Cardinality(Found(p, Done)) < NumRecords =>
    \A c \in Found(p, Done) : \E r \in Slots : r < iWrite[p] /\ ram[p][r] = Entry(p, c)
InOrder ==
  \A p \in Pipes : \A r \in Slots : r < iWrite[p] =>
    \E c \in 0 .. Done - 1 :
      /\ ram[p][r] = Entry(p, c)
      /\ \A s \in Slots : s < r => \E d \in 0 .. c - 1 : ram[p][s] = Entry(p, d)

\* The records that the host has are those of the RAMs, pipe by pipe.
Delivered ==
  \A p \in Pipes : \A r \in Slots : p * NumRecords + r < sent =>
    /\ buffer[p * NumRecords + r].nonce = ram[p][r]
    /\ buffer[p * NumRecords + r].match <=> r < iWrite[p]

\* The scan has submitted the matches up to i, in their order.
IsFor(buf, sub, m, b) == buf[b].match /\ sub[m] = buf[b].nonce
Marked(m, b) == IsFor(buffer, submitted, m, b)
Walked ==
  /\ host = "run" => submitted = <<>>
  /\ submitted # <<>> => sent = TotalRecords
  /\ host = "scan" => tick = 0
  /\ host = "scan" => \A b \in 0 .. i - 1 : buffer[b].match => \E m \in 1 .. Len(submitted) : Marked(m, b)
  /\ \A n \in 1 .. Len(submitted) : \E b \in 0 .. i - 1 :
       Marked(n, b) /\ \A m \in 1 .. n - 1 : \E a \in 0 .. b - 1 : Marked(m, a)

ScanInv == RunInv /\ Counted /\ Kept /\ InOrder /\ Delivered /\ Walked /\ NoHitMissed

LEMMA DoneLemma ==
  ASSUME TypeOK
  PROVE  Done \in 0 .. Steps
BY ConstantsLemma, StepsLemma DEF Done, TypeOK, NumCycles

\* One more step of the sweep finds one match more, or none.
LEMMA FoundLemma ==
  ASSUME NEW p \in Pipes, NEW c \in Nat
  PROVE  /\ IsFiniteSet(Found(p, c)) /\ Cardinality(Found(p, c)) \in Nat
         /\ Found(p, 0) = {}
         /\ Entry(p, c) \in hits =>
              /\ Found(p, c + 1) = Found(p, c) \cup {c}
              /\ Cardinality(Found(p, c + 1)) = Cardinality(Found(p, c)) + 1
         /\ Entry(p, c) \notin hits => Found(p, c + 1) = Found(p, c)
<1>1. IsFiniteSet(Found(p, c))
  <2>1. IsFiniteSet(0 .. c - 1)
    BY FS_Interval
  <2>2. Found(p, c) \subseteq 0 .. c - 1
    BY DEF Found
  <2> QED BY <2>1, <2>2, FS_Subset
<1>2. Cardinality(Found(p, c)) \in Nat
  BY <1>1, FS_CardinalityType
<1>3. Found(p, 0) = {}
  BY DEF Found
<1>4. 0 .. (c + 1) - 1 = (0 .. c - 1) \cup {c}
  OBVIOUS
<1>5. ASSUME Entry(p, c) \in hits
      PROVE  Found(p, c + 1) = Found(p, c) \cup {c} /\ c \notin Found(p, c)
  BY <1>4, <1>5 DEF Found, Entry
<1>6. ASSUME Entry(p, c) \notin hits PROVE Found(p, c + 1) = Found(p, c)
  BY <1>4, <1>6 DEF Found, Entry
<1>7. ASSUME Entry(p, c) \in hits PROVE Cardinality(Found(p, c + 1)) = Cardinality(Found(p, c)) + 1
  BY <1>1, <1>5, <1>7, FS_AddElement
<1> QED BY <1>1, <1>2, <1>3, <1>5, <1>6, <1>7

\* A tick of the sweep is its next step, at which pipe p looks at its next nonce.
LEMMA ComputeFacts ==
  ASSUME RunInv, Compute
  PROVE  /\ Done \in 0 .. Steps - 1 /\ Done' = Done + 1
         /\ sent = 0 /\ sent' = 0 /\ hits' = hits
         /\ \A p \in Pipes : PipeNonce(p) = Entry(p, Done)
<1> USE ConstantsLemma, StepsLemma
<1>1. Sweeping
  BY DEF RunInv, Phase, Compute, ReadingOut, Drained
<1>2. PICK c \in 0 .. Steps - 1 : nonce = c * NumPipes /\ tick = Steps - c + TotalRecords
  BY <1>1 DEF Sweeping
<1>3. Done = c
  BY <1>2 DEF Done
<1>4. tick' = tick - 1
  BY DEF Compute
<1>5. Done' = c + 1
  BY <1>2, <1>4 DEF Done
<1> QED BY <1>1, <1>2, <1>3, <1>5 DEF Sweeping, Compute, PipeNonce, Entry

\* Nothing but the sweep and the next job touches the RAMs.
LEMMA SettledFacts ==
  ASSUME RunInv, [Next]_vars, ~StartRun, ~Compute
  PROVE  /\ Done' = Done /\ hits' = hits /\ ram' = ram /\ iWrite' = iWrite
         /\ \A p \in Pipes : Found(p, Done)' = Found(p, Done)
         /\ Done' \in 0 .. Steps
<1> USE ConstantsLemma, StepsLemma
<1>1. /\ hits' = hits /\ ram' = ram /\ iWrite' = iWrite
      /\ tick' = tick \/ Output
  BY DEF Next, Output, FinishRun, SubmitMatch, SkipRecord, EndScan, FailSubmit, Exited, vars,
         control, records
<1>2. Done' = Done
  <2>1. CASE tick' = tick
    BY <2>1 DEF Done
  <2>2. CASE Output
    <3>1. ReadingOut
      BY <2>2 DEF RunInv, Phase, Output, Sweeping, Drained
    <3>2. tick <= TotalRecords /\ tick' = tick - 1 /\ tick \in Int
      BY <2>2, <3>1 DEF ReadingOut, Output, RunInv, TypeOK
    <3> QED BY <3>2 DEF Done
  <2> QED BY <1>1, <2>1, <2>2
<1>3. \A p \in Pipes : Found(p, Done)' = Found(p, Done)
  BY <1>1, <1>2 DEF Found
<1> QED BY <1>1, <1>2, <1>3, DoneLemma DEF RunInv

\* A new job finds empty counters and has found nothing.
LEMMA StartFacts ==
  ASSUME StartRun
  PROVE  /\ Done' = 0 /\ \A p \in Pipes : iWrite'[p] = 0
         /\ \A p \in Pipes : Found(p, Done)' = {} /\ sent' = 0 /\ submitted' = <<>>
<1>1. Done' = 0
  BY ConstantsLemma, StepsLemma DEF StartRun, Done, NumCycles
<1> QED BY <1>1 DEF StartRun, Found

LEMMA CountedStep == RunInv /\ Counted /\ [Next]_vars => Counted'
<1> SUFFICES ASSUME RunInv, Counted, [Next]_vars, NEW p \in Pipes
             PROVE  iWrite'[p] = Cardinality(Found(p, Done)') % NumRecords
  BY DEF Counted
<1> USE ConstantsLemma
<1>1. CASE StartRun
  <2>1. Cardinality({}) = 0 /\ 0 % NumRecords = 0
    BY FS_EmptySet, ModLemma
  <2> QED BY <1>1, <2>1, StartFacts
<1>2. CASE Compute
  <2> DEFINE k == Cardinality(Found(p, Done))
  <2>1. /\ Done \in Nat /\ Done' = Done + 1 /\ hits' = hits /\ PipeNonce(p) = Entry(p, Done)
    BY <1>2, ComputeFacts
  <2>2. Found(p, Done)' = Found(p, Done + 1)
    BY <2>1 DEF Found
  <2>3. iWrite[p] = k % NumRecords /\ k \in Nat
    BY <2>1, FoundLemma DEF Counted
  <2> HIDE DEF k
  <2>4. CASE Entry(p, Done) \in hits
    <3>1. Cardinality(Found(p, Done)') = k + 1
      BY <2>1, <2>2, <2>4, FoundLemma DEF k
    <3>2. iWrite'[p] = (iWrite[p] + 1) % NumRecords
      BY <1>2, <2>1, <2>4 DEF Compute, NextWrite
    <3>3. ((k % NumRecords) + 1) % NumRecords = (k + 1) % NumRecords
      <4> DEFINE w == k % NumRecords
                 e == k \div NumRecords
      <4>1. w \in 0 .. NumRecords - 1 /\ e \in Int /\ k = e * NumRecords + w
        BY <2>3, QuotientLemma
      <4> DEFINE f == (k + 1) \div NumRecords
                 y == (k + 1) % NumRecords
      <4>2. y \in 0 .. NumRecords - 1 /\ f \in Int /\ k + 1 = f * NumRecords + y
        BY <2>3, QuotientLemma
      <4> HIDE DEF w, e, f, y
      <4>3. (w + 1) % NumRecords = IF w = NumRecords - 1 THEN 0 ELSE w + 1
        BY <4>1, CounterLemma
      <4>4. CASE w = NumRecords - 1
        <5>1. (e + 1) * NumRecords = e * NumRecords + NumRecords /\ e * NumRecords \in Int
          BY <4>1
        <5> DEFINE g == e + 1
                   z == 0
        <5>2. f * NumRecords + y = g * NumRecords + z
          BY <2>3, <4>1, <4>2, <4>4, <5>1
        <5>3. y = 0
          <6>1. g \in Int /\ z \in 0 .. NumRecords - 1 /\ NumRecords \in Nat /\ NumRecords > 0
            BY <4>1
          <6> HIDE DEF g, z
          <6>2. y = z
            BY ONLY <4>2, <5>2, <6>1, OneQuotient
          <6> QED BY <6>2 DEF z
        <5> QED BY <4>3, <4>4, <5>3 DEF w, y
      <4>5. CASE w # NumRecords - 1
        <5>1. f * NumRecords + y = e * NumRecords + (w + 1)
          <6>1. e * NumRecords \in Int /\ f * NumRecords \in Int
            BY <4>1, <4>2
          <6> QED BY <2>3, <4>1, <4>2, <6>1
        <5>2. y = w + 1
          <6>1. w + 1 \in 0 .. NumRecords - 1 /\ NumRecords \in Nat /\ NumRecords > 0
            BY <4>1, <4>5
          <6> QED BY ONLY <4>1, <4>2, <5>1, <6>1, OneQuotient
        <5> QED BY <4>3, <4>5, <5>2 DEF w, y
      <4> QED BY <4>4, <4>5
    <3> QED BY <2>3, <3>1, <3>2, <3>3
  <2>5. CASE Entry(p, Done) \notin hits
    <3>1. iWrite'[p] = iWrite[p]
      BY <1>2, <2>1, <2>5 DEF Compute
    <3> QED BY <2>1, <2>2, <2>3, <2>5, <3>1, FoundLemma DEF k
  <2> QED BY <2>4, <2>5
<1>3. CASE ~StartRun /\ ~Compute
  BY <1>3, SettledFacts DEF Counted
<1> QED BY <1>1, <1>2, <1>3

LEMMA KeptStep == RunInv /\ Counted /\ Kept /\ [Next]_vars => Kept'
<1> SUFFICES ASSUME RunInv, Counted, Kept, [Next]_vars, NEW p \in Pipes,
                    Cardinality(Found(p, Done)') < NumRecords, NEW c \in Found(p, Done)'
             PROVE  \E r \in Slots : r < iWrite'[p] /\ ram'[p][r] = Entry(p, c)
  BY DEF Kept, Entry
<1> USE ConstantsLemma
<1>1. CASE StartRun
  BY <1>1, StartFacts
<1>2. CASE Compute
  <2> DEFINE k == Cardinality(Found(p, Done))
             w == iWrite[p]
  <2>1. /\ Done \in Nat /\ Done' = Done + 1 /\ hits' = hits /\ PipeNonce(p) = Entry(p, Done)
    BY <1>2, ComputeFacts
  <2>2. Found(p, Done)' = Found(p, Done + 1)
    BY <2>1 DEF Found
  <2>3. w = k % NumRecords /\ k \in Nat /\ w \in Slots /\ ram[p] \in [Slots -> Nonces \cup {Stale}]
    BY <2>1, FoundLemma DEF Counted, RunInv, TypeOK
  <2>4. CASE Entry(p, Done) \in hits
    <3>1. Found(p, Done)' = Found(p, Done) \cup {Done} /\ k + 1 < NumRecords
      BY <2>1, <2>2, <2>4, FoundLemma
    <3> HIDE DEF k
    <3>2. w = k /\ k < NumRecords
      BY <2>3, <3>1, ModLemma
    <3>3. iWrite'[p] = w + 1
      <4>1. iWrite'[p] = NextWrite(w)
        BY <1>2, <2>1, <2>4 DEF Compute
      <4> HIDE DEF w
      <4>2. w \in 0 .. NumRecords - 1 /\ w # NumRecords - 1
        BY <2>3, <3>1, <3>2
      <4>3. (w + 1) % NumRecords = w + 1
        BY ONLY <4>2, CounterLemma, ConstantsLemma
      <4> QED BY <4>1, <4>3 DEF NextWrite
    <3>4. \A r \in Slots : ram'[p][r] = IF r = w THEN Entry(p, Done) ELSE ram[p][r]
      BY <1>2, <2>1, <2>3, <2>4 DEF Compute
    <3> HIDE DEF w
    <3>5. CASE c = Done
      BY <2>3, <3>3, <3>4, <3>5
    <3>6. CASE c \in Found(p, Done)
      <4>1. PICK r \in Slots : r < iWrite[p] /\ ram[p][r] = Entry(p, c)
        BY <3>2, <3>6 DEF Kept, k
      <4>2. r < w
        BY <4>1 DEF w
      <4> QED BY <2>3, <3>3, <3>4, <4>1, <4>2
    <3> QED BY <3>1, <3>5, <3>6
  <2>5. CASE Entry(p, Done) \notin hits
    <3>1. iWrite'[p] = iWrite[p] /\ ram'[p] = ram[p]
      BY <1>2, <2>1, <2>5 DEF Compute
    <3>2. Found(p, Done)' = Found(p, Done)
      BY <2>1, <2>2, <2>5, FoundLemma
    <3> QED BY <3>1, <3>2 DEF Kept
  <2> QED BY <2>4, <2>5
<1>3. CASE ~StartRun /\ ~Compute
  BY <1>3, SettledFacts DEF Kept
<1> QED BY <1>1, <1>2, <1>3

LEMMA InOrderStep == RunInv /\ InOrder /\ [Next]_vars => InOrder'
<1> SUFFICES ASSUME RunInv, InOrder, [Next]_vars,
                    NEW p \in Pipes, NEW r \in Slots, r < iWrite'[p]
             PROVE  \E c \in 0 .. Done' - 1 :
                      /\ ram'[p][r] = Entry(p, c)
                      /\ \A s \in Slots : s < r => \E d \in 0 .. c - 1 : ram'[p][s] = Entry(p, d)
  BY DEF InOrder, Entry
<1> USE ConstantsLemma
<1>1. CASE StartRun
  BY <1>1, StartFacts
<1>2. CASE Compute
  <2> DEFINE w == iWrite[p]
  <2>1. Done \in Nat /\ Done' = Done + 1 /\ PipeNonce(p) = Entry(p, Done)
    BY <1>2, ComputeFacts
  <2>2. w \in Slots /\ ram[p] \in [Slots -> Nonces \cup {Stale}]
    BY DEF RunInv, TypeOK
  \* What was there stays in order.
  <2>3. ASSUME r < w, ram'[p][r] = ram[p][r], \A s \in Slots : s < r => ram'[p][s] = ram[p][s]
        PROVE  \E c \in 0 .. Done' - 1 :
                 /\ ram'[p][r] = Entry(p, c)
                 /\ \A s \in Slots : s < r => \E d \in 0 .. c - 1 : ram'[p][s] = Entry(p, d)
    <3>1. PICK c \in 0 .. Done - 1 :
            /\ ram[p][r] = Entry(p, c)
            /\ \A s \in Slots : s < r => \E d \in 0 .. c - 1 : ram[p][s] = Entry(p, d)
      BY <2>3 DEF InOrder
    <3>2. c \in 0 .. Done' - 1
      BY <2>1
    <3>3. \A s \in Slots : s < r => \E d \in 0 .. c - 1 : ram'[p][s] = Entry(p, d)
      BY <2>3, <3>1
    <3> QED BY <2>3, <3>1, <3>2, <3>3
  <2>4. CASE PipeNonce(p) \in hits
    <3>1. iWrite'[p] = w + 1 \/ iWrite'[p] = 0
      BY <1>2, <2>2, <2>4, NextWriteLemma DEF Compute
    <3>2. \A s \in Slots : ram'[p][s] = IF s = w THEN Entry(p, Done) ELSE ram[p][s]
      BY <1>2, <2>1, <2>2, <2>4 DEF Compute
    <3> HIDE DEF w
    <3>3. CASE r < w
      <4>1. ram'[p][r] = ram[p][r] /\ \A s \in Slots : s < r => ram'[p][s] = ram[p][s]
        BY <2>2, <3>2, <3>3
      <4> QED BY <2>3, <3>3, <4>1
    <3>4. CASE r = w
      <4>1. ASSUME NEW s \in Slots, s < r
            PROVE  \E d \in 0 .. Done - 1 : ram'[p][s] = Entry(p, d)
        <5>1. s < iWrite[p] /\ ram'[p][s] = ram[p][s]
          BY <2>2, <3>2, <3>4, <4>1 DEF w
        <5> QED BY <5>1 DEF InOrder
      <4>2. Done \in 0 .. Done' - 1 /\ ram'[p][r] = Entry(p, Done)
        BY <2>1, <3>2, <3>4
      <4> QED BY <4>1, <4>2
    <3> QED BY <2>2, <3>1, <3>3, <3>4
  <2>5. CASE PipeNonce(p) \notin hits
    <3>1. iWrite'[p] = w /\ ram'[p] = ram[p]
      BY <1>2, <2>5 DEF Compute
    <3> QED BY <2>3, <3>1
  <2> QED BY <2>4, <2>5
<1>3. CASE ~StartRun /\ ~Compute
  BY <1>3, SettledFacts DEF InOrder
<1> QED BY <1>1, <1>2, <1>3

\* A record's place in the buffer is its pipe's and its slot's alone.
LEMMA PlaceLemma ==
  ASSUME NEW p \in Pipes, NEW r \in Slots
  PROVE  /\ p * NumRecords + r \in 0 .. TotalRecords - 1
         /\ \A q \in Pipes : \A s \in Slots :
              p * NumRecords + r = q * NumRecords + s => p = q /\ r = s
<1> USE ConstantsLemma
<1>1. p \in Nat /\ p + 1 <= NumPipes /\ p + 1 \in Nat
  OBVIOUS
<1>2. p * NumRecords \in Nat /\ p * NumRecords + NumRecords <= NumPipes * NumRecords
  <2>1. (p + 1) * NumRecords = p * NumRecords + NumRecords /\ (p + 1) * NumRecords <= NumPipes * NumRecords
        /\ p * NumRecords \in Nat
    BY ONLY <1>1, MulLemma, ConstantsLemma
  <2> QED BY <2>1
<1>3. ASSUME NEW q \in Pipes, NEW s \in Slots, p * NumRecords + r = q * NumRecords + s
      PROVE  p = q /\ r = s
  <2>1. /\ p \in Int /\ q \in Int /\ r \in 0 .. NumRecords - 1 /\ s \in 0 .. NumRecords - 1
        /\ NumRecords \in Nat /\ NumRecords > 0
    OBVIOUS
  <2> QED BY ONLY <1>3, <2>1, OneQuotient
<1> QED BY <1>2, <1>3 DEF TotalRecords

\* And every place is one.
LEMMA AllPlaces ==
  ASSUME NEW n \in 0 .. TotalRecords - 1
  PROVE  \E p \in Pipes : \E r \in Slots : n = p * NumRecords + r
<1> DEFINE p == n \div NumRecords
           r == n % NumRecords
<1> USE ConstantsLemma
<1>1. p \in Int /\ r \in 0 .. NumRecords - 1 /\ n = p * NumRecords + r
  BY QuotientLemma
<1>2. p >= 0
  BY SMT
<1> HIDE DEF p, r
<1>3. ~(p >= NumPipes)
  <2>1. ASSUME p >= NumPipes PROVE FALSE
    <3>1. NumPipes * NumRecords <= p * NumRecords
      BY ONLY <1>1, <1>2, <2>1, MulLemma, ConstantsLemma
    <3> QED BY <1>1, <3>1 DEF TotalRecords
  <2> QED BY <2>1
<1> QED BY <1>1, <1>2, <1>3

LEMMA DeliveredStep == RunInv /\ Delivered /\ [Next]_vars => Delivered'
<1> SUFFICES ASSUME RunInv, Delivered, [Next]_vars,
                    NEW p \in Pipes, NEW r \in Slots, p * NumRecords + r < sent'
             PROVE  /\ buffer'[p * NumRecords + r].nonce = ram'[p][r]
                    /\ buffer'[p * NumRecords + r].match <=> r < iWrite'[p]
  BY DEF Delivered
<1> USE ConstantsLemma
<1> DEFINE n == p * NumRecords + r
<1>0. n \in 0 .. TotalRecords - 1
  BY PlaceLemma
<1>1. CASE StartRun
  BY <1>0, <1>1, StartFacts
<1>2. CASE Compute
  BY <1>0, <1>2, ComputeFacts
<1>3. CASE Output
  <2>1. sent = iPipe * NumRecords + iRead /\ iPipe \in Pipes /\ iRead \in Slots /\ sent \in Nat
    BY <1>3 DEF RunInv, TypeOK, Phase, Output, ReadingOut, Sweeping, Drained
  <2>2. /\ buffer' = [buffer EXCEPT ![sent] = [nonce |-> ram[iPipe][iRead],
                                               match |-> IsMatch(iRead, iWrite[iPipe])]]
        /\ sent' = sent + 1 /\ ram' = ram /\ iWrite' = iWrite
    BY <1>3 DEF Output, records
  <2>3. n < sent + 1
    BY <2>2
  <2>4. buffer \in [0 .. TotalRecords - 1 -> Record]
    BY DEF RunInv, TypeOK
  <2> HIDE DEF n
  <2>5. CASE n = sent
    <3>1. p = iPipe /\ r = iRead
      BY <2>1, <2>5, PlaceLemma DEF n
    <3>2. buffer'[n] = [nonce |-> ram[iPipe][iRead], match |-> IsMatch(iRead, iWrite[iPipe])]
      BY <1>0, <2>2, <2>4, <2>5
    <3>3. buffer'[n].nonce = ram[iPipe][iRead]
      BY <3>2
    <3>4. buffer'[n].match = IsMatch(iRead, iWrite[iPipe])
      BY <3>2
    <3> QED BY <2>2, <3>1, <3>3, <3>4 DEF IsMatch, n
  <2>6. CASE n # sent
    <3>1. buffer'[n] = buffer[n] /\ n < sent
      BY <1>0, <2>1, <2>2, <2>3, <2>4, <2>6
    <3> QED BY <2>2, <3>1 DEF Delivered, n
  <2> QED BY <2>5, <2>6
<1>4. CASE ~StartRun /\ ~Compute /\ ~Output
  <2>1. buffer' = buffer /\ sent' = sent
    BY <1>4 DEF Next, FinishRun, SubmitMatch, SkipRecord, EndScan, FailSubmit, Exited, vars
  <2> QED BY <1>4, <2>1, SettledFacts DEF Delivered
<1> QED BY <1>1, <1>2, <1>3, <1>4

LEMMA WalkedStep == RunInv /\ Walked /\ [Next]_vars => Walked'
<1> SUFFICES ASSUME RunInv, Walked, [Next]_vars PROVE Walked'
  OBVIOUS
<1> USE ConstantsLemma
<1>0. i \in 0 .. TotalRecords /\ submitted \in Seq(Nonces \cup {Stale})
  BY DEF RunInv, TypeOK
<1>1. CASE host = "run" /\ submitted' = submitted /\ (host' = "run" \/ FinishRun)
  BY <1>0, <1>1 DEF Walked, FinishRun
<1>2. CASE StartRun
  BY <1>2, <1>0 DEF StartRun, Walked
<1>3. CASE SubmitMatch
  <2> DEFINE l == Len(submitted)
  <2>1. /\ host = "scan" /\ host' = "scan" /\ i < TotalRecords /\ buffer[i].match
        /\ submitted' = Append(submitted, buffer[i].nonce) /\ i' = i + 1
        /\ buffer' = buffer /\ sent' = sent /\ tick' = tick
    BY <1>3 DEF SubmitMatch
  <2>2. buffer[i].nonce \in Nonces \cup {Stale}
    <3>1. i \in 0 .. TotalRecords - 1
      BY <1>0, <2>1
    <3> QED BY <3>1 DEF RunInv, TypeOK, Record
  <2>3. l \in Nat /\ Len(submitted') = l + 1
    BY <1>0, <2>1, <2>2
  <2>4. \A m \in 1 .. l + 1 : submitted'[m] = IF m = l + 1 THEN buffer[i].nonce ELSE submitted[m]
    BY <1>0, <2>1, <2>2
  <2> HIDE DEF l
  <2>5. \A m \in 1 .. l : \A b : Marked(m, b) => IsFor(buffer', submitted', m, b)
    BY <2>1, <2>3, <2>4 DEF Marked, IsFor
  <2>6. IsFor(buffer', submitted', l + 1, i)
    <3>1. l + 1 \in 1 .. l + 1
      BY <2>3
    <3>2. submitted'[l + 1] = buffer[i].nonce
      BY <3>1, <2>4
    <3> QED BY <2>1, <3>2 DEF Marked, IsFor
  <2>7. ASSUME NEW b \in 0 .. i' - 1, buffer'[b].match
        PROVE  \E m \in 1 .. Len(submitted') : IsFor(buffer', submitted', m, b)
    <3>1. CASE b = i
      <4>1. l + 1 \in 1 .. Len(submitted')
        BY <2>3
      <4> QED BY <3>1, <4>1, <2>6
    <3>2. CASE b # i
      <4>1. b \in 0 .. i - 1 /\ buffer[b].match
        BY <1>0, <2>1, <2>7, <3>2
      <4>2. PICK m \in 1 .. l : Marked(m, b)
        BY <2>1, <4>1 DEF Walked, l
      <4>3. m \in 1 .. Len(submitted')
        BY <2>3
      <4> QED BY <2>5, <4>2, <4>3
    <3> QED BY <3>1, <3>2
  <2>8. ASSUME NEW n \in 1 .. Len(submitted')
        PROVE  \E b \in 0 .. i' - 1 : IsFor(buffer', submitted', n, b) /\ \A m \in 1 .. n - 1 : \E a \in 0 .. b - 1 : IsFor(buffer', submitted', m, a)
    <3>1. CASE n = l + 1
      <4>1. ASSUME NEW m \in 1 .. n - 1 PROVE \E a \in 0 .. i - 1 : IsFor(buffer', submitted', m, a)
        <5>1. m \in 1 .. l
          BY <2>3, <3>1
        <5>2. PICK a \in 0 .. i - 1 : Marked(m, a)
          BY <5>1 DEF Walked, l
        <5> QED BY <2>5, <5>1, <5>2
      <4>2. i \in 0 .. i' - 1
        BY <1>0, <2>1
      <4> QED BY <2>6, <3>1, <4>1, <4>2
    <3>2. CASE n # l + 1
      <4>1. n \in 1 .. l
        BY <2>3, <3>2
      <4>2. PICK b \in 0 .. i - 1 : Marked(n, b) /\ \A m \in 1 .. n - 1 : \E a \in 0 .. b - 1 : Marked(m, a)
        BY <4>1 DEF Walked, l
      <4>3. b \in 0 .. i' - 1
        BY <1>0, <2>1
      <4>4. \A m \in 1 .. n - 1 : m \in 1 .. l
        BY <2>3, <4>1
      <4> QED BY <2>5, <4>1, <4>2, <4>3, <4>4
    <3> QED BY <3>1, <3>2
  <2>9. sent' = TotalRecords
    BY <2>1 DEF RunInv, Phase
  <2> QED BY <2>1, <2>7, <2>8, <2>9 DEF Walked, Marked
<1>4. CASE SkipRecord
  <2>1. /\ host = "scan" /\ host' = "scan" /\ ~buffer[i].match /\ i' = i + 1
        /\ submitted' = submitted /\ buffer' = buffer /\ sent' = sent /\ tick' = tick
    BY <1>4 DEF SkipRecord
  <2>2. \A m, b : IsFor(buffer', submitted', m, b) <=> Marked(m, b)
    BY <2>1 DEF Marked, IsFor
  <2>3. \A b \in 0 .. i' - 1 : buffer'[b].match => b \in 0 .. i - 1 /\ buffer[b].match
    BY <1>0, <2>1
  <2>4. \A b \in 0 .. i - 1 : b \in 0 .. i' - 1
    BY <1>0, <2>1
  <2>5. \A b \in 0 .. i' - 1 : buffer'[b].match => \E m \in 1 .. Len(submitted') : IsFor(buffer', submitted', m, b)
    BY <2>1, <2>2, <2>3 DEF Walked
  <2>6. \A n \in 1 .. Len(submitted') : \E b \in 0 .. i' - 1 :
          IsFor(buffer', submitted', n, b) /\ \A m \in 1 .. n - 1 : \E a \in 0 .. b - 1 : IsFor(buffer', submitted', m, a)
    BY <2>1, <2>2, <2>4 DEF Walked
  <2> QED BY <2>1, <2>5, <2>6 DEF Walked, Marked
<1>5. CASE UNCHANGED <<buffer, submitted, sent, i, tick>> /\ (host' = host \/ host' \in {"fetch", "exited"})
  <2>1. \A m, b : IsFor(buffer', submitted', m, b) <=> Marked(m, b)
    BY <1>5 DEF Marked, IsFor
  <2>2. \A n \in 1 .. Len(submitted') : \E b \in 0 .. i' - 1 :
          IsFor(buffer', submitted', n, b) /\ \A m \in 1 .. n - 1 : \E a \in 0 .. b - 1 : IsFor(buffer', submitted', m, a)
    BY <1>5, <2>1 DEF Walked
  <2>3. host' = "scan" =>
          \A b \in 0 .. i' - 1 : buffer'[b].match => \E m \in 1 .. Len(submitted') : IsFor(buffer', submitted', m, b)
    BY <1>5, <2>1 DEF Walked
  <2> QED BY <1>5, <2>2, <2>3 DEF Walked, Marked
<1>6. CASE Compute \/ Output \/ FinishRun
  <2>1. host = "run" /\ submitted' = submitted /\ (host' = "run" \/ FinishRun)
    BY <1>6 DEF Compute, Output, FinishRun
  <2> QED BY <1>1, <2>1
<1>7. CASE EndScan \/ FailSubmit \/ UNCHANGED vars
  <2>1. UNCHANGED <<buffer, submitted, sent, i, tick>> /\ (host' = host \/ host' \in {"fetch", "exited"})
    BY <1>7 DEF EndScan, FailSubmit, vars
  <2> QED BY <1>5, <2>1
<1> QED BY <1>2, <1>3, <1>4, <1>6, <1>7 DEF Next, Exited

\* A match that no RAM has lost is in its RAM, then in the buffer, then submitted.
LEMMA MissedStep ==
  RunInv /\ Kept /\ Delivered /\ Walked /\ NoHitMissed /\ [Next]_vars => NoHitMissed'
<1> SUFFICES ASSUME RunInv, Kept, Delivered, Walked, NoHitMissed, [Next]_vars PROVE NoHitMissed'
  OBVIOUS
<1> USE ConstantsLemma
<1>1. CASE EndScan
  <2>1. /\ host = "scan" /\ i = TotalRecords /\ tick = 0 /\ sent = TotalRecords
        /\ hits' = hits /\ submitted' = submitted
    BY <1>1 DEF EndScan, Walked, RunInv, Phase
  <2>2. Done = Steps
    BY <2>1 DEF Done
  <2>3. \A p \in Pipes : PipeHits(p)' = PipeHits(p) /\ PipeHits(p) = Found(p, Done)
    BY <2>1, <2>2 DEF PipeHits, Found
  <2> SUFFICES ASSUME \A p \in Pipes : Cardinality(PipeHits(p)) < NumRecords,
                      NEW n \in hits, InRange(n)
               PROVE  \E m \in 1 .. Len(submitted) : submitted[m] = n
    BY <2>1, <2>3 DEF NoHitMissed
  <2>4. n \in Nonces
    BY DEF RunInv, TypeOK
  <2>5. PICK p \in Pipes : \E c \in 0 .. Steps - 1 : NonceOf(c * NumPipes, p) = n
    BY <2>4, RangeLemma
  <2>6. PICK c \in 0 .. Steps - 1 : Entry(p, c) = n
    BY <2>5 DEF Entry
  <2>7. c \in Found(p, Done)
    BY <2>2, <2>6 DEF Found, Entry
  <2>8. Cardinality(Found(p, Done)) < NumRecords
    BY <2>3
  <2>9. PICK r \in Slots : r < iWrite[p] /\ ram[p][r] = n
    BY <2>6, <2>7, <2>8 DEF Kept
  <2> DEFINE b == p * NumRecords + r
  <2>10. b \in 0 .. i - 1 /\ b < sent
    <3>1. b \in 0 .. TotalRecords - 1
      BY PlaceLemma
    <3> HIDE DEF b
    <3> QED BY <2>1, <3>1
  <2>11. buffer[b].match /\ buffer[b].nonce = n
    BY <2>9, <2>10 DEF Delivered
  <2>12. PICK m \in 1 .. Len(submitted) : Marked(m, b)
    BY <2>1, <2>10, <2>11 DEF Walked
  <2> QED BY <2>11, <2>12 DEF Marked, IsFor
<1>2. CASE UNCHANGED vars
  <2>1. host' = host /\ hits' = hits /\ submitted' = submitted
    BY <1>2 DEF vars
  <2>2. \A p \in Pipes : PipeHits(p)' = PipeHits(p)
    BY <2>1 DEF PipeHits
  <2> QED BY <2>1, <2>2 DEF NoHitMissed
<1>3. CASE ~EndScan /\ ~UNCHANGED vars
  <2>1. host' # "fetch"
    BY <1>3 DEF Next, StartRun, Compute, Output, FinishRun, SubmitMatch, SkipRecord, FailSubmit, Exited
  <2> QED BY <2>1 DEF NoHitMissed
<1> QED BY <1>1, <1>2, <1>3

LEMMA InitScanInv == Init => ScanInv
<1> SUFFICES ASSUME Init PROVE ScanInv
  OBVIOUS
<1> USE ConstantsLemma
<1>1. \A p \in Pipes : Found(p, Done) = {} /\ PipeHits(p) = {} /\ iWrite[p] = 0
  BY DEF Init, Found, PipeHits
<1>2. Cardinality({}) = 0 /\ 0 % NumRecords = 0
  BY FS_EmptySet, ModLemma
<1>3. Counted
  BY <1>1, <1>2 DEF Counted
<1>4. Kept /\ InOrder
  BY <1>1 DEF Kept, InOrder
<1>5. Delivered
  BY PlaceLemma DEF Delivered, Init
<1>6. Walked /\ NoHitMissed
  BY DEF Init, Walked, NoHitMissed
<1> QED BY <1>3, <1>4, <1>5, <1>6, InitRunInv DEF ScanInv

\* ScanInv is an invariant of every run of every job.
THEOREM ScanInvHolds == Spec => []ScanInv
<1>1. Init => ScanInv
  BY InitScanInv
<1>2. RunInv /\ [Next]_vars => RunInv'
  BY RunTypeStep, PhaseStep, RamStep, BufferStep, SubmittedStep DEF RunInv
<1>3. ScanInv /\ [Next]_vars => ScanInv'
  BY <1>2, CountedStep, KeptStep, InOrderStep, DeliveredStep, WalkedStep, MissedStep DEF ScanInv
<1> QED BY <1>1, <1>3, PTL DEF Spec

\* As long as no pipe finds as many matches as its RAM holds, every match in range
\* is submitted, for any number of pipes, any RAM and any length.
THEOREM NothingMissed == Spec => []NoHitMissed
<1>1. ScanInv => NoHitMissed
  BY DEF ScanInv
<1> QED BY <1>1, ScanInvHolds, PTL

\* A pipe reports its matches modulo the size of its RAM, whatever the two are.
THEOREM ReportsWrap == Spec => []ReportedModulo
<1>1. ScanInv => ReportedModulo
  <2> SUFFICES ASSUME ScanInv, host = "scan", NEW p \in Pipes
               PROVE  Cardinality({r \in Slots : buffer[p * NumRecords + r].match})
                        = Cardinality(PipeHits(p)) % NumRecords
    BY DEF ReportedModulo
  <2> USE ConstantsLemma
  <2>1. tick = 0 /\ sent = TotalRecords
    BY DEF ScanInv, Walked, RunInv, Phase
  <2>2. PipeHits(p) = Found(p, Done)
    BY <2>1 DEF PipeHits, Found, Done
  <2>3. iWrite[p] \in Slots
    BY DEF ScanInv, RunInv, TypeOK
  <2>4. ASSUME NEW r \in Slots PROVE buffer[p * NumRecords + r].match <=> r < iWrite[p]
    <3> DEFINE n == p * NumRecords + r
    <3>1. n \in 0 .. TotalRecords - 1
      BY PlaceLemma
    <3>2. n < sent => (buffer[n].match <=> r < iWrite[p])
      BY DEF ScanInv, Delivered
    <3> HIDE DEF n
    <3>3. n < sent
      BY <2>1, <3>1
    <3> QED BY <3>2, <3>3 DEF n
  <2>5. {r \in Slots : buffer[p * NumRecords + r].match} = 0 .. iWrite[p] - 1
    BY <2>3, <2>4
  <2>6. Cardinality(0 .. iWrite[p] - 1) = iWrite[p]
    <3>1. iWrite[p] - 1 \in Int /\ 0 \in Int
      BY <2>3
    <3>2. Cardinality(0 .. iWrite[p] - 1) = IF 0 > iWrite[p] - 1 THEN 0 ELSE (iWrite[p] - 1) - 0 + 1
      BY <3>1, FS_Interval
    <3> QED BY <2>3, <3>2
  <2> QED BY <2>2, <2>5, <2>6 DEF ScanInv, Counted
<1> QED BY <1>1, ScanInvHolds, PTL

\* A share goes to the pool twice only if the sweep has passed its nonce twice.
THEOREM SubmitsOnce == Spec => []SubmittedOnce
<1>1. ScanInv => SubmittedOnce
  <2> SUFFICES ASSUME ScanInv PROVE SubmittedOnce
    OBVIOUS
  <2> USE ConstantsLemma
  <2>0. i \in 0 .. TotalRecords /\ Len(submitted) \in Nat
    BY DEF ScanInv, RunInv, TypeOK
  <2>1. ASSUME NEW m \in 1 .. Len(submitted), NEW n \in 1 .. Len(submitted),
               m < n, submitted[m] = submitted[n]
        PROVE  PassedTwice(submitted[m])
    <3>1. sent = TotalRecords
      BY <2>1 DEF ScanInv, Walked
    <3>2. PICK b \in 0 .. i - 1 : Marked(n, b) /\ \A k \in 1 .. n - 1 : \E a \in 0 .. b - 1 : Marked(k, a)
      BY DEF ScanInv, Walked
    <3>3. PICK a \in 0 .. b - 1 : Marked(m, a)
      BY <2>0, <2>1, <3>2
    <3>4. PICK q \in Pipes, s \in Slots : b = q * NumRecords + s
      <4>1. b \in 0 .. TotalRecords - 1
        BY <2>0
      <4> QED BY <4>1, AllPlaces
    <3>5. PICK p \in Pipes, r \in Slots : a = p * NumRecords + r
      <4>1. a \in 0 .. TotalRecords - 1
        BY <2>0, <3>3
      <4> QED BY <4>1, AllPlaces
    <3>6. s < iWrite[q] /\ ram[q][s] = submitted[n]
      <4>1. q * NumRecords + s < sent
        BY <3>1, PlaceLemma
      <4> QED BY <3>2, <3>4, <4>1 DEF Marked, IsFor, ScanInv, Delivered
    <3>7. r < iWrite[p] /\ ram[p][r] = submitted[m]
      <4>1. p * NumRecords + r < sent
        BY <3>1, PlaceLemma
      <4> QED BY <3>3, <3>5, <4>1 DEF Marked, IsFor, ScanInv, Delivered
    <3>8. PICK d \in 0 .. Done - 1 :
            ram[q][s] = Entry(q, d) /\ \A t \in Slots : t < s => \E c \in 0 .. d - 1 : ram[q][t] = Entry(q, c)
      BY <3>6 DEF ScanInv, InOrder
    <3>9. Done \in 0 .. Steps
      BY DoneLemma DEF ScanInv, RunInv
    <3>10. CASE p = q
      <4>1. r < s
        <5>1. p * NumRecords \in Int
          OBVIOUS
        <5> QED BY <3>3, <3>4, <3>5, <3>10, <5>1
      <4>2. PICK c \in 0 .. d - 1 : ram[p][r] = Entry(p, c)
        BY <3>8, <3>10, <4>1
      <4>3. c \in 0 .. Steps - 1 /\ d \in 0 .. Steps - 1 /\ c # d
        BY <3>9, StepsLemma
      <4>4. Entry(p, c) = Entry(q, d)
        BY <2>1, <3>6, <3>7, <3>8, <4>2
      <4> QED BY <3>7, <4>2, <4>3, <4>4, TwiceLemma DEF Entry
    <3>11. CASE p # q
      <4>1. PICK c \in 0 .. Done - 1 : ram[p][r] = Entry(p, c)
        BY <3>7 DEF ScanInv, InOrder
      <4>2. c \in 0 .. Steps - 1 /\ d \in 0 .. Steps - 1
        BY <3>9, StepsLemma
      <4>3. Entry(p, c) = Entry(q, d)
        BY <2>1, <3>6, <3>7, <3>8, <4>1
      <4> QED BY <3>7, <3>11, <4>1, <4>2, <4>3, TwiceLemma DEF Entry
    <3> QED BY <3>10, <3>11
  <2> SUFFICES ASSUME NEW m \in 1 .. Len(submitted), NEW n \in 1 .. Len(submitted),
                      m # n, submitted[m] = submitted[n]
               PROVE  PassedTwice(submitted[m])
    BY DEF SubmittedOnce
  <2>2. m < n \/ n < m
    BY <2>0
  <2> QED BY <2>1, <2>2
<1> QED BY <1>1, ScanInvHolds, PTL

=============================================================================
